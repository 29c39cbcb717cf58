----------------------------- MODULE FleetOwner -----------------------------
(***************************************************************************)
(* Theorems about the fleet driver, for any number of invocations, runs,   *)
(* threads and disturbances: the root has one owner, a failure halts new   *)
(* work, and a checked GREEN manifest stands in a whole tree.  They hold   *)
(* of ChainSpec too, whose programs do not touch what the driver has.      *)
(* Then about those programs: what they publish is what the accepted trees *)
(* say, as long as one file at most is altered, and the suite of the       *)
(* repair finds its guards awake, however many are.                        *)
(***************************************************************************)
EXTENDS RepairSuite, FiniteSetTheorems, TLAPS

USE FleetAssumption

Places == {"start", "verified", "checked", "refused", "killed", "done"} \cup Running
TaskStates == {"queued"} \cup Busy \cup Settled

TypesInv ==
  /\ rootExists \in BOOLEAN /\ stray \in BOOLEAN
  /\ writer \in [File -> Driver \cup {Nobody}]
  /\ pc \in [Driver -> Places]
  /\ task \in [Driver -> [Run -> TaskStates]]
  /\ stop \in [Driver -> BOOLEAN] /\ ok \in [Driver -> BOOLEAN]
  /\ late \in [Driver -> Nat]

\* Only one invocation has ever worked, and only it has written.
OwnerInv ==
  /\ \A d \in Driver : Worked(d) => rootExists /\ pc[d] \in Running \cup {"done", "killed"}
  /\ \A c, d \in Driver : Worked(c) /\ Worked(d) => c = d
  /\ \A f \in File, d \in Driver : writer[f] = d => task[d][f[1]] # "queued"

\* The threads are no more than the pool allows, and those that are past the check when
\* the stop event is set are all that can still launch.
Early == {"taken", "clear"}

PoolOf(d) ==
  /\ Cardinality(InState(d, Busy)) <= MaxConcurrency
  /\ ~stop[d] => late[d] = 0
  /\ stop[d] => late[d] + Cardinality(InState(d, Early)) < MaxConcurrency
  /\ stop[d] => \E r \in Run : task[d][r] = "failed"

PoolInv == \A d \in Driver : PoolOf(d)

Whole(d) ==
  /\ ~stray
  /\ \A f \in File : writer[f] = d
  /\ task[d] = [r \in Run |-> "ok"] /\ ~stop[d]

VerdictInv ==
  /\ \A d \in Driver :
       /\ pc[d] \in {"audited", "announced", "scanned", "done"} /\ ok[d] =>
            task[d] = [r \in Run |-> "ok"] /\ ~stop[d]
       /\ pc[d] = "scanned" /\ ok[d] => Whole(d)
  /\ manifest.verdict = "GREEN" /\ manifest.checked =>
       \E d \in Driver : pc[d] = "done" /\ Whole(d)

FleetInv == TypesInv /\ OwnerInv /\ PoolInv /\ VerdictInv

-----------------------------------------------------------------------------

\* One name for each kind of step: the rest of the state is left alone by it.
LEMMA Steps ==
  ASSUME [Next]_vars
  PROVE  \/ \E d \in Driver : VerifyAuthority(d) \/ CheckRoot(d) \/ MakeRoot(d)
         \/ \E d \in Driver, r \in Run : ThreadStep(d, r) \/ OrphanExits(d, r)
         \/ \E d \in Driver : Audit(d) \/ Announce(d) \/ ScanFinalTree(d) \/ Conclude(d)
         \/ \E d \in Driver : Kill(d)
         \/ \E d \in Driver, f \in File : WriteFile(d, f)
         \/ Disturb
         \/ UNCHANGED vars
  BY DEF Next, DriverStep

LEMMA TypesStep ==
  ASSUME TypesInv, [Next]_vars
  PROVE  TypesInv'
<1> USE DEF TypesInv, Places, TaskStates, Running, Busy, Settled
<1>1. ASSUME NEW d \in Driver, VerifyAuthority(d) \/ CheckRoot(d) \/ MakeRoot(d)
      PROVE  TypesInv'
  BY <1>1 DEF VerifyAuthority, CheckRoot, MakeRoot, Goto, diskVars
<1>2. ASSUME NEW d \in Driver, NEW r \in Run, ThreadStep(d, r)
      PROVE  TypesInv'
  <2>1. ASSUME NEW from, NEW to \in TaskStates, Become(d, r, from, to)
        PROVE  task' \in [Driver -> [Run -> TaskStates]]
    BY <2>1 DEF Become
  <2>2. CASE Take(d, r)
    BY <2>1, <2>2 DEF Take, diskVars
  <2>3. CASE \E from \in TaskStates : Fail(d, r, from)
    BY <2>1, <2>3 DEF Fail, diskVars
  <2>4. CASE Preflight(d, r)
    BY <2>1, <2>3, <2>4 DEF Preflight, diskVars
  <2>5. CASE Launch(d, r)
    BY <2>1, <2>5 DEF Launch, diskVars
  <2>6. CASE Exit(d, r)
    BY <2>1, <2>6 DEF Exit, diskVars
  <2>7. CASE ExitNonZero(d, r)
    BY <2>3, <2>7 DEF ExitNonZero
  <2>8. CASE Collect(d, r)
    BY <2>1, <2>3, <2>8 DEF Collect, diskVars
  <2> QED BY <1>2, <2>2, <2>4, <2>5, <2>6, <2>7, <2>8 DEF ThreadStep
<1>3. ASSUME NEW d \in Driver, NEW r \in Run, OrphanExits(d, r)
      PROVE  TypesInv'
  BY <1>3 DEF OrphanExits, diskVars
<1>4. ASSUME NEW d \in Driver, Audit(d) \/ Announce(d) \/ ScanFinalTree(d) \/ Conclude(d)
      PROVE  TypesInv'
  <2>1. ASSUME NEW b \in BOOLEAN, ok' = [ok EXCEPT ![d] = b]
        PROVE  ok' \in [Driver -> BOOLEAN]
    BY <2>1
  <2>2. CASE Audit(d)
    <3> DEFINE b == InState(d, {"ok"}) = Run /\ AllFilesThere /\ ~stray
    <3>1. b \in BOOLEAN /\ ok' = [ok EXCEPT ![d] = b]
      BY <2>2 DEF Audit
    <3> HIDE DEF b
    <3>2. ok' \in [Driver -> BOOLEAN]
      BY <3>1, <2>1
    <3> QED BY <2>2, <3>2 DEF Audit, Goto, diskVars
  <2>3. CASE Announce(d) \/ Conclude(d)
    BY <2>3 DEF Announce, Conclude, Goto
  <2>4. CASE ScanFinalTree(d)
    <3> DEFINE b == ok[d] /\ AllFilesThere /\ ~stray
    <3>1. b \in BOOLEAN /\ ok' = [ok EXCEPT ![d] = b]
      BY <2>4 DEF ScanFinalTree
    <3> HIDE DEF b
    <3>2. ok' \in [Driver -> BOOLEAN]
      BY <3>1, <2>1
    <3> QED BY <2>4, <3>2 DEF ScanFinalTree, Goto, diskVars
  <2> QED BY <1>4, <2>2, <2>3, <2>4
<1>5. ASSUME NEW d \in Driver, Kill(d)
      PROVE  TypesInv'
  BY <1>5 DEF Kill
<1>6. ASSUME NEW d \in Driver, NEW f \in File, WriteFile(d, f)
      PROVE  TypesInv'
  BY <1>6 DEF WriteFile
<1>7. CASE Disturb
  BY <1>7 DEF Disturb
<1>8. CASE UNCHANGED vars
  BY <1>8 DEF vars, diskVars
<1> QED BY <1>1, <1>2, <1>3, <1>4, <1>5, <1>6, <1>7, <1>8, Steps

-----------------------------------------------------------------------------

LEMMA OwnerStep ==
  ASSUME TypesInv, OwnerInv, [Next]_vars
  PROVE  OwnerInv'
<1> USE DEF OwnerInv, Worked, Running
<1>1. ASSUME NEW d \in Driver, VerifyAuthority(d) \/ CheckRoot(d) \/ MakeRoot(d)
      PROVE  OwnerInv'
  <2>1. UNCHANGED <<writer, task>> /\ pc[d] \in {"start", "verified", "checked"}
    BY <1>1 DEF VerifyAuthority, CheckRoot, MakeRoot, Goto, diskVars
  <2>2. ~Worked(d)
    BY <2>1
  <2>3. CASE pc' = [pc EXCEPT ![d] = "executing"] /\ ~rootExists /\ rootExists'
    <3>1. \A c \in Driver : ~Worked(c)
      BY <2>3
    <3> QED BY <2>1, <2>3, <3>1 DEF TypesInv
  <2>4. CASE /\ \E to \in {"verified", "checked", "refused"} : pc' = [pc EXCEPT ![d] = to]
             /\ rootExists => rootExists'
    BY <2>1, <2>2, <2>4 DEF TypesInv
  <2> QED BY <1>1, <2>3, <2>4 DEF VerifyAuthority, CheckRoot, MakeRoot, Goto, diskVars, TypesInv
<1>2. ASSUME NEW d \in Driver, NEW r \in Run, ThreadStep(d, r) \/ OrphanExits(d, r)
      PROVE  OwnerInv'
  <2>1. UNCHANGED <<rootExists, writer, pc>> /\ Worked(d)
    BY <1>2 DEF ThreadStep, OrphanExits, Take, Preflight, Launch, Exit, ExitNonZero, Collect,
                Fail, Become, diskVars
  <2>2. PICK to \in TaskStates \ {"queued"} : task' = [task EXCEPT ![d][r] = to]
    BY <1>2 DEF ThreadStep, OrphanExits, Take, Preflight, Launch, Exit, ExitNonZero, Collect,
                Fail, Become, TaskStates, Busy, Settled
  <2>3. \A c \in Driver, q \in Run : task[c][q] # "queued" => task'[c][q] # "queued"
    BY <2>2 DEF TypesInv
  <2>4. \A c \in Driver : Worked(c)' => Worked(c)
    BY <2>1, <2>2 DEF TypesInv
  <2> QED BY <2>1, <2>3, <2>4 DEF File
<1>3. ASSUME NEW d \in Driver, Audit(d) \/ Announce(d) \/ ScanFinalTree(d) \/ Conclude(d)
      PROVE  OwnerInv'
  <2>1. UNCHANGED <<rootExists, writer, task>> /\ pc[d] \in Running
    BY <1>3 DEF Audit, Announce, ScanFinalTree, Conclude, Goto, diskVars
  <2>2. PICK to \in Running \cup {"done"} : pc' = [pc EXCEPT ![d] = to]
    BY <1>3 DEF Audit, Announce, ScanFinalTree, Conclude, Goto
  <2>3. \A c \in Driver : Worked(c)' <=> Worked(c)
    BY <2>1, <2>2 DEF TypesInv
  <2>4. \A c \in Driver : c # d => pc'[c] = pc[c]
    BY <2>2 DEF TypesInv
  <2>5. pc'[d] \in Running \cup {"done"}
    BY <2>2 DEF TypesInv
  <2> HIDE DEF Worked
  <2> QED BY <2>1, <2>3, <2>4, <2>5
<1>4. ASSUME NEW d \in Driver, Kill(d)
      PROVE  OwnerInv'
  BY <1>4 DEF Kill, TypesInv
<1>5. ASSUME NEW d \in Driver, NEW f \in File, WriteFile(d, f)
      PROVE  OwnerInv'
  BY <1>5 DEF WriteFile, TypesInv
<1>6. CASE Disturb
  BY <1>6 DEF Disturb, TypesInv
<1>7. CASE UNCHANGED vars
  BY <1>7 DEF vars, diskVars
<1> QED BY <1>1, <1>2, <1>3, <1>4, <1>5, <1>6, <1>7, Steps

-----------------------------------------------------------------------------

LEMMA PlanIsFinite == IsFiniteSet(Run)
BY FS_Interval DEF Run

LEMMA RunsAreFinite ==
  ASSUME NEW d \in Driver, NEW S
  PROVE  IsFiniteSet(InState(d, S)) /\ Cardinality(InState(d, S)) \in Nat
BY PlanIsFinite, FS_Subset, FS_CardinalityType DEF InState

\* What a thread does to one run changes the size of a set of runs by one, or not at all.
LEMMA RunCounts ==
  ASSUME TypesInv, NEW d \in Driver, NEW r \in Run, NEW to, NEW S,
         task' = [task EXCEPT ![d][r] = to]
  PROVE  LET before == Cardinality(InState(d, S))
             after == Cardinality(InState(d, S))' IN
         /\ before \in Nat /\ after \in Nat
         /\ (to \in S) = (task[d][r] \in S) => after = before
         /\ to \in S /\ task[d][r] \notin S => after = before + 1
         /\ to \notin S /\ task[d][r] \in S => after = before - 1
<1> DEFINE A == InState(d, S)
           B == {q \in Run : task'[d][q] \in S}
<1>1. IsFiniteSet(A) /\ Cardinality(A) \in Nat
  BY RunsAreFinite
<1>2. r \in A <=> task[d][r] \in S
  BY DEF InState
<1>3. (to \in S => B = A \cup {r}) /\ (to \notin S => B = A \ {r})
  BY DEF InState, TypesInv
<1> HIDE DEF A, B
<1>4. (to \in S /\ r \in A) => B = A
  BY <1>3
<1>5. (to \notin S /\ r \notin A) => B = A
  BY <1>3
<1>6. (to \in S /\ r \notin A) => Cardinality(B) = Cardinality(A) + 1
  BY <1>1, <1>3, FS_AddElement
<1>7. (to \notin S /\ r \in A) => Cardinality(B) = Cardinality(A) - 1 /\ Cardinality(B) \in Nat
  <2>1. IsFiniteSet(A \ {r})
    BY <1>1, FS_RemoveElement
  <2>2. Cardinality(A \ {r}) \in Nat
    BY <2>1, FS_CardinalityType
  <2>3. r \in A => Cardinality(A \ {r}) = Cardinality(A) - 1
    BY <1>1, FS_RemoveElement
  <2> QED BY <1>3, <2>2, <2>3
<1>8. /\ Cardinality(A) \in Nat /\ Cardinality(B) \in Nat
      /\ (to \in S) = (task[d][r] \in S) => Cardinality(B) = Cardinality(A)
      /\ to \in S /\ task[d][r] \notin S => Cardinality(B) = Cardinality(A) + 1
      /\ to \notin S /\ task[d][r] \in S => Cardinality(B) = Cardinality(A) - 1
  BY <1>1, <1>2, <1>4, <1>5, <1>6, <1>7
<1> QED BY <1>8 DEF A, B, InState

-----------------------------------------------------------------------------

\* What happens to one driver does not touch the pool of another.
LEMMA PoolRests ==
  ASSUME NEW c \in Driver, PoolOf(c),
         task'[c] = task[c], stop'[c] = stop[c], late'[c] = late[c]
  PROVE  PoolOf(c)'
BY DEF PoolOf, InState

\* The six things that a thread does to its run, as far as the pool is concerned.
LEMMA PoolMoves ==
  ASSUME TypesInv, NEW d \in Driver, PoolOf(d), NEW r \in Run, NEW to \in TaskStates,
         task[d][r] # "failed", task' = [task EXCEPT ![d][r] = to],
         stop' = [stop EXCEPT ![d] = @ \/ to = "failed"],
         late' = [late EXCEPT ![d] =
                    IF task[d][r] = "clear" /\ to = "simulating" /\ stop[d] THEN @ + 1 ELSE @],
         \/ /\ task[d][r] = "queued" /\ to = "skipped" /\ stop[d]
         \/ /\ task[d][r] = "queued" /\ to = "taken" /\ ~stop[d]
            /\ Cardinality(InState(d, Busy)) < MaxConcurrency
         \/ task[d][r] \in Busy /\ to = "failed"
         \/ task[d][r] = "taken" /\ to = "clear"
         \/ task[d][r] = "clear" /\ to = "simulating"
         \/ task[d][r] = "simulating" /\ to = "exited"
         \/ task[d][r] = "exited" /\ to = "ok"
  PROVE  PoolOf(d)'
<1> DEFINE busy == Cardinality(InState(d, Busy))
           early == Cardinality(InState(d, Early))
           busyNext == Cardinality(InState(d, Busy))'
           earlyNext == Cardinality(InState(d, Early))'
<1>1. /\ busy \in Nat /\ busyNext \in Nat
      /\ (to \in Busy) = (task[d][r] \in Busy) => busyNext = busy
      /\ to \in Busy /\ task[d][r] \notin Busy => busyNext = busy + 1
      /\ to \notin Busy /\ task[d][r] \in Busy => busyNext = busy - 1
  BY RunCounts
<1>2. /\ early \in Nat /\ earlyNext \in Nat
      /\ (to \in Early) = (task[d][r] \in Early) => earlyNext = early
      /\ to \in Early /\ task[d][r] \notin Early => earlyNext = early + 1
      /\ to \notin Early /\ task[d][r] \in Early => earlyNext = early - 1
  BY RunCounts
<1>3. earlyNext <= busyNext
  <2>1. IsFiniteSet(InState(d, Busy)')
    <3>1. InState(d, Busy)' \subseteq Run
      BY DEF InState
    <3> QED BY <3>1, PlanIsFinite, FS_Subset
  <2>2. InState(d, Early)' \subseteq InState(d, Busy)'
    BY DEF InState, Early, Busy
  <2> QED BY <2>1, <2>2, FS_Subset
<1>4. /\ busy <= MaxConcurrency
      /\ ~stop[d] => late[d] = 0
      /\ stop[d] => late[d] + early < MaxConcurrency
      /\ task[d][r] = "queued" /\ to = "taken" => busy < MaxConcurrency /\ ~stop[d]
  BY DEF PoolOf
<1>5. late[d] \in Nat /\ stop[d] \in BOOLEAN /\ MaxConcurrency \in Nat
  BY FleetAssumption DEF TypesInv
<1>6. /\ stop'[d] = (stop[d] \/ to = "failed")
      /\ late'[d] = IF task[d][r] = "clear" /\ to = "simulating" /\ stop[d]
                    THEN late[d] + 1 ELSE late[d]
  BY DEF TypesInv
<1>7. stop'[d] => \E q \in Run : task'[d][q] = "failed"
  <2>1. task'[d][r] = to /\ \A q \in Run : q # r => task'[d][q] = task[d][q]
    BY DEF TypesInv
  <2>2. stop[d] => \E q \in Run : task[d][q] = "failed"
    BY DEF PoolOf
  <2> QED BY <1>6, <2>1, <2>2
<1> HIDE DEF busy, early, busyNext, earlyNext
<1>8. busyNext <= MaxConcurrency
  BY <1>1, <1>4, <1>5 DEF Busy
<1>9. ~stop'[d] => late'[d] = 0
  BY <1>4, <1>6
<1>10. stop'[d] => late'[d] + earlyNext < MaxConcurrency
  <2>1. CASE stop[d]
    BY <1>2, <1>4, <1>5, <1>6, <2>1 DEF Early, Busy
  <2>2. CASE ~stop[d]
    BY <1>1, <1>2, <1>3, <1>4, <1>5, <1>6, <2>2 DEF Early, Busy
  <2> QED BY <1>5, <2>1, <2>2
<1> QED BY <1>7, <1>8, <1>9, <1>10 DEF PoolOf, InState, busyNext, earlyNext

LEMMA PoolStep ==
  ASSUME TypesInv, PoolInv, [Next]_vars
  PROVE  PoolInv'
<1>1. ASSUME UNCHANGED <<task, stop, late>>
      PROVE  PoolInv'
  BY <1>1, PoolRests DEF PoolInv
<1>2. ASSUME NEW d \in Driver, NEW r \in Run, NEW to \in TaskStates, PoolOf(d)',
             task' = [task EXCEPT ![d][r] = to],
             \A c \in Driver \ {d} : stop'[c] = stop[c] /\ late'[c] = late[c]
      PROVE  PoolInv'
  <2>1. \A c \in Driver \ {d} : task'[c] = task[c]
    BY <1>2 DEF TypesInv
  <2> QED BY <1>2, <2>1, PoolRests DEF PoolInv
<1>3. ASSUME NEW d \in Driver, NEW r \in Run, NEW from \in Busy, Fail(d, r, from)
      PROVE  PoolInv'
  <2>1. /\ task[d][r] = from /\ task' = [task EXCEPT ![d][r] = "failed"]
        /\ stop' = [stop EXCEPT ![d] = TRUE] /\ late' = late
    BY <1>3 DEF Fail, Become
  <2>2. PoolOf(d)'
    BY <1>3, <2>1, PoolMoves DEF PoolInv, TypesInv, TaskStates, Settled, Busy
  <2> QED BY <1>2, <2>1, <2>2 DEF TypesInv, TaskStates, Settled
<1>4. ASSUME NEW d \in Driver, NEW r \in Run, ThreadStep(d, r) \/ OrphanExits(d, r)
      PROVE  PoolInv'
  <2> USE DEF TaskStates, Busy, Settled
  <2>1. ASSUME NEW to \in TaskStates, PoolOf(d)', task' = [task EXCEPT ![d][r] = to],
               stop' = stop, late' = late
        PROVE  PoolInv'
    BY <2>1, <1>2
  <2>2. CASE Take(d, r)
    <3>1. /\ task[d][r] = "queued" /\ Cardinality(InState(d, Busy)) < MaxConcurrency
          /\ task' = [task EXCEPT ![d][r] = IF stop[d] THEN "skipped" ELSE "taken"]
          /\ UNCHANGED <<stop, late>>
      BY <2>2 DEF Take, Become
    <3>2. PoolOf(d)'
      BY <3>1, PoolMoves DEF PoolInv, TypesInv
    <3> QED BY <2>1, <3>1, <3>2
  <2>3. CASE Preflight(d, r)
    <3>1. CASE Fail(d, r, "taken")
      BY <1>3, <3>1
    <3>2. CASE task[d][r] = "taken" /\ task' = [task EXCEPT ![d][r] = "clear"]
               /\ UNCHANGED <<stop, late>>
      <4>1. PoolOf(d)'
        BY <3>2, PoolMoves DEF PoolInv, TypesInv
      <4> QED BY <2>1, <3>2, <4>1
    <3> QED BY <2>3, <3>1, <3>2 DEF Preflight, Become
  <2>4. CASE Launch(d, r)
    <3>1. /\ task[d][r] = "clear" /\ task' = [task EXCEPT ![d][r] = "simulating"]
          /\ late' = [late EXCEPT ![d] = IF stop[d] THEN @ + 1 ELSE @] /\ stop' = stop
      BY <2>4 DEF Launch, Become
    <3>2. PoolOf(d)'
      BY <3>1, PoolMoves DEF PoolInv, TypesInv
    <3>3. \A c \in Driver \ {d} : late'[c] = late[c]
      BY <3>1 DEF TypesInv
    <3> QED BY <1>2, <3>1, <3>2, <3>3
  <2>5. CASE Exit(d, r) \/ OrphanExits(d, r)
    <3>1. /\ task[d][r] = "simulating" /\ task' = [task EXCEPT ![d][r] = "exited"]
          /\ UNCHANGED <<stop, late>>
      BY <2>5 DEF Exit, OrphanExits, Become
    <3>2. PoolOf(d)'
      BY <3>1, PoolMoves DEF PoolInv, TypesInv
    <3> QED BY <2>1, <3>1, <3>2
  <2>6. CASE ExitNonZero(d, r)
    BY <1>3, <2>6 DEF ExitNonZero
  <2>7. CASE Collect(d, r)
    <3>1. CASE Fail(d, r, "exited")
      BY <1>3, <3>1
    <3>2. CASE task[d][r] = "exited" /\ task' = [task EXCEPT ![d][r] = "ok"]
               /\ UNCHANGED <<stop, late>>
      <4>1. PoolOf(d)'
        BY <3>2, PoolMoves DEF PoolInv, TypesInv
      <4> QED BY <2>1, <3>2, <4>1
    <3> QED BY <2>7, <3>1, <3>2 DEF Collect, Become
  <2> QED BY <1>4, <2>2, <2>3, <2>4, <2>5, <2>6, <2>7 DEF ThreadStep
<1>5. ASSUME NEW d \in Driver, VerifyAuthority(d) \/ CheckRoot(d) \/ MakeRoot(d)
      PROVE  PoolInv'
  BY <1>1, <1>5 DEF VerifyAuthority, CheckRoot, MakeRoot
<1>6. ASSUME NEW d \in Driver, Audit(d) \/ Announce(d) \/ ScanFinalTree(d) \/ Conclude(d)
      PROVE  PoolInv'
  BY <1>1, <1>6 DEF Audit, Announce, ScanFinalTree, Conclude
<1>7. ASSUME NEW d \in Driver, Kill(d) \/ \E f \in File : WriteFile(d, f)
      PROVE  PoolInv'
  BY <1>1, <1>7 DEF Kill, WriteFile
<1>8. CASE Disturb \/ UNCHANGED vars
  BY <1>1, <1>8 DEF Disturb, vars
<1> QED BY <1>4, <1>5, <1>6, <1>7, <1>8, Steps

-----------------------------------------------------------------------------

\* A whole root stays whole while nobody works there and nobody may disturb it.
LEMMA VerdictRests ==
  ASSUME TypesInv, VerdictInv, UNCHANGED <<writer, stray, task, stop, ok, pc, manifest>>
  PROVE  VerdictInv'
BY DEF VerdictInv, Whole

LEMMA VerdictStep ==
  ASSUME TypesInv, OwnerInv, PoolInv, VerdictInv, [Next]_vars
  PROVE  VerdictInv'
<1> DEFINE Judged == manifest.verdict = "GREEN" /\ manifest.checked
\* Once the manifest is final, whoever has worked is done.
<1>1. Judged => \E d \in Driver : pc[d] = "done"
  BY DEF VerdictInv
<1>2. ASSUME NEW d \in Driver, VerifyAuthority(d) \/ CheckRoot(d) \/ MakeRoot(d)
      PROVE  VerdictInv'
  <2>1. /\ UNCHANGED <<writer, stray, manifest, task, stop, ok>>
        /\ \A c \in Driver \ {d} : pc'[c] = pc[c]
        /\ pc[d] # "done" /\ pc'[d] \in {"verified", "checked", "refused", "executing"}
    BY <1>2 DEF VerifyAuthority, CheckRoot, MakeRoot, Goto, diskVars, TypesInv
  <2> QED BY <2>1 DEF VerdictInv, Whole
<1>3. ASSUME NEW d \in Driver, NEW r \in Run, ThreadStep(d, r) \/ OrphanExits(d, r)
      PROVE  VerdictInv'
  <2>1. /\ UNCHANGED <<writer, stray, manifest, pc, ok>>
        /\ pc[d] \in {"executing", "killed"}
        /\ \A c \in Driver \ {d} : task'[c] = task[c] /\ stop'[c] = stop[c]
    BY <1>3 DEF ThreadStep, OrphanExits, Take, Preflight, Launch, Exit, ExitNonZero, Collect,
                Fail, Become, diskVars, TypesInv
  <2> QED BY <2>1 DEF VerdictInv, Whole
<1>4. ASSUME NEW d \in Driver, Audit(d)
      PROVE  VerdictInv'
  <2>1. /\ UNCHANGED <<writer, stray, manifest, task, stop>> /\ pc[d] = "executing"
        /\ \A c \in Driver \ {d} : pc'[c] = pc[c] /\ ok'[c] = ok[c]
        /\ pc'[d] = "audited" /\ (ok'[d] => InState(d, {"ok"}) = Run)
    BY <1>4 DEF Audit, Goto, diskVars, TypesInv
  <2>2. ok'[d] => task[d] = [r \in Run |-> "ok"]
    BY <2>1 DEF InState, TypesInv
  <2>3. ok'[d] => ~stop[d]
    BY <2>2 DEF PoolInv, PoolOf
  <2> QED BY <2>1, <2>2, <2>3 DEF VerdictInv, Whole
<1>5. ASSUME NEW d \in Driver, Announce(d)
      PROVE  VerdictInv'
  <2>1. /\ UNCHANGED <<writer, stray, task, stop, ok>> /\ pc[d] = "audited"
        /\ \A c \in Driver \ {d} : pc'[c] = pc[c]
        /\ pc'[d] = "announced" /\ ~manifest'.checked
    BY <1>5 DEF Announce, Goto, TypesInv
  <2> QED BY <2>1 DEF VerdictInv, Whole
<1>6. ASSUME NEW d \in Driver, ScanFinalTree(d)
      PROVE  VerdictInv'
  <2>1. /\ UNCHANGED <<writer, stray, manifest, task, stop>> /\ pc[d] = "announced"
        /\ \A c \in Driver \ {d} : pc'[c] = pc[c] /\ ok'[c] = ok[c]
        /\ pc'[d] = "scanned" /\ (ok'[d] => ok[d] /\ AllFilesThere /\ ~stray)
    BY <1>6 DEF ScanFinalTree, Goto, diskVars, TypesInv
  <2>2. AllFilesThere => \A f \in File : writer[f] = d
    <3>1. Worked(d)
      BY <2>1 DEF Worked, Running
    <3>2. ASSUME NEW f \in File, writer[f] # Nobody
          PROVE  writer[f] = d
      <4>1. f[1] \in Run /\ writer[f] \in Driver
        BY <3>2 DEF File, TypesInv
      <4>2. Worked(writer[f])
        BY <4>1 DEF OwnerInv, Worked
      <4> QED BY <3>1, <4>1, <4>2 DEF OwnerInv
    <3> QED BY <3>2 DEF AllFilesThere
  <2>3. ok'[d] => Whole(d)
    BY <2>1, <2>2 DEF VerdictInv, Whole
  <2> QED BY <2>1, <2>3 DEF VerdictInv, Whole
<1>7. ASSUME NEW d \in Driver, Conclude(d)
      PROVE  VerdictInv'
  <2>1. /\ UNCHANGED <<writer, stray, task, stop, ok>> /\ pc[d] = "scanned"
        /\ \A c \in Driver \ {d} : pc'[c] = pc[c]
        /\ pc'[d] = "done" /\ (manifest'.verdict = "GREEN" => ok[d])
    BY <1>7 DEF Conclude, Verdict, Goto, TypesInv
  <2> QED BY <2>1 DEF VerdictInv, Whole
<1>8. ASSUME NEW d \in Driver, Kill(d)
      PROVE  VerdictInv'
  <2>1. /\ UNCHANGED <<writer, stray, task, stop, ok>> /\ pc[d] # "done"
        /\ \A c \in Driver \ {d} : pc'[c] = pc[c]
        /\ pc'[d] = "killed" /\ (manifest' = manifest \/ ~manifest'.checked)
    BY <1>8 DEF Kill, TypesInv
  <2> QED BY <2>1 DEF VerdictInv, Whole
<1>9. ASSUME NEW d \in Driver, NEW f \in File, WriteFile(d, f)
      PROVE  VerdictInv'
  <2>1. /\ UNCHANGED <<stray, manifest, pc, task, stop, ok>>
        /\ pc[d] \in {"executing", "killed"} /\ task[d][f[1]] = "simulating"
    BY <1>9 DEF WriteFile
  <2>2. Worked(d)
    BY <2>1 DEF Worked, File
  <2>3. \A c \in Driver : pc[c] \in {"scanned", "done"} => ~ (Worked(d) /\ c # d)
    BY DEF OwnerInv, Worked, Running
  <2>4. \A c \in Driver : pc[c] \notin {"scanned", "done"}
    BY <2>1, <2>2, <2>3
  <2> QED BY <1>1, <2>1, <2>4 DEF VerdictInv, Whole
<1>10. CASE Disturb
  <2>1. /\ \A c \in Driver : pc[c] \notin {"scanned", "done"}
        /\ UNCHANGED <<manifest, pc, task, stop, ok>>
    BY <1>10 DEF Disturb
  <2> QED BY <1>1, <2>1 DEF VerdictInv, Whole
<1>11. CASE UNCHANGED vars
  BY <1>11, VerdictRests DEF vars
<1> QED BY <1>2, <1>3, <1>4, <1>5, <1>6, <1>7, <1>8, <1>9, <1>10, <1>11, Steps

LEMMA FleetInit == Init => FleetInv
<1> SUFFICES ASSUME Init PROVE FleetInv
  OBVIOUS
<1>1. TypesInv
  BY DEF Init, TypesInv, Places, TaskStates
<1>2. OwnerInv
  BY DEF Init, OwnerInv, Worked, Running, File
<1>3. PoolInv
  <2>1. ASSUME NEW d \in Driver
        PROVE  InState(d, Busy) = {}
    BY DEF Init, InState, Busy
  <2> QED BY <2>1, FS_EmptySet DEF Init, PoolInv, PoolOf
<1>4. VerdictInv
  BY DEF Init, VerdictInv, NoManifest
<1> QED BY <1>1, <1>2, <1>3, <1>4 DEF FleetInv

LEMMA FleetStep == FleetInv /\ [Next]_vars => FleetInv'
BY TypesStep, OwnerStep, PoolStep, VerdictStep DEF FleetInv

LEMMA FleetInvImplies == FleetInv => OneOwner /\ StopHaltsNewWork /\ GreenIsWhole
<1> SUFFICES ASSUME FleetInv PROVE OneOwner /\ StopHaltsNewWork /\ GreenIsWhole
  OBVIOUS
<1>1. OneOwner
  BY DEF FleetInv, OwnerInv, Worked, OneOwner, Running, TypesInv, File
<1>2. StopHaltsNewWork
  <2> SUFFICES ASSUME NEW d \in Driver PROVE late[d] < MaxConcurrency
    BY DEF StopHaltsNewWork
  <2>1. Cardinality(InState(d, Early)) \in Nat
    BY RunsAreFinite
  <2> QED BY <2>1 DEF FleetInv, PoolInv, PoolOf, TypesInv
<1>3. GreenIsWhole
  BY DEF FleetInv, VerdictInv, Whole, GreenIsWhole
<1> QED BY <1>1, <1>2, <1>3

\* However many invocations are given one root, one at most ever works there: once it
\* has taken a run that stays so, even after it was killed.  The others write nothing.
THEOREM OneOwnerTheorem == Spec => []OneOwner
BY FleetInit, FleetStep, FleetInvImplies, PTL DEF Spec

\* Whatever the plan and the pool, fewer runs than the pool has threads start
\* after the first failure.
THEOREM StopTheorem == Spec => []StopHaltsNewWork
BY FleetInit, FleetStep, FleetInvImplies, PTL DEF Spec

\* However the root is disturbed until the last scan, a GREEN manifest with the
\* final check stands in a root with every file, all of one driver.
THEOREM GreenTheorem == Spec => []GreenIsWhole
BY FleetInit, FleetStep, FleetInvImplies, PTL DEF Spec

\* The programs that use the reruns leave the driver and its files alone, so that
\* all of it holds in the chain.
THEOREM FleetInTheChain == ChainSpec => [](OneOwner /\ StopHaltsNewWork /\ GreenIsWhole)
<1>1. ChainInit => FleetInv
  BY FleetInit DEF ChainInit
<1>2. [ChainNext]_<<vars, chainVars>> => [Next]_vars
  BY DEF ChainNext
<1> QED BY <1>1, <1>2, FleetStep, FleetInvImplies, PTL DEF ChainSpec

-----------------------------------------------------------------------------
(* The packages of results                                                 *)

Value == {"pinned", "other", "none"}
Score == [plain : Value, timed : Value, random : Value, alarms : Value]
Scores == [Identity -> Score]
Building == {"scored", "compared", "digested", "written", "validated"}
BeforeWriting == {"begun", "verified", "scored", "compared", "digested"}

ChainTypes ==
  /\ DOMAIN content = RawFile \cup {Scorer(p) : p \in Package} \cup {Settlement}
  /\ DOMAIN build = Package /\ DOMAIN package = Package
  /\ \A p \in Package :
       /\ DOMAIN build[p] = {"at", "scores", "alike", "inputs"}
       /\ DOMAIN package[p] = {"results", "inputs", "verdict", "sums"}
       /\ build[p].scores \in {<<>>} \cup Scores /\ package[p].results \in {<<>>} \cup Scores
  /\ alterations \in Nat

\* A score that says what the accepted trees say, of what the repair does not touch.
Faithful(score) == score.plain = "pinned" /\ score.timed = "pinned"

\* A score as it was written says of the random alarms what it says of their times.
Scored(p, score) ==
  score.random = IF p = "historical" THEN "none"
                 ELSE IF score.timed = "pinned" THEN "pinned" ELSE "other"

\* What is altered is one file, and once it is nothing else will be.
RawPinned == \A f \in RawFile : content[f] = "pinned"
PairPinned(r) == \A s \in Input : content[<<"results", r, s>>] = "pinned"
OneOdd ==
  /\ \A f, g \in RawFile : content[f] # "pinned" /\ content[g] # "pinned" => f = g
  /\ alterations = 0 => RawPinned

\* What a builder holds and what it has written.
Builder(p) ==
  /\ build[p].at \in BeforeWriting => package[p] = Absent
  /\ build[p].at \in Building =>
       /\ build[p].scores # <<>>
       /\ \A i \in Identity : Scored(p, build[p].scores[i])
       /\ alterations = 0 => \A i \in Identity : Faithful(build[p].scores[i])
  /\ build[p].at = "scored" =>
       \A r \in Run : Faithful(build[p].scores[r]) \/ (alterations # 0 /\ PairPinned(r))
  /\ build[p].at \in Building \ {"scored"} /\ build[p].alike =>
       \A r \in Run : Faithful(build[p].scores[r])
  /\ build[p].at \in {"written", "validated"} =>
       /\ package[p].results # <<>> /\ package[p].sums = <<>>
       /\ p \notin exposed => package[p].results = build[p].scores
  /\ build[p].at = "validated" /\ package[p].verdict = "GREEN" => build[p].alike

\* What was signed stands in the list of digests for ever, and it is what was written
\* unless that was altered in between.
Pack(p) ==
  /\ package[p].sums # <<>> =>
       /\ package[p].results # <<>> /\ build[p].at = "idle"
       /\ package[p].sums[1] # <<>>
       /\ p \notin exposed =>
            /\ \A i \in Identity : Scored(p, package[p].sums[1][i])
            /\ package[p].sums[3] = "GREEN" => \A r \in Run : Faithful(package[p].sums[1][r])
  /\ package[p].results # <<>> /\ alterations = 0 =>
       \A i \in Identity : Faithful(package[p].results[i])

\* The successor comes after the historical package, and one of them is as the trees.
AllFaithful(scores) == \A i \in Identity : Faithful(scores[i])
OneOfTwo ==
  /\ build["successor"].at # "idle" \/ package["successor"].results # <<>> =>
       package["historical"].sums # <<>>
  /\ package["historical"].results # <<>> /\ ~AllFaithful(package["historical"].results) =>
       /\ build["successor"].at = "verified" => RawPinned
       /\ build["successor"].at \in Building => AllFaithful(build["successor"].scores)
       /\ package["successor"].results # <<>> => AllFaithful(package["successor"].results)

Judged ==
  /\ settled # {} => package["successor"].results # <<>>
  /\ check.at = "CONFORMANT" =>
       package["successor"].results # <<>> /\ AllFaithful(package["successor"].results)

PinnedInv ==
  /\ ChainTypes /\ OneOdd /\ OneOfTwo /\ Judged
  /\ \A p \in Package : Builder(p) /\ Pack(p)

LEMMA FilesOfRuns ==
  /\ 0 \in Identity /\ Run \subseteq Identity
  /\ \A i \in Identity, s \in Input : <<SourceTree(i), i, s>> \in RawFile
  /\ \A r \in Run, s \in Input : <<"results", r, s>> \in RawFile
  /\ \A r \in Run : SourceTree(r) = "rerun"
BY DEF Identity, Run, Input, RawFile, SourceTree

LEMMA NotNothing == \A scores \in Scores : scores # <<>>
BY FilesOfRuns DEF Scores

\* What a run scores, and that pinned files score as the pins say.
LEMMA ScoreOfRun ==
  ASSUME NEW p \in Package, NEW tree, NEW i
  PROVE  /\ score_run(p, tree, i) \in Score
         /\ Scored(p, score_run(p, tree, i))
         /\ (\A s \in Input : content[<<tree, i, s>>] = "pinned") =>
               Faithful(score_run(p, tree, i))
<1> DEFINE got == {content[<<tree, i, s>>] : s \in Input}
<1>1. score_run(p, tree, i) =
        [plain  |-> IF "altered" \in got THEN "other" ELSE "pinned",
         timed  |-> IF got = {"pinned"} THEN "pinned" ELSE "other",
         random |-> IF p = "historical" THEN "none"
                    ELSE IF got = {"pinned"} THEN "pinned" ELSE "other",
         alarms |-> IF p = "historical" THEN "none" ELSE "pinned"]
  BY DEF score_run
<1>2. (\A s \in Input : content[<<tree, i, s>>] = "pinned") => got = {"pinned"}
  BY DEF Input
<1> HIDE DEF got
<1>3. /\ score_run(p, tree, i).timed = IF got = {"pinned"} THEN "pinned" ELSE "other"
      /\ score_run(p, tree, i).plain = IF "altered" \in got THEN "other" ELSE "pinned"
  BY <1>1
<1>4. score_run(p, tree, i).random = IF p = "historical" THEN "none"
        ELSE IF score_run(p, tree, i).timed = "pinned" THEN "pinned" ELSE "other"
  BY <1>1, <1>3
<1>5. score_run(p, tree, i) \in Score
  <2> DEFINE w == IF "altered" \in got THEN "other" ELSE "pinned"
             x == IF got = {"pinned"} THEN "pinned" ELSE "other"
             y == IF p = "historical" THEN "none"
                  ELSE IF got = {"pinned"} THEN "pinned" ELSE "other"
             z == IF p = "historical" THEN "none" ELSE "pinned"
  <2>1. w \in Value /\ x \in Value /\ y \in Value /\ z \in Value
    BY DEF Value
  <2>2. score_run(p, tree, i) = [plain |-> w, timed |-> x, random |-> y, alarms |-> z]
    BY <1>1
  <2> HIDE DEF w, x, y, z
  <2> QED BY <2>1, <2>2 DEF Score
<1>6. got = {"pinned"} => Faithful(score_run(p, tree, i))
  BY <1>3 DEF Faithful
<1> QED BY <1>2, <1>4, <1>5, <1>6 DEF Scored

\* A step of the programs that use the fleet, or of somebody who alters a file.
ChainStep ==
  \/ AcceptFleet \/ Settle \/ Open \/ CheckCorpus \/ Compare \/ Alter
  \/ \E p \in Package : BuildStep(p)

\* What Advance does to what a builder holds, and to nothing else.
OnlyBuild(p) ==
  /\ DOMAIN build' = Package /\ DOMAIN build'[p] = DOMAIN build[p]
  /\ \A q \in Package \ {p} : build'[q] = build[q]
  /\ UNCHANGED <<accepted, content, settled, check, alterations, exposed>>

OnlyPackage(p) ==
  /\ DOMAIN package' = Package /\ DOMAIN package'[p] = DOMAIN package[p]
  /\ \A q \in Package \ {p} : package'[q] = package[q]

Holds(p, at, scores, alike) ==
  build'[p].at = at /\ build'[p].scores = scores /\ build'[p].alike = alike

LEMMA Advanced ==
  ASSUME ChainTypes, NEW p \in Package, NEW from, NEW to, NEW new, Advance(p, from, to, new),
         DOMAIN new = {"at", "scores", "alike", "inputs"}
  PROVE  /\ OnlyBuild(p) /\ build[p].at = from
         /\ Holds(p, to, new.scores, new.alike)
<1>1. /\ build[p].at = from
      /\ build' = [build EXCEPT ![p] = [new EXCEPT !.at = to]]
      /\ UNCHANGED <<accepted, content, settled, check, alterations, exposed>>
  BY DEF Advance
<1>2. DOMAIN build = Package /\ DOMAIN build[p] = {"at", "scores", "alike", "inputs"}
  BY DEF ChainTypes
<1>3. build'[p] = [new EXCEPT !.at = to]
  BY <1>1, <1>2
<1>4. OnlyBuild(p)
  BY <1>1, <1>2, <1>3 DEF OnlyBuild
<1> QED BY <1>1, <1>3, <1>4 DEF Holds

LEMMA PackageKept == ASSUME ChainTypes, NEW p \in Package, UNCHANGED package PROVE OnlyPackage(p)
BY DEF ChainTypes, OnlyPackage

LEMMA NewBuild ==
  /\ DOMAIN NoBuild = {"at", "scores", "alike", "inputs"}
  /\ NoBuild.scores = <<>>
BY DEF NoBuild

LEMMA NothingThere == Absent.results = <<>> /\ Absent.sums = <<>>
BY DEF Absent

LEMMA CorpusScores ==
  ASSUME NEW p \in Package
  PROVE  [i \in Identity |-> score_run(p, SourceTree(i), i)] \in Scores
BY ScoreOfRun DEF Scores

\* An altered package has results as before it, of the same packages, and it is exposed
\* if its builder had not signed them.
LEMMA PackageAltered ==
  ASSUME ChainTypes, AlterPackage
  PROVE  \E p \in Package :
           /\ package[p].results # <<>>
           /\ \/ package'[p].results = package[p].results \/ build[p].at = "idle"
              \/ p \in exposed'
           /\ exposed \subseteq exposed'
           /\ DOMAIN package' = Package /\ DOMAIN package'[p] = DOMAIN package[p]
           /\ package'[p].results \in Scores
           /\ package'[p].verdict = package[p].verdict /\ package'[p].sums = package[p].sums
           /\ \A q \in Package \ {p} : package'[q] = package[q]
           /\ UNCHANGED content
<1>1. PICK p \in Package, i \in Identity :
        /\ package[p].results # <<>>
        /\ \/ /\ \E arm \in {"plain", "timed", "random", "alarms"} :
                   package' = [package EXCEPT ![p].results[i][arm] = "other"]
              /\ exposed' = IF build[p].at = "idle" THEN exposed ELSE exposed \cup {p}
           \/ /\ \E s \in Input : package' = [package EXCEPT ![p].inputs[i][s] = "other"]
              /\ UNCHANGED exposed
        /\ UNCHANGED content
  BY DEF AlterPackage
<1>2. ASSUME NEW arm \in {"plain", "timed", "random", "alarms"},
             package' = [package EXCEPT ![p].results[i][arm] = "other"]
      PROVE  /\ DOMAIN package' = Package /\ DOMAIN package'[p] = DOMAIN package[p]
             /\ package'[p].results = [package[p].results EXCEPT ![i][arm] = "other"]
             /\ package'[p].verdict = package[p].verdict /\ package'[p].sums = package[p].sums
             /\ \A q \in Package \ {p} : package'[q] = package[q]
  BY <1>2 DEF ChainTypes
<1>3. ASSUME NEW s \in Input,
             package' = [package EXCEPT ![p].inputs[i][s] = "other"]
      PROVE  /\ DOMAIN package' = Package /\ DOMAIN package'[p] = DOMAIN package[p]
             /\ package'[p].results = package[p].results
             /\ package'[p].verdict = package[p].verdict /\ package'[p].sums = package[p].sums
             /\ \A q \in Package \ {p} : package'[q] = package[q]
  BY <1>3 DEF ChainTypes
<1>4. ASSUME NEW arm \in {"plain", "timed", "random", "alarms"}
      PROVE  [package[p].results EXCEPT ![i][arm] = "other"] \in Scores
  <2>1. package[p].results \in Scores
    BY <1>1 DEF ChainTypes
  <2>2. package[p].results[i] \in Score
    BY <2>1 DEF Scores
  <2>3. [package[p].results[i] EXCEPT ![arm] = "other"] \in Score
    BY <2>2 DEF Score, Value
  <2> QED BY <2>1, <2>3 DEF Scores
<1>5. CASE /\ \E arm \in {"plain", "timed", "random", "alarms"} :
                package' = [package EXCEPT ![p].results[i][arm] = "other"]
           /\ exposed' = IF build[p].at = "idle" THEN exposed ELSE exposed \cup {p}
  <2>1. PICK arm \in {"plain", "timed", "random", "alarms"} :
          package' = [package EXCEPT ![p].results[i][arm] = "other"]
    BY <1>5
  <2>2. package'[p].results \in Scores
    BY <1>2, <1>4, <2>1
  <2>3. exposed \subseteq exposed' /\ (build[p].at = "idle" \/ p \in exposed')
    BY <1>5
  <2> QED BY <1>1, <1>2, <2>1, <2>2, <2>3
<1>6. CASE /\ \E s \in Input : package' = [package EXCEPT ![p].inputs[i][s] = "other"]
           /\ UNCHANGED exposed
  <2>1. package[p].results \in Scores
    BY <1>1 DEF ChainTypes
  <2> QED BY <1>1, <1>3, <1>6, <2>1
<1> QED BY <1>1, <1>5, <1>6

\* What each step of a builder does to what it holds and to its package.
LEMMA BuildEffects ==
  ASSUME ChainTypes, NEW p \in Package
  PROVE  /\ Begin(p) =>
              /\ OnlyBuild(p) /\ OnlyPackage(p) /\ UNCHANGED package /\ Holds(p, "begun", <<>>, NoBuild.alike)
              /\ package[p] = Absent
              /\ p = "successor" => package["historical"].sums # <<>>
         /\ VerifyPins(p) =>
              /\ OnlyBuild(p) /\ OnlyPackage(p) /\ UNCHANGED package /\ build[p].at = "begun"
              /\ Holds(p, IF PinsHold(p) THEN "verified" ELSE "idle", <<>>, NoBuild.alike)
         /\ ScoreCorpus(p) =>
              /\ OnlyBuild(p) /\ OnlyPackage(p) /\ UNCHANGED package /\ build[p].at = "verified"
              /\ Holds(p, "scored", [i \in Identity |-> score_run(p, SourceTree(i), i)],
                       build[p].alike)
         /\ CompareTrees(p) =>
              /\ OnlyBuild(p) /\ OnlyPackage(p) /\ UNCHANGED package /\ build[p].at = "scored"
              /\ Holds(p, "compared", build[p].scores,
                       \A r \in Run : score_run(p, "results", r) = build[p].scores[r])
         /\ DigestInputs(p) =>
              /\ OnlyBuild(p) /\ OnlyPackage(p) /\ UNCHANGED package /\ build[p].at = "compared"
              /\ Holds(p, "digested", build[p].scores, build[p].alike)
         /\ WriteResults(p) =>
              /\ OnlyBuild(p) /\ OnlyPackage(p) /\ build[p].at = "digested"
              /\ Holds(p, "written", build[p].scores, build[p].alike)
              /\ package'[p].results = build[p].scores
              /\ package'[p].verdict = package[p].verdict /\ package'[p].sums = package[p].sums
         /\ Validate(p) =>
              /\ OnlyBuild(p) /\ OnlyPackage(p) /\ build[p].at = "written"
              /\ Holds(p, "validated", build[p].scores, build[p].alike)
              /\ package'[p].results = package[p].results /\ package'[p].sums = package[p].sums
              /\ package'[p].verdict = "GREEN" => build[p].alike
         /\ Sign(p) =>
              /\ OnlyBuild(p) /\ OnlyPackage(p) /\ build[p].at = "validated" /\ Holds(p, "idle", <<>>, NoBuild.alike)
              /\ package'[p].results = package[p].results
              /\ package'[p].verdict = package[p].verdict /\ package'[p].sums = Contents(p)
         /\ KillBuild(p) =>
              OnlyBuild(p) /\ OnlyPackage(p) /\ UNCHANGED package /\ Holds(p, "idle", <<>>, NoBuild.alike)
<1>1. Begin(p) =>
        /\ OnlyBuild(p) /\ OnlyPackage(p) /\ UNCHANGED package /\ Holds(p, "begun", <<>>, NoBuild.alike)
        /\ package[p] = Absent
        /\ p = "successor" => package["historical"].sums # <<>>
  BY Advanced, PackageKept, NewBuild DEF Begin
<1>2. VerifyPins(p) =>
        /\ OnlyBuild(p) /\ OnlyPackage(p) /\ UNCHANGED package /\ build[p].at = "begun"
        /\ Holds(p, IF PinsHold(p) THEN "verified" ELSE "idle", <<>>, NoBuild.alike)
  BY Advanced, PackageKept, NewBuild DEF VerifyPins
<1>3. ScoreCorpus(p) =>
        /\ OnlyBuild(p) /\ OnlyPackage(p) /\ UNCHANGED package /\ build[p].at = "verified"
        /\ Holds(p, "scored", [i \in Identity |-> score_run(p, SourceTree(i), i)],
                 build[p].alike)
  <2> DEFINE scores == [i \in Identity |-> score_run(p, SourceTree(i), i)]
  <2> HIDE DEF scores
  <2>1. Advance(p, "verified", "scored", [build[p] EXCEPT !.scores = scores])
          /\ UNCHANGED package => OnlyBuild(p) /\ OnlyPackage(p) /\ build[p].at = "verified"
                                  /\ Holds(p, "scored", scores, build[p].alike)
    <3>1. DOMAIN build[p] = {"at", "scores", "alike", "inputs"}
      BY DEF ChainTypes
    <3> QED BY <3>1, Advanced, PackageKept
  <2> QED BY <2>1 DEF ScoreCorpus, scores
<1>4. CompareTrees(p) =>
        /\ OnlyBuild(p) /\ OnlyPackage(p) /\ UNCHANGED package /\ build[p].at = "scored"
        /\ Holds(p, "compared", build[p].scores,
                 \A r \in Run : score_run(p, "results", r) = build[p].scores[r])
  <2> DEFINE alike == \A r \in Run : score_run(p, "results", r) = build[p].scores[r]
  <2> HIDE DEF alike
  <2>1. Advance(p, "scored", "compared", [build[p] EXCEPT !.alike = alike])
          /\ UNCHANGED package => OnlyBuild(p) /\ OnlyPackage(p) /\ build[p].at = "scored"
                                  /\ Holds(p, "compared", build[p].scores, alike)
    <3>1. DOMAIN build[p] = {"at", "scores", "alike", "inputs"}
      BY DEF ChainTypes
    <3> QED BY <3>1, Advanced, PackageKept
  <2> QED BY <2>1 DEF CompareTrees, alike
<1>5. DigestInputs(p) =>
        /\ OnlyBuild(p) /\ OnlyPackage(p) /\ UNCHANGED package /\ build[p].at = "compared"
        /\ Holds(p, "digested", build[p].scores, build[p].alike)
  <2> DEFINE inputs == Digests
  <2> HIDE DEF inputs
  <2>1. Advance(p, "compared", "digested", [build[p] EXCEPT !.inputs = inputs])
          /\ UNCHANGED package => OnlyBuild(p) /\ OnlyPackage(p) /\ build[p].at = "compared"
                                  /\ Holds(p, "digested", build[p].scores, build[p].alike)
    <3>1. DOMAIN build[p] = {"at", "scores", "alike", "inputs"}
      BY DEF ChainTypes
    <3> QED BY <3>1, Advanced, PackageKept
  <2> QED BY <2>1 DEF DigestInputs, inputs
<1>6. WriteResults(p) =>
        /\ OnlyBuild(p) /\ OnlyPackage(p) /\ build[p].at = "digested"
        /\ Holds(p, "written", build[p].scores, build[p].alike)
        /\ package'[p].results = build[p].scores
        /\ package'[p].verdict = package[p].verdict /\ package'[p].sums = package[p].sums
  <2> SUFFICES ASSUME WriteResults(p)
               PROVE  /\ OnlyBuild(p) /\ OnlyPackage(p) /\ build[p].at = "digested"
                      /\ Holds(p, "written", build[p].scores, build[p].alike)
                      /\ package'[p].results = build[p].scores
                      /\ package'[p].verdict = package[p].verdict
                      /\ package'[p].sums = package[p].sums
    OBVIOUS
  <2>1. DOMAIN build[p] = {"at", "scores", "alike", "inputs"}
    BY DEF ChainTypes
  <2>2. Advance(p, "digested", "written", build[p])
    BY DEF WriteResults
  <2>3. /\ OnlyBuild(p) /\ build[p].at = "digested"
        /\ Holds(p, "written", build[p].scores, build[p].alike)
    BY <2>1, <2>2, Advanced
  <2>4. /\ OnlyPackage(p) /\ package'[p].results = build[p].scores
        /\ package'[p].verdict = package[p].verdict /\ package'[p].sums = package[p].sums
    BY DEF WriteResults, OnlyPackage, ChainTypes
  <2> QED BY <2>3, <2>4
<1>7. Validate(p) =>
        /\ OnlyBuild(p) /\ OnlyPackage(p) /\ build[p].at = "written"
        /\ Holds(p, "validated", build[p].scores, build[p].alike)
        /\ package'[p].results = package[p].results /\ package'[p].sums = package[p].sums
        /\ package'[p].verdict = "GREEN" => build[p].alike
  <2> SUFFICES ASSUME Validate(p)
               PROVE  /\ OnlyBuild(p) /\ OnlyPackage(p) /\ build[p].at = "written"
                      /\ Holds(p, "validated", build[p].scores, build[p].alike)
                      /\ package'[p].results = package[p].results
                      /\ package'[p].sums = package[p].sums
                      /\ package'[p].verdict = "GREEN" => build[p].alike
    OBVIOUS
  <2>1. PICK verdict :
          /\ package' = [package EXCEPT ![p].verdict = verdict]
          /\ verdict = "GREEN" => build[p].alike
    <3>1. PICK totals \in {TRUE} \cup {alterations = 0} :
            package' = [package EXCEPT ![p].verdict =
                          IF Validated(p) /\ totals THEN "GREEN" ELSE "RED"]
      BY DEF Validate
    <3>2. (IF Validated(p) /\ totals THEN "GREEN" ELSE "RED") = "GREEN" => build[p].alike
      BY DEF Validated
    <3> QED BY <3>1, <3>2
  <2>2. DOMAIN build[p] = {"at", "scores", "alike", "inputs"}
    BY DEF ChainTypes
  <2>3. Advance(p, "written", "validated", build[p])
    BY DEF Validate
  <2>4. /\ OnlyBuild(p) /\ build[p].at = "written"
        /\ Holds(p, "validated", build[p].scores, build[p].alike)
    BY <2>2, <2>3, Advanced
  <2>5. /\ OnlyPackage(p) /\ package'[p].results = package[p].results
        /\ package'[p].sums = package[p].sums /\ package'[p].verdict = verdict
    BY <2>1 DEF OnlyPackage, ChainTypes
  <2> QED BY <2>1, <2>4, <2>5
<1>8. Sign(p) =>
        /\ OnlyBuild(p) /\ OnlyPackage(p) /\ build[p].at = "validated" /\ Holds(p, "idle", <<>>, NoBuild.alike)
        /\ package'[p].results = package[p].results
        /\ package'[p].verdict = package[p].verdict /\ package'[p].sums = Contents(p)
  <2> DEFINE sums == Contents(p)
  <2> HIDE DEF sums
  <2>1. Advance(p, "validated", "idle", NoBuild)
          /\ package' = [package EXCEPT ![p].sums = sums] =>
             /\ OnlyBuild(p) /\ OnlyPackage(p) /\ build[p].at = "validated" /\ Holds(p, "idle", <<>>, NoBuild.alike)
             /\ package'[p].results = package[p].results
             /\ package'[p].verdict = package[p].verdict /\ package'[p].sums = sums
    <3>1. Advance(p, "validated", "idle", NoBuild) =>
            /\ OnlyBuild(p) /\ build[p].at = "validated"
            /\ Holds(p, "idle", <<>>, NoBuild.alike)
      BY Advanced, NewBuild
    <3>2. package' = [package EXCEPT ![p].sums = sums] =>
            /\ OnlyPackage(p) /\ package'[p].results = package[p].results
            /\ package'[p].verdict = package[p].verdict /\ package'[p].sums = sums
      BY DEF ChainTypes, OnlyPackage
    <3> QED BY <3>1, <3>2
  <2> QED BY <2>1 DEF Sign, sums
<1>9. KillBuild(p) => OnlyBuild(p) /\ OnlyPackage(p) /\ UNCHANGED package /\ Holds(p, "idle", <<>>, NoBuild.alike)
  BY Advanced, PackageKept, NewBuild DEF KillBuild
<1> QED BY <1>1, <1>2, <1>3, <1>4, <1>5, <1>6, <1>7, <1>8, <1>9

\* A builder changes what is its own, and its results are the scores that it holds.
LEMMA BuildKeeps ==
  ASSUME ChainTypes, NEW p \in Package, BuildStep(p)
  PROVE  /\ OnlyBuild(p) /\ OnlyPackage(p)
         /\ build'[p].scores \in {<<>>} \cup Scores
         /\ package'[p].results \in {package[p].results, build[p].scores}
<1> DEFINE Kept == /\ OnlyBuild(p) /\ OnlyPackage(p)
                   /\ build'[p].scores \in {<<>>} \cup Scores
                   /\ package'[p].results \in {package[p].results, build[p].scores}
<1> USE BuildEffects DEF Holds
<1>0. build[p].scores \in {<<>>} \cup Scores
  BY DEF ChainTypes
<1>1. Begin(p) => Kept
  OBVIOUS
<1>2. VerifyPins(p) => Kept
  OBVIOUS
<1>3. ScoreCorpus(p) => Kept
  BY CorpusScores
<1>4. CompareTrees(p) => Kept
  BY <1>0
<1>5. DigestInputs(p) => Kept
  BY <1>0
<1>6. WriteResults(p) => Kept
  BY <1>0
<1>7. Validate(p) => Kept
  BY <1>0
<1>8. Sign(p) => Kept
  OBVIOUS
<1>9. KillBuild(p) => Kept
  OBVIOUS
<1> QED BY <1>1, <1>2, <1>3, <1>4, <1>5, <1>6, <1>7, <1>8, <1>9 DEF BuildStep

\* The programs that neither build nor alter change nothing of a package.
LEMMA OthersKeep ==
  AcceptFleet \/ Settle \/ Open \/ CheckCorpus \/ Compare =>
    UNCHANGED <<content, build, package, alterations, exposed>>
BY DEF AcceptFleet, Settle, Open, CheckCorpus, Compare, Look

LEMMA ChainTypesStep == ChainTypes /\ ChainStep => ChainTypes'
<1> SUFFICES ASSUME ChainTypes, ChainStep PROVE ChainTypes'
  OBVIOUS
<1>1. CASE AcceptFleet \/ Settle \/ Open \/ CheckCorpus \/ Compare
  BY <1>1, OthersKeep DEF ChainTypes
<1>2. CASE Alter
  <2>1. alterations' \in Nat
    BY <1>2 DEF Alter, ChainTypes
  <2>2. CASE AlterContent
    BY <1>2, <2>1, <2>2 DEF ChainTypes, Alter, AlterContent
  <2>3. CASE AlterPackage
    BY <1>2, <2>1, <2>3, PackageAltered DEF ChainTypes, Alter
  <2> QED BY <1>2, <2>2, <2>3 DEF Alter
<1>3. ASSUME NEW p \in Package, BuildStep(p)
      PROVE  ChainTypes'
  <2>1. package'[p].results \in {<<>>} \cup Scores
    BY <1>3, BuildKeeps DEF ChainTypes
  <2> QED BY <1>3, <2>1, BuildKeeps DEF ChainTypes, OnlyBuild, OnlyPackage
<1> QED BY <1>1, <1>2, <1>3 DEF ChainStep

\* Where one alteration is all there is, there was none before it.
LEMMA AltersOnce ==
  ASSUME alterations' <= 1, ChainTypes, OneOdd, Alter
  PROVE  alterations = 0 /\ alterations' # 0 /\ RawPinned
BY DEF ChainTypes, OneOdd, Alter

LEMMA OneOddStep == alterations' <= 1 /\ ChainTypes /\ OneOdd /\ ChainStep => OneOdd'
<1> SUFFICES ASSUME alterations' <= 1, ChainTypes, OneOdd, ChainStep PROVE OneOdd'
  OBVIOUS
<1>1. CASE AcceptFleet \/ Settle \/ Open \/ CheckCorpus \/ Compare
  BY <1>1, OthersKeep DEF OneOdd, RawPinned
<1>2. CASE Alter
  <2>1. alterations' # 0 /\ RawPinned
    BY <1>2, AltersOnce
  <2>2. CASE AlterContent
    BY <2>1, <2>2 DEF ChainTypes, AlterContent, OneOdd, RawPinned
  <2>3. CASE AlterPackage
    BY <2>1, <2>3 DEF AlterPackage, OneOdd, RawPinned
  <2> QED BY <1>2, <2>2, <2>3 DEF Alter
<1>3. ASSUME NEW p \in Package, BuildStep(p)
      PROVE  OneOdd'
  BY <1>3, BuildKeeps DEF OneOdd, RawPinned, OnlyBuild
<1> QED BY <1>1, <1>2, <1>3 DEF ChainStep

LEMMA Counts == ChainStep => alterations' \in {alterations, alterations + 1}
BY DEF ChainStep, BuildStep, AcceptFleet, Settle, Open, CheckCorpus, Compare, Look, Alter, Begin,
       VerifyPins, ScoreCorpus, CompareTrees, DigestInputs, WriteResults, Validate, Sign,
       KillBuild, Advance

\* A score that is not faithful was read from a log that is altered, and then the log
\* it is compared with is not.
LEMMA CorpusFaithful ==
  ASSUME ChainTypes, OneOdd, NEW p \in Package, NEW scores,
         scores = [i \in Identity |-> score_run(p, SourceTree(i), i)]
  PROVE  /\ scores # <<>>
         /\ \A i \in Identity : Scored(p, scores[i])
         /\ RawPinned => \A i \in Identity : Faithful(scores[i])
         /\ \A r \in Run : Faithful(scores[r]) \/ (alterations # 0 /\ PairPinned(r))
<1>1. scores # <<>>
  BY CorpusScores, NotNothing
<1>2. \A i \in Identity : scores[i] = score_run(p, SourceTree(i), i)
  OBVIOUS
<1>3. \A i \in Identity : Scored(p, scores[i])
  BY <1>2, ScoreOfRun
<1>4. ASSUME NEW i \in Identity, \A s \in Input : content[<<SourceTree(i), i, s>>] = "pinned"
      PROVE  Faithful(scores[i])
  BY <1>2, <1>4, ScoreOfRun
<1>5. ASSUME NEW r \in Run, ~Faithful(scores[r])
      PROVE  alterations # 0 /\ PairPinned(r)
  <2>1. r \in Identity /\ SourceTree(r) = "rerun"
    BY FilesOfRuns
  <2>2. PICK s \in Input : content[<<"rerun", r, s>>] # "pinned"
    BY <1>4, <1>5, <2>1
  <2>3. <<"rerun", r, s>> \in RawFile
    BY <2>1, FilesOfRuns
  <2>4. \A t \in Input : <<"results", r, t>> \in RawFile /\ <<"results", r, t>> # <<"rerun", r, s>>
    BY FilesOfRuns
  <2> QED BY <2>2, <2>3, <2>4 DEF OneOdd, RawPinned, PairPinned
<1>6. RawPinned => \A i \in Identity : Faithful(scores[i])
  BY <1>4, FilesOfRuns DEF RawPinned
<1> QED BY <1>1, <1>3, <1>5, <1>6

\* What is compared: where the two trees score alike, the score is faithful.
LEMMA AlikeFaithful ==
  ASSUME NEW p \in Package, NEW r \in Run,
         Faithful(build[p].scores[r]) \/ PairPinned(r),
         score_run(p, "results", r) = build[p].scores[r]
  PROVE  Faithful(build[p].scores[r])
BY ScoreOfRun DEF PairPinned

LEMMA BuilderStep ==
  ASSUME alterations' <= 1, PinnedInv, ChainStep, NEW p \in Package
  PROVE  Builder(p)'
<1> USE DEF PinnedInv
<1>1. Builder(p)
  OBVIOUS
<1>2. CASE AcceptFleet \/ Settle \/ Open \/ CheckCorpus \/ Compare
  BY <1>1, <1>2, OthersKeep DEF Builder, PairPinned
<1>3. CASE Alter
  <2>1. alterations = 0 /\ alterations' # 0 /\ UNCHANGED build
    BY <1>3, AltersOnce DEF Alter
  <2>2. CASE UNCHANGED <<package, exposed>>
    BY <1>1, <2>1, <2>2, FilesOfRuns DEF Builder, Building
  <2>3. CASE AlterPackage
    <3>1. PICK q \in Package :
            /\ package[q].results # <<>> /\ package'[q].results \in Scores
            /\ \/ package'[q].results = package[q].results \/ build[q].at = "idle"
               \/ q \in exposed'
            /\ exposed \subseteq exposed'
            /\ package'[q].verdict = package[q].verdict /\ package'[q].sums = package[q].sums
            /\ \A o \in Package \ {q} : package'[o] = package[o]
      BY <2>3, PackageAltered
    <3>2. CASE p = q
      <4>1. build[p].at \notin BeforeWriting
        BY <1>1, <3>1, <3>2, NothingThere DEF Builder
      <4>2. build[p].at \in {"written", "validated"} =>
              /\ package'[p].results # <<>> /\ package'[p].sums = <<>>
              /\ p \notin exposed' => package'[p].results = build[p].scores
        BY <1>1, <3>1, <3>2, NotNothing DEF Builder
      <4>3. package'[p].verdict = package[p].verdict
        BY <3>1, <3>2
      <4> QED BY <1>1, <2>1, <4>1, <4>2, <4>3, FilesOfRuns
              DEF Builder, Building, BeforeWriting
    <3>3. CASE p # q
      <4>1. package'[p] = package[p] /\ exposed \subseteq exposed'
        BY <3>1, <3>3
      <4> QED BY <1>1, <2>1, <4>1, FilesOfRuns DEF Builder, Building
    <3> QED BY <3>2, <3>3
  <2> QED BY <1>3, <2>2, <2>3 DEF Alter, AlterContent
<1>4. ASSUME NEW q \in Package \ {p}, BuildStep(q)
      PROVE  Builder(p)'
  <2>1. build'[p] = build[p] /\ package'[p] = package[p] /\ UNCHANGED <<content, alterations, exposed>>
    BY <1>4, BuildKeeps DEF OnlyBuild, OnlyPackage
  <2> QED BY <1>1, <2>1 DEF Builder, PairPinned
<1>5. CASE BuildStep(p)
  <2>0. UNCHANGED <<content, alterations, exposed>>
    BY <1>5, BuildKeeps DEF OnlyBuild
  <2>1. CASE Begin(p)
    BY <2>1, BuildEffects DEF Builder, Holds, Building, BeforeWriting
  <2>2. CASE VerifyPins(p)
    BY <1>1, <2>2, BuildEffects DEF Builder, Holds, Building, BeforeWriting
  <2>3. CASE ScoreCorpus(p)
    <3>1. PICK scores : /\ scores = [i \in Identity |-> score_run(p, SourceTree(i), i)]
                        /\ Holds(p, "scored", scores, build[p].alike)
      BY <2>3, BuildEffects
    <3>2. /\ scores # <<>> /\ \A i \in Identity : Scored(p, scores[i])
          /\ alterations = 0 => \A i \in Identity : Faithful(scores[i])
          /\ \A r \in Run : Faithful(scores[r]) \/ (alterations # 0 /\ PairPinned(r))
      BY <3>1, CorpusFaithful DEF OneOdd
    <3>3. package'[p] = Absent
      BY <1>1, <2>3, BuildEffects DEF Builder, BeforeWriting
    <3> QED BY <2>0, <3>1, <3>2, <3>3 DEF Builder, Holds, Building, PairPinned
  <2>4. CASE CompareTrees(p)
    <3>1. /\ build[p].at = "scored" /\ UNCHANGED package
          /\ Holds(p, "compared", build[p].scores,
                   \A r \in Run : score_run(p, "results", r) = build[p].scores[r])
      BY <2>4, BuildEffects
    <3>2. build'[p].alike => \A r \in Run : score_run(p, "results", r) = build[p].scores[r]
      BY <3>1 DEF Holds
    <3>3. build'[p].alike => \A r \in Run : Faithful(build[p].scores[r])
      BY <1>1, <3>1, <3>2, AlikeFaithful DEF Builder
    <3>4. build'[p].at = "compared" /\ build'[p].scores = build[p].scores
      BY <3>1 DEF Holds
    <3> QED BY <1>1, <2>0, <3>1, <3>3, <3>4 DEF Builder, Building, BeforeWriting
  <2>5. CASE DigestInputs(p)
    BY <1>1, <2>0, <2>5, BuildEffects DEF Builder, Holds, Building, BeforeWriting
  <2>6. CASE WriteResults(p)
    <3>1. package[p].sums = <<>> /\ build[p].scores # <<>>
      BY <1>1, <2>6, BuildEffects, NothingThere DEF Builder, BeforeWriting, Building
    <3> QED BY <1>1, <2>0, <2>6, <3>1, BuildEffects DEF Builder, Holds, Building, BeforeWriting
  <2>7. CASE Validate(p)
    BY <1>1, <2>0, <2>7, BuildEffects DEF Builder, Holds, Building, BeforeWriting
  <2>8. CASE Sign(p)
    BY <2>8, BuildEffects DEF Builder, Holds, Building, BeforeWriting
  <2>9. CASE KillBuild(p)
    BY <2>9, BuildEffects DEF Builder, Holds, Building, BeforeWriting
  <2> QED BY <1>5, <2>1, <2>2, <2>3, <2>4, <2>5, <2>6, <2>7, <2>8, <2>9 DEF BuildStep
<1> QED BY <1>2, <1>3, <1>4, <1>5 DEF ChainStep

LEMMA PackStep ==
  ASSUME alterations' <= 1, PinnedInv, ChainStep, NEW p \in Package
  PROVE  Pack(p)'
<1> USE DEF PinnedInv
<1>1. Pack(p) /\ Builder(p)
  OBVIOUS
<1>2. CASE AcceptFleet \/ Settle \/ Open \/ CheckCorpus \/ Compare
  BY <1>1, <1>2, OthersKeep DEF Pack
<1>3. CASE Alter
  <2>1. alterations' # 0 /\ UNCHANGED build
    BY <1>3, AltersOnce DEF Alter
  <2>2. CASE UNCHANGED <<package, exposed>>
    BY <1>1, <2>1, <2>2 DEF Pack
  <2>3. CASE AlterPackage
    <3>1. PICK q \in Package :
            /\ package'[q].results \in Scores /\ package'[q].sums = package[q].sums
            /\ exposed \subseteq exposed'
            /\ \A o \in Package \ {q} : package'[o] = package[o]
      BY <2>3, PackageAltered
    <3>2. package'[p].sums = package[p].sums
      BY <3>1
    <3>3. package[p].results # <<>> => package'[p].results # <<>>
      BY <3>1, NotNothing
    <3> QED BY <1>1, <2>1, <3>1, <3>2, <3>3 DEF Pack
  <2> QED BY <1>3, <2>2, <2>3 DEF Alter, AlterContent
<1>4. ASSUME NEW q \in Package \ {p}, BuildStep(q)
      PROVE  Pack(p)'
  <2>1. build'[p] = build[p] /\ package'[p] = package[p] /\ UNCHANGED <<alterations, exposed>>
    BY <1>4, BuildKeeps DEF OnlyBuild, OnlyPackage
  <2> QED BY <1>1, <2>1 DEF Pack
<1>5. CASE BuildStep(p)
  <2>0. UNCHANGED <<alterations, exposed>>
    BY <1>5, BuildKeeps DEF OnlyBuild
  <2>1. CASE Begin(p)
    <3>1. package'[p].sums = <<>> /\ package'[p].results = <<>>
      BY <2>1, BuildEffects, NothingThere
    <3> QED BY <3>1 DEF Pack
  <2>2. CASE VerifyPins(p) \/ ScoreCorpus(p) \/ CompareTrees(p) \/ DigestInputs(p)
    <3>1. build[p].at \in BeforeWriting /\ UNCHANGED package
      BY <2>2, BuildEffects DEF BeforeWriting
    <3>2. package'[p].sums = <<>> /\ package'[p].results = <<>>
      BY <1>1, <3>1, NothingThere DEF Builder
    <3> QED BY <3>2 DEF Pack
  <2>3. CASE WriteResults(p)
    <3>1. /\ build[p].at = "digested" /\ package'[p].results = build[p].scores
          /\ package'[p].sums = package[p].sums
      BY <2>3, BuildEffects
    <3>2. package'[p].sums = <<>>
      BY <1>1, <3>1, NothingThere DEF Builder, BeforeWriting
    <3> QED BY <1>1, <2>0, <3>1, <3>2 DEF Builder, Pack, Building
  <2>4. CASE Validate(p)
    <3>1. /\ build[p].at = "written" /\ package'[p].results = package[p].results
          /\ package'[p].sums = package[p].sums
      BY <2>4, BuildEffects
    <3> QED BY <1>1, <2>0, <3>1 DEF Builder, Pack
  <2>5. CASE Sign(p)
    <3>1. /\ build[p].at = "validated" /\ build'[p].at = "idle"
          /\ package'[p].results = package[p].results /\ package'[p].sums = Contents(p)
      BY <2>5, BuildEffects DEF Holds
    <3>2. /\ Contents(p)[1] = package[p].results
          /\ Contents(p)[3] = package[p].verdict
      BY DEF Contents
    <3> QED BY <1>1, <2>0, <3>1, <3>2 DEF Builder, Pack, Building
  <2>6. CASE KillBuild(p)
    BY <1>1, <2>0, <2>6, BuildEffects DEF Pack, Holds
  <2> QED BY <1>5, <2>1, <2>2, <2>3, <2>4, <2>5, <2>6 DEF BuildStep
<1> QED BY <1>2, <1>3, <1>4, <1>5 DEF ChainStep

LEMMA BothPackages == "historical" \in Package /\ "successor" \in Package
BY DEF Package

LEMMA OneOfTwoStep ==
  ASSUME alterations' <= 1, PinnedInv, ChainStep
  PROVE  OneOfTwo'
<1> USE BothPackages DEF PinnedInv
<1>1. OneOfTwo
  OBVIOUS
<1>2. CASE AcceptFleet \/ Settle \/ Open \/ CheckCorpus \/ Compare
  BY <1>1, <1>2, OthersKeep DEF OneOfTwo, RawPinned
<1>3. CASE Alter
  <2>1. alterations = 0 /\ RawPinned /\ UNCHANGED build
    BY <1>3, AltersOnce DEF Alter
  <2>2. \A p \in Package : package[p].results # <<>> => AllFaithful(package[p].results)
    BY <2>1 DEF Pack, AllFaithful
  <2>3. CASE AlterContent
    BY <1>1, <2>1, <2>2, <2>3 DEF AlterContent, OneOfTwo
  <2>4. CASE AlterPackage
    <3>1. PICK q \in Package :
            /\ package[q].results # <<>>
            /\ package'[q].sums = package[q].sums
            /\ \A o \in Package \ {q} : package'[o] = package[o]
            /\ UNCHANGED content
      BY <2>4, PackageAltered
    <3>2. CASE q = "historical"
      <4>1. build["successor"].at \in Building => AllFaithful(build["successor"].scores)
        BY <2>1 DEF Builder, AllFaithful
      <4> QED BY <1>1, <2>1, <2>2, <3>1, <3>2, <4>1 DEF OneOfTwo, RawPinned
    <3>3. CASE q = "successor"
      BY <1>1, <2>1, <2>2, <3>1, <3>3 DEF OneOfTwo
    <3> QED BY <3>1, <3>2, <3>3 DEF Package
  <2> QED BY <1>3, <2>3, <2>4 DEF Alter
<1>4. CASE BuildStep("historical")
  <2>1. /\ build'["successor"] = build["successor"]
        /\ package'["successor"] = package["successor"]
    BY <1>4, BuildKeeps DEF OnlyBuild, OnlyPackage
  <2>2. package["historical"].sums = <<>>
    <3>1. CASE Begin("historical")
      BY <3>1, BuildEffects, NothingThere
    <3>2. CASE build["historical"].at # "idle"
      BY <3>2 DEF Pack
    <3> QED BY <1>4, <3>1, <3>2, BuildEffects DEF BuildStep, KillBuild
  <2> QED BY <1>1, <2>1, <2>2 DEF OneOfTwo, Building
<1>5. CASE BuildStep("successor")
  <2>0. /\ package'["historical"] = package["historical"] /\ UNCHANGED content
    BY <1>5, BuildKeeps DEF OnlyBuild, OnlyPackage
  <2>1. CASE Begin("successor")
    BY <1>1, <2>0, <2>1, BuildEffects DEF OneOfTwo, Holds, Building
  <2>2. CASE VerifyPins("successor")
    BY <1>1, <2>0, <2>2, BuildEffects DEF OneOfTwo, Holds, Building, PinsHold, RawPinned
  <2>3. CASE ScoreCorpus("successor")
    <3>1. PICK scores : /\ scores = [i \in Identity |-> score_run("successor", SourceTree(i), i)]
                        /\ Holds("successor", "scored", scores, build["successor"].alike)
      BY <2>3, BuildEffects
    <3>2. RawPinned => AllFaithful(scores)
      BY <3>1, CorpusFaithful DEF AllFaithful
    <3> QED BY <1>1, <2>0, <2>3, <3>1, <3>2, BuildEffects DEF OneOfTwo, Holds, Building
  <2>4. CASE CompareTrees("successor") \/ DigestInputs("successor")
    <3>1. /\ build["successor"].at \in Building /\ build'["successor"].at \in Building
          /\ build'["successor"].scores = build["successor"].scores /\ UNCHANGED package
      BY <2>4, BuildEffects DEF Holds, Building
    <3> QED BY <1>1, <3>1 DEF OneOfTwo, Building
  <2>5. CASE WriteResults("successor")
    BY <1>1, <2>0, <2>5, BuildEffects DEF OneOfTwo, Holds, Building
  <2>6. CASE Validate("successor")
    BY <1>1, <2>0, <2>6, BuildEffects DEF OneOfTwo, Holds, Building
  <2>7. CASE Sign("successor")
    BY <1>1, <2>0, <2>7, BuildEffects DEF OneOfTwo, Holds, Building
  <2>8. CASE KillBuild("successor")
    BY <1>1, <2>0, <2>8, BuildEffects DEF OneOfTwo, Holds, Building
  <2> QED BY <1>5, <2>1, <2>2, <2>3, <2>4, <2>5, <2>6, <2>7, <2>8 DEF BuildStep
<1> QED BY <1>2, <1>3, <1>4, <1>5 DEF ChainStep, Package

\* A result that is there stays there, and its builder does not change it any more.
LEMMA ResultsStay ==
  ASSUME PinnedInv, NEW p \in Package, NEW q \in Package, BuildStep(q),
         package[p].results # <<>>
  PROVE  package'[p].results = package[p].results
<1>1. CASE q # p
  BY <1>1, BuildKeeps DEF PinnedInv, OnlyPackage
<1>2. CASE q = p
  <2>1. ~WriteResults(p)
    BY BuildEffects, NothingThere DEF PinnedInv, Builder, BeforeWriting
  <2> QED BY <1>2, <2>1, BuildEffects DEF PinnedInv, BuildStep
<1> QED BY <1>1, <1>2

\* What the comparison of the packages lets pass.
LEMMA ComparedPackages ==
  ASSUME NEW before \in Scores, NEW after \in Scores, compare(before, after) = {}
  PROVE  \A i \in Identity : /\ before[i].plain = after[i].plain
                             /\ before[i].timed = after[i].timed
<1>1. DOMAIN before = Identity /\ DOMAIN after = Identity
  BY DEF Scores
<1>2. Finding("INVARIANCE",
        \/ DOMAIN before # DOMAIN after
        \/ \E cell \in DOMAIN before \cap DOMAIN after :
             \/ before[cell].plain # after[cell].plain
             \/ before[cell].timed # after[cell].timed) = {}
  BY DEF compare
<1>3. \A bad \in BOOLEAN : Finding("INVARIANCE", bad) = {} => ~bad
  BY DEF Finding
<1> QED BY <1>1, <1>2, <1>3

LEMMA JudgedStep ==
  ASSUME alterations' <= 1, PinnedInv, ChainStep
  PROVE  Judged'
<1> USE BothPackages DEF PinnedInv
<1>1. Judged
  OBVIOUS
<1>2. CASE AcceptFleet \/ Settle
  BY <1>1, <1>2 DEF AcceptFleet, Settle, Judged
<1>3. CASE Open
  BY <1>1, <1>3 DEF Open, Look, Judged
<1>4. CASE CheckCorpus
  BY <1>1, <1>4 DEF CheckCorpus, Look, Judged
<1>5. CASE Compare
  <2> DEFINE old == package["historical"].results
             new == package["successor"].results
  <2>1. PICK recounted :
          LET found == recounted \cup compare(old, new) IN
          Look("corpus", IF check.clean /\ found = {} THEN "CONFORMANT" ELSE "RED", found)
    BY <1>5 DEF Compare
  <2>2. /\ UNCHANGED <<package, settled>> /\ settled # {}
        /\ check'.at = "CONFORMANT" => compare(old, new) = {}
    BY <2>1 DEF Look
  <2>3. new \in Scores /\ new # <<>>
    BY <1>1, <2>2 DEF Judged, ChainTypes
  <2>4. old \in Scores /\ old # <<>>
    BY <2>3 DEF OneOfTwo, Pack, ChainTypes
  <2>5. compare(old, new) = {} => AllFaithful(new)
    <3>1. CASE AllFaithful(old)
      BY <2>3, <2>4, <3>1, ComparedPackages DEF AllFaithful, Faithful
    <3>2. CASE ~AllFaithful(old)
      BY <2>3, <2>4, <3>2 DEF OneOfTwo
    <3> QED BY <3>1, <3>2
  <2> QED BY <2>2, <2>3, <2>5 DEF Judged
<1>6. CASE Alter
  <2>1. UNCHANGED <<settled, check>> /\ check.at # "CONFORMANT"
    BY <1>6 DEF Alter
  <2>2. package["successor"].results # <<>> => package'["successor"].results # <<>>
    <3>1. CASE AlterContent
      BY <3>1 DEF AlterContent
    <3>2. CASE AlterPackage
      BY <3>2, PackageAltered, NotNothing
    <3> QED BY <1>6, <3>1, <3>2 DEF Alter
  <2> QED BY <1>1, <2>1, <2>2 DEF Judged
<1>7. ASSUME NEW p \in Package, BuildStep(p)
      PROVE  Judged'
  <2>1. UNCHANGED <<settled, check>>
    BY <1>7, BuildKeeps DEF OnlyBuild
  <2>2. package["successor"].results # <<>> =>
          package'["successor"].results = package["successor"].results
    BY <1>7, ResultsStay
  <2> QED BY <1>1, <2>1, <2>2 DEF Judged
<1> QED BY <1>2, <1>3, <1>4, <1>5, <1>6, <1>7 DEF ChainStep

LEMMA PinnedInit == ChainInit => PinnedInv
<1> SUFFICES ASSUME ChainInit PROVE PinnedInv
  OBVIOUS
<1>1. \A p \in Package : build[p] = NoBuild /\ package[p] = Absent
  BY DEF ChainInit
<1>2. /\ NoBuild.at = "idle" /\ NoBuild.scores = <<>>
      /\ DOMAIN NoBuild = {"at", "scores", "alike", "inputs"}
      /\ DOMAIN Absent = {"results", "inputs", "verdict", "sums"}
      /\ Absent.results = <<>> /\ Absent.sums = <<>>
  BY DEF NoBuild, Absent
<1>3. ChainTypes
  BY <1>1, <1>2 DEF ChainInit, ChainTypes
<1>4. OneOdd
  BY DEF ChainInit, OneOdd, RawPinned
<1>5. OneOfTwo /\ Judged
  BY <1>1, <1>2, BothPackages DEF ChainInit, OneOfTwo, Judged, Building
<1>6. \A p \in Package : Builder(p) /\ Pack(p)
  BY <1>1, <1>2 DEF Builder, Pack, Building, BeforeWriting
<1> QED BY <1>3, <1>4, <1>5, <1>6 DEF PinnedInv

LEMMA PinnedStep ==
  alterations' <= 1 /\ PinnedInv /\ [ChainNext]_<<vars, chainVars>> => PinnedInv'
<1> SUFFICES ASSUME alterations' <= 1, PinnedInv, [ChainNext]_<<vars, chainVars>>
             PROVE  PinnedInv'
  OBVIOUS
<1>1. CASE UNCHANGED chainVars
  BY <1>1 DEF chainVars, PinnedInv, ChainTypes, OneOdd, OneOfTwo, Judged, Builder, Pack,
              RawPinned, PairPinned
<1>2. CASE ChainStep
  BY <1>2, ChainTypesStep, OneOddStep, OneOfTwoStep, JudgedStep, BuilderStep, PackStep
     DEF PinnedInv
<1> QED BY <1>1, <1>2 DEF ChainNext, ChainStep

LEMMA PinnedImplies == PinnedInv => PublishedIsPinned
<1> SUFFICES ASSUME PinnedInv PROVE PublishedIsPinned
  OBVIOUS
<1>1. ASSUME NEW p \in Package \ exposed, Signed(p)
      PROVE  /\ \A i \in Identity : Scored(p, package[p].results[i])
             /\ package[p].verdict = "GREEN" => \A r \in Run : Faithful(package[p].results[r])
  <2>1. package[p].sums # <<>> /\ package[p].sums[1] = package[p].results
        /\ package[p].sums[3] = package[p].verdict
    BY <1>1 DEF Signed, Contents
  <2> QED BY <2>1 DEF PinnedInv, Pack
<1>2. ASSUME NEW p \in Package \ exposed, Signed(p), package[p].verdict = "GREEN",
             NEW r \in Run
      PROVE  /\ package[p].results[r].plain = "pinned"
             /\ package[p].results[r].timed = "pinned"
             /\ package[p].results[r].random \in {"none", "pinned"}
  BY <1>1, <1>2, FilesOfRuns DEF Scored, Faithful
<1>3. ASSUME check.at = "CONFORMANT", NEW i \in Identity
      PROVE  /\ package["successor"].results[i].plain = "pinned"
             /\ package["successor"].results[i].timed = "pinned"
             /\ Signed("successor") /\ "successor" \notin exposed =>
                  package["successor"].results[i].random = "pinned"
  <2>1. Faithful(package["successor"].results[i])
    BY <1>3 DEF PinnedInv, Judged, AllFaithful
  <2> QED BY <1>1, <2>1, BothPackages DEF Scored, Faithful
<1> QED BY <1>2, <1>3 DEF PublishedIsPinned

\* A second alteration that agrees with the first can undo all of it.
Altered == alterations \in Nat /\ (alterations <= 1 => PinnedInv)

LEMMA AlteredStep == Altered /\ [ChainNext]_<<vars, chainVars>> => Altered'
<1> SUFFICES ASSUME Altered, [ChainNext]_<<vars, chainVars>> PROVE Altered'
  OBVIOUS
<1>1. CASE UNCHANGED chainVars
  BY <1>1, PinnedStep DEF Altered, chainVars
<1>2. CASE ChainStep
  <2>1. alterations' \in {alterations, alterations + 1}
    BY <1>2, Counts
  <2> QED BY <2>1, PinnedStep DEF Altered
<1> QED BY <1>1, <1>2 DEF ChainNext, ChainStep

\* However many runs the plan has, as long as no more than one file of the trees, of the
\* scorers or of the packages was altered, at whatever moment: a successor found
\* conformant has the true values of every score that the repair does not touch, and a
\* GREEN package that carries its digests those of the runs that were simulated again,
\* unless the alteration was of its own results before they were signed.
THEOREM PublishedTheorem == ChainSpec => [](alterations <= 1 => PublishedIsPinned)
<1>1. ChainInit => Altered
  BY PinnedInit DEF Altered, ChainInit
<1>2. Altered => (alterations <= 1 => PublishedIsPinned)
  BY PinnedImplies DEF Altered
<1> QED BY <1>1, <1>2, AlteredStep, PTL DEF ChainSpec

-----------------------------------------------------------------------------
(* The suite of the repair, on roots whose files may have been altered any *)
(* number of times                                                         *)

Content == {"pinned", "altered", "alarms"}
Inputs == [Identity -> [Input -> Content \cup {"other"}]]

\* A package with results has the digests of its inputs, and one that was signed has results.
Written(p) ==
  /\ build[p].at \in BeforeWriting => package[p].results = <<>>
  /\ build[p].at \in Building => build[p].scores # <<>>
  /\ build[p].at = "digested" => build[p].inputs \in Inputs
  /\ build[p].at \in {"written", "validated"} => package[p].results # <<>>
  /\ package[p].sums # <<>> => package[p].results # <<>>
  /\ package[p].results # <<>> => package[p].inputs \in Inputs

\* What was settled is a settlement over the executables as they once were.
Paths == {"tools/p4_checks.py", "scoring/rndjoin.py"}
SettledAs(file) ==
  \E version \in Content, inventory \in [Paths -> Content] :
     file = [object |-> settlement(Sha256("repaired_scorer", version), inventory,
                                   Cardinality(Identity))]

Complete ==
  /\ settled # {} => \A p \in Package : package[p].results # <<>>
  /\ \A file \in settled : SettledAs(file)
  /\ check.at = "CONFORMANT" =>
       /\ settled # {}
       /\ \A i \in Identity : package["successor"].results[i].alarms = "pinned"

SuiteInv ==
  /\ ChainTypes
  /\ \A f \in DOMAIN content : content[f] \in Content
  /\ \A p \in Package : Written(p)
  /\ Complete

LEMMA InputsBuilt ==
  ASSUME ChainTypes, NEW p \in Package
  PROVE  /\ DigestInputs(p) => build'[p].inputs = Digests
         /\ WriteResults(p) => package'[p].inputs = build[p].inputs
         /\ Validate(p) \/ Sign(p) => package'[p].inputs = package[p].inputs
<1>1. DigestInputs(p) => build'[p].inputs = Digests
  BY DEF DigestInputs, Advance, ChainTypes
<1>2. WriteResults(p) => package'[p].inputs = build[p].inputs
  BY DEF WriteResults, ChainTypes
<1>3. Validate(p) => package'[p].inputs = package[p].inputs
  BY DEF Validate, ChainTypes
<1>4. Sign(p) => package'[p].inputs = package[p].inputs
  BY DEF Sign, ChainTypes
<1> QED BY <1>1, <1>2, <1>3, <1>4

LEMMA DigestsAreInputs ==
  ASSUME ChainTypes, \A f \in DOMAIN content : content[f] \in Content
  PROVE  Digests \in Inputs
BY FilesOfRuns DEF Digests, Inputs, ChainTypes

LEMMA InputsAltered ==
  ASSUME ChainTypes, AlterPackage, NEW p \in Package,
         package[p].results # <<>> => package[p].inputs \in Inputs
  PROVE  package[p].results # <<>> => package'[p].inputs \in Inputs
<1> SUFFICES ASSUME package[p].results # <<>> PROVE package'[p].inputs \in Inputs
  OBVIOUS
<1>1. PICK q \in Package, i \in Identity :
        \/ \E arm \in {"plain", "timed", "random", "alarms"} :
             package' = [package EXCEPT ![q].results[i][arm] = "other"]
        \/ \E s \in Input : package' = [package EXCEPT ![q].inputs[i][s] = "other"]
  BY DEF AlterPackage
<1>2. CASE \E arm \in {"plain", "timed", "random", "alarms"} :
             package' = [package EXCEPT ![q].results[i][arm] = "other"]
  <2>1. package'[p].inputs = package[p].inputs
    BY <1>2 DEF ChainTypes
  <2> QED BY <2>1
<1>3. ASSUME NEW s \in Input, package' = [package EXCEPT ![q].inputs[i][s] = "other"]
      PROVE  package'[p].inputs \in Inputs
  <2>1. CASE p # q
    BY <1>3, <2>1 DEF ChainTypes
  <2>2. CASE p = q
    <3>1. package'[p].inputs = [package[p].inputs EXCEPT ![i][s] = "other"]
      BY <1>3, <2>2 DEF ChainTypes
    <3> QED BY <3>1 DEF Inputs
  <2> QED BY <2>1, <2>2
<1> QED BY <1>1, <1>2, <1>3

LEMMA WrittenStep ==
  ASSUME SuiteInv, ChainStep, NEW p \in Package
  PROVE  Written(p)'
<1> USE DEF SuiteInv
<1>1. CASE AcceptFleet \/ Settle \/ Open \/ CheckCorpus \/ Compare
  BY <1>1, OthersKeep DEF Written
<1>2. CASE Alter
  <2>1. UNCHANGED build
    BY <1>2 DEF Alter
  <2>2. CASE AlterContent
    BY <2>1, <2>2 DEF AlterContent, Written
  <2>3. CASE AlterPackage
    <3>1. PICK q \in Package :
            /\ package[q].results # <<>>
            /\ package'[q].results \in Scores /\ package'[q].sums = package[q].sums
            /\ \A x \in Package \ {q} : package'[x] = package[x]
      BY <2>3, PackageAltered
    <3>2. package[p].results # <<>> => package'[p].inputs \in Inputs
      BY <2>3, InputsAltered DEF Written
    <3>3. CASE p # q
      BY <2>1, <3>1, <3>3 DEF Written
    <3>4. CASE p = q
      BY <2>1, <3>1, <3>2, <3>4, NotNothing DEF Written, BeforeWriting, Building
    <3> QED BY <3>3, <3>4
  <2> QED BY <1>2, <2>2, <2>3 DEF Alter
<1>3. ASSUME NEW q \in Package, BuildStep(q), q # p
      PROVE  Written(p)'
  BY <1>3, BuildKeeps DEF Written, OnlyBuild, OnlyPackage
<1>4. ASSUME BuildStep(p)
      PROVE  Written(p)'
  <2> USE BuildEffects DEF Holds, Written
  <2>1. CASE Begin(p)
    BY <2>1, NothingThere DEF Building
  <2>2. CASE VerifyPins(p)
    BY <2>2 DEF Building, BeforeWriting
  <2>3. CASE ScoreCorpus(p)
    BY <2>3, CorpusScores, NotNothing DEF Building, BeforeWriting
  <2>4. CASE CompareTrees(p)
    BY <2>4 DEF Building, BeforeWriting
  <2>5. CASE DigestInputs(p)
    BY <2>5, InputsBuilt, DigestsAreInputs DEF Building, BeforeWriting
  <2>6. CASE WriteResults(p)
    BY <2>6, InputsBuilt DEF Building, BeforeWriting
  <2>7. CASE Validate(p)
    BY <2>7, InputsBuilt DEF Building, BeforeWriting
  <2>8. CASE Sign(p)
    BY <2>8, InputsBuilt DEF Building, BeforeWriting
  <2>9. CASE KillBuild(p)
    BY <2>9 DEF Building, BeforeWriting
  <2> QED BY <1>4, <2>1, <2>2, <2>3, <2>4, <2>5, <2>6, <2>7, <2>8, <2>9 DEF BuildStep
<1> QED BY <1>1, <1>2, <1>3, <1>4 DEF ChainStep

LEMMA ExecutablesScanned ==
  ASSUME ChainTypes, \A f \in DOMAIN content : content[f] \in Content
  PROVE  /\ DOMAIN Executables = Paths /\ DOMAIN scan(Executables) = Paths
         /\ \A path \in Paths : /\ Executables[path] \in Content
                               /\ scan(Executables)[path] = Executables[path]
         /\ scan(Executables) \in [Paths -> Content]
         /\ content[Scorer("successor")] \in Content
<1>1. content[Scorer("successor")] \in Content
  BY BothPackages DEF ChainTypes
<1>2. \A path \in Paths : ~IsBytecode(path)
  BY DEF Paths, IsBytecode
<1>3. DOMAIN Executables = Paths /\ \A path \in Paths : Executables[path] \in Content
  BY <1>1 DEF Executables, Paths, Content
<1>4. {path \in DOMAIN Executables : ~IsBytecode(path)} = Paths
  BY <1>2, <1>3
<1>5. scan(Executables) = [path \in Paths |-> Executables[path]]
  BY <1>4 DEF scan
<1> QED BY <1>1, <1>3, <1>5

\* What the guards of the comparison leave of the alarms.
LEMMA AnchorsHold ==
  ASSUME NEW before, NEW after \in Scores, compare(before, after) = {}
  PROVE  \A i \in Identity : after[i].alarms = "pinned"
<1>1. Finding("ANCHOR", \E cell \in DOMAIN after : after[cell].alarms # "pinned") = {}
  BY DEF compare, check_plan_anchors
<1>2. \A bad \in BOOLEAN : Finding("ANCHOR", bad) = {} => ~bad
  BY DEF Finding
<1>3. ~(\E cell \in DOMAIN after : after[cell].alarms # "pinned")
  BY <1>1, <1>2
<1> QED BY <1>3 DEF Scores

LEMMA CompleteStep ==
  ASSUME SuiteInv, ChainStep
  PROVE  Complete'
<1> USE BothPackages DEF SuiteInv
<1>1. CASE AcceptFleet
  BY <1>1 DEF AcceptFleet, Complete, SettledAs
<1>2. CASE Settle
  <2>1. settled' = {[object |-> settlement(LiveScorer, scan(Executables), Cardinality(Identity))]}
    BY <1>2 DEF Settle, Holding
  <2>2. \A file \in settled' : SettledAs(file)
    BY <2>1, ExecutablesScanned DEF SettledAs, LiveScorer
  <2>3. settled = {} /\ UNCHANGED <<package, check>>
        /\ package["successor"].results # <<>> /\ package["historical"].results # <<>>
    BY <1>2 DEF Settle, Written
  <2> QED BY <2>1, <2>2, <2>3 DEF Complete, Package, SettledAs
<1>3. CASE Open
  BY <1>3 DEF Open, Look, Complete, SettledAs
<1>4. CASE CheckCorpus
  BY <1>4 DEF CheckCorpus, Look, Complete, SettledAs
<1>5. CASE Compare
  <2> DEFINE old == package["historical"].results
             new == package["successor"].results
  <2>1. PICK recounted :
          LET found == recounted \cup compare(old, new) IN
          Look("corpus", IF check.clean /\ found = {} THEN "CONFORMANT" ELSE "RED", found)
    BY <1>5 DEF Compare
  <2>2. /\ UNCHANGED <<package, settled>> /\ settled # {}
        /\ check'.at = "CONFORMANT" => compare(old, new) = {}
    BY <2>1 DEF Look
  <2>3. new \in Scores
    BY <2>2 DEF Complete, ChainTypes
  <2> HIDE DEF old, new
  <2>4. compare(old, new) = {} => \A i \in Identity : new[i].alarms = "pinned"
    BY <2>3, AnchorsHold
  <2> QED BY <2>2, <2>4 DEF Complete, SettledAs, new
<1>6. CASE Alter
  <2>1. UNCHANGED <<settled, check>> /\ check.at # "CONFORMANT"
    BY <1>6 DEF Alter
  <2>2. ASSUME NEW p \in Package, package[p].results # <<>>
        PROVE  package'[p].results # <<>>
    <3>1. CASE AlterContent
      BY <2>2, <3>1 DEF AlterContent
    <3>2. CASE AlterPackage
      BY <2>2, <3>2, PackageAltered, NotNothing
    <3> QED BY <1>6, <3>1, <3>2 DEF Alter
  <2> QED BY <2>1, <2>2 DEF Complete, SettledAs
<1>7. ASSUME NEW q \in Package, BuildStep(q)
      PROVE  Complete'
  <2>1. UNCHANGED <<settled, check>>
    BY <1>7, BuildKeeps DEF OnlyBuild
  <2>2. ASSUME NEW p \in Package, package[p].results # <<>>
        PROVE  package'[p].results = package[p].results
    <3>1. CASE q # p
      BY <1>7, <2>2, <3>1, BuildKeeps DEF OnlyPackage
    <3>2. CASE q = p
      <4>1. ~WriteResults(p)
        BY <2>2, BuildEffects DEF Written, BeforeWriting
      <4> QED BY <1>7, <2>2, <3>2, <4>1, BuildEffects DEF BuildStep
    <3> QED BY <3>1, <3>2
  <2> QED BY <2>1, <2>2 DEF Complete, SettledAs
<1> QED BY <1>1, <1>2, <1>3, <1>4, <1>5, <1>6, <1>7 DEF ChainStep

LEMMA ContentStep ==
  ASSUME SuiteInv, ChainStep
  PROVE  \A f \in DOMAIN content' : content'[f] \in Content
<1> USE DEF SuiteInv
<1>1. CASE AcceptFleet \/ Settle \/ Open \/ CheckCorpus \/ Compare
  BY <1>1, OthersKeep
<1>2. CASE Alter
  BY <1>2 DEF Alter, AlterContent, AlterPackage, Content
<1>3. ASSUME NEW p \in Package, BuildStep(p)
      PROVE  content' = content
  BY <1>3, BuildKeeps DEF OnlyBuild
<1> QED BY <1>1, <1>2, <1>3 DEF ChainStep

LEMMA SuiteInit == ChainInit => SuiteInv
<1> SUFFICES ASSUME ChainInit PROVE SuiteInv
  OBVIOUS
<1>1. ChainTypes
  BY PinnedInit DEF PinnedInv
<1>2. \A p \in Package : build[p] = NoBuild /\ package[p] = Absent
  BY DEF ChainInit
<1>3. \A p \in Package : Written(p)
  BY <1>2, NothingThere DEF NoBuild, Written, BeforeWriting, Building
<1>4. \A f \in DOMAIN content : content[f] \in Content
  BY DEF ChainInit, Content
<1>5. Complete
  BY DEF ChainInit, Complete
<1> QED BY <1>1, <1>3, <1>4, <1>5 DEF SuiteInv

LEMMA SuiteStep == SuiteInv /\ [ChainNext]_<<vars, chainVars>> => SuiteInv'
<1> SUFFICES ASSUME SuiteInv, [ChainNext]_<<vars, chainVars>> PROVE SuiteInv'
  OBVIOUS
<1>1. CASE UNCHANGED chainVars
  BY <1>1 DEF chainVars, SuiteInv, ChainTypes, Written, Complete, SettledAs
<1>2. CASE ChainStep
  <2>1. ChainTypes'
    BY <1>2, ChainTypesStep DEF SuiteInv
  <2>2. \A p \in Package : Written(p)'
    BY <1>2, WrittenStep
  <2> QED BY <1>2, <2>1, <2>2, ContentStep, CompleteStep DEF SuiteInv
<1> QED BY <1>1, <1>2 DEF ChainNext, ChainStep

\* The damages of the two packages, each with the guard that refuses it.
LEMMA PackagesRefused ==
  ASSUME SuiteInv, check.at = "CONFORMANT"
  PROVE  /\ "INVARIANCE" \in mut_non_random_estimand_moved
         /\ "REPAIR-EFFECT" \in mut_repair_did_not_reach_output
         /\ "ANCHOR" \in mut_anchor_mismatch
         /\ "CORPUS-IDENTITY" \in mut_corpus_substituted
         /\ "HISTORICAL-IMMUTABLE" \in mut_historical_package_changed
<1> USE BothPackages, FilesOfRuns
<1>1. Before \in Scores /\ After \in Scores
  BY DEF SuiteInv, Complete, ChainTypes, Before, After
<1>2. DOMAIN Before = Identity /\ DOMAIN After = Identity
      /\ \A i \in Identity : Before[i] \in Score /\ After[i] \in Score
  BY <1>1 DEF Scores
<1>3. "INVARIANCE" \in mut_non_random_estimand_moved
  <2> DEFINE moved == [After EXCEPT ![0].plain = "-1.0"]
  <2>1. 0 \in DOMAIN Before \cap DOMAIN moved /\ Before[0].plain # moved[0].plain
    BY <1>2 DEF Score, Value
  <2>2. mut_non_random_estimand_moved = compare(Before, moved)
    BY DEF mut_non_random_estimand_moved
  <2> HIDE DEF moved
  <2>3. "INVARIANCE" \in compare(Before, moved)
    BY <2>1 DEF compare, Finding
  <2> QED BY <2>2, <2>3
<1>4. "REPAIR-EFFECT" \in mut_repair_did_not_reach_output
  <2> DEFINE unreached == [i \in DOMAIN After |-> [Before[i] EXCEPT !.plain = After[i].plain]]
  <2>1. 0 \in DOMAIN Before \cap DOMAIN unreached
        /\ JoinFed(Before[0]) = JoinFed(unreached[0]) /\ unreached[0].random # "undefined"
    BY <1>2 DEF Score, Value, JoinFed
  <2>2. mut_repair_did_not_reach_output = compare(Before, unreached)
    BY DEF mut_repair_did_not_reach_output
  <2> HIDE DEF unreached
  <2>3. "REPAIR-EFFECT" \in compare(Before, unreached)
    BY <2>1 DEF compare, Finding
  <2> QED BY <2>2, <2>3
<1>5. "ANCHOR" \in mut_anchor_mismatch
  <2> DEFINE more == [i \in DOMAIN After |-> [After[i] EXCEPT !.alarms = OneMore(@)]]
  <2>1. After[0].alarms = "pinned"
    BY DEF SuiteInv, Complete, After
  <2>2. 0 \in DOMAIN more /\ more[0].alarms # "pinned"
    BY <1>2, <2>1 DEF Score, OneMore
  <2>3. mut_anchor_mismatch = compare(Before, more)
    BY DEF mut_anchor_mismatch
  <2> HIDE DEF more
  <2>4. "ANCHOR" \in compare(Before, more)
    BY <2>2 DEF compare, check_plan_anchors, Finding
  <2> QED BY <2>3, <2>4
<1>6. "CORPUS-IDENTITY" \in mut_corpus_substituted
  <2> DEFINE other == [package["historical"].inputs EXCEPT ![0]["events"] = "ffff"]
  <2>1. package["historical"].inputs \in Inputs /\ "events" \in Input
    BY DEF SuiteInv, Complete, Written, Input
  <2>2. 0 \in DOMAIN other /\ other[0]["events"] = "ffff"
    BY <2>1 DEF Inputs
  <2>3. content[<<SourceTree(0), 0, "events">>] # "ffff"
    BY <2>1 DEF SuiteInv, ChainTypes, Content
  <2>4. mut_corpus_substituted = check_corpus_identity(other)
    BY DEF mut_corpus_substituted
  <2> HIDE DEF other
  <2>5. "events" \in verify_run_inputs(0, other[0])
    BY <2>1, <2>2, <2>3 DEF verify_run_inputs
  <2>6. "CORPUS-IDENTITY" \in check_corpus_identity(other)
    BY <2>2, <2>5 DEF check_corpus_identity, Finding
  <2> QED BY <2>4, <2>6
<1>7. "HISTORICAL-IMMUTABLE" \in mut_historical_package_changed
  <2> DEFINE changed == [historical EXCEPT ![1] = <<>>]
  <2>1. package["historical"].results # <<>>
    BY DEF SuiteInv, Complete
  <2>2. changed # Contents("historical")
    BY <2>1 DEF historical, Contents
  <2>3. mut_historical_package_changed = check_historical_untouched(changed)
    BY DEF mut_historical_package_changed
  <2> HIDE DEF changed
  <2>4. "HISTORICAL-IMMUTABLE" \in check_historical_untouched(changed)
    BY <2>2 DEF check_historical_untouched, Finding
  <2> QED BY <2>3, <2>4
<1> QED BY <1>3, <1>4, <1>5, <1>6, <1>7

LEMMA ExecutablesRefused ==
  ASSUME SuiteInv
  PROVE  /\ "WRAPPER-EXECUTABLE-IDENTITY" \in idn_scorer_edited
         /\ "WRAPPER-EXECUTABLE-IDENTITY" \in idn_bytecode
         /\ "WRAPPER-EXECUTABLE-IDENTITY" \in idn_inventory_not_settled
<1>1. /\ DOMAIN Executables = Paths /\ DOMAIN scan(Executables) = Paths
      /\ \A path \in Paths : /\ Executables[path] \in Content
                            /\ scan(Executables)[path] = Executables[path]
  BY ExecutablesScanned DEF SuiteInv
<1>2. "scoring/rndjoin.py" \in Paths /\ ~IsBytecode("scoring/rndjoin.py")
  BY DEF Paths, IsBytecode
<1>3. "WRAPPER-EXECUTABLE-IDENTITY" \in idn_scorer_edited
  <2> DEFINE edited == [Executables EXCEPT !["scoring/rndjoin.py"] = "edited"]
  <2>1. DOMAIN edited = Paths /\ edited["scoring/rndjoin.py"] = "edited"
    BY <1>1, <1>2
  <2>2. idn_scorer_edited = verify(edited, StageInventory, StageInventory)
    BY DEF idn_scorer_edited
  <2> HIDE DEF edited
  <2>3. scan(edited)["scoring/rndjoin.py"] = "edited"
    BY <1>2, <2>1 DEF scan
  <2>4. scan(Executables)["scoring/rndjoin.py"] # "edited"
    BY <1>1, <1>2 DEF Content
  <2>5. StageInventory # {scan(edited)}
    BY <2>3, <2>4 DEF StageInventory
  <2>6. "WRAPPER-EXECUTABLE-IDENTITY" \in verify(edited, StageInventory, StageInventory)
    BY <2>5 DEF verify, Finding
  <2> QED BY <2>2, <2>6
<1>4. "WRAPPER-EXECUTABLE-IDENTITY" \in idn_bytecode
  <2> DEFINE files == Added(Executables, "scoring/rndjoin.pyc", "zeros")
  <2>1. "scoring/rndjoin.pyc" \in DOMAIN files /\ IsBytecode("scoring/rndjoin.pyc")
    BY DEF Added, IsBytecode
  <2>2. idn_bytecode = verify(files, StageInventory, StageInventory)
    BY DEF idn_bytecode
  <2> HIDE DEF files
  <2>3. "WRAPPER-EXECUTABLE-IDENTITY" \in verify(files, StageInventory, StageInventory)
    BY <2>1 DEF verify, Finding
  <2> QED BY <2>2, <2>3
<1>5. "WRAPPER-EXECUTABLE-IDENTITY" \in idn_inventory_not_settled
  <2> DEFINE zeros == Sha256("zeros", "zeros").sha256
  <2>1. DOMAIN zeros = {"zeros"} /\ "zeros" \notin Paths
    BY DEF Sha256, Paths
  <2>2. idn_inventory_not_settled = verify(Executables, StageInventory, {zeros})
    BY DEF idn_inventory_not_settled
  <2> HIDE DEF zeros
  <2>3. StageInventory # {zeros}
    BY <1>1, <2>1 DEF StageInventory
  <2>4. "WRAPPER-EXECUTABLE-IDENTITY" \in verify(Executables, StageInventory, {zeros})
    BY <2>3 DEF verify, Finding
  <2> QED BY <2>2, <2>4
<1> QED BY <1>3, <1>4, <1>5

LEMMA Digested ==
  /\ \A what, version : IsDigest(Sha256(what, version))
  /\ \A bytes : IsDigest([sha256 |-> bytes])
  /\ \A value : ~IsDigest(Plain(value))
  /\ \A w1, v1, w2, v2 : Sha256(w1, v1) = Sha256(w2, v2) => w1 = w2 /\ v1 = v2
<1>1. \A what, version : IsDigest(Sha256(what, version))
  BY DEF IsDigest, Sha256
<1>2. \A bytes : IsDigest([sha256 |-> bytes])
  BY DEF IsDigest
<1>3. \A value : ~IsDigest(Plain(value))
  BY DEF IsDigest, Plain
<1>4. ASSUME NEW w1, NEW v1, NEW w2, NEW v2, Sha256(w1, v1) = Sha256(w2, v2)
      PROVE  w1 = w2 /\ v1 = v2
  <2> DEFINE f == [w \in {w1} |-> v1]
             g == [w \in {w2} |-> v2]
  <2>1. f = g
    <3>1. Sha256(w1, v1).sha256 = f /\ Sha256(w2, v2).sha256 = g
      BY DEF Sha256
    <3> QED BY <1>4, <3>1
  <2>2. DOMAIN f = {w1} /\ DOMAIN g = {w2} /\ f[w1] = v1 /\ g[w2] = v2
    OBVIOUS
  <2> HIDE DEF f, g
  <2> QED BY <2>1, <2>2
<1> QED BY <1>1, <1>2, <1>3, <1>4

\* What a settlement has, whatever scorer, inventory and plan it was made over.
Shape(payload, version, inventory, runs) ==
  /\ DOMAIN payload = CLOSED_KEY_SET
  /\ payload["schema"] = Plain("schema")
  /\ \A key \in AUTHORITY : payload[key] = EXPECT(key)
  /\ \A key \in DIGEST_BINDINGS : IsDigest(payload[key])
  /\ payload["repaired_scorer"] = Sha256("repaired_scorer", version)
  /\ payload["wrapper_executable_inventory"] = [sha256 |-> inventory]
  /\ payload["expected_run_count"] = Plain(runs)
  /\ payload["successor_canonical_paths"] = Plain(<<"successor">>)

LEMMA SettlementShape ==
  ASSUME NEW version, NEW inventory, NEW runs
  PROVE  Shape(settlement(Sha256("repaired_scorer", version), inventory, runs),
               version, inventory, runs)
<1> DEFINE payload == settlement(Sha256("repaired_scorer", version), inventory, runs)
<1>1. DOMAIN payload = CLOSED_KEY_SET
  BY DEF settlement
<1>2. payload["schema"] = Plain("schema")
  BY DEF settlement, CLOSED_KEY_SET, DIGEST_BINDINGS, AUTHORITY
<1>3. \A key \in AUTHORITY : payload[key] = EXPECT(key)
  BY DEF settlement, CLOSED_KEY_SET, DIGEST_BINDINGS, AUTHORITY
<1>4. payload["repaired_scorer"] = Sha256("repaired_scorer", version)
  BY DEF settlement, CLOSED_KEY_SET, DIGEST_BINDINGS, AUTHORITY
<1>5. payload["wrapper_executable_inventory"] = [sha256 |-> inventory]
  BY DEF settlement, CLOSED_KEY_SET, DIGEST_BINDINGS, AUTHORITY
<1>6. payload["expected_run_count"] = Plain(runs)
  BY DEF settlement, CLOSED_KEY_SET, DIGEST_BINDINGS, AUTHORITY
<1>7. payload["successor_canonical_paths"] = Plain(<<"successor">>)
  BY DEF settlement, CLOSED_KEY_SET, DIGEST_BINDINGS, AUTHORITY
<1>8. \A key \in {"expected_manifest", "phase4_contract"} : payload[key] = Sha256(key, "live")
  BY DEF settlement, CLOSED_KEY_SET, DIGEST_BINDINGS, AUTHORITY
<1> HIDE DEF payload
<1>9. \A key \in DIGEST_BINDINGS : IsDigest(payload[key])
  <2>1. ASSUME NEW key \in AUTHORITY PROVE IsDigest(payload[key])
    BY <1>3, Digested DEF EXPECT
  <2>2. IsDigest(payload["repaired_scorer"])
    BY <1>4, Digested
  <2>3. IsDigest(payload["wrapper_executable_inventory"])
    BY <1>5, Digested
  <2>4. \A key \in {"expected_manifest", "phase4_contract"} : IsDigest(payload[key])
    BY <1>8, Digested
  <2> QED BY <2>1, <2>2, <2>3, <2>4 DEF DIGEST_BINDINGS
<1> QED BY <1>1, <1>2, <1>3, <1>4, <1>5, <1>6, <1>7, <1>9 DEF Shape, payload

\* What load says of a file that is pinned as it is.
LEMMA LoadedIsBound ==
  ASSUME NEW payload
  PROVE  LoadedAs(payload) = Bound(payload, LiveScorer)
<1>1. \A f \in Holding(payload) : "object" \in DOMAIN f /\ f.object = payload
  BY DEF Holding
<1>2. Holding(payload) # {}
  BY DEF Holding
<1>3. Holding(payload) = {[object |-> payload]}
  BY DEF Holding
<1>4. UNION {IF "object" \in DOMAIN f THEN Bound(f.object, LiveScorer)
             ELSE {"SETTLEMENT-MALFORMED"} : f \in Holding(payload)} = Bound(payload, LiveScorer)
  BY <1>1, <1>3
<1> QED BY <1>2, <1>4 DEF LoadedAs, Loaded, load

\* The damages of the settlement, each with the guard that refuses it.
LEMMA SettlementsRefused ==
  /\ "SETTLEMENT-PIN" \in set_no_pin
  /\ "SETTLEMENT-PIN" \in set_wrong_pin
  /\ "SETTLEMENT-PRESENT" \in set_absent
  /\ "SETTLEMENT-MALFORMED" \in set_array_root
  /\ "SETTLEMENT-MALFORMED" \in set_short_digest
  /\ "SETTLEMENT-KEYS" \in set_extra_key
  /\ "SETTLEMENT-BINDING" \in set_seal_binding
  /\ "SCORER-IDENTITY" \in set_scorer_not_repaired
  /\ "MEMBERSHIP-SINGLE" \in set_two_members
<1> DEFINE object == Resettled
           version == content[Scorer("successor")]
           inventory == scan(Executables)
           runs == Cardinality(Identity)
<1>0. /\ object = settlement(Sha256("repaired_scorer", version), inventory, runs)
      /\ LiveScorer = Sha256("repaired_scorer", version)
  BY DEF Resettled, LiveScorer
<1> HIDE DEF object, version, inventory, runs
<1>1. /\ DOMAIN object = CLOSED_KEY_SET
      /\ object["schema"] = Plain("schema")
      /\ \A key \in AUTHORITY : object[key] = EXPECT(key)
      /\ \A key \in DIGEST_BINDINGS : IsDigest(object[key])
      /\ object["repaired_scorer"] = LiveScorer
      /\ object["successor_canonical_paths"] = Plain(<<"successor">>)
  <2>1. Shape(object, version, inventory, runs)
    BY <1>0, SettlementShape
  <2> QED BY <1>0, <2>1 DEF Shape
<1>2. /\ AUTHORITY \subseteq DIGEST_BINDINGS /\ DIGEST_BINDINGS \subseteq CLOSED_KEY_SET
      /\ "old_raw_tree" \in AUTHORITY /\ "historical_seal" \in AUTHORITY
      /\ "pre_repair_scorer" \in AUTHORITY /\ "repaired_scorer" \in DIGEST_BINDINGS \ AUTHORITY
      /\ "schema" \in CLOSED_KEY_SET \ DIGEST_BINDINGS
      /\ "successor_canonical_paths" \in CLOSED_KEY_SET \ DIGEST_BINDINGS
      /\ "convenience_override" \notin CLOSED_KEY_SET
      /\ "schema" # "successor_canonical_paths"
      /\ "historical_seal" # "old_raw_tree" /\ "pre_repair_scorer" # "repaired_scorer"
  BY DEF CLOSED_KEY_SET, DIGEST_BINDINGS, AUTHORITY
<1>3. Holding(object) # {} /\ NotAnObject # {} /\ Holding(object) # NotAnObject
  <2>1. DOMAIN [object |-> object] # DOMAIN [array |-> "not an object"]
    OBVIOUS
  <2> QED BY <2>1 DEF Holding, NotAnObject, object
<1>4. "SETTLEMENT-PIN" \in set_no_pin
  BY DEF set_no_pin, Loaded, load
<1>5. "SETTLEMENT-PIN" \in set_wrong_pin
  BY <1>3 DEF set_wrong_pin, Loaded, load, object
<1>6. "SETTLEMENT-PRESENT" \in set_absent
  BY <1>3 DEF set_absent, Loaded, load, object
<1>7. "SETTLEMENT-MALFORMED" \in set_array_root
  <2>1. \E f \in NotAnObject : "object" \notin DOMAIN f
    BY DEF NotAnObject
  <2> QED BY <1>3, <2>1 DEF set_array_root, Loaded, load
<1>8. "SETTLEMENT-MALFORMED" \in set_short_digest
  <2> DEFINE payload == [object EXCEPT !["old_raw_tree"] = Plain("deadbeef")]
  <2>1. /\ DOMAIN payload = CLOSED_KEY_SET /\ payload["schema"] = Plain("schema")
        /\ ~IsDigest(payload["old_raw_tree"])
    BY <1>1, <1>2, Digested
  <2>2. set_short_digest = LoadedAs(payload)
    BY DEF set_short_digest, object
  <2> HIDE DEF payload
  <2>3. "SETTLEMENT-MALFORMED" \in Bound(payload, LiveScorer)
    BY <1>2, <2>1 DEF Bound
  <2> QED BY <2>2, <2>3, LoadedIsBound
<1>9. "SETTLEMENT-KEYS" \in set_extra_key
  <2> DEFINE payload == Added(object, "convenience_override", Plain(TRUE))
  <2>1. "convenience_override" \in DOMAIN payload
    BY DEF Added
  <2>2. set_extra_key = LoadedAs(payload)
    BY DEF set_extra_key, object
  <2> HIDE DEF payload
  <2>3. "SETTLEMENT-KEYS" \in Bound(payload, LiveScorer)
    BY <1>2, <2>1 DEF Bound
  <2> QED BY <2>2, <2>3, LoadedIsBound
<1>10. "SETTLEMENT-BINDING" \in set_seal_binding
  <2> DEFINE payload == [object EXCEPT !["historical_seal"] = Sha256("bbbb", "b")]
  <2>1. /\ DOMAIN payload = CLOSED_KEY_SET /\ payload["schema"] = Plain("schema")
        /\ \A key \in DIGEST_BINDINGS : IsDigest(payload[key])
    BY <1>1, <1>2, Digested
  <2>2. payload["historical_seal"] # EXPECT("historical_seal")
    BY <1>1, <1>2, Digested DEF EXPECT
  <2>3. set_seal_binding = LoadedAs(payload)
    BY DEF set_seal_binding, object
  <2> HIDE DEF payload
  <2>4. "SETTLEMENT-BINDING" \in Bound(payload, LiveScorer)
    BY <1>2, <2>1, <2>2 DEF Bound
  <2> QED BY <2>3, <2>4, LoadedIsBound
<1>11. "SCORER-IDENTITY" \in set_scorer_not_repaired
  <2> DEFINE payload == [object EXCEPT !["repaired_scorer"] = EXPECT("pre_repair_scorer")]
  <2>1. /\ DOMAIN payload = CLOSED_KEY_SET /\ payload["schema"] = Plain("schema")
        /\ \A key \in DIGEST_BINDINGS : IsDigest(payload[key])
        /\ \A key \in AUTHORITY : payload[key] = EXPECT(key)
        /\ payload["repaired_scorer"] = payload["pre_repair_scorer"]
    BY <1>1, <1>2, Digested DEF EXPECT
  <2>2. set_scorer_not_repaired = LoadedAs(payload)
    BY DEF set_scorer_not_repaired, object
  <2> HIDE DEF payload
  <2>3. "SCORER-IDENTITY" \in Bound(payload, LiveScorer)
    BY <2>1 DEF Bound
  <2> QED BY <2>2, <2>3, LoadedIsBound
<1>12. "MEMBERSHIP-SINGLE" \in set_two_members
  <2> DEFINE payload == [object EXCEPT !["successor_canonical_paths"] =
                           Plain(<<"successor", "second">>)]
  <2>1. /\ DOMAIN payload = CLOSED_KEY_SET /\ payload["schema"] = Plain("schema")
        /\ \A key \in DIGEST_BINDINGS : IsDigest(payload[key])
        /\ \A key \in AUTHORITY : payload[key] = EXPECT(key)
        /\ payload["repaired_scorer"] = LiveScorer
        /\ payload["successor_canonical_paths"].text = <<"successor", "second">>
    BY <1>1, <1>2 DEF Plain
  <2>2. LiveScorer # EXPECT("pre_repair_scorer")
    BY <1>0, Digested DEF EXPECT
  <2>3. set_two_members = LoadedAs(payload)
    BY DEF set_two_members, object
  <2> HIDE DEF payload
  <2>4. payload["repaired_scorer"] \in {LiveScorer} \ {payload["pre_repair_scorer"]}
    BY <1>2, <2>1, <2>2
  <2>5. Len(payload["successor_canonical_paths"].text) # 1
    BY <2>1
  <2>6. Bound(payload, LiveScorer) = Finding("MEMBERSHIP-SINGLE", TRUE)
    BY <2>1, <2>4, <2>5 DEF Bound
  <2> QED BY <2>3, <2>6, LoadedIsBound DEF Finding
<1> QED BY <1>4, <1>5, <1>6, <1>7, <1>8, <1>9, <1>10, <1>11, <1>12

\* What a file of the settlement must have for load to find nothing, and for the
\* validator to find nothing of what it binds.
LEMMA BoundPasses ==
  ASSUME NEW payload, NEW scorer, Bound(payload, scorer) = {}
  PROVE  /\ payload.schema = Plain("schema")
         /\ \A key \in DIGEST_BINDINGS : IsDigest(payload[key])
         /\ \A key \in AUTHORITY : payload[key] = EXPECT(key)
         /\ payload.repaired_scorer = scorer
<1>1. ~(DOMAIN payload # CLOSED_KEY_SET \/ payload.schema # Plain("schema"))
  BY DEF Bound
<1>2. ~(\E key \in DIGEST_BINDINGS : ~IsDigest(payload[key]))
  BY <1>1 DEF Bound
<1>3. ~(\E key \in AUTHORITY : payload[key] # EXPECT(key))
  BY <1>1, <1>2 DEF Bound
<1>4. payload.repaired_scorer \in {scorer} \ {payload.pre_repair_scorer}
  BY <1>1, <1>2, <1>3 DEF Bound
<1> QED BY <1>1, <1>2, <1>3, <1>4

LEMMA JudgedPasses ==
  ASSUME NEW payload, judged(payload) = {}
  PROVE  /\ Bound(payload, LiveScorer) = {}
         /\ Inventory = {payload.wrapper_executable_inventory.sha256}
         /\ payload.expected_run_count = Plain(Cardinality(Identity))
         /\ payload.successor_canonical_paths = Plain(<<"successor">>)
<1> DEFINE early == Opened(Holding(payload), Holding(payload))
<1>1. /\ early = {}
      /\ verify(Executables, Inventory, {payload.wrapper_executable_inventory.sha256}) = {}
      /\ Finding("CORPUS-IDENTITY",
                 payload.expected_run_count # Plain(Cardinality(Identity))) = {}
      /\ Finding("unreadable",
                 payload.successor_canonical_paths # Plain(<<"successor">>)) = {}
  <2> HIDE DEF early
  <2>1. judged(payload) =
          IF early # {} THEN early
          ELSE verify(Executables, Inventory, {payload.wrapper_executable_inventory.sha256})
               \cup check_historical_untouched(historical)
               \cup check_corpus_identity(package["historical"].inputs)
               \cup Finding("CORPUS-IDENTITY",
                            payload.expected_run_count # Plain(Cardinality(Identity)))
               \cup Finding("unreadable",
                            payload.successor_canonical_paths # Plain(<<"successor">>))
    BY DEF judged, early
  <2>2. early = {}
    BY <2>1
  <2> QED BY <2>1, <2>2
<1>2. load(Holding(payload), Holding(payload), LiveScorer) = {}
  BY <1>1 DEF Opened
<1>3. LoadedAs(payload) = {}
  BY <1>2 DEF LoadedAs, Loaded
<1>4. \A id : \A bad \in BOOLEAN : Finding(id, bad) = {} => ~bad
  BY DEF Finding
<1>5. Inventory = {payload.wrapper_executable_inventory.sha256}
  BY <1>1, <1>4 DEF verify
<1>6. payload.expected_run_count = Plain(Cardinality(Identity))
  BY <1>1, <1>4
<1>7. payload.successor_canonical_paths = Plain(<<"successor">>)
  BY <1>1, <1>4
<1> QED BY <1>3, <1>5, <1>6, <1>7, LoadedIsBound

LEMMA WrongRefused ==
  ASSUME SuiteInv, NEW file \in settled, NEW key \in CLOSED_KEY_SET \ Unbound,
         NEW value \in Wrong(key, file.object[key])
  PROVE  judged([file.object EXCEPT ![key] = value]) # {}
<1> DEFINE payload == [file.object EXCEPT ![key] = value]
<1> SUFFICES ASSUME judged(payload) = {} PROVE FALSE
  OBVIOUS
<1>1. PICK version \in Content, inventory \in [Paths -> Content] :
        file = [object |-> settlement(Sha256("repaired_scorer", version), inventory,
                                      Cardinality(Identity))]
  BY DEF SuiteInv, Complete, SettledAs
<1>2. Shape(file.object, version, inventory, Cardinality(Identity))
  BY <1>1, SettlementShape
<1>3. payload[key] = value
  BY <1>2 DEF Shape
<1>4. /\ Bound(payload, LiveScorer) = {}
      /\ Inventory = {payload.wrapper_executable_inventory.sha256}
      /\ payload.expected_run_count = Plain(Cardinality(Identity))
      /\ payload.successor_canonical_paths = Plain(<<"successor">>)
  BY JudgedPasses
<1> HIDE DEF payload
<1>5. /\ payload.schema = Plain("schema")
      /\ \A k \in DIGEST_BINDINGS : IsDigest(payload[k])
      /\ \A k \in AUTHORITY : payload[k] = EXPECT(k)
      /\ payload.repaired_scorer = LiveScorer
  BY <1>4, BoundPasses
<1>6. \A a, b : Plain(a) = Plain(b) => a = b
  <2> SUFFICES ASSUME NEW a, NEW b, Plain(a) = Plain(b) PROVE a = b
    OBVIOUS
  <2>1. Plain(a).text = a /\ Plain(b).text = b
    BY DEF Plain
  <2> QED BY <2>1
<1>7. CASE key \in DIGEST_BINDINGS
  <2>1. IsDigest(file.object[key]) /\ IsDigest(value)
    BY <1>2, <1>3, <1>5, <1>7 DEF Shape
  <2>2. value = Sha256("wrong", "wrong")
    BY <2>1, Digested DEF Wrong
  <2>3. CASE key \in AUTHORITY
    <3>1. key # "wrong"
      BY <2>3 DEF AUTHORITY
    <3> QED BY <1>3, <1>5, <2>2, <2>3, <3>1, Digested DEF EXPECT
  <2>4. CASE key = "repaired_scorer"
    BY <1>3, <1>5, <2>2, <2>4, Digested DEF LiveScorer
  <2>5. CASE key = "wrapper_executable_inventory"
    <3>1. inventory \in Inventory
      BY <1>2 DEF Inventory, Shape
    <3>2. inventory = value.sha256
      BY <1>3, <1>4, <2>5, <3>1
    <3>3. DOMAIN value.sha256 = {"wrong"}
      BY <2>2 DEF Sha256
    <3> QED BY <3>2, <3>3 DEF Paths
  <2> QED BY <1>7, <2>3, <2>4, <2>5 DEF DIGEST_BINDINGS, Unbound
<1>8. CASE key \notin DIGEST_BINDINGS
  <2>1. key \in {"expected_run_count", "schema", "successor_canonical_paths"}
    BY <1>8 DEF CLOSED_KEY_SET, Unbound
  <2>2. CASE key = "expected_run_count"
    <3>1. ~IsDigest(file.object[key])
      BY <1>2, <2>2, Digested DEF Shape
    <3>2. value = Plain(0)
      BY <2>2, <3>1 DEF Wrong
    <3>3. Cardinality(Identity) # 0
      <4>1. IsFiniteSet(Identity)
        BY PlanIsFinite, FS_Singleton, FS_Union DEF Identity
      <4> QED BY <4>1, FilesOfRuns, FS_EmptySet
    <3> QED BY <1>3, <1>4, <1>6, <2>2, <3>2, <3>3
  <2>3. CASE key = "schema"
    <3>1. ~IsDigest(file.object[key])
      BY <1>2, <2>3, Digested DEF Shape
    <3>2. value = Plain("other")
      BY <2>3, <3>1 DEF Wrong
    <3> QED BY <1>3, <1>5, <1>6, <2>3, <3>2
  <2>4. CASE key = "successor_canonical_paths"
    <3>1. ~IsDigest(file.object[key])
      BY <1>2, <2>4, Digested DEF Shape
    <3>2. value = Plain(<<"other">>)
      BY <2>4, <3>1 DEF Wrong
    <3>3. <<"other">> # <<"successor">>
      OBVIOUS
    <3> QED BY <1>3, <1>4, <1>6, <2>4, <3>2, <3>3
  <2> QED BY <2>1, <2>2, <2>3, <2>4
<1> QED BY <1>7, <1>8

\* p4_mutations.py, p4_settlement.py: on every root that was found conformant, however often
\* its files were altered before, each damage of the suite is refused by its own guard, and
\* so is a settlement with one wrong value, but for the five that are compared with nothing.
THEOREM AwakeGuards == ChainSpec => []SuiteRefusesEachDamage
<1>1. SuiteInv => SuiteRefusesEachDamage
  <2> SUFFICES ASSUME SuiteInv, check.at = "CONFORMANT"
               PROVE  /\ escaped = {}
                      /\ \A file \in settled, key \in CLOSED_KEY_SET \ Unbound :
                           \A value \in Wrong(key, file.object[key]) :
                             judged([file.object EXCEPT ![key] = value]) # {}
    BY DEF SuiteRefusesEachDamage
  <2>1. \A m \in MUTANTS : m[2] \in m[1]
    BY PackagesRefused, SettlementsRefused, ExecutablesRefused DEF MUTANTS
  <2> QED BY <2>1, WrongRefused DEF escaped
<1> QED BY <1>1, SuiteInit, SuiteStep, PTL DEF ChainSpec
=============================================================================
