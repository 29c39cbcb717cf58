----------------------------- MODULE DtaasLimits -----------------------------
(***************************************************************************)
(* Proofs about Dtaas: the limits and the workers' directories, for every  *)
(* number of handlers, instances and slots.                                *)
(*                                                                         *)
(* The inductive invariant says who may touch an instance: a worker at     *)
(* work has an active status, a handler that removes something holds an    *)
(* instance that has ended, and every active instance is in the registry   *)
(* or held by a DELETE that will put it back.  The instances so known only *)
(* grow by an admission, whose guard leaves out at most one instance for   *)
(* each of the other handlers.                                             *)
(***************************************************************************)
EXTENDS Dtaas, FiniteSetTheorems, TLAPS

Over == Ended \cup {"destroyed"}
Busy == {"provision", "populate", "run", "simulate", "score", "digest", "finish"}
Away == {"teardown", "putback"}

Popped == {i \in Id : \E h \in Handler : at[h] \in Away /\ i \in held[h]}
Known == reg \cup Popped

\* What a handler's next step requires of the instances it holds.
Entitled(step, S) ==
  /\ step \in {"admit", "rmtree", "mark"} => \A i \in S : status[i] \in Over
  /\ step = "start" => \A i \in S : status[i] \in ACTIVE_STATES /\ worker[i] = "unborn"
  /\ step \in Away => "DELETE" \in Requests /\ \E i \in Id : S = {i} /\ status[i] # "new"

HandlersInv ==
  \A h \in Handler :
    /\ Entitled(at[h], held[h])
    /\ \A g \in Handler \ {h} :
         at[g] = "start" /\ at[h] = "start" => held[g] \cap held[h] = {}

WorkersInv ==
  \A i \in Id :
    /\ worker[i] \in Busy => status[i] \in ACTIVE_STATES
    /\ worker[i] \in Busy \ {"provision"} => dir[i]
    /\ status[i] = "new" => worker[i] = "unborn"

RegistryInv ==
  /\ \A i \in reg : status[i] # "new"
  /\ Active(Id) \subseteq Known

LimitsInv ==
  /\ Cardinality(Active(Id)) <= MaxActive + Overshoot
  /\ Cardinality(Known) <= MaxRegistry + Overshoot

DtaasInv == TypeOK /\ HandlersInv /\ WorkersInv /\ RegistryInv /\ LimitsInv

-----------------------------------------------------------------------------
LEMMA OvershootIsNat == Overshoot \in Nat
<1>1. Cardinality(Handler) \in Nat /\ Cardinality(Handler) # 0
  BY DtaasAssumption, FS_CardinalityType, FS_EmptySet
<1> QED BY <1>1 DEF Overshoot

LEMMA SmallerIsWithin ==
  ASSUME NEW S \in SUBSET Id, NEW T \in SUBSET S, NEW n \in Nat, Cardinality(S) <= n
  PROVE  Cardinality(T) <= n
<1>1. IsFiniteSet(S)
  BY DtaasAssumption, FS_Subset
<1>2. IsFiniteSet(T) /\ Cardinality(T) <= Cardinality(S)
  BY <1>1, FS_Subset
<1>3. Cardinality(S) \in Nat /\ Cardinality(T) \in Nat
  BY <1>1, <1>2, FS_CardinalityType
<1> QED BY <1>2, <1>3

\* While one handler is elsewhere the others hold at most one instance each.
LEMMA PoppedBound ==
  ASSUME TypeOK, HandlersInv, NEW h \in Handler, at[h] \notin Away
  PROVE  IsFiniteSet(Popped) /\ Cardinality(Popped) <= Overshoot
<1>1. CASE "DELETE" \notin Requests
  <2>1. Popped = {}
    BY <1>1 DEF Popped, HandlersInv, Entitled
  <2> QED BY <2>1, FS_EmptySet, OvershootIsNat
<1>2. CASE "DELETE" \in Requests
  <2> DEFINE Others == Handler \ {h}
             f == [i \in Popped |-> CHOOSE g \in Handler : at[g] \in Away /\ i \in held[g]]
  <2>1. ASSUME NEW i \in Popped
        PROVE  f[i] \in Handler /\ at[f[i]] \in Away /\ held[f[i]] = {i}
    <3>1. f[i] \in Handler /\ at[f[i]] \in Away /\ i \in held[f[i]]
      BY DEF Popped
    <3> QED BY <3>1 DEF HandlersInv, Entitled
  <2>2. f \in [Popped -> Others]
    BY <2>1
  <2>3. \A i, j \in Popped : f[i] = f[j] => i = j
    <3> SUFFICES ASSUME NEW i \in Popped, NEW j \in Popped, f[i] = f[j]
                 PROVE  i = j
      OBVIOUS
    <3>1. held[f[i]] = {i} /\ held[f[j]] = {j}
      BY <2>1
    <3> HIDE DEF f
    <3> QED BY <3>1
  <2>4. f \in Injection(Popped, Others)
    <3> HIDE DEF f
    <3> QED BY <2>2, <2>3 DEF Injection, IsInjective
  <2>5. IsFiniteSet(Others) /\ Cardinality(Others) = Cardinality(Handler) - 1
    BY DtaasAssumption, FS_RemoveElement
  <2>6. IsFiniteSet(Popped) /\ Cardinality(Popped) <= Cardinality(Others)
    <3> HIDE DEF f, Others
    <3> QED BY <2>4, <2>5, FS_Injection
  <2> QED BY <1>2, <2>5, <2>6 DEF Overshoot
<1> QED BY <1>1, <1>2

\* A step that makes no instance known or active keeps the limits.
LEMMA LimitsShrink ==
  ASSUME TypeOK, TypeOK', LimitsInv, Known' \subseteq Known, Active(Id)' \subseteq Active(Id)
  PROVE  LimitsInv'
<1>1. Known \in SUBSET Id /\ Active(Id) \in SUBSET Id
  BY DEF TypeOK, Known, Popped, Active
<1>2. MaxActive + Overshoot \in Nat /\ MaxRegistry + Overshoot \in Nat
  BY OvershootIsNat, DtaasAssumption
<1>3. Cardinality(Known') <= MaxRegistry + Overshoot
  BY <1>1, <1>2, SmallerIsWithin DEF LimitsInv
<1>4. Cardinality(Active(Id)') <= MaxActive + Overshoot
  BY <1>1, <1>2, SmallerIsWithin DEF LimitsInv
<1> QED BY <1>3, <1>4 DEF LimitsInv, Overshoot

LEMMA DtaasInit == Init => DtaasInv
<1> SUFFICES ASSUME Init PROVE DtaasInv
  OBVIOUS
<1>1. TypeOK
  BY DEF Init, TypeOK
<1>2. HandlersInv /\ WorkersInv
  BY DEF Init, HandlersInv, Entitled, WorkersInv, Busy, Away
<1>3. Active(Id) = {} /\ Known = {}
  BY DEF Init, Active, ACTIVE_STATES, Known, Popped, Away
<1>4. RegistryInv /\ LimitsInv
  BY <1>3, FS_EmptySet, OvershootIsNat, DtaasAssumption DEF Init, RegistryInv, LimitsInv
<1> QED BY <1>1, <1>2, <1>4 DEF DtaasInv

-----------------------------------------------------------------------------
LEMMA TypeStep == TypeOK /\ [Next]_vars => TypeOK'
<1> SUFFICES ASSUME TypeOK, [Next]_vars PROVE TypeOK'
  OBVIOUS
<1> USE DEF TypeOK, Goto, ACTIVE_STATES, Ended
<1>1. CASE UNCHANGED vars
  BY <1>1 DEF vars
<1>2. ASSUME NEW h \in Handler PROVE Reap(h) => TypeOK'
  BY DEF Reap
<1>3. ASSUME NEW h \in Handler PROVE Pop(h) \/ LookUp(h) => TypeOK'
  BY DEF Pop, LookUp
<1>4. ASSUME NEW h \in Handler PROVE Discard(h) => TypeOK'
  BY DEF Discard
<1>5. ASSUME NEW h \in Handler PROVE Refuse(h) => TypeOK'
  BY DEF Refuse
<1>6. ASSUME NEW h \in Handler PROVE Start(h) => TypeOK'
  BY DEF Start
<1>7. ASSUME NEW h \in Handler PROVE Admit(h) => TypeOK'
  BY DEF Admit
<1>8. ASSUME NEW h \in Handler PROVE Teardown(h) => TypeOK'
  BY DEF Teardown
<1>9. ASSUME NEW h \in Handler PROVE Rmtree(h) => TypeOK'
  <2> SUFFICES ASSUME Rmtree(h) PROVE TypeOK'
    OBVIOUS
  <2>1. dir' \in [Id -> BOOLEAN]
    BY DEF Rmtree
  <2>2. at' = [at EXCEPT ![h] = at'[h]] /\ at'[h] \in {"mark", "idle"}
    BY DEF Rmtree
  <2>3. held' = [held EXCEPT ![h] = held'[h]] /\ held'[h] \in SUBSET Id
    BY DEF Rmtree
  <2> QED BY <2>1, <2>2, <2>3 DEF Rmtree
<1>10. ASSUME NEW h \in Handler PROVE Mark(h) => TypeOK'
  BY DEF Mark
<1>11. ASSUME NEW h \in Handler PROVE PutBack(h) => TypeOK'
  BY DEF PutBack
<1>12. ASSUME NEW h \in Handler PROVE CheckDone(h) => TypeOK'
  BY DEF CheckDone
<1>13. ASSUME NEW h \in Handler PROVE View(h) => TypeOK'
  BY DEF View
<1>14. ASSUME NEW i \in Id PROVE MakeDir(i) => TypeOK'
  <2> SUFFICES ASSUME MakeDir(i) PROVE TypeOK'
    OBVIOUS
  <2>1. dir' \in [Id -> BOOLEAN]
    BY DEF MakeDir
  <2>2. /\ worker' \in [Id -> {"unborn", "provision", "populate", "rollback", "run",
                               "simulate", "score", "digest", "finish", "over"}]
        /\ status' \in [Id -> ACTIVE_STATES \cup Ended \cup {"new", "destroyed"}]
    BY DEF MakeDir, Step, Fails
  <2> QED BY <2>1, <2>2 DEF MakeDir
<1>15. ASSUME NEW i \in Id PROVE Populate(i) => TypeOK'
  BY DEF Populate, Step, Fails
<1>16. ASSUME NEW i \in Id PROVE Rollback(i) => TypeOK'
  BY DEF Rollback, Step, Fails
<1>17. ASSUME NEW i \in Id PROVE Run(i) => TypeOK'
  BY DEF Run, Step, Fails
<1>18. ASSUME NEW i \in Id PROVE Simulate(i) => TypeOK'
  BY DEF Simulate, Step, Fails
<1>19. ASSUME NEW i \in Id PROVE Score(i) => TypeOK'
  BY DEF Score, Step, Fails
<1>20. ASSUME NEW i \in Id PROVE Digest(i) => TypeOK'
  BY DEF Digest, Step, Fails
<1>21. ASSUME NEW i \in Id PROVE Finish(i) => TypeOK'
  BY DEF Finish, Step, Fails
<1>22. ASSUME NEW i \in Id PROVE Age(i) => TypeOK'
  BY DEF Age, Step, Fails
<1> QED
  BY <1>1, <1>2, <1>3, <1>4, <1>5, <1>6, <1>7, <1>8, <1>9, <1>10, <1>11, <1>12,
     <1>13, <1>14, <1>15, <1>16, <1>17, <1>18, <1>19, <1>20, <1>21, <1>22
  DEF Next, HandlerStep, WorkerStep

\* A worker's step changes its own instance only, and an active one at that.
LEMMA WorkerKeeps ==
  ASSUME DtaasInv, TypeOK', NEW i \in Id, WorkerStep(i) \/ Age(i)
  PROVE  DtaasInv'
<1> USE DEF DtaasInv, ACTIVE_STATES, Ended, Over, Busy, Away
<1>1. /\ UNCHANGED <<reg, at, held>>
      /\ status' = status \/ (status[i] \in ACTIVE_STATES /\ status'[i] \in ACTIVE_STATES \cup Over)
      /\ (worker' = worker /\ status' = status) \/ worker[i] # "unborn"
      /\ worker[i] # "unborn" => worker'[i] # "unborn" /\ status'[i] # "new"
      /\ \A j \in Id \ {i} : status'[j] = status[j] /\ worker'[j] = worker[j] /\ dir'[j] = dir[j]
  BY DEF TypeOK, WorkersInv, WorkerStep, MakeDir, Populate, Rollback, Run, Simulate, Score,
         Digest, Finish, Age, Step, Fails
<1>2. /\ worker'[i] \in Busy => status'[i] \in ACTIVE_STATES
      /\ worker'[i] \in Busy \ {"provision"} => dir'[i]
  BY DEF TypeOK, WorkersInv, WorkerStep, MakeDir, Populate, Rollback, Run, Simulate, Score,
         Digest, Finish, Age, Step, Fails
<1>3. WorkersInv'
  BY <1>1, <1>2 DEF WorkersInv
<1>4. \A j \in Id : /\ status[j] \in Over => status'[j] = status[j]
                    /\ status[j] # "new" => status'[j] # "new"
                    /\ status'[j] \in ACTIVE_STATES => status[j] \in ACTIVE_STATES
  BY <1>1
<1>5. HandlersInv'
  <2> SUFFICES ASSUME NEW h \in Handler
               PROVE  HandlersInv!(h)'
    BY DEF HandlersInv
  <2>1. at'[h] = at[h] /\ held'[h] = held[h] /\ held[h] \subseteq Id
    BY <1>1 DEF TypeOK
  <2>2. at[h] = "start" =>
          \A j \in held[h] : status'[j] \in ACTIVE_STATES /\ worker'[j] = "unborn"
    <3> SUFFICES ASSUME at[h] = "start", NEW j \in held[h]
                 PROVE  status'[j] \in ACTIVE_STATES /\ worker'[j] = "unborn"
      OBVIOUS
    <3>1. j \in Id /\ status[j] \in ACTIVE_STATES /\ worker[j] = "unborn"
      BY <2>1 DEF HandlersInv, Entitled
    <3> QED BY <1>1, <3>1
  <2>3. at[h] \in Away => /\ "DELETE" \in Requests
                         /\ \E j \in Id : held[h] = {j} /\ status'[j] # "new"
    BY <1>4 DEF HandlersInv, Entitled
  <2>4. at[h] \in {"admit", "rmtree", "mark"} => \A j \in held[h] : status'[j] \in Over
    BY <1>4, <2>1 DEF HandlersInv, Entitled
  <2>5. \A g \in Handler \ {h} :
          at[g] = "start" /\ at[h] = "start" => held[g] \cap held[h] = {}
    BY DEF HandlersInv, Entitled
  <2> QED
    BY <1>1, <2>2, <2>3, <2>4, <2>5 DEF Entitled
<1>6. Active(Id)' \subseteq Active(Id) /\ Known' = Known
  BY <1>1, <1>4 DEF Active, Known, Popped
<1>7. RegistryInv'
  BY <1>1, <1>4, <1>6 DEF RegistryInv, TypeOK
<1> QED BY <1>3, <1>5, <1>6, <1>7, LimitsShrink

\* A handler's step that leaves the instances alone.
LEMMA Moves ==
  ASSUME TypeOK, HandlersInv, NEW h \in Handler, NEW step, NEW S, Goto(h, step, S),
         step # "start", Entitled(step, S), UNCHANGED <<status, worker>>
  PROVE  HandlersInv'
<1>1. /\ at'[h] = step /\ held'[h] = S
      /\ \A g \in Handler \ {h} : at'[g] = at[g] /\ held'[g] = held[g]
  BY DEF Goto, TypeOK
<1>2. ASSUME NEW g \in Handler PROVE Entitled(at'[g], held'[g])
  BY <1>1 DEF HandlersInv
<1>3. ASSUME NEW g \in Handler PROVE Entitled(at[g], held[g])'
  BY <1>2 DEF Entitled
<1> QED BY <1>1, <1>3 DEF HandlersInv

LEMMA Keeps ==
  ASSUME DtaasInv, TypeOK', HandlersInv', WorkersInv',
         Active(Id)' \subseteq Active(Id), Known' \subseteq Known,
         Active(Id)' \subseteq Known', \A i \in reg' : status'[i] # "new"
  PROVE  DtaasInv'
BY LimitsShrink DEF DtaasInv, RegistryInv

\* The handler's own share of Popped before and after a move.
Elsewhere(h) == {i \in Id : \E g \in Handler \ {h} : at[g] \in Away /\ i \in held[g]}

LEMMA PoppedSplit ==
  ASSUME TypeOK, NEW h \in Handler, NEW step, NEW S \in SUBSET Id, Goto(h, step, S)
  PROVE  /\ Popped = Elsewhere(h) \cup (IF at[h] \in Away THEN held[h] ELSE {})
         /\ Popped' = Elsewhere(h) \cup (IF step \in Away THEN S ELSE {})
         /\ held[h] \subseteq Id
<1>1. /\ at'[h] = step /\ held'[h] = S
      /\ \A g \in Handler \ {h} : at'[g] = at[g] /\ held'[g] = held[g]
      /\ \A g \in Handler : held[g] \subseteq Id
  BY DEF Goto, TypeOK
<1>2. Popped = Elsewhere(h) \cup (IF at[h] \in Away THEN held[h] ELSE {})
  BY <1>1 DEF Popped, Elsewhere
<1>3. Popped' = Elsewhere(h) \cup (IF step \in Away THEN S ELSE {})
  BY <1>1 DEF Popped, Elsewhere
<1> QED BY <1>1, <1>2, <1>3

\* The steps of a handler that change no instance.
LEMMA HandlerMoves ==
  ASSUME DtaasInv, TypeOK', NEW h \in Handler,
         \/ Reap(h) \/ Pop(h) \/ LookUp(h) \/ Refuse(h) \/ Teardown(h)
         \/ PutBack(h) \/ CheckDone(h) \/ View(h)
  PROVE  DtaasInv'
<1> USE DEF DtaasInv, Known
<1>1. UNCHANGED <<status, worker, dir>>
  BY DEF Reap, Pop, LookUp, Refuse, Teardown, PutBack, CheckDone, View
<1>2. WorkersInv' /\ Active(Id)' = Active(Id)
  BY <1>1 DEF WorkersInv, Active
<1>3. Entitled(at[h], held[h]) /\ held[h] \subseteq Id /\ reg \subseteq Id
  BY DEF HandlersInv, TypeOK
<1>4. CASE Reap(h)
  <2> DEFINE stale == {i \in reg \cap expired : status[i] \in Ended}
  <2>1. Goto(h, "admit", stale) /\ reg' = reg \ stale /\ at[h] = "idle"
    BY <1>4 DEF Reap
  <2>2. Entitled("admit", stale)
    BY DEF Entitled, Over, Away
  <2>3. HandlersInv'
    BY <1>1, <2>1, <2>2, Moves
  <2>4. Popped' = Popped
    <3>1. stale \in SUBSET Id
      BY <1>3
    <3> HIDE DEF stale
    <3>2. /\ Popped = Elsewhere(h) \cup (IF at[h] \in Away THEN held[h] ELSE {})
          /\ Popped' = Elsewhere(h) \cup (IF "admit" \in Away THEN stale ELSE {})
      BY <2>1, <3>1, PoppedSplit
    <3> QED BY <2>1, <3>2 DEF Away
  <2>5. Active(Id) \cap stale = {}
    BY DEF Active, Ended, ACTIVE_STATES
  <2> QED BY <1>1, <1>2, <2>1, <2>3, <2>4, <2>5, Keeps DEF RegistryInv
<1>5. CASE Pop(h)
  <2>1. PICK i \in reg : reg' = reg \ {i} /\ Goto(h, "teardown", {i})
    BY <1>5 DEF Pop
  <2>2. at[h] = "idle" /\ "DELETE" \in Requests /\ status[i] # "new" /\ i \in Id
    BY <1>3, <1>5 DEF Pop, RegistryInv
  <2>3. HandlersInv'
    BY <1>1, <2>1, <2>2, Moves DEF Entitled, Away
  <2>4. Popped' = Popped \cup {i}
    BY <2>1, <2>2, PoppedSplit DEF Away
  <2> QED BY <1>1, <1>2, <2>1, <2>3, <2>4, Keeps DEF RegistryInv
<1>6. CASE Teardown(h)
  <2>1. PICK i \in held[h] :
          Goto(h, IF status[i] \in ACTIVE_STATES THEN "putback"
                  ELSE IF dir[i] THEN "rmtree" ELSE "mark", {i})
    BY <1>6 DEF Teardown
  <2>2. at[h] = "teardown" /\ reg' = reg /\ held[h] = {i} /\ status[i] # "new" /\ i \in Id
          /\ "DELETE" \in Requests
    BY <1>3, <1>6, <2>1 DEF Teardown, Entitled, Away
  <2>3. status[i] \in ACTIVE_STATES \/ status[i] \in Over
    BY <2>2 DEF TypeOK, Over
  <2> DEFINE next == IF status[i] \in ACTIVE_STATES THEN "putback"
                     ELSE IF dir[i] THEN "rmtree" ELSE "mark"
  <2>4. Entitled(next, {i}) /\ next # "start"
    BY <2>2, <2>3 DEF Entitled, Away
  <2>5. HandlersInv'
    BY <1>1, <2>1, <2>4, Moves
  <2>6. /\ Popped = Elsewhere(h) \cup {i}
        /\ Popped' = Elsewhere(h) \cup (IF next \in Away THEN {i} ELSE {})
    BY <2>1, <2>2, PoppedSplit DEF Away
  <2>7. next \notin Away => i \notin Active(Id)
    BY DEF Away, Active
  <2> QED
    <3> HIDE DEF next
    <3> QED BY <1>1, <1>2, <2>2, <2>5, <2>6, <2>7, Keeps DEF RegistryInv
<1>7. CASE PutBack(h)
  <2>1. at[h] = "putback" /\ Goto(h, "idle", {}) /\ reg' = reg \cup held[h]
    BY <1>7 DEF PutBack
  <2>2. HandlersInv'
    BY <1>1, <2>1, Moves DEF Entitled, Away
  <2>3. Popped = Elsewhere(h) \cup held[h] /\ Popped' = Elsewhere(h)
    <3>1. /\ Popped = Elsewhere(h) \cup (IF at[h] \in Away THEN held[h] ELSE {})
          /\ Popped' = Elsewhere(h) \cup (IF "idle" \in Away THEN {} ELSE {})
      <4>1. {} \in SUBSET Id
        OBVIOUS
      <4> QED BY <2>1, <4>1, PoppedSplit
    <3> QED BY <2>1, <3>1 DEF Away
  <2>4. \A i \in held[h] : status[i] # "new"
    BY <1>3, <2>1 DEF Entitled, Away
  <2> QED BY <1>1, <1>2, <2>1, <2>2, <2>3, <2>4, Keeps DEF RegistryInv
<1>8. CASE LookUp(h) \/ Refuse(h) \/ CheckDone(h) \/ View(h)
  <2>1. PICK step \in {"idle", "ready", "view"}, S \in SUBSET Id :
          Goto(h, step, S) /\ at[h] \notin Away /\ reg' = reg
    <3>1. CASE LookUp(h)
      BY <1>3, <3>1 DEF LookUp, Away
    <3>2. CASE Refuse(h) \/ View(h)
      <4>1. {} \in SUBSET Id
        OBVIOUS
      <4> QED BY <3>2, <4>1 DEF Refuse, View, Away
    <3>3. CASE CheckDone(h)
      <4>1. {} \in SUBSET Id /\ held[h] \in SUBSET Id
        BY <1>3
      <4> QED BY <3>3, <4>1 DEF CheckDone, Away
    <3> QED BY <1>8, <3>1, <3>2, <3>3
  <2>2. HandlersInv'
    BY <1>1, <2>1, Moves DEF Entitled, Away
  <2>3. Popped' = Popped
    BY <2>1, PoppedSplit DEF Away
  <2> QED BY <1>1, <1>2, <2>1, <2>2, <2>3, Keeps DEF RegistryInv
<1> QED BY <1>4, <1>5, <1>6, <1>7, <1>8

\* The steps of a handler that remove a directory or announce the end: they only
\* touch instances no worker is at work on.
LEMMA HandlerRemoves ==
  ASSUME DtaasInv, TypeOK', NEW h \in Handler, Discard(h) \/ Rmtree(h)
  PROVE  DtaasInv'
<1> USE DEF DtaasInv, Known
<1>1. /\ at[h] \in {"admit", "rmtree"}
      /\ UNCHANGED <<reg, status, record, worker>>
      /\ \E i \in held[h], step \in {"admit", "mark", "idle"}, S \in SUBSET held[h] :
           /\ Goto(h, step, S)
           /\ dir' = dir \/ dir' = [dir EXCEPT ![i] = FALSE]
  <2>1. CASE Discard(h)
    BY <2>1 DEF Discard
  <2>2. CASE Rmtree(h)
    <3>1. PICK i \in held[h] :
            \/ dir' = [dir EXCEPT ![i] = FALSE] /\ Goto(h, "mark", {i})
            \/ Goto(h, "idle", {}) /\ dir' = dir
      BY <2>2 DEF Rmtree
    <3>2. {i} \in SUBSET held[h] /\ {} \in SUBSET held[h]
      OBVIOUS
    <3> QED BY <2>2, <3>1, <3>2 DEF Rmtree
  <2> QED BY <2>1, <2>2
<1>2. Entitled(at[h], held[h]) /\ held[h] \subseteq Id
  BY DEF HandlersInv, TypeOK
<1>3. PICK i \in held[h], step \in {"admit", "mark", "idle"}, S \in SUBSET held[h] :
        /\ Goto(h, step, S)
        /\ dir' = dir \/ dir' = [dir EXCEPT ![i] = FALSE]
  BY <1>1
<1>4. i \in Id /\ \A j \in held[h] : status[j] \in Over
  BY <1>1, <1>2 DEF Entitled
<1>5. WorkersInv'
  <2>1. worker[i] \notin Busy
    BY <1>4 DEF WorkersInv, Over, Ended, ACTIVE_STATES
  <2> QED BY <1>1, <1>3, <1>4, <2>1 DEF WorkersInv, TypeOK
<1>6. HandlersInv'
  BY <1>1, <1>3, <1>4, Moves DEF Entitled, Away
<1>7. Popped' = Popped
  <2>1. S \in SUBSET Id
    BY <1>2
  <2>2. /\ Popped = Elsewhere(h) \cup (IF at[h] \in Away THEN held[h] ELSE {})
        /\ Popped' = Elsewhere(h) \cup (IF step \in Away THEN S ELSE {})
    BY <1>3, <2>1, PoppedSplit
  <2> QED BY <1>1, <2>2 DEF Away
<1>8. Active(Id)' = Active(Id)
  BY <1>1 DEF Active
<1> QED BY <1>1, <1>5, <1>6, <1>7, <1>8, Keeps DEF RegistryInv

LEMMA HandlerMarks ==
  ASSUME DtaasInv, TypeOK', NEW h \in Handler, Mark(h)
  PROVE  DtaasInv'
<1> USE DEF DtaasInv, Known
<1>1. /\ at[h] = "mark" /\ UNCHANGED <<reg, worker, dir>> /\ Goto(h, "idle", {})
      /\ status' = [i \in Id |-> IF i \in held[h] THEN "destroyed" ELSE status[i]]
  BY DEF Mark
<1>2. held[h] \subseteq Id /\ \A i \in held[h] : status[i] \in Over
  BY <1>1 DEF HandlersInv, Entitled, TypeOK
<1>3. \A i \in Id : /\ status'[i] \in ACTIVE_STATES <=> status[i] \in ACTIVE_STATES
                    /\ status'[i] = "new" <=> status[i] = "new"
                    /\ status[i] \in Over => status'[i] \in Over
  BY <1>1, <1>2 DEF Over, Ended, ACTIVE_STATES
<1>4. WorkersInv'
  BY <1>1, <1>3 DEF WorkersInv
<1>5. HandlersInv'
  <2>1. /\ at'[h] = "idle" /\ held'[h] = {}
        /\ \A g \in Handler \ {h} : at'[g] = at[g] /\ held'[g] = held[g]
        /\ \A g \in Handler : held[g] \subseteq Id
    BY <1>1 DEF Goto, TypeOK
  <2>2. ASSUME NEW g \in Handler PROVE Entitled(at[g], held[g])'
    <3>1. CASE g = h
      BY <2>1, <3>1 DEF Entitled, Away
    <3>2. CASE g # h
      BY <1>1, <1>3, <2>1, <3>2 DEF Entitled, HandlersInv
    <3> QED BY <3>1, <3>2
  <2> QED BY <2>1, <2>2 DEF HandlersInv
<1>6. Popped' = Popped
  <2>1. {} \in SUBSET Id
    OBVIOUS
  <2>2. /\ Popped = Elsewhere(h) \cup (IF at[h] \in Away THEN held[h] ELSE {})
        /\ Popped' = Elsewhere(h) \cup (IF "idle" \in Away THEN {} ELSE {})
    BY <1>1, <2>1, PoppedSplit
  <2> QED BY <1>1, <2>2 DEF Away
<1>7. Active(Id)' = Active(Id)
  BY <1>3 DEF Active
<1> QED BY <1>1, <1>3, <1>4, <1>5, <1>6, <1>7, Keeps DEF RegistryInv, TypeOK

LEMMA HandlerStarts ==
  ASSUME DtaasInv, TypeOK', NEW h \in Handler, Start(h)
  PROVE  DtaasInv'
<1> USE DEF DtaasInv, Known
<1>1. /\ at[h] = "start" /\ UNCHANGED <<reg, status, dir>> /\ Goto(h, "idle", {})
      /\ worker' = [i \in Id |-> IF i \in held[h] THEN "provision" ELSE worker[i]]
  BY DEF Start
<1>2. held[h] \subseteq Id /\ \A i \in held[h] : status[i] \in ACTIVE_STATES
  BY <1>1 DEF HandlersInv, Entitled, TypeOK
<1>3. WorkersInv'
  BY <1>1, <1>2 DEF WorkersInv, ACTIVE_STATES
<1>4. HandlersInv'
  <2>1. /\ at'[h] = "idle" /\ held'[h] = {}
        /\ \A g \in Handler \ {h} : at'[g] = at[g] /\ held'[g] = held[g]
        /\ \A g \in Handler : held[g] \subseteq Id
    BY <1>1 DEF Goto, TypeOK
  <2>2. ASSUME NEW g \in Handler PROVE Entitled(at[g], held[g])'
    <3>1. CASE g = h
      BY <2>1, <3>1 DEF Entitled, Away
    <3>2. CASE g # h
      <4>1. at[g] = "start" => \A i \in held[g] : worker'[i] = worker[i]
        BY <1>1, <2>1, <3>2 DEF HandlersInv
      <4> QED BY <1>1, <2>1, <3>2, <4>1 DEF Entitled, HandlersInv
    <3> QED BY <3>1, <3>2
  <2> QED BY <2>1, <2>2 DEF HandlersInv
<1>5. Popped' = Popped
  <2>1. {} \in SUBSET Id
    OBVIOUS
  <2>2. /\ Popped = Elsewhere(h) \cup (IF at[h] \in Away THEN held[h] ELSE {})
        /\ Popped' = Elsewhere(h) \cup (IF "idle" \in Away THEN {} ELSE {})
    BY <1>1, <2>1, PoppedSplit
  <2> QED BY <1>1, <2>2 DEF Away
<1>6. Active(Id)' = Active(Id)
  BY <1>1 DEF Active
<1> QED BY <1>1, <1>3, <1>4, <1>5, <1>6, Keeps DEF RegistryInv

LEMMA OneMore ==
  ASSUME NEW S, IsFiniteSet(S), NEW x
  PROVE  IsFiniteSet(S \cup {x}) /\ Cardinality(S \cup {x}) <= Cardinality(S) + 1
<1>1. Cardinality(S) \in Nat
  BY FS_CardinalityType
<1>2. /\ IsFiniteSet(S \cup {x})
      /\ Cardinality(S \cup {x}) = IF x \in S THEN Cardinality(S) ELSE Cardinality(S) + 1
  BY FS_AddElement
<1> QED BY <1>1, <1>2

\* An admission, with the guard that only counts the registry.
LEMMA HandlerAdmits ==
  ASSUME DtaasInv, TypeOK', NEW h \in Handler, Admit(h)
  PROVE  DtaasInv'
<1> USE DEF DtaasInv
<1>1. PICK i \in Id :
        /\ status[i] = "new"
        /\ status' = [status EXCEPT ![i] = "provisioning"]
        /\ reg' = reg \cup {i}
        /\ Goto(h, "start", {i})
  BY DEF Admit
<1>2. /\ at[h] = "admit" /\ held[h] = {} /\ UNCHANGED <<dir, worker>>
      /\ Cardinality(Active(reg)) < MaxActive /\ Cardinality(reg) < MaxRegistry
  BY DEF Admit, HasRoom
<1>3. \A j \in Id \ {i} : status'[j] = status[j]
  BY <1>1 DEF TypeOK
<1>4. status'[i] = "provisioning" /\ worker[i] = "unborn"
  BY <1>1 DEF TypeOK, WorkersInv
<1>5. WorkersInv'
  BY <1>2, <1>3, <1>4 DEF WorkersInv, ACTIVE_STATES
<1>6. /\ at'[h] = "start" /\ held'[h] = {i}
      /\ \A g \in Handler \ {h} : at'[g] = at[g] /\ held'[g] = held[g]
      /\ \A g \in Handler : held[g] \subseteq Id
  BY <1>1 DEF Goto, TypeOK
<1>7. \A g \in Handler : at[g] \in {"admit", "rmtree", "mark", "start"} \cup Away => i \notin held[g]
  BY <1>1 DEF HandlersInv, Entitled, Over, Ended, ACTIVE_STATES, Away
<1>8. HandlersInv'
  <2>1. ASSUME NEW g \in Handler PROVE Entitled(at[g], held[g])'
    <3>1. CASE g = h
      BY <1>2, <1>4, <1>6, <3>1 DEF Entitled, Away, ACTIVE_STATES
    <3>2. CASE g # h
      <4>1. Entitled(at[g], held[g])
        BY DEF HandlersInv
      <4>2. at[g] \in {"admit", "rmtree", "mark", "start"} \cup Away =>
              \A j \in held[g] : status'[j] = status[j] /\ worker'[j] = worker[j]
        BY <1>2, <1>3, <1>6, <1>7
      <4> QED BY <1>6, <3>2, <4>1, <4>2 DEF Entitled
    <3> QED BY <3>1, <3>2
  <2>2. ASSUME NEW g \in Handler, NEW k \in Handler \ {g}, at'[g] = "start", at'[k] = "start"
        PROVE  held'[k] \cap held'[g] = {}
    BY <1>6, <1>7, <2>2 DEF HandlersInv
  <2> QED BY <2>1, <2>2 DEF HandlersInv
<1>9. Popped' = Popped
  <2>1. {i} \in SUBSET Id
    OBVIOUS
  <2>2. /\ Popped = Elsewhere(h) \cup (IF at[h] \in Away THEN held[h] ELSE {})
        /\ Popped' = Elsewhere(h) \cup (IF "start" \in Away THEN {i} ELSE {})
    BY <1>1, <2>1, PoppedSplit
  <2> QED BY <1>2, <2>2 DEF Away
<1>10. RegistryInv'
  <2>1. Active(Id)' \subseteq Active(Id) \cup {i}
    BY <1>3 DEF Active
  <2> QED BY <1>1, <1>3, <1>4, <1>9, <2>1 DEF RegistryInv, Known, TypeOK
<1>11. IsFiniteSet(Popped) /\ Cardinality(Popped) <= Overshoot
  <2>1. at[h] \notin Away
    BY <1>2 DEF Away
  <2> QED BY <2>1, PoppedBound
<1>12. /\ reg \subseteq Id /\ IsFiniteSet(reg)
       /\ Active(reg) \subseteq reg /\ IsFiniteSet(Active(reg))
  <2>1. reg \subseteq Id /\ Active(reg) \subseteq reg
    BY DEF TypeOK, Active
  <2> QED BY <2>1, DtaasAssumption, FS_Subset
<1>13. ASSUME NEW S \in SUBSET reg, NEW max \in Nat, Cardinality(S) < max, IsFiniteSet(S)
       PROVE  /\ IsFiniteSet(S \cup Popped \cup {i})
              /\ Cardinality(S \cup Popped \cup {i}) <= max + Overshoot
  <2>1. IsFiniteSet(S \cup Popped)
          /\ Cardinality(S \cup Popped) = Cardinality(S) + Cardinality(Popped) - Cardinality(S \cap Popped)
    BY <1>11, <1>13, FS_Union
  <2>2. IsFiniteSet(S \cap Popped)
    BY <1>13, FS_Intersection
  <2>3. /\ Cardinality(S) \in Nat /\ Cardinality(Popped) \in Nat /\ Cardinality(S \cap Popped) \in Nat
        /\ Cardinality(S \cup Popped) \in Nat
    BY <1>11, <1>13, <2>1, <2>2, FS_CardinalityType
  <2>4. IsFiniteSet(S \cup Popped \cup {i})
          /\ Cardinality(S \cup Popped \cup {i}) <= Cardinality(S \cup Popped) + 1
    BY <2>1, OneMore
  <2>5. Cardinality(S \cup Popped \cup {i}) \in Nat
    BY <2>4, FS_CardinalityType
  <2> QED BY <1>11, <1>13, <2>1, <2>3, <2>4, <2>5, OvershootIsNat
<1>14. Cardinality(Known') <= MaxRegistry + Overshoot
  <2>1. Known' = reg \cup Popped \cup {i}
    BY <1>1, <1>9 DEF Known
  <2> QED BY <1>2, <1>12, <1>13, <2>1, DtaasAssumption
<1>15. Cardinality(Active(Id)') <= MaxActive + Overshoot
  <2>1. Active(Id)' \subseteq Active(reg) \cup Popped \cup {i}
    BY <1>3 DEF RegistryInv, Known, Active
  <2>2. /\ Active(reg) \cup Popped \cup {i} \in SUBSET Id
        /\ Cardinality(Active(reg) \cup Popped \cup {i}) <= MaxActive + Overshoot
    BY <1>2, <1>12, <1>13, DtaasAssumption DEF Popped
  <2>3. MaxActive + Overshoot \in Nat
    BY OvershootIsNat, DtaasAssumption
  <2> QED BY <2>1, <2>2, <2>3, SmallerIsWithin
<1>16. LimitsInv'
  BY <1>14, <1>15 DEF LimitsInv, Overshoot
<1> QED BY <1>5, <1>8, <1>10, <1>16

LEMMA DtaasStep == DtaasInv /\ [Next]_vars => DtaasInv'
<1> SUFFICES ASSUME DtaasInv, [Next]_vars PROVE DtaasInv'
  OBVIOUS
<1>1. TypeOK'
  BY TypeStep DEF DtaasInv
<1>2. CASE UNCHANGED vars
  BY <1>2 DEF vars, DtaasInv, TypeOK, HandlersInv, Entitled, WorkersInv, RegistryInv,
              LimitsInv, Known, Popped, Active, Overshoot
<1>3. ASSUME NEW h \in Handler, Reap(h) \/ Pop(h) \/ LookUp(h) \/ HandlerStep(h)
      PROVE  DtaasInv'
  BY <1>1, <1>3, HandlerMoves, HandlerRemoves, HandlerMarks, HandlerStarts, HandlerAdmits
     DEF HandlerStep
<1>4. ASSUME NEW i \in Id, WorkerStep(i) \/ Age(i)
      PROVE  DtaasInv'
  BY <1>1, <1>4, WorkerKeeps
<1> QED BY <1>2, <1>3, <1>4 DEF Next

\* The inductive invariant holds in every reachable state.
THEOREM DtaasInvariant == Spec => []DtaasInv
BY DtaasInit, DtaasStep, PTL DEF Spec

\* However the requests interleave, the active instances pass MAX_ACTIVE_INSTANCES
\* and the entries MAX_REGISTRY by at most one for each other handler, and by none
\* when no DELETE is made (service.py: do_POST, do_DELETE).
THEOREM Limits == Spec => []LimitsBounded
<1>1. DtaasInv => LimitsBounded
  <2> SUFFICES ASSUME DtaasInv PROVE LimitsBounded
    OBVIOUS
  <2>1. reg \in SUBSET Known /\ Known \in SUBSET Id
    BY DEF DtaasInv, TypeOK, Known, Popped
  <2>2. MaxRegistry + Overshoot \in Nat
    BY OvershootIsNat, DtaasAssumption
  <2> QED BY <2>1, <2>2, SmallerIsWithin DEF DtaasInv, LimitsInv, LimitsBounded
<1> QED BY <1>1, DtaasInvariant, PTL

\* A worker at work has an active status and its directory: no DELETE and no
\* reaping takes either away (instance.py: ACTIVE_STATES).
THEOREM DirectoryKept == Spec => []WorkerKeepsDirectory
<1>1. DtaasInv => WorkerKeepsDirectory
  BY DEF DtaasInv, WorkersInv, Busy, WorkerKeepsDirectory
<1> QED BY <1>1, DtaasInvariant, PTL

-----------------------------------------------------------------------------
(***************************************************************************)
(* What is left behind and what is shown.                                  *)
(***************************************************************************)

\* A handler drops an instance only when its directory is gone.
OrphanInv ==
  /\ NoOrphanDirectory
  /\ \A h \in Handler :
       /\ at[h] = "idle" => held[h] = {}
       /\ at[h] = "mark" => \A i \in held[h] : ~dir[i]
       /\ at[h] = "rmtree" => \E i \in Id : held[h] = {i}

LEMMA OrphanHandlers ==
  ASSUME DtaasInv, OrphanInv, NEW h \in Handler, Reap(h) \/ Pop(h) \/ LookUp(h) \/ HandlerStep(h)
  PROVE  OrphanInv'
<1> USE DEF OrphanInv, NoOrphanDirectory
<1> SUFFICES ASSUME TypeOK, Entitled(at[h], held[h]) PROVE OrphanInv'
  BY DEF DtaasInv, HandlersInv
<1>1. CASE Reap(h) \/ Pop(h) \/ LookUp(h) \/ Refuse(h) \/ CheckDone(h) \/ View(h) \/ PutBack(h)
  <2>1. CASE Reap(h)
    BY <2>1 DEF Reap, Goto, TypeOK
  <2>2. CASE Pop(h)
    BY <2>2 DEF Pop, Goto, TypeOK
  <2>3. CASE LookUp(h) \/ Refuse(h) \/ View(h)
    BY <2>3 DEF LookUp, Refuse, View, Goto, TypeOK
  <2>4. CASE CheckDone(h)
    BY <2>4 DEF CheckDone, Goto, TypeOK
  <2>5. CASE PutBack(h)
    BY <2>5 DEF PutBack, Goto, TypeOK
  <2> QED BY <1>1, <2>1, <2>2, <2>3, <2>4, <2>5
<1>2. CASE Discard(h)
  BY <1>2 DEF Discard, Goto, TypeOK
<1>3. CASE Admit(h)
  BY <1>3 DEF Admit, Goto, TypeOK
<1>4. CASE Start(h)
  BY <1>4 DEF Start, Goto, Entitled, TypeOK
<1>5. CASE Teardown(h)
  <2>1. PICK i \in Id : /\ at[h] = "teardown" /\ held[h] = {i} /\ UNCHANGED <<reg, dir, worker>>
                        /\ \E step \in {"putback", "rmtree", "mark"} :
                             Goto(h, step, {i}) /\ (step = "mark" => ~dir[i])
    BY <1>5 DEF Teardown, Entitled, Away
  <2> QED BY <2>1 DEF Goto, TypeOK
<1>6. CASE Rmtree(h)
  BY <1>6 DEF Rmtree, Goto, TypeOK
<1>7. CASE Mark(h)
  BY <1>7 DEF Mark, Goto, TypeOK
<1> QED BY <1>1, <1>2, <1>3, <1>4, <1>5, <1>6, <1>7 DEF HandlerStep

LEMMA OrphanWorkers ==
  ASSUME DtaasInv, OrphanInv, NEW i \in Id, WorkerStep(i) \/ Age(i)
  PROVE  OrphanInv'
<1> USE DEF OrphanInv, NoOrphanDirectory
<1>1. /\ UNCHANGED <<reg, at, held>>
      /\ \A j \in Id \ {i} : worker'[j] = worker[j] /\ dir'[j] = dir[j]
  BY DEF DtaasInv, TypeOK, WorkerStep, MakeDir, Populate, Rollback, Run, Simulate, Score, Digest,
         Finish, Age, Step
<1>2. \/ worker[i] = "provision" /\ worker'[i] # "over"
      \/ worker[i] \in Busy /\ dir'[i] = dir[i]
      \/ ~dir'[i]
      \/ UNCHANGED <<worker, dir>>
  BY DEF DtaasInv, TypeOK, WorkerStep, MakeDir, Populate, Rollback, Run, Simulate, Score, Digest,
         Finish, Age, Step, Busy
\* A worker at work is in the registry, or a DELETE looks at it.
<1>3. worker[i] \in Busy => i \in reg \/ \E h \in Handler : at[h] \in Away /\ i \in held[h]
  BY DEF DtaasInv, WorkersInv, RegistryInv, Active, Known, Popped
<1>4. worker[i] \in Busy => \A h \in Handler : at[h] = "mark" => i \notin held[h]
  BY DEF DtaasInv, WorkersInv, HandlersInv, Entitled, Over, Ended, ACTIVE_STATES
<1>5. \A h \in Handler : held[h] \subseteq Id
  BY DEF DtaasInv, TypeOK
<1> QED BY <1>1, <1>2, <1>3, <1>4, <1>5 DEF Busy, Away

\* What a GET may show is complete before it is announced.
ResultInv ==
  /\ ResultIsComplete
  /\ \A i \in Id :
       /\ worker[i] = "finish" \/ status[i] = "done" => record[i] = "digest"
       /\ record[i] = "digest" => worker[i] \in {"finish", "over"}
  /\ \A h \in Handler : at[h] = "ready" => \E i \in Id : held[h] = {i}

LEMMA ResultHandlers ==
  ASSUME DtaasInv, ResultInv, NEW h \in Handler, Reap(h) \/ Pop(h) \/ LookUp(h) \/ HandlerStep(h)
  PROVE  ResultInv'
<1> USE DEF ResultInv, ResultIsComplete
<1> SUFFICES ASSUME TypeOK, Entitled(at[h], held[h]) PROVE ResultInv'
  BY DEF DtaasInv, HandlersInv
<1>1. CASE Reap(h) \/ Pop(h) \/ LookUp(h) \/ Discard(h) \/ Refuse(h) \/ Teardown(h) \/ Rmtree(h)
           \/ PutBack(h) \/ View(h)
  BY <1>1 DEF Reap, Pop, LookUp, Discard, Refuse, Teardown, Rmtree, PutBack, View, Goto, TypeOK
<1>2. CASE CheckDone(h)
  BY <1>2 DEF CheckDone, Goto, TypeOK
<1>3. CASE Admit(h)
  BY <1>3 DEF Admit, Goto, TypeOK
<1>4. CASE Start(h)
  BY <1>4 DEF Start, Goto, Entitled, TypeOK
<1>5. CASE Mark(h)
  BY <1>5 DEF Mark, Goto, TypeOK
<1> QED BY <1>1, <1>2, <1>3, <1>4, <1>5 DEF HandlerStep

LEMMA ResultWorkers ==
  ASSUME TypeOK, ResultInv, NEW i \in Id, WorkerStep(i) \/ Age(i)
  PROVE  ResultInv'
<1> USE DEF ResultInv, ResultIsComplete
<1>1. CASE MakeDir(i) \/ Populate(i) \/ Rollback(i) \/ Run(i)
  BY <1>1 DEF MakeDir, Populate, Rollback, Run, Step, Fails, TypeOK
<1>2. CASE Simulate(i) \/ Finish(i) \/ Age(i)
  BY <1>2 DEF Simulate, Finish, Age, Step, Fails, TypeOK
<1>3. CASE Score(i) \/ Digest(i)
  BY <1>3 DEF Score, Digest, Step, Fails, TypeOK
<1> QED BY <1>1, <1>2, <1>3 DEF WorkerStep

\* Whoever meets whom, no directory is left that nobody will remove or put back.
THEOREM NoOrphans == Spec => []NoOrphanDirectory
<1>1. Init => OrphanInv
  BY DEF Init, OrphanInv, NoOrphanDirectory
<1>2. DtaasInv /\ OrphanInv /\ [Next]_vars => OrphanInv'
  BY OrphanHandlers, OrphanWorkers DEF Next, vars, OrphanInv, NoOrphanDirectory
<1>3. OrphanInv => NoOrphanDirectory
  BY DEF OrphanInv
<1> QED BY <1>1, <1>2, <1>3, DtaasInvariant, PTL DEF Spec

\* A result is shown with its digest, however the reads of a GET fall between
\* the writes of the worker.
THEOREM CompleteResults == Spec => []ResultIsComplete
<1>1. Init => ResultInv
  BY DEF Init, ResultInv, ResultIsComplete
<1>2. DtaasInv /\ ResultInv /\ [Next]_vars => ResultInv'
  BY ResultHandlers, ResultWorkers DEF Next, vars, DtaasInv, ResultInv, ResultIsComplete
<1>3. ResultInv => ResultIsComplete
  BY DEF ResultInv
<1> QED BY <1>1, <1>2, <1>3, DtaasInvariant, PTL DEF Spec

\* The variables of the service keep their types.
THEOREM DtaasTypes == Spec => []TypeOK
BY DtaasInvariant, PTL DEF DtaasInv
=============================================================================
