----------------------------- MODULE FleetDriver ----------------------------
(***************************************************************************)
(* The fleet driver of the reruns (analysis/run_rerun_v2.py).  Several     *)
(* invocations are given the same output root; the one that creates it     *)
(* runs the plan in a pool of threads, each thread one simulation process  *)
(* at a time, audits what is on disk and writes the manifest.  A driver    *)
(* may be killed at any point, which its simulations survive, and somebody *)
(* else may remove a file of the root or put one there.                    *)
(***************************************************************************)
EXTENDS Naturals, FiniteSets

CONSTANTS Driver,           \* the invocations
          NumRuns,          \* the runs of the plan (180)
          Suffix,           \* the files of a run (three)
          MaxConcurrency,   \* threads of the pool (16)
          MaxDisturbances,  \* bound on what happens to the root from outside
          Nobody

ASSUME FleetAssumption ==
  /\ NumRuns \in Nat /\ MaxConcurrency \in Nat \ {0} /\ MaxDisturbances \in Nat
  /\ IsFiniteSet(Driver) /\ Nobody \notin Driver

Run == 1..NumRuns
File == Run \X Suffix
RunFiles(r) == {r} \X Suffix

VARIABLES rootExists,    \* the output root
          writer,        \* per artefact, the driver whose process wrote it
          stray,         \* a file is in the root that nobody planned
          manifest,      \* FLEET_MANIFEST.json
          pc,            \* where main() is, per driver
          task,          \* the futures of each driver
          stop,          \* the stop event
          ok,            \* the verdict so far
          late,          \* launches after the stop event was set
          disturbances

vars == <<rootExists, writer, stray, manifest, pc, task, stop, ok, late, disturbances>>
diskVars == <<rootExists, writer, stray, manifest>>

NoManifest == [verdict |-> "none", checked |-> FALSE]

Busy == {"taken", "clear", "simulating", "exited"}
Settled == {"ok", "failed", "skipped"}
Running == {"executing", "audited", "announced", "scanned"}

Init ==
  /\ rootExists = FALSE /\ stray = FALSE /\ manifest = NoManifest
  /\ writer = [f \in File |-> Nobody]
  /\ pc = [d \in Driver |-> "start"]
  /\ task = [d \in Driver |-> [r \in Run |-> "queued"]]
  /\ stop = [d \in Driver |-> FALSE] /\ ok = [d \in Driver |-> FALSE]
  /\ late = [d \in Driver |-> 0]
  /\ disturbances = 0

Goto(d, from, to) == pc[d] = from /\ pc' = [pc EXCEPT ![d] = to]

-----------------------------------------------------------------------------
(* The output root                                                         *)

\* verify_authority comes before anything is created.
VerifyAuthority(d) ==
  /\ Goto(d, "start", "verified") \/ Goto(d, "start", "refused")
  /\ UNCHANGED <<diskVars, task, stop, ok, late, disturbances>>

CheckRoot(d) ==
  /\ Goto(d, "verified", IF rootExists THEN "refused" ELSE "checked")
  /\ UNCHANGED <<diskVars, task, stop, ok, late, disturbances>>

\* Fault: a directory that exists is taken as it is.
MakeRootExistOk(d) ==
  /\ Goto(d, "checked", "executing")
  /\ rootExists' = TRUE
  /\ UNCHANGED <<writer, stray, manifest, task, stop, ok, late, disturbances>>

\* os.makedirs is the atomic guard between two invocations.
MakeRoot(d) ==
  /\ Goto(d, "checked", IF rootExists THEN "refused" ELSE "executing")
  /\ rootExists' = TRUE
  /\ UNCHANGED <<writer, stray, manifest, task, stop, ok, late, disturbances>>

-----------------------------------------------------------------------------
(* The pool                                                                *)

InState(d, states) == {r \in Run : task[d][r] \in states}

Become(d, r, from, to) ==
  /\ pc[d] = "executing" /\ task[d][r] = from
  /\ task' = [task EXCEPT ![d][r] = to]

\* Fault: the stop event is not looked at.
TakeRegardless(d, r) ==
  /\ Cardinality(InState(d, Busy)) < MaxConcurrency
  /\ \A q \in InState(d, {"queued"}) : r <= q
  /\ Become(d, r, "queued", "taken")
  /\ UNCHANGED <<diskVars, pc, stop, ok, late, disturbances>>

\* A free thread takes the next run of the plan, and drops it after a failure.
Take(d, r) ==
  /\ Cardinality(InState(d, Busy)) < MaxConcurrency
  /\ \A q \in InState(d, {"queued"}) : r <= q
  /\ Become(d, r, "queued", IF stop[d] THEN "skipped" ELSE "taken")
  /\ UNCHANGED <<diskVars, pc, stop, ok, late, disturbances>>

Fail(d, r, from) ==
  /\ Become(d, r, from, "failed")
  /\ stop' = [stop EXCEPT ![d] = TRUE]
  /\ UNCHANGED <<diskVars, pc, ok, late, disturbances>>

Preflight(d, r) ==
  IF \E f \in RunFiles(r) : writer[f] # Nobody
  THEN Fail(d, r, "taken")
  ELSE /\ Become(d, r, "taken", "clear")
       /\ UNCHANGED <<diskVars, pc, stop, ok, late, disturbances>>

Launch(d, r) ==
  /\ Become(d, r, "clear", "simulating")
  /\ late' = [late EXCEPT ![d] = IF stop[d] THEN @ + 1 ELSE @]
  /\ UNCHANGED <<diskVars, pc, stop, ok, disturbances>>

\* The process of a run writes its files, also after its driver was killed.
WriteFile(d, f) ==
  /\ pc[d] \in {"executing", "killed"} /\ task[d][f[1]] = "simulating"
  /\ writer[f] # d
  /\ writer' = [writer EXCEPT ![f] = d]
  /\ UNCHANGED <<rootExists, stray, manifest, pc, task, stop, ok, late, disturbances>>

Exit(d, r) ==
  /\ Become(d, r, "simulating", "exited")
  /\ UNCHANGED <<diskVars, pc, stop, ok, late, disturbances>>

ExitNonZero(d, r) == Fail(d, r, "simulating")

\* The three files are there, or the run failed.
Collect(d, r) ==
  IF \A f \in RunFiles(r) : writer[f] # Nobody
  THEN /\ Become(d, r, "exited", "ok")
       /\ UNCHANGED <<diskVars, pc, stop, ok, late, disturbances>>
  ELSE Fail(d, r, "exited")

-----------------------------------------------------------------------------
(* Audit and manifest                                                      *)

AllFilesThere == \A f \in File : writer[f] # Nobody

\* Fault: a skipped run is still being waited for.
PoolDoneWithoutSkipped(d) == InState(d, {"ok", "failed"}) = Run

PoolDone(d) == InState(d, Settled) = Run

\* Filesystem truth first; the completed list is only cross-checked.
Audit(d) ==
  /\ PoolDone(d)
  /\ Goto(d, "executing", "audited")
  /\ ok' = [ok EXCEPT ![d] = InState(d, {"ok"}) = Run /\ AllFilesThere /\ ~stray]
  /\ UNCHANGED <<diskVars, task, stop, late, disturbances>>

Verdict(d) == IF ok[d] THEN "GREEN" ELSE "RED"

Announce(d) ==
  /\ Goto(d, "audited", "announced")
  /\ manifest' = [verdict |-> Verdict(d), checked |-> FALSE]
  /\ UNCHANGED <<rootExists, writer, stray, task, stop, ok, late, disturbances>>

\* Fault: the directory is not looked at again.
ScanFinalTreeNot(d) ==
  /\ Goto(d, "announced", "scanned")
  /\ UNCHANGED <<diskVars, task, stop, ok, late, disturbances>>

\* verify_final_tree: the directory is exactly the artefacts and the manifest.
ScanFinalTree(d) ==
  /\ Goto(d, "announced", "scanned")
  /\ ok' = [ok EXCEPT ![d] = @ /\ AllFilesThere /\ ~stray]
  /\ UNCHANGED <<diskVars, task, stop, late, disturbances>>

Conclude(d) ==
  /\ Goto(d, "scanned", "done")
  /\ manifest' = [verdict |-> Verdict(d), checked |-> TRUE]
  /\ UNCHANGED <<rootExists, writer, stray, task, stop, ok, late, disturbances>>

-----------------------------------------------------------------------------
(* What the driver does not control                                        *)

\* A kill in the middle of writing the manifest leaves a torn one.
Kill(d) ==
  /\ pc[d] \notin {"start", "done", "refused", "killed"}
  /\ pc' = [pc EXCEPT ![d] = "killed"]
  /\ \/ manifest' = manifest
     \/ /\ pc[d] \in {"audited", "scanned"}
        /\ manifest' = [verdict |-> "torn", checked |-> FALSE]
  /\ UNCHANGED <<rootExists, writer, stray, task, stop, ok, late, disturbances>>

\* A process whose driver was killed ends on its own.
OrphanExits(d, r) ==
  /\ pc[d] = "killed" /\ task[d][r] = "simulating"
  /\ task' = [task EXCEPT ![d][r] = "exited"]
  /\ UNCHANGED <<diskVars, pc, stop, ok, late, disturbances>>

\* After the last scan nobody looks, and what happens then is not modelled.
Disturb ==
  /\ rootExists /\ disturbances < MaxDisturbances
  /\ \A d \in Driver : pc[d] \notin {"scanned", "done"}
  /\ disturbances' = disturbances + 1
  /\ \/ /\ stray' = TRUE /\ UNCHANGED writer
     \/ /\ stray /\ stray' = FALSE /\ UNCHANGED writer
     \/ /\ \E f \in {g \in File : writer[g] # Nobody} : writer' = [writer EXCEPT ![f] = Nobody]
        /\ UNCHANGED stray
  /\ UNCHANGED <<rootExists, manifest, pc, task, stop, ok, late>>

ThreadStep(d, r) ==
  \/ Take(d, r) \/ Preflight(d, r) \/ Launch(d, r) \/ Exit(d, r) \/ ExitNonZero(d, r)
  \/ Collect(d, r)

DriverStep(d) ==
  \/ VerifyAuthority(d) \/ CheckRoot(d) \/ MakeRoot(d)
  \/ \E r \in Run : ThreadStep(d, r)
  \/ Audit(d) \/ Announce(d) \/ ScanFinalTree(d) \/ Conclude(d)

Next ==
  \/ \E d \in Driver :
        \/ DriverStep(d) \/ Kill(d)
        \/ \E f \in File : WriteFile(d, f)
        \/ \E r \in Run : OrphanExits(d, r)
  \/ Disturb

Spec == Init /\ [][Next]_vars

\* The main thread and the pool go on while they can, and a simulation ends: it
\* has a sim-time-limit.
FairSpec == Spec /\ \A d \in Driver : WF_vars(DriverStep(d))

-----------------------------------------------------------------------------

\* Who has worked is at work or done, or has taken a run from the plan, be it
\* killed since.
Worked(d) ==
  \/ pc[d] \in Running \cup {"done"}
  \/ \E r \in Run : task[d][r] # "queued"

\* However many invocations are given one root, one at most ever works there, also
\* when it was killed in the middle of its plan: the others are refused and leave
\* nothing behind.  One that is killed before it takes its first run has not worked.
OneOwner ==
  \A c, d \in Driver :
     /\ Worked(c) /\ Worked(d) => c = d
     /\ pc[d] \in {"start", "verified", "checked", "refused"} =>
           \A f \in File : writer[f] # d

\* A manifest that says GREEN and carries the final check stands in a root with
\* every artefact, all written by one driver that saw no failure, and no more.
GreenIsWhole ==
  manifest.verdict = "GREEN" /\ manifest.checked =>
     /\ ~stray
     /\ \E d \in Driver :
          /\ \A f \in File : writer[f] = d
          /\ task[d] = [r \in Run |-> "ok"] /\ ~stop[d]

\* After the first failure no more runs start than were already under way.
StopHaltsNewWork == \A d \in Driver : late[d] < MaxConcurrency

\* A driver that started to work comes to a verdict, or was killed.
FleetEnds == \A d \in Driver : pc[d] = "executing" ~> pc[d] \in {"done", "killed"}
=============================================================================
