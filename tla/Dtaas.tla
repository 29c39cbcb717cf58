-------------------------------- MODULE Dtaas --------------------------------
(***************************************************************************)
(* The twin instantiation service (dtaas/service.py, dtaas/instance.py):   *)
(* handler threads of the HTTP server, one worker thread per instance, the *)
(* registry REG under its lock, and the instance directories.              *)
(*                                                                         *)
(* A region under LOCK is one step, everything outside it interleaves.     *)
(* The endpoints that only read are left out; a GET of a result is kept    *)
(* for what it may see between two reads.                                  *)
(***************************************************************************)
EXTENDS Integers, FiniteSets

CONSTANTS Id,            \* instance ids (uuid4: never drawn twice)
          Handler,       \* handler threads
          Requests,      \* the requests clients make, a subset of Request
          MaxActive,     \* MAX_ACTIVE_INSTANCES
          MaxRegistry    \* MAX_REGISTRY

Request == {"POST", "GET", "DELETE"}

ASSUME DtaasAssumption ==
  /\ IsFiniteSet(Id)
  /\ IsFiniteSet(Handler) /\ Handler # {}
  /\ Requests \subseteq Request
  /\ {MaxActive, MaxRegistry} \subseteq Nat

VARIABLES reg,      \* REG
          status,   \* Instance.status, "new" before the instance exists
          dir,      \* the instance's directory exists
          record,   \* what _score has filled in: result, then event_record_sha256
          worker,   \* the next step of the instance's thread
          expired,  \* instances older than INSTANCE_TTL_S
          at,       \* the next step of each handler
          held      \* the instances a handler works on

vars == <<reg, status, dir, record, worker, expired, at, held>>

ACTIVE_STATES == {"provisioning", "provisioned", "running", "scoring"}
Ended == {"done", "failed"}

TypeOK ==
  /\ reg \subseteq Id
  /\ status \in [Id -> ACTIVE_STATES \cup Ended \cup {"new", "destroyed"}]
  /\ dir \in [Id -> BOOLEAN]
  /\ record \in [Id -> {"none", "result", "digest"}]
  /\ worker \in [Id -> {"unborn", "provision", "populate", "rollback", "run",
                        "simulate", "score", "digest", "finish", "over"}]
  /\ expired \subseteq Id
  /\ at \in [Handler -> {"idle", "admit", "start", "teardown", "rmtree", "mark",
                         "putback", "ready", "view"}]
  /\ held \in [Handler -> SUBSET Id]

Init ==
  /\ reg = {}
  /\ status = [i \in Id |-> "new"]
  /\ dir = [i \in Id |-> FALSE]
  /\ record = [i \in Id |-> "none"]
  /\ worker = [i \in Id |-> "unborn"]
  /\ expired = {}
  /\ at = [h \in Handler |-> "idle"]
  /\ held = [h \in Handler |-> {}]

Active(S) == {i \in S : status[i] \in ACTIVE_STATES}

-----------------------------------------------------------------------------
(***************************************************************************)
(* Handlers.                                                               *)
(***************************************************************************)
Goto(h, step, S) == at' = [at EXCEPT ![h] = step] /\ held' = [held EXCEPT ![h] = S]

\* do_POST begins with _reap: the stale instances leave the registry under the lock.
Reap(h) ==
  LET stale == {i \in reg \cap expired : status[i] \in Ended}
  IN  /\ "POST" \in Requests /\ at[h] = "idle"
      /\ reg' = reg \ stale
      /\ Goto(h, "admit", stale)
      /\ UNCHANGED <<status, dir, record, worker, expired>>

\* Fault: the stale instances are forgotten with their directories in place.
DiscardForgets(h) ==
  /\ at[h] = "admit"
  /\ held[h] # {}
  /\ Goto(h, "admit", {})
  /\ UNCHANGED <<reg, status, dir, record, worker, expired>>

\* The directory of one stale instance goes, outside the lock.
Discard(h) ==
  /\ at[h] = "admit"
  /\ \E i \in held[h] :
       /\ dir' = [dir EXCEPT ![i] = FALSE]
       /\ Goto(h, "admit", held[h] \ {i})
  /\ UNCHANGED <<reg, status, record, worker, expired>>

HasRoom == Cardinality(Active(reg)) < MaxActive /\ Cardinality(reg) < MaxRegistry

\* Capacity check and reservation, in one locked region.
Admit(h) ==
  /\ at[h] = "admit" /\ held[h] = {}
  /\ HasRoom
  /\ \E i \in Id :
       /\ status[i] = "new"
       /\ status' = [status EXCEPT ![i] = "provisioning"]
       /\ reg' = reg \cup {i}
       /\ Goto(h, "start", {i})
  /\ UNCHANGED <<dir, record, worker, expired>>

\* No room, or a body that validate turns away: both come after the reaping.
Refuse(h) ==
  /\ at[h] = "admit" /\ held[h] = {}
  /\ Goto(h, "idle", {})
  /\ UNCHANGED <<reg, status, dir, record, worker, expired>>

Start(h) ==
  /\ at[h] = "start"
  /\ worker' = [i \in Id |-> IF i \in held[h] THEN "provision" ELSE worker[i]]
  /\ Goto(h, "idle", {})
  /\ UNCHANGED <<reg, status, dir, record, expired>>

\* do_DELETE takes the instance out of the registry before it looks at it.
Pop(h) ==
  /\ "DELETE" \in Requests /\ at[h] = "idle"
  /\ \E i \in reg :
       /\ reg' = reg \ {i}
       /\ Goto(h, "teardown", {i})
  /\ UNCHANGED <<status, dir, record, worker, expired>>

\* Faults: a provisioned instance, or one being provisioned, is not protected.
TeardownNotProvisioned(h) ==
  /\ at[h] = "teardown"
  /\ \E i \in held[h] :
       Goto(h, IF status[i] \in ACTIVE_STATES \ {"provisioned"} THEN "putback"
               ELSE IF dir[i] THEN "rmtree" ELSE "mark", {i})
  /\ UNCHANGED <<reg, status, dir, record, worker, expired>>

\* teardown: refused while the instance is active.
Teardown(h) ==
  /\ at[h] = "teardown"
  /\ \E i \in held[h] :
       Goto(h, IF status[i] \in ACTIVE_STATES THEN "putback"
               ELSE IF dir[i] THEN "rmtree" ELSE "mark", {i})
  /\ UNCHANGED <<reg, status, dir, record, worker, expired>>

\* rmtree raises when the worker's rollback was faster: the handler dies.
Rmtree(h) ==
  /\ at[h] = "rmtree"
  /\ \E i \in held[h] :
       \/ /\ dir[i]
          /\ dir' = [dir EXCEPT ![i] = FALSE]
          /\ Goto(h, "mark", {i})
       \/ ~dir[i] /\ Goto(h, "idle", {}) /\ UNCHANGED dir
  /\ UNCHANGED <<reg, status, record, worker, expired>>

Mark(h) ==
  /\ at[h] = "mark"
  /\ status' = [i \in Id |-> IF i \in held[h] THEN "destroyed" ELSE status[i]]
  /\ Goto(h, "idle", {})
  /\ UNCHANGED <<reg, dir, record, worker, expired>>

\* Fault: the refused instance is not put back.
PutBackLost(h) ==
  /\ at[h] = "putback"
  /\ Goto(h, "idle", {})
  /\ UNCHANGED <<reg, status, dir, record, worker, expired>>

PutBack(h) ==
  /\ at[h] = "putback"
  /\ reg' = reg \cup held[h]
  /\ Goto(h, "idle", {})
  /\ UNCHANGED <<status, dir, record, worker, expired>>

\* GET .../result: look the instance up, check its status, then render it; no
\* lock is held.
LookUp(h) ==
  /\ "GET" \in Requests /\ at[h] = "idle"
  /\ \E i \in reg : Goto(h, "ready", {i})
  /\ UNCHANGED <<reg, status, dir, record, worker, expired>>

CheckDone(h) ==
  /\ at[h] = "ready"
  /\ \/ /\ \E i \in held[h] : status[i] = "done"
        /\ Goto(h, "view", held[h])
     \/ /\ \A i \in held[h] : status[i] # "done"
        /\ Goto(h, "idle", {})
  /\ UNCHANGED <<reg, status, dir, record, worker, expired>>

View(h) ==
  /\ at[h] = "view"
  /\ Goto(h, "idle", {})
  /\ UNCHANGED <<reg, status, dir, record, worker, expired>>

-----------------------------------------------------------------------------
(***************************************************************************)
(* Workers.                                                                *)
(***************************************************************************)
Step(i, from, to) == worker[i] = from /\ worker' = [worker EXCEPT ![i] = to]

Fails(i) == status' = [status EXCEPT ![i] = "failed"]

\* provision: the directories, then the calibration file and the command line;
\* an exception marks the instance failed and rolls it back.
MakeDir(i) ==
  /\ \/ Step(i, "provision", "populate") /\ dir' = [dir EXCEPT ![i] = TRUE] /\ UNCHANGED status
     \/ Step(i, "provision", "rollback") /\ Fails(i) /\ UNCHANGED dir
  /\ UNCHANGED <<reg, record, expired, at, held>>

Populate(i) ==
  /\ \/ Step(i, "populate", "run") /\ status' = [status EXCEPT ![i] = "provisioned"]
     \/ Step(i, "populate", "rollback") /\ Fails(i)
  /\ UNCHANGED <<reg, dir, record, expired, at, held>>

Rollback(i) ==
  /\ Step(i, "rollback", "over")
  /\ dir' = [dir EXCEPT ![i] = FALSE]
  /\ UNCHANGED <<reg, status, record, expired, at, held>>

Run(i) ==
  /\ Step(i, "run", "simulate")
  /\ status' = [status EXCEPT ![i] = "running"]
  /\ UNCHANGED <<reg, dir, record, expired, at, held>>

\* Fault: a run that times out is left in the state it was in.
SimulateIgnoresTimeout(i) ==
  /\ \/ Step(i, "simulate", "score") /\ status' = [status EXCEPT ![i] = "scoring"]
     \/ Step(i, "simulate", "over") /\ UNCHANGED status
  /\ UNCHANGED <<reg, dir, record, expired, at, held>>

\* The simulator exits well, or fails, times out or cannot be started.
Simulate(i) ==
  /\ \/ Step(i, "simulate", "score") /\ status' = [status EXCEPT ![i] = "scoring"]
     \/ Step(i, "simulate", "over") /\ Fails(i)
  /\ UNCHANGED <<reg, dir, record, expired, at, held>>

\* _score: the result, the digest of the event record, and only then "done".
Score(i) ==
  /\ \/ Step(i, "score", "digest") /\ record' = [record EXCEPT ![i] = "result"] /\ UNCHANGED status
     \/ Step(i, "score", "over") /\ Fails(i) /\ UNCHANGED record
  /\ UNCHANGED <<reg, dir, expired, at, held>>

\* Fault: done is announced before the digest is in place.
DigestAnnouncesFirst(i) ==
  /\ \/ Step(i, "digest", "finish") /\ status' = [status EXCEPT ![i] = "done"]
     \/ Step(i, "digest", "over") /\ Fails(i)
  /\ UNCHANGED <<reg, dir, record, expired, at, held>>

Digest(i) ==
  /\ \/ Step(i, "digest", "finish") /\ record' = [record EXCEPT ![i] = "digest"] /\ UNCHANGED status
     \/ Step(i, "digest", "over") /\ Fails(i) /\ UNCHANGED record
  /\ UNCHANGED <<reg, dir, expired, at, held>>

Finish(i) ==
  /\ Step(i, "finish", "over")
  /\ status' = [status EXCEPT ![i] = "done"]
  /\ UNCHANGED <<reg, dir, record, expired, at, held>>

\* The age of an instance passes INSTANCE_TTL_S, counted from its creation.
Age(i) ==
  /\ status[i] # "new"
  /\ expired' = expired \cup {i}
  /\ UNCHANGED <<reg, status, dir, record, worker, at, held>>

-----------------------------------------------------------------------------
HandlerStep(h) ==
  \/ Discard(h) \/ Admit(h) \/ Refuse(h) \/ Start(h)
  \/ Teardown(h) \/ Rmtree(h) \/ Mark(h) \/ PutBack(h)
  \/ CheckDone(h) \/ View(h)

WorkerStep(i) ==
  \/ MakeDir(i) \/ Populate(i) \/ Rollback(i)
  \/ Run(i) \/ Simulate(i) \/ Score(i) \/ Digest(i) \/ Finish(i)

Next ==
  \/ \E h \in Handler : Reap(h) \/ Pop(h) \/ LookUp(h) \/ HandlerStep(h)
  \/ \E i \in Id : WorkerStep(i) \/ Age(i)

Spec == Init /\ [][Next]_vars

\* A thread that can run runs; nothing makes a client send or an instance age.
\* (run has a timeout; the scorer of a finished run is taken to terminate.)
FairSpec ==
  /\ Spec
  /\ \A h \in Handler : WF_vars(HandlerStep(h))
  /\ \A i \in Id : WF_vars(WorkerStep(i))

-----------------------------------------------------------------------------
\* The README's guarantee: never more than MAX_ACTIVE_INSTANCES active instances,
\* however the requests interleave.
CapacityHolds == Cardinality(Active(Id)) <= MaxActive

\* What the code does guarantee: an instance that a DELETE has out of the registry
\* to look at is not counted, so both limits may be passed by the other handlers'
\* instances, one each, and are kept when there are no DELETEs.
Overshoot == IF "DELETE" \in Requests THEN Cardinality(Handler) - 1 ELSE 0

LimitsBounded ==
  /\ Cardinality(Active(Id)) <= MaxActive + Overshoot
  /\ Cardinality(reg) <= MaxRegistry + Overshoot

\* From the moment its directory is made to the moment it ends, a worker never
\* loses the directory it works in (instance.py: "a DELETE arriving between
\* provision() and run() could remove the directory").
WorkerKeepsDirectory ==
  \A i \in Id : worker[i] \in {"populate", "run", "simulate", "score", "digest", "finish"}
                  => dir[i] /\ status[i] \in ACTIVE_STATES

\* No directory is left behind: once the worker is over, a directory belongs to an
\* entry of the registry or to a handler that removes it or puts the entry back.
NoOrphanDirectory ==
  \A i \in Id : dir[i] /\ worker[i] = "over" =>
     i \in reg \/ \E h \in Handler : at[h] \notin {"ready", "view"} /\ i \in held[h]

\* A result is only shown complete, with its digest.
ResultIsComplete ==
  \A h \in Handler : at[h] = "view" => \A i \in held[h] : record[i] = "digest"

\* Every admitted instance comes to an end, so its slot comes back.
InstanceEnds == \A i \in Id : (status[i] = "provisioning") ~> (status[i] \notin ACTIVE_STATES)

\* An instance that left the registry goes back to it or loses its directory.
PoppedIsSettled ==
  \A i \in Id : (status[i] # "new" /\ i \notin reg) ~> (i \in reg \/ ~dir[i])

=============================================================================
