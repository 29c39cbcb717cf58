--------------------------- MODULE PilotPipeline ---------------------------
(***************************************************************************)
(* The causal pilot (analysis/causal/runpilot.py): a build runs the        *)
(* simulation of every cell, or reuses the logs that an earlier build left *)
(* in the root, checks them, and writes the result: the authority files,   *)
(* the package that carries their digests, the manifest that carries the   *)
(* package's, the settlement that carries the manifest's, the summary.     *)
(*                                                                         *)
(* The simulation is a process of its own (Collector.cc).  Its two logs    *)
(* reach the disk in prefixes, the chain of the events has its anchor      *)
(* written last, and the truth log has neither chain nor anchor.  A build  *)
(* and a simulation may be killed at any step, the one without the other,  *)
(* and between two builds the contract and the programs may be revised.    *)
(*                                                                         *)
(* A simulation is deterministic, so a log is the release that wrote it    *)
(* and the number of its rows, and the head of its chain the same.  The    *)
(* digest of a file is its content.  One build at a time works in a root,  *)
(* and none starts while a simulation that outlived its build still runs.  *)
(***************************************************************************)
EXTENDS Integers, Sequences

CONSTANTS Cells,        \* the inventory, in its order
          EventRows,    \* rows of a whole events log
          Unfinished,   \* cells and releases whose run never ends its episode,
          Unapplied,    \* or applies a third cause and never what its arm declares
          Refused,      \* cells, releases of their logs and of the contract: whole
                        \* runs that build_episode refuses for what they record
          MaxRelease, MaxFaults

Cell == {Cells[i] : i \in DOMAIN Cells}
TruthKinds == <<"episode.begin", "intervention", "episode.end">>

ASSUME PilotAssumption ==
  /\ Cells \in Seq(Cell) /\ Cells # << >>
  /\ \A i, j \in DOMAIN Cells : Cells[i] = Cells[j] => i = j
  /\ EventRows \in Nat \ {0}
  /\ Unfinished \subseteq Cell \X Nat /\ Unapplied \subseteq Cell \X Nat
  /\ Refused \subseteq Cell \X Nat \X Nat
  /\ MaxRelease \in Nat /\ MaxFaults \in Nat

VARIABLES release,                 \* of the contract and the programs
          events, truth, anchor,   \* the files of each cell
          out,                     \* the files of the result
          sim,                     \* the simulation that runs: its cell, release and place
          phase, index,            \* the build: what it does next, for which cell
          contract, fresh,         \* what it loaded, and whether --fresh was given
          got,                     \* what it read of each cell
          clean,                   \* a fresh build that nothing has disturbed
          faults

disk == <<events, truth, anchor>>
loaded == <<contract, fresh>>
vars == <<release, disk, out, sim, phase, index, loaded, got, clean, faults>>

NoFile == [release |-> 0, rows |-> 0]
NoSim == [cell |-> Cells[1], release |-> 0, at |-> "none"]
\* An anchor that was opened and not written holds no chain head.
Torn == [release |-> 0, rows |-> -1]

\* A run that did not do what its arm declares ends with an error.  One that
\* applied a third cause alone has an intervention among its truth all the same.
Failing == Unfinished \cup Unapplied

TruthRows(c, r) == IF <<c, r>> \in Unfinished THEN 2 ELSE Len(TruthKinds)

Over == {"exited", "error"}
Idle == {"idle", "failed", "done"}
Writing == {"raw_event", "raw_truth", "package", "manifest", "settlement", "summary"}

Nothing == [c \in Cell |-> [events |-> NoFile, truth |-> NoFile]]

Init ==
  /\ release = 1
  /\ events = [c \in Cell |-> NoFile] /\ truth = events /\ anchor = events
  /\ out = << >>
  /\ sim = NoSim
  /\ phase = "idle" /\ index = 1
  /\ contract = 0 /\ fresh = FALSE
  /\ got = Nothing
  /\ clean = FALSE
  /\ faults = 0

(***************************************************************************)
(* The simulation: Collector.cc                                            *)
(***************************************************************************)
At(place) == sim.at = place
GoTo(place) == sim' = [sim EXCEPT !.at = place]
Empty == [release |-> sim.release, rows |-> 0]
build == <<phase, index, loaded, got, clean>>

\* Fault: the logs are opened to append.
OpenEventsAppend ==
  /\ At("start") /\ GoTo("opened")
  /\ events' = IF events[sim.cell] = NoFile THEN [events EXCEPT ![sim.cell] = Empty]
               ELSE events
  /\ UNCHANGED <<truth, anchor>>

\* Opening a log cuts it to its header; the events log is opened first.
OpenEvents ==
  /\ At("start") /\ GoTo("opened")
  /\ events' = [events EXCEPT ![sim.cell] = Empty]
  /\ UNCHANGED <<truth, anchor>>

OpenTruth ==
  /\ At("opened") /\ GoTo("running")
  /\ truth' = [truth EXCEPT ![sim.cell] = Empty]
  /\ UNCHANGED <<events, anchor>>

\* logEvent, recordGroundTruth: a row reaches the disk when its buffer does.
LogEvent ==
  /\ At("running") /\ events[sim.cell].rows < EventRows
  /\ events' = [events EXCEPT ![sim.cell].rows = @ + 1]
  /\ UNCHANGED <<sim, truth, anchor>>

RecordGroundTruth ==
  /\ At("running") /\ truth[sim.cell].rows < TruthRows(sim.cell, sim.release)
  /\ truth' = [truth EXCEPT ![sim.cell].rows = @ + 1]
  /\ UNCHANGED <<sim, events, anchor>>

\* finish: both logs are closed, and then the anchor is opened and written; the
\* controller, which knows whether the run has failed, finishes after that.
CloseEvents ==
  /\ At("running") /\ GoTo("closing")
  /\ events' = [events EXCEPT ![sim.cell].rows = EventRows]
  /\ UNCHANGED <<truth, anchor>>

CloseTruth ==
  /\ At("closing") /\ GoTo("closed")
  /\ truth' = [truth EXCEPT ![sim.cell].rows = TruthRows(sim.cell, sim.release)]
  /\ UNCHANGED <<events, anchor>>

OpenAnchor ==
  /\ At("closed") /\ GoTo("anchoring")
  /\ anchor' = [anchor EXCEPT ![sim.cell] = Torn]
  /\ UNCHANGED <<events, truth>>

WriteAnchor ==
  /\ At("anchoring")
  /\ GoTo(IF <<sim.cell, sim.release>> \in Failing THEN "error" ELSE "exited")
  /\ anchor' = [anchor EXCEPT ![sim.cell] = [release |-> sim.release, rows |-> EventRows]]
  /\ UNCHANGED <<events, truth>>

SimStep ==
  /\ \/ OpenEvents \/ OpenTruth \/ LogEvent \/ RecordGroundTruth
     \/ CloseEvents \/ CloseTruth \/ OpenAnchor \/ WriteAnchor
  /\ UNCHANGED <<release, out, build, faults>>

(***************************************************************************)
(* The build: runpilot.py                                                  *)
(***************************************************************************)
c0 == Cells[index]
Continue(next) == phase' = next /\ UNCHANGED <<index, loaded, clean>>

\* authority.load: the contract is read once, and must be the pinned one.
LoadContract == contract' = release

Start(f) ==
  /\ phase \in Idle /\ sim = NoSim
  /\ phase' = "cell" /\ index' = 1
  /\ LoadContract /\ fresh' = f
  /\ got' = Nothing
  /\ clean' = (f /\ \A c \in Cell : /\ <<c, release>> \notin Failing
                                    /\ <<c, release, release>> \notin Refused)
  /\ UNCHANGED <<release, disk, out, sim, faults>>

\* A cell is reused when its events log exists.
Reusable == ~fresh /\ events[c0] # NoFile

Reuse ==
  /\ phase = "cell" /\ Reusable
  /\ Continue("events")
  /\ UNCHANGED <<sim, got>>

\* runcell.run: the simulation is started and waited for, and must have exited
\* with 0 and left its three files.
RunCell ==
  /\ phase = "cell" /\ ~Reusable
  /\ sim' = [cell |-> c0, release |-> contract, at |-> "start"]
  /\ Continue("wait")
  /\ UNCHANGED got

Returns ==
  /\ phase = "wait" /\ sim.at \in Over
  /\ Continue(IF At("exited") /\ NoFile \notin {events[c0], truth[c0], anchor[c0]}
              THEN "events" ELSE "failed")
  /\ sim' = NoSim
  /\ UNCHANGED got

\* read_events, verify_chain: the head of what was read.
ReadEvents ==
  /\ phase = "events"
  /\ got' = [got EXCEPT ![c0].events = events[c0]]
  /\ Continue("anchor")
  /\ UNCHANGED sim

\* Fault: a run without an anchor passes.
AnchoredIfThere == anchor[c0] \in {NoFile, got[c0].events}
Anchored == anchor[c0] # NoFile /\ anchor[c0] = got[c0].events

ReadAnchor ==
  /\ phase = "anchor"
  /\ Continue(IF Anchored THEN "truth" ELSE "failed")
  /\ UNCHANGED <<sim, got>>

ReadTruth ==
  /\ phase = "truth"
  /\ got' = [got EXCEPT ![c0].truth = truth[c0]]
  /\ phase' = IF truth[c0] = NoFile THEN "failed"
              ELSE IF index < Len(Cells) THEN "cell" ELSE "episodes"
  /\ index' = IF phase' = "cell" THEN index + 1 ELSE index
  /\ UNCHANGED <<sim, loaded, clean>>

\* build_episode: one begin, one end and an intervention in every truth log.
HasEpisode(rows) ==
  \A kind \in {"episode.begin", "episode.end", "intervention"} :
    \E k \in 1..rows : TruthKinds[k] = kind

\* It raises also when no contact closes after the episode, or when the truth rows
\* do not fit the registry of the contract: what a whole log says, and which.
Accepted(c) ==
  HasEpisode(got[c].truth.rows) /\ <<c, got[c].events.release, contract>> \notin Refused

BuildEpisodes ==
  /\ phase = "episodes"
  /\ Continue(IF \A c \in Cell : Accepted(c) THEN "raw_event" ELSE "failed")
  /\ UNCHANGED <<sim, got>>

ReadStep ==
  /\ \/ Reuse \/ RunCell \/ Returns \/ ReadEvents \/ ReadAnchor \/ ReadTruth
     \/ BuildEpisodes
  /\ UNCHANGED <<release, disk, out, faults>>

-----------------------------------------------------------------------------
Raw(log) == [c \in Cell |-> got[c][log]]

\* Fault: an authority file that is there is kept.
AuthorityKept(file, log) == IF file \in DOMAIN out THEN out[file] ELSE Raw(log)
Authority(file, log) == Raw(log)

\* The content of a file as it is written: a digest is taken of the file that
\* was written before.  The authority files of the inferential cells and those
\* of the robustness cells, which are written alike, are one of each kind.
Content(file) ==
  CASE file = "raw_event" -> Authority(file, "events")
    [] file = "raw_truth" -> Authority(file, "truth")
    [] file = "package" ->
         [contract |-> contract, payload |-> <<Raw("events"), Raw("truth")>>,
          authority |-> <<out["raw_event"], out["raw_truth"]>>]
    [] file = "manifest" -> [package |-> out["package"]]
    [] file = "settlement" -> [contract |-> contract, manifest |-> out["manifest"]]
    [] file = "summary" ->
         [contract |-> contract, package |-> out["package"],
          manifest |-> out["manifest"], settlement |-> out["settlement"]]

Following(file) ==
  CASE file = "raw_event" -> "raw_truth"
    [] file = "raw_truth" -> "package"
    [] file = "package" -> "manifest"
    [] file = "manifest" -> "settlement"
    [] file = "settlement" -> "summary"
    [] file = "summary" -> "done"

Write ==
  /\ phase \in Writing
  /\ out' = [file \in DOMAIN out \cup {phase} |->
               IF file = phase THEN Content(file) ELSE out[file]]
  /\ Continue(Following(phase))
  /\ UNCHANGED <<release, disk, sim, got, faults>>

BuildStep == ReadStep \/ Write

(***************************************************************************)
(* What happens to both                                                    *)
(***************************************************************************)
Fault ==
  /\ faults < MaxFaults
  /\ faults' = faults + 1
  /\ clean' = FALSE
  /\ UNCHANGED <<release, disk, out, index, loaded, got>>

\* The build is killed, its simulation with it or not.
KillBuild ==
  /\ Fault
  /\ phase \notin Idle /\ phase' = "failed"
  /\ sim' \in {sim, NoSim}

\* The simulation is killed.
KillSimulation ==
  /\ Fault
  /\ sim.at \notin {"none"} \cup Over /\ GoTo("error")
  /\ UNCHANGED phase

\* A simulation that outlived its build ends unobserved.
OrphanEnds ==
  /\ phase \in Idle /\ sim.at \in Over
  /\ sim' = NoSim
  /\ UNCHANGED <<release, disk, out, build, faults>>

\* A new contract, or programs built anew.
Revise ==
  /\ phase \in Idle /\ sim = NoSim /\ release < MaxRelease
  /\ release' = release + 1
  /\ UNCHANGED <<disk, out, sim, build, faults>>

Next ==
  \/ \E f \in BOOLEAN : Start(f)
  \/ BuildStep \/ SimStep
  \/ KillBuild \/ KillSimulation \/ OrphanEnds
  \/ Revise

Spec == Init /\ [][Next]_vars

\* The build goes on, and a simulation ends: it has a sim-time-limit.
FairSpec == Spec /\ WF_vars(BuildStep) /\ WF_vars(SimStep)

-----------------------------------------------------------------------------
\* runpilot.py:62-93, episodes.py:83-92: a package is only ever computed from
\* whole runs, the events and the truth of each by one simulation, although the
\* truth has no chain and logs are reused by the mere existence of one of them;
\* and with --fresh from runs of the contract it names that did not fail.
RestsOnWholeRuns ==
  phase \in Writing \cup {"done"} =>
    \A c \in Cell :
      /\ got[c].events.rows = EventRows
      /\ got[c].truth.rows = Len(TruthKinds)
      /\ got[c].events.release = got[c].truth.release
      /\ fresh => got[c].events.release = contract /\ <<c, contract>> \notin Failing

\* CausalScenario.cc:379: "A causal run that produced no intervention is a FAILED
\* run and says so.  Reporting it as an ordinary quiet run would let a missing
\* injector look like an uneventful experiment."  A package rests on no such run.
FailedRunsAreOut ==
  phase \in Writing \cup {"done"} =>
    \A c \in Cell : <<c, got[c].events.release>> \notin Failing

\* The digests that an accepting party follows, from the settlement down.
Chained ==
  /\ {"raw_event", "raw_truth", "package", "manifest", "settlement"} \subseteq DOMAIN out
  /\ out["settlement"].manifest = out["manifest"]
  /\ out["manifest"].package = out["package"]
  /\ out["package"].authority = <<out["raw_event"], out["raw_truth"]>>

\* runpilot.py:153-288: whenever the digests in the root agree, whatever builds
\* were killed between two of its files, the package says what its authority
\* files say, for the contract of its settlement; and a build that ends leaves
\* a root in which they agree.
ChainIsOneBuild ==
  /\ Chained => /\ out["package"].payload = <<out["raw_event"], out["raw_truth"]>>
                /\ out["package"].contract = out["settlement"].contract
  /\ phase = "done" => Chained /\ out["package"].contract = contract

\* runpilot.py:302-309: whatever killed and failed builds left in the root, a build
\* with --fresh that is left alone succeeds, when every run of its release ends its
\* episode and applies what its arm declares, and build_episode refuses none of them.
FreshBuildSettles == clean ~> phase = "done" \/ ~clean

=============================================================================
