----------------------------- MODULE PilotRuns -----------------------------
(***************************************************************************)
(* Proofs about PilotPipeline, for every inventory, every length of a log  *)
(* and any number of releases and kills.                                   *)
(*                                                                         *)
(* The truth log has no chain of its own.  What makes it trustworthy is    *)
(* the order in which a simulation opens its files: the events log is cut  *)
(* before the truth log is, so that a row among the events shows that the  *)
(* truth beside it was opened by the same run (SameRun).  The anchor then  *)
(* vouches for all the rows of the events, and the episode's last row for  *)
(* all the rows of the truth.                                              *)
(***************************************************************************)
EXTENDS PilotPipeline, TLAPS

Places == {"none", "start", "opened", "running", "closing", "closed", "anchoring"} \cup Over
Phases == {"cell", "wait", "events", "anchor", "truth", "episodes"} \cup Idle \cup Writing
Log == [release : Nat, rows : Int]

TypeOK ==
  /\ release \in Nat
  /\ events \in [Cell -> Log] /\ truth \in [Cell -> Log] /\ anchor \in [Cell -> Log]
  /\ sim \in [cell : Cell, release : Nat, at : Places]
  /\ phase \in Phases /\ index \in DOMAIN Cells
  /\ contract \in Nat /\ fresh \in BOOLEAN
  /\ got \in [Cell -> [events : Log, truth : Log]]

\* A row among the events shows that the truth is of the same run.
SameRun ==
  \A c \in Cell :
    /\ events[c].rows \in 0..EventRows
    /\ truth[c].rows \in 0..Len(TruthKinds)
    /\ events[c].rows > 0 => truth[c].release = events[c].release
    /\ anchor[c] # NoFile => anchor[c].rows \in {-1, EventRows}

Opened == {"opened", "running", "closing", "closed", "anchoring", "exited"}

\* How far the simulation is, and that it is the one the build waits for.
SimInv ==
  /\ sim.at \in Opened => events[sim.cell].release = sim.release
  /\ sim.at \in Opened \ {"opened"} => truth[sim.cell].release = sim.release
  /\ sim.at = "exited" => <<sim.cell, sim.release>> \notin Failing
  /\ phase \notin Idle \cup {"wait"} => sim = NoSim
  /\ phase = "wait" => sim.cell = c0 /\ sim.release = contract

\* A run that a fresh build may use.
Usable(c, log) == fresh => log.release = contract /\ <<c, contract>> \notin Failing

\* What was read of a cell is one whole run, as far as the events tell.
ReadWell(c) ==
  /\ got[c].events.rows = EventRows
  /\ got[c].truth.rows \in 0..Len(TruthKinds)
  /\ got[c].events.release = got[c].truth.release
  /\ Usable(c, got[c].events)

Reading == {"cell", "wait", "events", "anchor", "truth"}

ReadInv ==
  /\ phase \in Reading => \A i \in 1..(index - 1) : ReadWell(Cells[i])
  /\ phase = "events" => Usable(c0, events[c0])
  /\ phase \in {"anchor", "truth"} => Usable(c0, events[c0]) /\ got[c0].events = events[c0]
  /\ phase = "truth" => events[c0].rows = EventRows
  /\ phase \in {"episodes", "done"} \cup Writing => \A c \in Cell : ReadWell(c)
  /\ phase \in {"done"} \cup Writing => \A c \in Cell : got[c].truth.rows = Len(TruthKinds)

RunsInv == TypeOK /\ SameRun /\ SimInv /\ ReadInv

-----------------------------------------------------------------------------
LEMMA CellsType ==
  /\ Len(Cells) \in Nat \ {0} /\ DOMAIN Cells = 1..Len(Cells)
  /\ \A i \in DOMAIN Cells : Cells[i] \in Cell
  /\ \A c \in Cell : \E i \in 1..Len(Cells) : c = Cells[i]
BY PilotAssumption DEF Cell

LEMMA RowsOfTruth ==
  /\ Len(TruthKinds) = 3
  /\ \A c, r : TruthRows(c, r) \in 0..3
BY DEF TruthKinds, TruthRows

\* A truth log with the last row of its episode has all of them.
LEMMA EpisodeIsWhole ==
  ASSUME NEW n \in 0..Len(TruthKinds), HasEpisode(n)
  PROVE  n = Len(TruthKinds)
<1>1. PICK k \in 1..n : TruthKinds[k] = "episode.end"
  BY DEF HasEpisode
<1>2. k = 3
  BY <1>1, RowsOfTruth DEF TruthKinds
<1> QED BY <1>1, <1>2, RowsOfTruth

\* Setting the number of rows of one file.
LEMMA Recounted ==
  ASSUME NEW f \in [Cell -> Log], NEW c \in Cell, NEW n \in Int
  PROVE  LET g == [f EXCEPT ![c].rows = n]
         IN  /\ g \in [Cell -> Log]
             /\ g[c].rows = n /\ g[c].release = f[c].release
             /\ \A d \in Cell \ {c} : g[d] = f[d]
<1>1. f[c] \in Log /\ [f[c] EXCEPT !.rows = n] \in Log
  BY DEF Log
<1>2. [f[c] EXCEPT !.rows = n].rows = n /\ [f[c] EXCEPT !.rows = n].release = f[c].release
  BY <1>1 DEF Log
<1>3. [f EXCEPT ![c].rows = n] = [f EXCEPT ![c] = [f[c] EXCEPT !.rows = n]]
  OBVIOUS
<1> HIDE DEF Log
<1> QED BY <1>1, <1>2, <1>3

LEMMA RunsInit == Init => RunsInv
<1> SUFFICES ASSUME Init PROVE RunsInv
  OBVIOUS
<1> USE DEF Init, NoFile, NoSim
<1>1. TypeOK
  <2>1. Cells[1] \in Cell /\ 1 \in DOMAIN Cells
    BY CellsType
  <2>2. NoFile \in Log /\ got \in [Cell -> [events : Log, truth : Log]]
    BY DEF Log, Nothing
  <2>3. sim \in [cell : Cell, release : Nat, at : Places]
    BY <2>1 DEF Places
  <2>4. phase \in Phases
    BY DEF Phases, Idle
  <2> QED BY <2>1, <2>2, <2>3, <2>4 DEF TypeOK
<1>2. SameRun
  BY PilotAssumption, RowsOfTruth DEF SameRun
<1>3. SimInv
  BY DEF SimInv, Opened, Idle
<1>4. ReadInv
  BY DEF ReadInv, Reading, Writing
<1> QED BY <1>1, <1>2, <1>3, <1>4 DEF RunsInv

-----------------------------------------------------------------------------
LEMMA TypeStep == TypeOK /\ [Next]_vars => TypeOK'
<1> SUFFICES ASSUME TypeOK, [Next]_vars PROVE TypeOK'
  OBVIOUS
<1> USE DEF TypeOK, disk, build, loaded
<1>1. CASE UNCHANGED vars
  BY <1>1 DEF vars
<1>2. ASSUME NEW f \in BOOLEAN, Start(f) PROVE TypeOK'
  <2>1. 1 \in DOMAIN Cells /\ NoFile \in Log /\ got' \in [Cell -> [events : Log, truth : Log]]
    BY <1>2, CellsType DEF Start, LoadContract, Nothing, NoFile, Log
  <2> QED BY <1>2, <2>1 DEF Start, LoadContract, Phases
<1>3. CASE SimStep
  <2>1. Empty \in Log /\ Torn \in Log /\ [release |-> sim.release, rows |-> EventRows] \in Log
    BY PilotAssumption DEF Empty, Torn, Log
  <2>2. CASE OpenEvents \/ OpenTruth \/ OpenAnchor
    BY <1>3, <2>1, <2>2 DEF SimStep, OpenEvents, OpenTruth, OpenAnchor, GoTo, Places
  <2>3. CASE WriteAnchor
    BY <1>3, <2>1, <2>3 DEF SimStep, WriteAnchor, GoTo, Places, Over
  <2>4. CASE LogEvent \/ CloseEvents
    <3>1. sim.cell \in Cell /\ events[sim.cell].rows + 1 \in Int /\ EventRows \in Int
      BY PilotAssumption DEF Log
    <3>2. events' \in [Cell -> Log]
      <4>1. CASE LogEvent
        BY <3>1, <4>1, Recounted DEF LogEvent
      <4>2. CASE CloseEvents
        BY <3>1, <4>2, Recounted DEF CloseEvents
      <4> QED BY <2>4, <4>1, <4>2
    <3> QED BY <1>3, <2>4, <3>2 DEF SimStep, LogEvent, CloseEvents, GoTo, Places
  <2>5. CASE RecordGroundTruth \/ CloseTruth
    <3>1. /\ sim.cell \in Cell /\ truth[sim.cell].rows + 1 \in Int
          /\ TruthRows(sim.cell, sim.release) \in Int
      BY RowsOfTruth DEF Log
    <3>2. truth' \in [Cell -> Log]
      <4>1. CASE RecordGroundTruth
        <5>1. truth' = [truth EXCEPT ![sim.cell].rows = @ + 1]
          BY <4>1 DEF RecordGroundTruth
        <5> QED BY <3>1, <5>1, Recounted
      <4>2. CASE CloseTruth
        <5> DEFINE n == TruthRows(sim.cell, sim.release)
        <5>1. truth' = [truth EXCEPT ![sim.cell].rows = n] /\ n \in Int
          BY <3>1, <4>2 DEF CloseTruth
        <5> HIDE DEF n
        <5> QED BY <3>1, <5>1, Recounted
      <4> QED BY <2>5, <4>1, <4>2
    <3> QED BY <1>3, <2>5, <3>2 DEF SimStep, RecordGroundTruth, CloseTruth, GoTo, Places
  <2> QED BY <1>3, <2>2, <2>3, <2>4, <2>5 DEF SimStep
<1>4. CASE ReadStep
  <2>1. c0 \in Cell
    BY CellsType DEF c0
  <2>2. NoSim \in [cell : Cell, release : Nat, at : Places]
    BY CellsType DEF NoSim, Places
  <2>3. CASE Reuse \/ ReadAnchor \/ BuildEpisodes
    BY <1>4, <2>3 DEF ReadStep, Reuse, ReadAnchor, BuildEpisodes, Continue, Phases, Idle, Writing
  <2>4. CASE RunCell
    BY <1>4, <2>1, <2>4 DEF ReadStep, RunCell, Continue, Phases, Places
  <2>5. CASE Returns
    BY <1>4, <2>2, <2>5 DEF ReadStep, Returns, Continue, Phases, Idle
  <2>6. CASE ReadEvents
    BY <1>4, <2>1, <2>6 DEF ReadStep, ReadEvents, Continue, Phases
  <2>7. CASE ReadTruth
    BY <1>4, <2>1, <2>7, CellsType DEF ReadStep, ReadTruth, Phases, Idle
  <2> QED BY <1>4, <2>3, <2>4, <2>5, <2>6, <2>7 DEF ReadStep
<1>5. CASE Write
  BY <1>5 DEF Write, Continue, Following, Writing, Phases, Idle
<1>6. CASE KillBuild \/ KillSimulation
  <2>1. NoSim \in [cell : Cell, release : Nat, at : Places]
    BY CellsType DEF NoSim, Places
  <2> QED BY <1>6, <2>1 DEF KillBuild, KillSimulation, Fault, GoTo, Phases, Idle, Places, Over
<1>7. CASE OrphanEnds \/ Revise
  <2>1. NoSim \in [cell : Cell, release : Nat, at : Places]
    BY CellsType DEF NoSim, Places
  <2> QED BY <1>7, <2>1 DEF OrphanEnds, Revise
<1> QED BY <1>1, <1>2, <1>3, <1>4, <1>5, <1>6, <1>7 DEF Next, BuildStep

\* A simulation writes its own cell's files and nothing that was read.
LEMMA SimulationStep ==
  ASSUME RunsInv, TypeOK', SimStep
  PROVE  RunsInv'
<1> USE DEF RunsInv, TypeOK, disk, build, loaded
<1> DEFINE s == sim.cell
<1>1. s \in Cell /\ sim.release \in Nat
  OBVIOUS
<1>2. phase \in Idle \cup {"wait"} /\ sim.at # "none"
  BY DEF SimStep, OpenEvents, OpenTruth, LogEvent, RecordGroundTruth, CloseEvents, CloseTruth,
         OpenAnchor, WriteAnchor, At, SimInv, NoSim
<1>3. UNCHANGED <<phase, index, contract, fresh, got>>
  BY DEF SimStep
<1>4. ReadInv'
  <2>1. \A c \in Cell : ReadWell(c) <=> ReadWell(c)'
    BY <1>3 DEF ReadWell, Usable
  <2>2. \A i \in 1..(index - 1) : Cells[i] \in Cell
    <3>1. index \in 1..Len(Cells) /\ Len(Cells) \in Nat
      BY CellsType
    <3>2. 1..(index - 1) \subseteq 1..Len(Cells)
      BY <3>1
    <3> QED BY <3>2, CellsType
  <2> QED BY <1>2, <1>3, <2>1, <2>2 DEF ReadInv, Reading, Idle, Writing
<1>5. \A c \in Cell \ {s} : /\ events'[c] = events[c] /\ truth'[c] = truth[c]
                            /\ anchor'[c] = anchor[c]
  BY DEF SimStep, OpenEvents, OpenTruth, LogEvent, RecordGroundTruth, CloseEvents, CloseTruth,
         OpenAnchor, WriteAnchor
<1>6. /\ sim'.cell = s /\ sim'.release = sim.release
      /\ phase = "wait" => s = c0 /\ sim.release = contract
  BY DEF SimStep, OpenEvents, OpenTruth, LogEvent, RecordGroundTruth, CloseEvents, CloseTruth,
         OpenAnchor, WriteAnchor, GoTo, SimInv
<1> DEFINE Kept == /\ events'[s].rows \in 0..EventRows
                   /\ truth'[s].rows \in 0..3
                   /\ events'[s].rows > 0 => truth'[s].release = events'[s].release
                   /\ anchor'[s] # NoFile => anchor'[s].rows \in {-1, EventRows}
                   /\ sim'.at \in Opened => events'[s].release = sim.release
                   /\ sim'.at \in Opened \ {"opened"} => truth'[s].release = sim.release
                   /\ sim'.at = "exited" => <<s, sim.release>> \notin Failing
<1>7. Kept
  <2> USE RowsOfTruth, PilotAssumption, <1>1 DEF SameRun, SimInv, Opened, At, GoTo
  <2>1. CASE OpenEvents
    BY <2>1 DEF OpenEvents, Empty
  <2>2. CASE OpenTruth
    BY <2>2 DEF OpenTruth, Empty
  <2>3. CASE LogEvent
    <3>1. events[s].rows + 1 \in 0..EventRows
      BY <2>3 DEF LogEvent
    <3>2. events'[s].rows = events[s].rows + 1 /\ events'[s].release = events[s].release
      BY <2>3, <3>1, Recounted DEF LogEvent
    <3> QED BY <2>3, <3>1, <3>2 DEF LogEvent
  <2>4. CASE RecordGroundTruth
    <3>1. TruthRows(s, sim.release) \in 0..3
      OBVIOUS
    <3>2. truth[s].rows + 1 \in 0..3
      <4>1. truth[s].rows \in 0..3 /\ truth[s].rows < TruthRows(s, sim.release)
        BY <2>4 DEF RecordGroundTruth
      <4> QED BY <3>1, <4>1
    <3>3. truth'[s].rows = truth[s].rows + 1 /\ truth'[s].release = truth[s].release
      BY <2>4, <3>2, Recounted DEF RecordGroundTruth
    <3> QED BY <2>4, <3>2, <3>3 DEF RecordGroundTruth
  <2>5. CASE CloseEvents
    <3>1. events'[s].rows = EventRows /\ events'[s].release = events[s].release
      BY <2>5, Recounted DEF CloseEvents
    <3> QED BY <2>5, <3>1 DEF CloseEvents
  <2>6. CASE CloseTruth
    <3>1. TruthRows(s, sim.release) \in 0..3
      OBVIOUS
    <3>2. truth'[s].rows = TruthRows(s, sim.release) /\ truth'[s].release = truth[s].release
      BY <2>6, <3>1, Recounted DEF CloseTruth
    <3> QED BY <2>6, <3>1, <3>2 DEF CloseTruth
  <2>7. CASE OpenAnchor
    BY <2>7 DEF OpenAnchor, Torn
  <2>8. CASE WriteAnchor
    BY <2>8 DEF WriteAnchor
  <2> QED BY <2>1, <2>2, <2>3, <2>4, <2>5, <2>6, <2>7, <2>8 DEF SimStep
<1>8. SameRun'
  <2> SUFFICES ASSUME NEW c \in Cell
               PROVE  /\ events'[c].rows \in 0..EventRows
                      /\ truth'[c].rows \in 0..Len(TruthKinds)
                      /\ events'[c].rows > 0 => truth'[c].release = events'[c].release
                      /\ anchor'[c] # NoFile => anchor'[c].rows \in {-1, EventRows}
    BY DEF SameRun
  <2>1. CASE c = s
    BY <1>7, <2>1, RowsOfTruth
  <2>2. CASE c # s
    BY <1>5, <2>2 DEF SameRun
  <2> QED BY <2>1, <2>2
<1>9. SimInv'
  BY <1>2, <1>3, <1>6, <1>7 DEF SimInv, c0, Idle
<1> QED BY <1>4, <1>8, <1>9

\* What a build has read of the earlier cells stays as it is while it reads on.
LEMMA ReadOn ==
  ASSUME RunsInv, phase \in Reading, NEW f \in [Cell -> [events : Log, truth : Log]],
         \A c \in Cell \ {c0} : f[c] = got[c], got' = f,
         UNCHANGED <<index, contract, fresh>>
  PROVE  \A i \in 1..(index - 1) : ReadWell(Cells[i])'
<1> SUFFICES ASSUME NEW i \in 1..(index - 1) PROVE ReadWell(Cells[i])'
  OBVIOUS
<1>1. index \in 1..Len(Cells) /\ Len(Cells) \in Nat
  BY CellsType DEF RunsInv, TypeOK
<1>2. i \in DOMAIN Cells /\ index \in DOMAIN Cells /\ i # index
  BY <1>1, CellsType
<1>3. Cells[i] \in Cell /\ Cells[i] # c0
  BY <1>2, CellsType, PilotAssumption DEF c0
<1>4. ReadWell(Cells[i])
  BY DEF RunsInv, ReadInv
<1> QED BY <1>3, <1>4 DEF ReadWell, Usable

LEMMA ReadingStep ==
  ASSUME RunsInv, TypeOK', ReadStep
  PROVE  RunsInv'
<1> USE DEF RunsInv, TypeOK, disk, build, loaded
<1>1. UNCHANGED <<release, events, truth, anchor>>
  BY DEF ReadStep
<1>2. SameRun'
  BY <1>1 DEF SameRun
<1>3. c0 \in Cell /\ index \in 1..Len(Cells) /\ Len(Cells) \in Nat
  BY CellsType DEF c0
<1>4. CASE Reuse
  <2>1. phase = "cell" /\ phase' = "events" /\ UNCHANGED <<sim, got, index, contract, fresh>>
        /\ ~fresh
    BY <1>4 DEF Reuse, Continue, Reusable
  <2>2. SimInv'
    BY <1>1, <2>1 DEF SimInv, Idle
  <2>3. \A i \in 1..(index - 1) : ReadWell(Cells[i])'
    BY <2>1, ReadOn DEF Reading
  <2>4. ReadInv'
    BY <2>1, <2>3 DEF ReadInv, Usable, Writing
  <2> QED BY <1>2, <2>2, <2>4
<1>5. CASE RunCell
  <2>1. /\ phase = "cell" /\ phase' = "wait" /\ UNCHANGED <<got, index, contract, fresh>>
        /\ sim' = [cell |-> c0, release |-> contract, at |-> "start"]
    BY <1>5 DEF RunCell, Continue
  <2>2. SimInv'
    BY <2>1 DEF SimInv, Idle, Opened, c0
  <2>3. \A i \in 1..(index - 1) : ReadWell(Cells[i])'
    BY <2>1, ReadOn DEF Reading
  <2>4. ReadInv'
    BY <2>1, <2>3 DEF ReadInv, Writing
  <2> QED BY <1>2, <2>2, <2>4
<1>6. CASE Returns
  <2>1. /\ phase = "wait" /\ sim' = NoSim /\ UNCHANGED <<got, index, contract, fresh>>
        /\ phase' # "failed" => phase' = "events" /\ sim.at = "exited"
    <3>1. Continue(IF At("exited") /\ NoFile \notin {events[c0], truth[c0], anchor[c0]}
                   THEN "events" ELSE "failed")
      BY <1>6 DEF Returns
    <3>2. phase' # "failed" => phase' = "events" /\ sim.at = "exited"
      BY <3>1 DEF Continue, At
    <3> QED BY <1>6, <3>1, <3>2 DEF Returns, Continue
  <2>2. SimInv'
    BY <2>1 DEF SimInv, Idle, Opened, NoSim
  <2>3. \A i \in 1..(index - 1) : ReadWell(Cells[i])'
    BY <2>1, ReadOn DEF Reading
  <2>4. sim.at = "exited" => events[c0].release = contract /\ <<c0, contract>> \notin Failing
    BY <2>1 DEF SimInv, Opened
  <2>5. c0' = c0
    BY <2>1 DEF c0
  <2>6. phase' = "events" => Usable(c0, events[c0])'
    BY <1>1, <2>1, <2>4, <2>5 DEF Usable
  <2>7. ReadInv'
    BY <2>1, <2>3, <2>6 DEF ReadInv, Reading, Writing
  <2> QED BY <1>2, <2>2, <2>7
<1>7. CASE ReadEvents
  <2>1. /\ phase = "events" /\ phase' = "anchor" /\ UNCHANGED <<sim, index, contract, fresh>>
        /\ got' = [got EXCEPT ![c0].events = events[c0]]
    BY <1>7 DEF ReadEvents, Continue
  <2>2. SimInv'
    BY <1>1, <2>1 DEF SimInv, Idle
  <2>3. got'[c0].events = events[c0] /\ \A c \in Cell \ {c0} : got'[c] = got[c]
    BY <1>3, <2>1
  <2>4. \A i \in 1..(index - 1) : ReadWell(Cells[i])'
    BY <2>1, <2>3, ReadOn DEF Reading
  <2>5. c0' = c0
    BY <2>1 DEF c0
  <2>6. ReadInv'
    BY <1>1, <2>1, <2>3, <2>4, <2>5 DEF ReadInv, Usable, Writing
  <2> QED BY <1>2, <2>2, <2>6
<1>8. CASE ReadAnchor
  <2>1. /\ phase = "anchor" /\ UNCHANGED <<sim, got, index, contract, fresh>>
        /\ phase' # "failed" => phase' = "truth" /\ Anchored
    <3>1. Continue(IF Anchored THEN "truth" ELSE "failed")
      BY <1>8 DEF ReadAnchor
    <3>2. phase' # "failed" => phase' = "truth" /\ Anchored
      BY <3>1 DEF Continue
    <3> QED BY <1>8, <3>1, <3>2 DEF ReadAnchor, Continue
  <2>2. SimInv'
    BY <1>1, <2>1 DEF SimInv, Idle
  <2>3. \A i \in 1..(index - 1) : ReadWell(Cells[i])'
    BY <2>1, ReadOn DEF Reading
  <2>4. Anchored => events[c0].rows = EventRows
    <3>1. events[c0].rows \in 0..EventRows /\ EventRows \in Nat
          /\ (anchor[c0] # NoFile => anchor[c0].rows \in {-1, EventRows})
      BY <1>3, PilotAssumption DEF SameRun
    <3> QED BY <2>1, <3>1 DEF Anchored, ReadInv
  <2>5. c0' = c0
    BY <2>1 DEF c0
  <2>6. ReadInv'
    BY <1>1, <2>1, <2>3, <2>4, <2>5 DEF ReadInv, Reading, Usable, Writing
  <2> QED BY <1>2, <2>2, <2>6
<1>9. CASE ReadTruth
  <2>1. /\ phase = "truth" /\ UNCHANGED <<sim, contract, fresh>>
        /\ got' = [got EXCEPT ![c0].truth = truth[c0]]
    BY <1>9 DEF ReadTruth
  <2>2. \/ phase' = "failed"
        \/ phase' = "cell" /\ index' = index + 1
        \/ phase' = "episodes" /\ index = Len(Cells)
    BY <1>3, <1>9 DEF ReadTruth
  <2>3. SimInv'
    BY <1>1, <2>1, <2>2 DEF SimInv, Idle
  <2>4. /\ got'[c0].events = got[c0].events /\ got'[c0].truth = truth[c0]
        /\ \A c \in Cell \ {c0} : got'[c] = got[c]
    BY <1>3, <2>1
  <2>5. EventRows > 0 /\ got[c0].events = events[c0] /\ events[c0].rows = EventRows
        /\ Usable(c0, events[c0])
    BY <2>1, PilotAssumption DEF ReadInv
  <2>6. truth[c0].rows \in 0..Len(TruthKinds) /\ truth[c0].release = events[c0].release
    BY <1>3, <2>5 DEF SameRun
  <2>7. PICK d \in Cell : d = c0
    BY <1>3
  <2>8. ReadWell(d)'
    BY <2>1, <2>4, <2>5, <2>6, <2>7 DEF ReadWell, Usable
  <2>9. \A i \in 1..index : ReadWell(Cells[i])'
    <3>1. \A i \in 1..(index - 1) : ReadWell(Cells[i])'
      <4> SUFFICES ASSUME NEW i \in 1..(index - 1) PROVE ReadWell(Cells[i])'
        OBVIOUS
      <4>1. i \in DOMAIN Cells /\ index \in DOMAIN Cells /\ i # index
        BY <1>3, CellsType
      <4>2. Cells[i] \in Cell /\ Cells[i] # c0 /\ ReadWell(Cells[i])
        BY <2>1, <4>1, CellsType, PilotAssumption DEF c0, ReadInv, Reading
      <4> QED BY <2>1, <2>4, <4>2 DEF ReadWell, Usable
    <3>2. Cells[index] = d
      BY <2>7 DEF c0
    <3> SUFFICES ASSUME NEW i \in 1..index PROVE ReadWell(Cells[i])'
      OBVIOUS
    <3>3. CASE i = index
      BY <2>8, <3>2, <3>3
    <3>4. CASE i # index
      BY <1>3, <3>1, <3>4
    <3> QED BY <3>3, <3>4
  <2>10. ReadInv'
    BY <1>3, <2>1, <2>2, <2>9, CellsType DEF ReadInv, Reading, Idle, Writing
  <2> QED BY <1>2, <2>3, <2>10
<1>10. CASE BuildEpisodes
  <2>1. /\ phase = "episodes" /\ UNCHANGED <<sim, got, index, contract, fresh>>
        /\ \/ phase' = "failed"
           \/ phase' = "raw_event" /\ \A c \in Cell : HasEpisode(got[c].truth.rows)
    BY <1>10 DEF BuildEpisodes, Accepted, Continue
  <2>2. SimInv'
    BY <1>1, <2>1 DEF SimInv, Idle
  <2>3. \A c \in Cell : ReadWell(c) /\ ReadWell(c)'
    BY <2>1 DEF ReadInv, ReadWell, Usable
  <2>4. phase' = "raw_event" => \A c \in Cell : got[c].truth.rows = Len(TruthKinds)
    BY <2>1, <2>3, EpisodeIsWhole DEF ReadWell
  <2>5. phase' \in {"failed", "raw_event"}
    BY <2>1
  <2>6. ReadInv'
    BY <2>1, <2>3, <2>4, <2>5 DEF ReadInv, Reading, Writing
  <2> QED BY <1>2, <2>2, <2>6
<1> QED BY <1>4, <1>5, <1>6, <1>7, <1>8, <1>9, <1>10 DEF ReadStep

LEMMA OtherSteps ==
  ASSUME RunsInv, TypeOK',
         \/ \E f \in BOOLEAN : Start(f)
         \/ Write \/ KillBuild \/ KillSimulation \/ OrphanEnds \/ Revise
  PROVE  RunsInv'
<1> USE DEF RunsInv, TypeOK, disk, build, loaded
<1>1. UNCHANGED <<events, truth, anchor>>
  BY DEF Start, LoadContract, Write, KillBuild, KillSimulation, OrphanEnds, Revise, Fault
<1>2. SameRun'
  BY <1>1 DEF SameRun
<1>3. SimInv'
  <2>1. ASSUME NEW f \in BOOLEAN, Start(f) PROVE SimInv'
    BY <2>1 DEF Start, LoadContract, SimInv, NoSim, Opened, Idle
  <2>2. CASE Write
    BY <1>1, <2>2 DEF Write, Continue, Following, SimInv, Writing, Idle
  <2>3. CASE KillBuild
    BY <1>1, <2>3 DEF KillBuild, Fault, SimInv, NoSim, Opened, Idle
  <2>4. CASE KillSimulation
    <3>1. sim'.at = "error" /\ sim'.cell = sim.cell /\ sim'.release = sim.release
          /\ phase' = phase /\ UNCHANGED <<index, contract>>
      BY <2>4 DEF KillSimulation, Fault, GoTo
    <3>2. phase \in Idle \cup {"wait"}
      BY <2>4 DEF KillSimulation, SimInv, NoSim
    <3> QED BY <3>1, <3>2 DEF SimInv, Opened, c0
  <2>5. CASE OrphanEnds \/ Revise
    BY <1>1, <2>5 DEF OrphanEnds, Revise, SimInv, NoSim, Opened, Idle
  <2> QED BY <2>1, <2>2, <2>3, <2>4, <2>5
<1>4. ReadInv'
  <2>1. ASSUME NEW f \in BOOLEAN, Start(f) PROVE ReadInv'
    BY <2>1 DEF Start, LoadContract, ReadInv, Reading, Writing
  <2>2. CASE Write
    <3>1. /\ phase \in Writing /\ phase' \in Writing \cup {"done"}
          /\ UNCHANGED <<got, contract, fresh>>
      BY <2>2 DEF Write, Continue, Following, Writing
    <3>2. \A c \in Cell : ReadWell(c)' /\ got'[c].truth.rows = Len(TruthKinds)
      BY <3>1 DEF ReadInv, ReadWell, Usable
    <3> QED BY <3>1, <3>2 DEF ReadInv, Reading, Writing
  <2>3. CASE KillBuild
    BY <2>3 DEF KillBuild, Fault, ReadInv, Reading, Writing
  <2>4. CASE KillSimulation \/ OrphanEnds \/ Revise
    <3>1. phase' = phase /\ UNCHANGED <<index, contract, fresh, got>>
      BY <2>4 DEF KillSimulation, OrphanEnds, Revise, Fault
    <3>2. \A c \in Cell : ReadWell(c) <=> ReadWell(c)'
      BY <3>1 DEF ReadWell, Usable
    <3>3. phase \notin {"events", "anchor", "truth"}
      BY <2>4 DEF KillSimulation, OrphanEnds, Revise, SimInv, NoSim, Idle
    <3>4. \A i \in 1..(index - 1) : Cells[i] \in Cell
      <4>1. index \in 1..Len(Cells) /\ Len(Cells) \in Nat
        BY CellsType
      <4>2. 1..(index - 1) \subseteq 1..Len(Cells)
        BY <4>1
      <4> QED BY <4>2, CellsType
    <3> QED BY <3>1, <3>2, <3>3, <3>4 DEF ReadInv
  <2> QED BY <2>1, <2>2, <2>3, <2>4
<1> QED BY <1>2, <1>3, <1>4

LEMMA RunsStep == RunsInv /\ [Next]_vars => RunsInv'
<1> SUFFICES ASSUME RunsInv, [Next]_vars PROVE RunsInv'
  OBVIOUS
<1>1. TypeOK'
  BY TypeStep DEF RunsInv
<1>2. CASE UNCHANGED vars
  <2>1. \A c \in Cell : ReadWell(c) <=> ReadWell(c)'
    BY <1>2 DEF vars, loaded, ReadWell, Usable
  <2>2. \A i \in 1..(index - 1) : Cells[i] \in Cell
    <3>1. index \in 1..Len(Cells) /\ Len(Cells) \in Nat
      BY CellsType DEF RunsInv, TypeOK
    <3>2. 1..(index - 1) \subseteq 1..Len(Cells)
      BY <3>1
    <3> QED BY <3>2, CellsType
  <2>3. SameRun' /\ SimInv'
    BY <1>2 DEF vars, disk, loaded, RunsInv, SameRun, SimInv, c0
  <2>4. ReadInv'
    BY <1>2, <2>1, <2>2 DEF vars, disk, loaded, RunsInv, ReadInv, Usable, c0
  <2> QED BY <1>1, <2>3, <2>4 DEF RunsInv
<1>3. CASE SimStep
  BY <1>1, <1>3, SimulationStep
<1>4. CASE ReadStep
  BY <1>1, <1>4, ReadingStep
<1> QED BY <1>1, <1>2, <1>3, <1>4, OtherSteps DEF Next, BuildStep

\* The inductive invariant of the files, the simulation and what was read.
THEOREM PilotInvariant == Spec => []RunsInv
BY RunsInit, RunsStep, PTL DEF Spec

\* runpilot.py:55-92: for every inventory and every history of kills, reuses and
\* new releases a package rests on whole runs, the events and the truth of each
\* by one simulation; and with --fresh on runs of its own contract that did not
\* fail.
THEOREM WholeRuns == Spec => []RestsOnWholeRuns
<1>1. RunsInv => RestsOnWholeRuns
  <2> SUFFICES ASSUME RunsInv, phase \in Writing \cup {"done"}, NEW c \in Cell
               PROVE  /\ got[c].events.rows = EventRows
                      /\ got[c].truth.rows = Len(TruthKinds)
                      /\ got[c].events.release = got[c].truth.release
                      /\ fresh => got[c].events.release = contract /\ <<c, contract>> \notin Failing
    BY DEF RestsOnWholeRuns
  <2>1. ReadWell(c) /\ got[c].truth.rows = Len(TruthKinds)
    BY DEF RunsInv, ReadInv
  <2> QED BY <2>1 DEF ReadWell, Usable
<1> QED BY <1>1, PilotInvariant, PTL

-----------------------------------------------------------------------------
(***************************************************************************)
(* The files of the result.  A package carries the content of the          *)
(* authority files that it was computed from, and a settlement that of the *)
(* package of its own build: what is followed from a settlement downward   *)
(* is one build's, however many builds wrote into the root.                *)
(***************************************************************************)

Has(files) == files \subseteq DOMAIN out
Below(phases) == phase \in phases \cup {"done"}

ResultInv ==
  /\ Has({"package"}) => out["package"].payload = out["package"].authority
  /\ Has({"settlement"}) => out["settlement"].contract = out["settlement"].manifest.package.contract
  /\ Below({"raw_truth", "package", "manifest", "settlement", "summary"}) =>
        Has({"raw_event"}) /\ out["raw_event"] = Raw("events")
  /\ Below({"package", "manifest", "settlement", "summary"}) =>
        Has({"raw_truth"}) /\ out["raw_truth"] = Raw("truth")
  /\ Below({"manifest", "settlement", "summary"}) =>
        /\ Has({"package"}) /\ out["package"].contract = contract
        /\ out["package"].authority = <<out["raw_event"], out["raw_truth"]>>
  /\ Below({"settlement", "summary"}) =>
        Has({"manifest"}) /\ out["manifest"].package = out["package"]
  /\ Below({"summary"}) => Has({"settlement"}) /\ out["settlement"].manifest = out["manifest"]

LEMMA ResultInit == Init => ResultInv
BY DEF Init, ResultInv, Has, Below

LEMMA WriteStep == ResultInv /\ Write => ResultInv'
<1> SUFFICES ASSUME ResultInv, Write PROVE ResultInv'
  OBVIOUS
<1>1. /\ DOMAIN out' = DOMAIN out \cup {phase}
      /\ out'[phase] = Content(phase)
      /\ \A file \in DOMAIN out : file # phase => out'[file] = out[file]
      /\ phase' = Following(phase) /\ UNCHANGED <<contract, got>>
  BY DEF Write, Continue, loaded
<1>2. Raw("events")' = Raw("events") /\ Raw("truth")' = Raw("truth")
  BY <1>1 DEF Raw
<1> USE <1>1, <1>2 DEF ResultInv, Has, Below, Following, Content, Authority
<1>3. CASE phase = "raw_event"
  BY <1>3
<1>4. CASE phase = "raw_truth"
  BY <1>4
<1>5. CASE phase = "package"
  BY <1>5
<1>6. CASE phase = "manifest"
  BY <1>6
<1>7. CASE phase = "settlement"
  BY <1>7
<1>8. CASE phase = "summary"
  BY <1>8
<1> QED BY <1>3, <1>4, <1>5, <1>6, <1>7, <1>8 DEF Write, Writing

LEMMA ResultStep == ResultInv /\ [Next]_vars => ResultInv'
<1> SUFFICES ASSUME ResultInv, [Next]_vars PROVE ResultInv'
  OBVIOUS
<1> USE DEF ResultInv, Has, Below, loaded, build
<1>1. ASSUME UNCHANGED <<out, contract, got>>, phase' = phase PROVE ResultInv'
  BY <1>1 DEF Raw
<1>2. ASSUME UNCHANGED out, phase' \notin Writing \cup {"done"} \/ phase' = "raw_event"
      PROVE  ResultInv'
  BY <1>2 DEF Writing
<1>3. CASE UNCHANGED vars
  BY <1>1, <1>3 DEF vars
<1>4. ASSUME NEW f \in BOOLEAN, Start(f) PROVE ResultInv'
  BY <1>2, <1>4 DEF Start, LoadContract, Writing
<1>5. CASE SimStep \/ KillSimulation \/ OrphanEnds \/ Revise
  BY <1>1, <1>5 DEF SimStep, KillSimulation, OrphanEnds, Revise, Fault
<1>6. CASE ReadStep
  BY <1>2, <1>6 DEF ReadStep, Reuse, RunCell, Returns, ReadEvents, ReadAnchor, ReadTruth,
                    BuildEpisodes, Continue, Writing
<1>7. CASE Write
  BY <1>7, WriteStep
<1>8. CASE KillBuild
  BY <1>2, <1>8 DEF KillBuild, Fault, Writing
<1> QED BY <1>3, <1>4, <1>5, <1>6, <1>7, <1>8 DEF Next, BuildStep

\* runpilot.py:153-288: whenever the digests in the root agree, the package says
\* what its authority files say, for the contract of its settlement; and they
\* agree when a build ends.
THEOREM OneBuild == Spec => []ChainIsOneBuild
<1>1. ResultInv => ChainIsOneBuild
  BY DEF ResultInv, Has, Below, ChainIsOneBuild, Chained
<1> QED BY <1>1, ResultInit, ResultStep, PTL DEF Spec
=============================================================================
