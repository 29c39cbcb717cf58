# LIFESAT in TLA+

This directory is a verification project for LIFESAT, a test bed that commands a
simulated satellite over an attacked space link, detects the attacks with a
digital twin and other detectors, logs everything in a hash chain, and scores
the detectors from the logs. The models are written from the code of
`src/causal-2026-08` (the simulation and its analysis), of `src/dtaas` (the
twin as a service) and of `src/random-scorer-repair-2026-08` (the repaired join of
the random detector, the guards around it, and the settlement of the results it
leads to). `src/matrix-2026-07` is the previous state of the same programs and is
left alone.

- [The system](#the-system)
- [The modules](#the-modules)
- [The runs](#the-runs)
- [Bounds](#bounds)
- [Fairness](#fairness)
- [The proofs](#the-proofs)
- [Where the code and its text part](#where-the-code-and-its-text-part)
- [What is not modelled](#what-is-not-modelled)
- [The plan](#the-plan)

## The system

| component | state | operations | what is hard |
|---|---|---|---|
| **Satellite** `CubeSat.cc` | parameter store and its provenance, mode, last accepted sequence, counters of rejections by reason | the three checks on a command (tag, freshness, digest), acceptance, rejection, the telemetry snapshot | commands repeated, altered, late; the order of the checks |
| **Ground station and update gate** `GroundStation.cc` | the sequence number | commands of a cycle of gains, configuration updates that the twin has approved, receipt of telemetry | the gate is asked and the update queued in one handler, the contact may end between |
| **Digital twin** `Twin.cc` | the ledger of approved commands, the confirmed prefix, the rejection baseline, its own model, its alarms | `noteApprovedCommand`, `validateUpdate`, `observeTelemetry` with its two channels, the taking over of confirmed updates, the link of an alarm | reports that are lost, late, forged or explained by several prefixes |
| **Space link** `SpaceLink.cc` | contact, the held frame of an outage or a reordering | forwarding up and down, dropping, holding, releasing | the last instant of a contact; ties between a release and an arrival |
| **On-path relay** `OnPathAttacker.cc` | the scenario, whether an episode is active, a captured frame, delayed frames, the frozen counter | A1 to A8, and the attack arms of the causal pairs | acts between any two steps of the others |
| **Causal scenario** `CausalScenario.cc` | pair, arm, onset, target, the episode and its rows | target selection, one intervention, opening and closing of the episode, `finish` | two arms, executed by different components, must differ in their cause alone |
| **Access and power** `AccessModel.cc`, `PowerModel.h` | contact, the schedule of passes; battery | sampling of elevations, once ahead and once as time goes by; integration of a voltage | a pass of the schedule ends one step before the contact it foretells; real arithmetic |
| **Flow detector** `FlowDetector.cc` | packets and gaps of the current window | count, judge and reset at the window's timer | packets at a window's boundary, gaps across contacts |
| **Forensic log** `Collector.cc`, `HashChain.h`, `verify_chain.py` | head of the chain, rows, anchor | log, finish, verify, tamper | a run that ends without its anchor; edits after the run |
| **Flow, twin and random alarms** `FlowDetector.cc`, `Twin.cc`, `RandomDetector.cc` | what each of the three has counted | one row per alarm: by the time, the sequence number, the number of the arrival | three notions of which packet an alarm is about |
| **Scorer** `analysis/scoring`, `score.py` | none: a function of a run's rows | matching of actions to outcomes, parameter state, effect windows, F4, windows of D2, crediting of alarms | outcomes without a sender, replays that share an identity, window boundaries, packets lost or overtaken |
| **Fleet driver** `run_rerun_v2.py` | the output root, its files, its manifest; per invocation futures, a stop event, a verdict | preflight, pool of threads, reconciliation, two writes of the manifest | concurrent invocations, kills, late failures, a directory others can reach |
| **Corrected package** `build_corrected_package_v1.py` | a package: results, digests of the inputs, validation, sums | pins of the raw trees, scoring, comparison of the trees, digests, validation, sums | between any two of these a file may change |
| **Repair** `random-scorer-repair-2026-08/package` | the successor package, the settlement, the executables | the repaired join and its guards, settling, judging, a suite of mutants of the guards | what is pinned, what is only written down; whether a guard is awake |
| **Pilot pipeline** `analysis/causal` | cells, their raw logs, the chain of result files | run or reuse a cell, read its episode, write the result files with each other's digests | kills between files, logs of other runs, failed runs |
| **Twin service** `dtaas` | the registry of instances, their directories and status | POST, GET, DELETE, reaping, the worker that provisions, runs and scores | handler threads against worker threads, locks that cover half of it |

They interact by method calls in one simulation event (ground station and twin,
satellite and causal scenario, everything and the collector), by messages with a
delay (over the link and through the relay), by files (collector, scorer,
drivers), and by shared memory between threads (the service, the fleet driver).

What makes them correct, in the order of importance this project gives it:

1. the satellite executes the ground's own commands, each once and in order,
   whatever link and relay do, while the key is kept;
2. the twin follows the satellite: never ahead of it, never back, no alarm that
   nobody caused, every rejection counted once;
3. an alarm that names a command names a foreign one;
4. the two arms of a matched pair show the ground the same onset, target and
   window;
5. the service keeps its limits, its workers' directories and the completeness
   of its results;
6. a log that verifies is the log that was written;
7. the scorer credits an action with its own outcome and an alarm with the packet
   it was raised on, and its windows are those of the run;
8. a GREEN fleet is a whole fleet of one driver, and what is published of it is
   what its accepted files say;
9. a pilot package rests on whole runs, each the run of its own cell;
10. a guard of the repair refuses what it is there to refuse, on every input and not
   only on the fixture of its test.

## The modules

| module | what | code |
|---|---|---|
| `LifesatPackets` | commands, telemetry, tags and digests as records | `LifesatPackets.msg`, `authenticatedBody` |
| `CubeSat` | `FailedCheck`, `Accept`, `Reject`, `HandleTelecommand`, `Snapshot` | `CubeSat.cc` |
| `Twin` | `NoteApprovedCommand`, the prefixes that explain a report (`Matches`), `ObserveTelemetry`, `AlarmLink`, `ApplyConfirmedPhysicalEffects` | `Twin.cc` |
| `SpaceLink` | contact, `ForwardUp`, `ForwardDown` | `SpaceLink.cc`, `AccessModel.cc` |
| `OnPathAttacker` | one operator per interference of a scenario | `OnPathAttacker.cc` |
| `GroundStation` | the two kinds of command and the gate | `GroundStation.cc`, `validateUpdate` |
| `CommandLoop` | composes the six above; one action per event handler | their `handleMessage`s |
| `InOrderExecution` | abstract: commands are issued, and some of those issued are executed in the order of issue | – |
| `CausalScenario` | the controller of one arm | `CausalScenario.cc` |
| `CausalPair` | both arms of a pair side by side, with the places of satellite, link and relay where an intervention acts | `CubeSat.cc`, `SpaceLink.cc`, `OnPathAttacker.cc` |
| `Dtaas` | handlers (`Pop`, `Admit`, `Start`, `Teardown`, `PutBack`, ...) and workers (`MakeDir` to `Finish`, `Rollback`), one action between two points where another thread can run | `service.py`, `instance.py` |
| `FleetDriver` | `main`, the threads of the pool, the simulations that outlive a killed driver, what others do to the root | `run_rerun_v2.py` |
| `RepairGuards` | settlement, executables and the comparison of two packages, as functions that return findings | `p4_settlement.py`, `p4_identity.py`, `p4_invariance.py` |
| `ResultChain` | the fleet, the two builders, the settlement and the judgement, over one disk | `build_corrected_package_v1.py` and its copy, `build_phase4_membership.py`, `validate_phase4.py` |
| `RepairSuite` | the mutants of packages, settlement and executables, put to every root that `ResultChain` finds conformant | `p4_mutations.py`, `run_phase4_suite.py` |
| `PilotPipeline` | a build of the pilot and the simulations it starts, as processes over files | `runpilot.py`, `runcell.py`, `rawlog.py`, `authority.py`, `Collector.cc` |
| `ForensicLog` | the chained log, the edits of its file, the verifier | `Collector.cc`, `HashChain.h`, `verify_chain.py` |
| `ScoredRun` | an uplink run of two contacts, and the scorer as functions of its rows | `matching.py`, `state.py`, `families.py` |
| `FlowRun` | a downlink run under A4, the three detectors, and the scorer of their alarms | `FlowDetector.cc`, `RandomDetector.cc`, `windows.py`, `state.py`, `families.py`, `rndjoin.py` |
| `JoinGuards` | the guards, the oracle and the mutants of the random join, put to every run of `FlowRun` | `p4_checks.py`, `p4_reference_oracle.py`, `p4_rawtotals.py`, `p4_mutations.py` |
| `CommandLoopProofs`, `CausalArms`, `DtaasLimits`, `FleetOwner`, `FlowJoined`, `LogVerified`, `PilotRuns`, `ScorerFaithful` | theorems and proofs | – |
| `MCCommandLoop`, `MCCausalPair`, `MCJoinGuards`, `MCPilotPipeline` | constants and schedules of the instances | – |

**Command loop.** A command goes from `GenerateTelecommand` or
`ProposeConfigurationUpdate` (the twin notes it and the relay handles it in the
same simulated instant, hence in the same action) to `upIn`, past `Uplink` to
`satOut`, into `ReceiveTelecommand`; telemetry goes back by `GenerateTelemetry`,
`Downlink` and `ReceiveTelemetry`, where the relay may show, hold, drop or use it
as a cue before the twin observes it. The timers of the simulation are left free:
every handler may run whenever its guard allows, which includes the schedules of
every configuration file. `accepted` and `d3Alarm` are the rows of the log.
A tag is the pair of key and body it was computed from and a digest the body
itself: cryptography is ideal. The voltage is not modelled, the verdict of the
physical channel is chosen freely from `PhysicalVerdicts`.

**Causal pairs.** Here time counts: a telemetry interval is six ticks, a transit
one or two, and both arms run under the same passes, onset and transits. The two
runs share no state. They are put side by side in order to compare them.
From the instants at which the satellite is in view (a constant, `Skies`) come both the
contacts that `sample` finds and the schedule that `buildPassSchedule` computes ahead of
the run. A pass of the schedule ends with the last instant in view, a contact with the first
one out of view; only SP-2 asks the schedule.
Three events of one instant have an order: the telemetry timer was set an interval ago and comes
first, then the access sample, then every message that arrives or passes the link. At the
instant at which a contact ends the satellite therefore still sees it and may choose its target
there (`Visible`), while the link already drops what is sent (`InView`, `SpaceLink.cc:125-135`),
and at the instant at which one begins it is the other way round. `Crosses` says of a target that
the link got it.
D1 is off, except in SP-5 which is about its rejections. Each pair also runs with
the third cause of the robustness arm `RB-third-cause`, a state jump of the satellite
that has a truth row of its own: with the intervention of the arm, or, in SP-6, which chooses its
target on the downlink, when the clock of an open episode finds none (`CubeSat.cc:82-86`, in
`TelemetryOf`). `build_episode` and its helpers are the pilot's
reader (`episodes.py`) over the rows that such a run wrote: it returns a set, empty
where the code raises.

**Service.** An action of a handler ends where the code releases the lock, or
where it next touches state that a worker touches too. The lock itself does not
appear: each locked region is one action.

**Fleet.** A simulation writes its files one by one and exits; the driver that
started it may be dead by then. `Disturb` removes or adds a file from outside.
The GREEN manifest of `Announce` is on disk before `ScanFinalTree` looks at the
directory again and `Conclude` adds the result of that, or withdraws the verdict.

**From the trees to what is published.** `ResultChain` starts from a fleet that was
accepted. Content is `"pinned"` until `Alter` changes one file, of the raw trees, the
scorers, the settlement or a package that was written; a score is a function of the content it was
computed from. The builder of a package is one action per phase of its `main`, and the
same actions make the successor with the repaired scorer. Guards are functions that
return the identifiers of their findings, so that the validator (`Open`, `CheckCorpus`,
`Compare`) and the suite (`RepairSuite`) use the same ones.

**Pilot.** A log is the release of the programs that wrote it and the number of its rows
on disk. A simulation cuts its two logs one after the other, writes rows, closes, and writes
the anchor; it may be killed at any step, with the build that waits for it or alone. A
build reads each cell's logs after it ran or reused it, then writes the result files in
their order, each with the digests of those before it. `got` is what it has read. A whole log may
still be one that `build_episode` refuses, for what it records or for the contract
(`Refused`): no contact closes after the episode, or a truth row fits no entry of the registry.

**Random join.** The suite of the repair damages one log of the corpus and expects one
guard to object. `JoinGuards` does the same to the log of every run that `FlowRun` has.

**Log.** A chain value is the sequence of the records hashed into it (no
collisions). `Rechain` stands for somebody who recomputes the chain of an edited
file.

**Scored run and flow run.** They contain as much of the simulation as the scorer
reads: a small run with all its timing choices, and the functions of the scorer
evaluated on its rows in every state, so that each state is a run scored where
it was cut. `act`, `done`, `setting.fires` and `setting.breach` record what truly happened; the scorer
does not see them. On which arrivals each channel of the twin is breached is an input
(`setting.breach`); each breached channel writes a row of its own.

## The runs

| run | module | expected | what it shows |
|---|---|---|---|
| `cmd_auth` | `MCCommandLoop` | pass | D1 on, the key kept, all scenarios without the key: types; the ground's own commands, each once and in order (`AcceptedInOrderOnce`), also as a refinement (`ImplementsInOrderExecution`); the twin takes each confirmed update over once (`EffectsAppliedOnce`) and never moves back (`PrefixNeverMovesBack`); an alarm that names a command names a foreign one (`LinkIsForeign`) |
| `cmd_follow` | `MCCommandLoop` | pass | lossy link, updates among gain commands, no interference or one that D1 turns away: as long as a prefix explains the satellite the twin is never ahead of it (`NeverAheadOfSatellite`) and raises no logical alarm (`NoPhantomAlarm`); it counts each rejection once (`RejectionsCountedOnce`), and settles on the satellite's state (`EstimateConverges`) |
| `cmd_updates_lossy` | `MCCommandLoop` | violation | without the premise of `cmd_follow` the twin raises an alarm that nobody caused |
| `causal_pair` | `MCCausalPair` | pass | six pairs with and without a third cause, three skies, five onsets, all patterns of transits: one well ordered episode, whose target is delivered while it lasts, or never where the link dropped it, and which is read as the cause that was injected (`OneEpisode`); the same target, window and cutoff in both arms (`ArmsShareTarget`); the same first odd observation (`FirstOddMatches`); what a hold shows in SP-4 and SP-6 (`HeldFramesShowAlike`) |
| `dtaas_interleaved` | `Dtaas` | pass | two handlers with all requests against two workers: no directory removed under a worker and none left behind (`WorkerKeepsDirectory`, `NoOrphanDirectory`), results complete when they are announced (`ResultIsComplete`), every admitted instance ends (`InstanceEnds`), every instance taken out of the registry is put back or loses its directory (`PoppedIsSettled`) |
| `dtaas_capacity` | `Dtaas` | violation | a refused DELETE lets a POST in past the limit |
| `fleet` | `RepairSuite` | pass | two invocations on one root, failures, kills, disturbances: one owner ever (`OneOwner`), GREEN is whole, a failure halts new work, a verdict is reached; and from an accepted fleet the two packages and the judgement of the second, with killed builds and one altered file: `PublishedIsPinned`; on every root found conformant the guards are awake (`SuiteRefusesEachDamage`) |
| `log_tamper` | `ForensicLog` | pass | two edits of a log of up to four records: what verifies is what was written, above the break stands what was written, one edit is found in its place |
| `score_matching` | `ScoredRun` | pass | two contacts under A1, A2, A2v, A3, with and without D1: actions have their own outcomes (`MatchIsTrue`), exposure lies in a window of the parameter's true state (`ExposureIsInAWindow`), F4 reports true rejections (`ReportingIsTrue`), what the families say of the same actions adds up (`FamiliesAgree`) |
| `flow_windows` | `MCJoinGuards` | pass | a contact under A4 with three delays: windows of disturbed packets are scored as such (`DisturbedWindowsAreTruth`), alarms of the twin, one for each channel breached, and of the random detector are credited to the packets they were raised on, each packet once (`TwinScoreIsTrue`, `RandomAlarmsJoinTheirPackets`); a damaged row of a log is found or harmless (`NoDamageEscapes`); which runs the repair's suite fits (`SuiteNeedsItsFixture`) |
| `pilot` | `MCPilotPipeline` | pass | builds, fresh or reusing, over three releases, failing runs, refused runs and three kills: a package rests on whole runs (`RestsOnWholeRuns`), digests that agree are of one content (`ChainIsOneBuild`), a fresh build left alone succeeds, if none of its runs fails or is refused (`FreshBuildSettles`) |
| `pilot_failed_run` | `MCPilotPipeline` | violation | a run that ended with an error is in the package of the next build |

Premises of properties, and why they are there:

- `NoPhantomAlarm`, `NeverAheadOfSatellite` and `EstimateConverges` speak of states that a
  prefix of the sent commands explains (`PrefixExplains`): a command that was passed over
  has been written over by the very next one accepted. Otherwise the code does raise
  an alarm, which `cmd_updates_lossy` shows, or takes a command for applied that is still on
  its way (see below). The first two also suppose a satellite that takes the ground's commands
  only and packets that arrive in the order written (`Traceable`): A2v holds the key, A4 delays
  packets and A8 alters them, and the twin is there to alarm about the latter two.
- `MatchIsTrue`, `ReportingIsTrue` and `ExposureIsInAWindow` suppose `Undisturbed`: no copy of a
  command raced with its original in the link, and no outcome older than its
  action was credited; see below for the latter. `ExposureIsInAWindow` is about
  replays, where every write follows the value law the scorer assumes.
- The window of `ArmsShareTarget` does not speak of SP-6 and `FirstOddMatches` only of
  pairs whose intervention is seen in an observation's content; see below. A target that the link
  drops at a contact's last instant shows nothing of the attack, in a run that is valid all the
  same: `FirstOddMatches` then claims less, and `HeldFramesShowAlike` nothing. `OneEpisode`
  allows a failed run to be read as an episode where a third cause was applied, and
  nowhere else.
- `GreenIsWhole` speaks of a manifest with the final check. A driver killed
  between its two writes leaves GREEN without it, in a root that may have been
  disturbed since. Nothing is disturbed in the model after the last scan: no program
  looks again before the package's pins.
- `PublishedIsPinned` holds for one altered file. Two alterations that change both trees
  alike pass the comparison of the trees (G8), which is then the only look at what was
  scored. A package whose results were altered between their writing and the digests is
  in `exposed`, and what its digests promise is not claimed of it: they are taken from the
  disk at the end (`build_corrected_package_v1.py:756-758`) and sign what was altered. That
  a successor differs from the first package in what the repair leaves alone is found all
  the same, by the comparison of the two.
- `SuiteRefusesEachDamage` leaves out the five keys of the settlement (`Unbound`) that
  are compared with nothing; see below.
- `RestsOnWholeRuns` asks for the run of the contract only of a fresh build: a reused log
  carries no release. Nothing starts while a simulation that outlived its build runs in
  the root, which nothing in the code ensures (a hazard without a property).

## Bounds

- *Command loop*: two commands under two interferences (`cmd_auth`), three in
  `cmd_follow`. Two commands are the least with an order, with a repetition, and with a
  lost one before an accepted one; three let a gain value come back (`GainCycle = 2`), so
  that two prefixes explain one report. One message per direction and hop is in flight
  (`MaxInFlight`), apart from those the relay holds: overtaking is the relay's doing,
  the link is a queue. `MaxTime` is 0 or 1: the clock only serves the time stamps
  by which a report is compared with the ledger, where "earlier", "now" and "later" differ.
  D1 off and the scenarios with the key have no run: `LinkIsForeign`, which is about them
  too, is proved for every value of the constants.
- *Pairs*: 83 ticks hold two contacts or three, one of them too short for SP-2 by the one
  tick between the contact and its pass of the schedule, and one that
  ends with a frame in flight, and one that ends at the instant of an observation, which the link
  drops; onsets at the start, within, at the last observation of a
  contact, in the gap and after it; the transits alternate between even and odd observations
  over every choice of one or two. Of the robustness arms only `RB-third-cause` writes
  a truth row, the two others run like the pair as it is.
- *Service*: one active slot, two in the registry, two instances and two handlers: the least
  with a full registry, a refused request and a request in between two steps of another. The
  limits and the safety properties are proved for all numbers.
- *Fleet and chain*: three runs on two threads, so that one fails while another is past
  the check and a third waits; two files a run; one disturbance. The chain adds run 0, which
  stands for those that were not simulated again, and one alteration; it ends when it has judged.
- *Log*: four records and two edits give every pair of edits: adjacent, first and
  last, overlapping.
- *Scored run*: periods of 28 ticks with passes of 9 or 16, episodes that end after their
  pass, commands every 6, injections every 4, telemetry every 10, delays below and above the
  interval; three values in the gain cycle (five in the code), so that values return.
- *Flow run*: windows of 12 ticks, packets every 4, delays below, at and above a
  window. `BoundaryAssumption` and `TransitAssumption` state that no arrival
  coincides with a window's timer or an action, which the scorer checks itself
  (`assert_no_boundary_observation`). Random alarms fall on the first packet, the last, the
  seventh, neighbours, or none. A packet breaches no channel of the twin, one of the scored two,
  the security channel alone, two, or all three.
- *Pilot*: two cells, of which one fails in the first release in each of the two ways a
  run can, a log of the first that the contract of the second refuses, and a third release
  that refuses a run of its own; three faults, enough to kill a build, its simulation, and the build
  that follows. A log has two rows of events; the proof is for any number.

Deadlock is checked in the runs of the service and of the pilot, which always have something
to do. The other systems stop: the simulation at its time limit, the fleet and the chain
after their verdict.

## Fairness

- `CommandLoop!Fairness`: contacts recur (weak fairness of the start of one: the
  orbit); within contacts the satellite's timer and the link act (strong fairness,
  since every gap disables them); what has arrived is handled (weak); an episode
  of the relay ends (weak: its end is a timer). Nothing makes the ground send,
  the relay interfere, or a message escape the end of a contact.
- `Dtaas!FairSpec`: every handler that is within a request and every worker goes
  on (threads are scheduled; the simulation has a timeout in the code and the
  scorer is assumed to end). No request needs to come and the reaper needs not run.
- `FleetDriver!FairSpec`: the driver and its threads go on unless killed; a
  simulation ends by its simulated time limit. `ChainSpec` has the same fairness and
  none for what comes after: nobody needs to build a package.
- `PilotPipeline!FairSpec`: a build that was started goes on, and a simulation ends by its
  simulated time limit, unless killed. No build needs to be started.

## The proofs

`tlapm` checks every theorem to its leaves, for all values of the constants that
satisfy the named assumptions of the modules.

**`CommandLoopProofs!TypeInvariance`**: `Spec => []TypeOK`. One lemma per component and
operation, after the facts about the twin's choice of prefixes (the earliest or latest of a
bounded set exists and lies in it).

**`CommandLoopProofs!AuthenticatedOrder`** and **`Refinement`**, assuming D1 on and
no scenario that holds the key (A2v). `AcceptedInOrderOnce` is not inductive: nothing
in it speaks of the frames under way. `OrderInv` adds

- `Numbered`: the ledger holds the command with number *k* at place *k*, and
  its length is the sequence number;
- `FramesGenuine`: every frame anywhere (either side of the link, captured, held by
  the relay) that carries a valid tag carries the body which the ledger holds under its
  number. Only the ground signs, the tag covers the body, and whatever the relay
  alters or makes up has no valid tag;
- `AcceptedBounded`: what was accepted is at or below `lastAcceptedSequence`.

An acceptance then passes check 1, hence is genuine, and check 2, hence is newer than
all before. The refinement maps `issued` to the ledger and `executed` to the
accepted commands with their places; a release is the abstract issue, an acceptance
the abstract execution, every other step stutters.

**`CommandLoopProofs!AlarmsBound`** (`LinkIsForeign`) and **`RejectionsCounted`**, with D1 on
or off and whatever the relay has, as long as the ground's numbers stay below those the relay
invents (`MaxCommands <= ForgedBase`). An alarm names a number that travelled from a frame into
the satellite's provenance, from there into a packet, and from the packet into the twin.
`LineageInv` follows it: every frame carries a number the ground has used or one above
`ForgedBase`, and one with a valid tag the ground's own; every packet anywhere names only
writers that were accepted, and a count of rejections that was reached. Hence a writer that
the twin does not know when it is named was accepted and never sent, and a packet's count
exceeds the twin's baseline by rejections nobody counted yet.

**`CommandLoopProofs!PrefixForward`**, **`EffectsOnce`**. `TwinSteps` says what a step can
do to the twin: nothing, note a command, observe a packet. An observation moves the prefix
within what was sent and takes over the effects of exactly the commands it moves past
(`EffectsSplit`); nothing is needed of what arrives.

**`CommandLoopProofs!TwinStaysBehind`** (`NeverAheadOfSatellite`) and **`NoAlarmOfItsOwn`**
(`NoPhantomAlarm`), with one assumption on the constants: with D1 on the ground signs its
commands. Otherwise the satellite rejects all of them, and in B0 the twin raises security
alarms about that. What keeps the twin behind the satellite are the packets between them.
`Follows` says of each which prefix was in force when it was written (its newest
writer, its store, the times of its commands), that this prefix lies between
the twin's and the satellite's, and that the packets stand in the order of what they report
(`PacketsInOrder`): the twin pins to the reported prefix or an earlier one of
the same store, hence stays at or before all that are still to come. `PrefixExplains` is only a
premise of `Follows`: a step never makes it true again once it failed, so that the invariant may
lean on it in the state before. For the security alarms, `Quiet` says that in B0 the frames are the
ground's own and in order, so that nothing is rejected.

**`CausalArms!PairInvariance`, `RecordedEpisode`** (`OneEpisode`) **and `MatchedTarget`**
(`ArmsShareTarget`), for every pair but SP-6, every set of contacts and passes, every onset and
every pattern of transits. The premise `NearEarth` is about the constants: a frame arrives within
the interval it was sent in, and two transits are shorter than the episodes of SP-2 and SP-3
(milliseconds against minutes). If they were longer, the hostile command of the attack arm
would arrive after the end of its episode. `ArmInv` describes one arm: nothing has happened
(`Waiting`), or the target is chosen and its episode open or closed, with the rows it then
has (`Episode`); what is in the air has its time still to come, and a hostile command comes
before the planned end (`InTheAir`); the target is under way or was delivered (`Reaching`); a
run that ended has nothing due (`Ended`). `Shared` says that the arms have one clock, and one
episode while no error ended either: what an arm does, its error included, never reaches the
choice of the target. Both theorems then read the rows: of a closed episode there is one begin
row, one end row, and between them only rows of the arm's cause or the third one.

**`CausalArms!ShownInvariance`, `HeldShowsAlike`** (`HeldFramesShowAlike` but for SP-6) **and
`FirstShown`** (`FirstOddMatches` but for SP-2) are about what the ground sees of those arms. An
arm's frames are sent on the beat (`OnTheBeat`) and arrive at a time that the frame's number
decides, to which SP-4 adds the hold for the target alone (`TimedArm`); nothing of a target that
the link dropped is under way (`DroppedArm`), which `RecordedEpisode` rests on too; where nothing is held both
arms send and lose the same frames (`SameFrames`). `HeldArm` says for the fault arm of SP-4 that
whatever is sent after the target is sent after the outage, `OddArm` that in SP-1 and SP-5 nothing
is odd before the target and the target is, and that only SP-5's fault leaves anything odd after
it, `EclipseArm` that in SP-2 what is sent after the shift
is odd and nothing before. Together these are `ShownInv`. `HeldShowsAlike` has one more premise
about the constants, `HoldEnds`: the hold of SP-4 covers whole intervals of telemetry, or ends so
long before the next frame that the transits cannot swap the two. The defaults are a hold of 30 s
and an interval of 10 s. The premise is needed: with a hold of 17, an interval of 6 and transits
of 1 or 6 TLC finds a frame that is sent after the outage and arrives before the target. Two more
results follow from the invariant and belong to no run: in a valid pair of SP-1, SP-2, SP-3 or
SP-5 the ground has every frame at the same instant in both arms (`SeenAlike`), and in SP-2 the
observations after the target, and they alone, are odd in both arms (`EclipseAlike`, as long as
the answer of the attacker reaches the satellite before the next frame: `ShortWay`, milliseconds
against 10 s).

**`DtaasLimits!DtaasInvariant`, `Limits`, `DirectoryKept`, `NoOrphans`, `CompleteResults`**:
`DtaasInv` consists of the types, `HandlersInv` (what a handler may hold at each of its
steps, and that no two handlers start the same instance), `WorkersInv` (a worker at work has
an active status and, once provisioned, a directory), `RegistryInv` (active instances are
registered or in a handler's hands) and `LimitsInv`. The count argument: an instance that is
not in the registry but active is held by a handler that is elsewhere, each such handler
holds one, and the admitting handler is none of them; hence the overshoot of at most
`Cardinality(Handler) - 1`, and none without DELETEs. `NoOrphans` adds what a handler
holds when its directory is gone (`OrphanInv`), `CompleteResults` that the worker alone writes
the record, result before digest before `done` (`ResultInv`).

**`FleetOwner!OneOwnerTheorem`, `StopTheorem`, `GreenTheorem`**, and `FleetInTheChain` for
the composition with the programs that follow. `OwnerInv`: only one invocation has ever
worked, because making the root succeeds once. `PoolInv`: after the first failure the runs
started late and those past the check are together fewer than the pool has threads, since
one thread is where it failed. `VerdictInv`: a verdict that will be GREEN has every run ok
and no failure since the audit, and from the last scan on the tree is `Whole`.

**`FleetOwner!PublishedTheorem`** (`PublishedIsPinned`), as long as one file at most was altered.
`PinnedInv`: at most one file of the trees differs from the pins (`OneOdd`), so that scores
that are not those of the pins come from it alone (`Builder`); a builder that found both trees
alike has faithful scores of all that was rerun; if the first package says anything else than the
pins, the one alteration is spent, so that the builder of the second finds the trees as they
were pinned or stops (`OneOfTwo`); and what was signed is what was written then, unless the
one alteration came in between (`Pack`). With two alterations TLC finds both trees altered
alike.

**`FleetOwner!AwakeGuards`** (`SuiteRefusesEachDamage`), for any number of runs and of alterations. It
needs to know of a root that was found conformant that both packages are there, with a digest of
every input (`Written`), that what was settled has the shape of a settlement over some version of the
executables (`SettledAs`), and that nothing happens between the last comparison and the damage, so that
the numbers of alarms are still those that were compared (`Complete`). Each of the 17 damages is then a
computation: the guard that is meant for it finds it whatever the altered files say. For the second
part a settlement in which the validator finds nothing is taken apart (`BoundPasses`,
`JudgedPasses`): each key but the five determines its value.

**`LogVerified!Anchored`, `VerifiedLog`, `SoundAbove`, `EditFound`**: the head is what was
written and the anchor of a finished run holds it; no edit of the file, rewriting the chain
included, reaches either. A file whose head is the anchor's is the file written. For
`SoundAbove` every row carries the digest of a prefix of what was written, so that a row
that fits the rows above it stands where it was written; for `EditFound` the file of one
edit is described outright (`OneEdit`), and the break found where it was made.

**`PilotRuns!PilotInvariant`, `WholeRuns`, `OneBuild`**, for every inventory, every length of
a log, any number of releases and kills. The truth log has no chain. `SameRun` is what makes
it trustworthy all the same: the simulation cuts the events log before it cuts the truth
log, so that a row among the events shows that the truth beside it was opened by the same
run. The anchor then vouches for all rows of the events, and the last row of the episode for
all rows of the truth.

**`FlowJoined!DisturbedWindows`** (`DisturbedWindowsAreTruth`), **`RandomAlarmsJoin`**
(`RandomAlarmsJoinTheirPackets`) **and `NoDamage`** (`NoDamageEscapes`), for every interval,
window, transit, delay, episode and firing of the detectors that the two assumptions of `FlowRun`
admit. `JoinInv` says where each packet is: on its way or received, once, at the time that its
fate gives it (`ArrivalTime`), and strictly inside the window that is open then (`Inside`); no two
arrive at one instant (`OneAtATime`: the sending times are multiples of the interval and a delay is
not), and the random alarms are one for each arrival fired on, in their order (`Fired`). The
arithmetic of windows rests on three facts about quotients, stated once. From there the theorems
are about one state. A window that no mapping names has lost nothing to a drop or a delay and got
nothing late. The join and its oracle find the same observation because times are distinct. And a
log in which the guards find nothing (`Clean`) credits what the run credits: with an observation
removed or repeated every alarm must still fit its time, and with an alarm changed the oracle
still joins it to the observation at its time, whatever it names.

**`FlowJoined!TwinScore`** (`TwinScoreIsTrue`) **and `SuiteFixture`** (`SuiteNeedsItsFixture`) rest on
the same invariant; `TwinFired` adds that the twin has an alarm for each arrival and channel that the
arrival breaches, with the arrival's number and time, and no other (`Told`). The effects that `state.py` lists are the disturbed observations,
each once, because no packet is received twice (`Observations`). `credit_alarms` goes through the
alarms and credits each direct one with the first effect of its own instant that is not credited yet: a fold,
whose unfolding is proved by induction over the alarms (`CreditsAreFold`, `Credits`). As no two
packets arrive at one instant, the effect credited is the one of the alarm's own arrival, a second alarm on that arrival credits nothing, and the
counts follow from bijections between alarms, effects and packets (`SameSize`). For the suite, one
lemma per mutant shows the guard that objects. Thirteen objections need an alarm and nothing else.
The time witness objects to the missing observation if the packet after it takes over its ordinal,
hence not if it was the last; the oracle disagrees about packet 7 if it was not alarmed already.

**`ScorerFaithful!ScorerInvariant`, `FamiliesAlwaysAgree`** (`FamiliesAgree`), **`MatchIsAlwaysTrue`**
(`MatchIsTrue`), **`ExposureIsAlwaysInAWindow`** (`ExposureIsInAWindow`) **and `ReportingIsAlwaysTrue`**
(`ReportingIsTrue`), for every scenario, contact, episode, delay and horizon. `match` claims outcomes
in the order of the actions, so that what is left for one depends on all before it. The recursion
is unfolded by induction over the actions (`TakingUnfolds`), from the library's fact that
the naturals are well founded; `FamiliesAgree` then needs two files of the right types and nothing
of the run. The others compare the scorer's picture with facts that are in no file, which takes

- `ClockInv`: no timer or arrival is missed, rows stand in the order of time, and none falls on the
  instant of an action or of a sample. Transits are odd and everything else even (`TransitAssumption`);
- `NumberInv`, `OwnInv`: which numbers commands, actions and the captured command may have, and that
  out of A3 nobody shares an action's number. The ground stays below the numbers that the relay makes
  up: `NumbersAssumption` bounds the horizon accordingly, the code begins at 900000
  (`OnPathAttacker.h:87`);
- `CopyInv`: what came of an action bears its number, comes after it, is the only one, and in A3 comes
  one transit after it;
- `ReplayInv`: replays are one injection interval apart, repeat a value of the gain cycle, and start
  after the original was received, unless the two raced;
- `OrderInv`: with D1 on and no race, commands that can pass D1 arrive in the order of their numbers;
- `TelemetryInv`: a packet has the count of the rejections before its sample, packets arrive in the
  order of the samples, and the twin alarms on each change between two of them.

`MatchIsTrue` keeps its premise `Undisturbed`: no command was replayed while it was itself in
flight, and no action was credited with an outcome older than itself (the lone outcome of
`matching.py:48`).

Only model-checked, and why:

- all liveness: fairness and ENABLED are out of the prover's reach;
- SP-6 in `OneEpisode`, `ArmsShareTarget` and `HeldFramesShowAlike`: its target is chosen on the
  downlink, in each arm at its own place, so that it needs an invariant of its own;
- SP-2 in `FirstOddMatches`: that the first odd observations agree is in `EclipseAlike`; that there
  is one holds for contacts that last long enough after the target, a fact of the instance;

## Where the code and its text part

Three disagreements have a run of their own:

- **An alarm nobody caused** (`cmd_updates_lossy`, `Twin.cc:345`). The twin tries
  prefixes of its ledger. If a gain command is lost at the edge of a contact and an
  update after it is accepted, no prefix explains the satellite, and the logical
  alarm stands. `Twin.h:206-208` says that a dropped command is not counted as an alarm.
- **The limit of instances** (`dtaas_capacity`, `service.py:124`). A DELETE takes
  the instance out of the registry before it is refused; a POST meanwhile counts one too
  few. `dtaas/README.md:48-50` says that concurrent requests cannot cross the limit.
  `LimitsBounded` and its theorem say by how much they can.
- **A failed run in the package** (`pilot_failed_run`, `runpilot.py:62`). A build reuses a
  cell because its log exists and takes its exit code for 0. A run whose intervention was
  refused for want of headroom, but which applied a third cause, ends with an error after
  its log and anchor are complete, and has the truth rows of an episode: the build that ran it
  stops, the next one publishes it. `CausalScenario.cc:379-381` says that such a run is a
  failed run and says so. `causal_pair` reaches the truth rows of such runs.

Others were met while modelling; the models follow the code, and the premises of the
properties keep to what it does:

- `Twin.h:216-218` says that the twin does not advance on something that never happened onboard.
  If a command is passed over but still shows in the store, a later one with the value of an
  earlier makes it: with four commands and three gain values, the first gain is accepted, the
  second lost, an update accepted, and the fourth command, still on its way, has the first
  one's value. A packet of that state is explained by all four, and the twin confirms the fourth.
- `CubeSat.cc:475-477` expects a command altered by A1 to keep a valid tag; the tag
  covers the value, and check 1 rejects it.
- `CausalScenario.cc:184-186` calls the two observations of SP-5 consecutive in one
  contact; with the onset at a contact's last observation the target is the first of the next.
- `CausalScenario.cc:127-211` takes an observation at a contact's last instant for a target, and the
  link drops it in that instant. The runs of such a pair are valid and the ground never has the
  target; in SP-5 the counter that the fault moved stays odd afterwards and the attack shows nowhere.
- `CubeSat.cc:255-258` says that SP-2 without headroom blocks the run; the attack arm goes
  on and counts as valid, only the fault arm fails.
- `CubeSat.cc:79-80` makes the window a function of the schedule; in SP-6 the attack arm
  counts frames one transit later than the fault arm and closes an interval later.
- `CubeSat.cc:401-403` says that both arms of SP-3 are observed alike; the fault arm
  shows the mode already in the target observation.
- `matching.py:24-25` says that the original of a replayed command is never credited; a
  lone outcome is taken without a look at its time (line 48), so it is, when the only copy is lost.
- `state.py:21-22` makes the value of the parameter a function of the number; injected
  and altered commands write other values (`OnPathAttacker.cc:138`).
- `FlowDetector.cc:76-77` speaks of five intervals; line 80 skips gaps above five
  windows.
- `p4_settlement.py:79-86` says that a wrongly bound settlement is RED; `expected_manifest_sha256`,
  `phase4_contract_sha256`, `historical_package_digests`, `manifest_path` and `rule` are in it and
  compared with nothing (a settlement that is pinned from outside with a wrong value in one of
  them is accepted).
- `validate_phase4.py:14-16` says that the historical package is checked to be byte-exact; its
  digests are taken (`p4_authority.py:145`) and compared (`p4_invariance.py:174-196`) in the same
  process, so that only a change in between is found. The mutant for it
  (`p4_mutations.py:338-351`) forges the cached digests.
- `build_phase4_membership.py:38-40` settles a successor that has results, whatever its
  `VALIDATION.json` says or whether there is one. The repaired scorer has no pin of its own: what
  is settled is what is there.
- `p4_mutations.py:117-122` names the time witness as the owner of a missing observation; if the
  first alarm is on the last packet, the ordinal is out of range instead. `p4_mutations.py:190-197`
  adds packet 7 to the alarmed ones, no disagreement if it is one already. Neither shows on
  the fixture (`SuiteNeedsItsFixture`).
- `verify_chain.py:11-13` says that a deletion shows as a break; that of the last record
  shows in the head only, which `tamper` does not compare. Without an anchor (a run
  that did not finish) `verify` passes such a log.

## What is not modelled

The numbers (orbits, voltages, ratios and their intervals), the real cryptography, the
generated message classes, configuration files (their switches are constants), the draw of the
random detector, the reports and paper assets, the sequential drivers and gate scripts
(`run_matrix.py`, `check_*.py`, one pass over files each), the validation of requests in the
service, the estimators of the pilot, the contract builder and the recomputed corpus totals of
the repair (one free verdict), the tests and the previous state of the programs.
In what is modelled: the cancelling of an episode's timers by the next contact (contacts are
further apart than an episode lasts), the calibration of the flow detector, a torn last line
of a log. Authority pins of the fleet are checked once, before it starts, and taken as passed.
`PROJECT.json` lists every component with its state of modelling, and the hazards that no
property covers with the reason.

## The plan

Done, in this order: the command loop and its proofs; the service and its
proofs; the causal pairs; the fleet; the log and its proofs; the scorer's matching,
state and flow windows; the reporting family F4, the crediting of the twin's and the random
detector's alarms; the pilot pipeline and its proofs; the chain from the fleet to what is
published; the guards of the repair and the suite that tests them; the third cause of the
pairs and the pilot's reader; the lineage and the estimate of the twin, the owner of the
fleet and the sound part of the log as theorems; the twin that follows, the published
results, the matched pairs with what the ground sees of them, and the join of the random alarms
with its guards as theorems; the scorer's matching, families, exposure and reporting, the twin's
score, the fixture of the suite and its guards as theorems.

To come:

1. Episode timers of the relay and the contacts of the access model, to replace the
   free episodes of the command loop in a timed instance.
2. The replication rule of the matrix driver (`run_matrix.py`: how many seeds a cell gets).
3. A second build in the root of a pilot, or a simulation that outlives its own, while a build
   reads: the hazard of `runpilot.py:71`.
4. SP-6 in the theorems about the pairs.
