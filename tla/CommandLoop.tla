----------------------------- MODULE CommandLoop -----------------------------
(***************************************************************************)
(* The command and telemetry loop: ground station, relay, link, satellite  *)
(* and twin, composed as in lifesat/ned.  One action is one event handler; *)
(* the zero-delay hops between the ground station and the relay, and from  *)
(* the relay to the ground station, are part of the handler that makes     *)
(* them.                                                                   *)
(*                                                                         *)
(* Timers are free: a command, a proposal or a packet may be produced at   *)
(* any moment its handler allows, the clock advances at any moment.        *)
(***************************************************************************)
EXTENDS GroundStation, SpaceLink, CubeSat, Twin, OnPathAttacker

CONSTANTS Scenarios,         \* the scenarios of the relay to explore
          PhysicalVerdicts,  \* the verdicts of the physical channel to explore
          MaxTime            \* bound on the clock

ASSUME LoopAssumption ==
  /\ Scenarios \subseteq Scenario
  /\ PhysicalVerdicts \subseteq BOOLEAN
  /\ MaxTime \in Nat

VARIABLE now

vars == <<now, sequence, linkVars, satVars, twinVars, relayVars>>

TypeOK ==
  /\ now \in Nat
  /\ sequence \in Nat
  /\ LinkTypeOK(Telecommand, Telemetry)
  /\ CubeSatTypeOK
  /\ TwinTypeOK
  /\ RelayTypeOK

Init ==
  /\ now = 0
  /\ GroundInit /\ LinkInit /\ CubeSatInit /\ TwinInit
  /\ RelayInit(Scenarios)

-----------------------------------------------------------------------------
Tick ==
  /\ now < MaxTime
  /\ now' = now + 1
  /\ UNCHANGED <<sequence, linkVars, satVars, twinVars, relayVars>>

\* A pass starts or ends.
Access == ToggleAccess /\ UNCHANGED <<now, sequence, satVars, twinVars, relayVars>>

RoomUp == Len(upIn) < MaxInFlight

ToLink(tc) ==
  /\ upIn' = Append(upIn, tc)
  /\ UNCHANGED <<visible, satOut, downIn, groundOut>>

\* The command leaves the ground station, noted by the twin, and passes the
\* relay on the same simulated instant.
Release(b) ==
  /\ visible
  /\ sequence < MaxCommands
  /\ RoomUp
  /\ sequence' = sequence + 1
  /\ NoteApprovedCommand(b)
  /\ \/ UplinkPass(Frame(b)) /\ ToLink(Frame(b))
     \/ UplinkAlter(Frame(b)) /\ UNCHANGED linkVars
     \/ UplinkResign /\ ToLink(Resigned(Frame(b)))
  /\ UNCHANGED <<now, satVars>>

GenerateTelecommand == Release(GainCommand(now))

ProposeConfigurationUpdate ==
  /\ ProposeUpdates
  /\ PassesGate
  /\ Release(UpdateCommand(now))

Uplink == ForwardUp /\ UNCHANGED <<now, sequence, satVars, twinVars, relayVars>>

Downlink == ForwardDown /\ UNCHANGED <<now, sequence, satVars, twinVars, relayVars>>

ReceiveTelecommand ==
  /\ satOut # << >>
  /\ HandleTelecommand(Head(satOut))
  /\ satOut' = Tail(satOut)
  /\ UNCHANGED <<now, sequence, visible, upIn, downIn, groundOut, twinVars, relayVars>>

\* A packet produced out of contact is dropped onboard and changes nothing.
GenerateTelemetry ==
  /\ visible
  /\ Len(downIn) < MaxInFlight
  /\ downIn' = Append(downIn, Snapshot(now))
  /\ UNCHANGED <<now, sequence, visible, upIn, satOut, groundOut, satVars,
                 twinVars, relayVars>>

Observe(tm) == \E breach \in PhysicalVerdicts : ObserveTelemetry(tm, breach)

ReceiveTelemetry ==
  /\ groundOut # << >>
  /\ groundOut' = Tail(groundOut)
  /\ LET tm == Head(groundOut)
     IN  \/ /\ DownlinkPass(tm)
            /\ Observe(Shown(tm))
            /\ UNCHANGED upIn
         \/ /\ DownlinkCue /\ RoomUp
            /\ upIn' = Append(upIn, Unsigned(ForgedBody(now)))
            /\ Observe(tm)
         \/ (DownlinkDrop \/ DownlinkDelay(tm)) /\ UNCHANGED <<upIn, twinVars>>
  /\ UNCHANGED <<now, sequence, visible, satOut, downIn, satVars>>

ReceiveDelayedTelemetry ==
  \E i \in DOMAIN delayedDown :
    /\ Observe(delayedDown[i])
    /\ ReleaseDown(i)
    /\ UNCHANGED <<now, sequence, linkVars, satVars>>

RelayEpisode ==
  /\ \/ /\ BeginEpisode
        /\ IF Spoofs THEN Observe(SpoofedTelemetry(now)) ELSE UNCHANGED twinVars
     \/ EndEpisode /\ UNCHANGED twinVars
  /\ UNCHANGED <<now, sequence, linkVars, satVars>>

\* The relay puts a command of its own making, or one it kept, on the uplink.
RelaySends ==
  /\ RoomUp
  /\ \/ Inject /\ ToLink(Unsigned(ForgedBody(now)))
     \/ ReplayCaptured /\ ToLink(captured[1])
     \/ \E i \in DOMAIN delayedUp : ReleaseUp(i) /\ ToLink(delayedUp[i])
  /\ UNCHANGED <<now, sequence, satVars, twinVars>>

Next ==
  \/ Tick \/ Access
  \/ GenerateTelecommand \/ ProposeConfigurationUpdate
  \/ Uplink \/ Downlink
  \/ ReceiveTelecommand \/ GenerateTelemetry
  \/ ReceiveTelemetry \/ ReceiveDelayedTelemetry
  \/ RelayEpisode \/ RelaySends

Spec == Init /\ [][Next]_vars

-----------------------------------------------------------------------------
(***************************************************************************)
(* Authenticated commanding.                                               *)
(***************************************************************************)

\* With D1 on and the key uncompromised, whatever the relay repeats, alters,
\* invents or delays and whatever the link loses, the commands the satellite
\* accepts are the ground station's own, unaltered, each at most once and in
\* the order they were sent (CubeSat::handleTelecommand, checks 1 and 2).
AcceptedInOrderOnce ==
  /\ \A i \in DOMAIN accepted :
       accepted[i].seq \in DOMAIN approved /\ approved[accepted[i].seq] = accepted[i]
  /\ \A i, j \in DOMAIN accepted : i < j => accepted[i].seq < accepted[j].seq

\* The same as an implementation: every step of the loop is a step of the
\* abstract in-order execution or leaves it alone.
Abstract == INSTANCE InOrderExecution WITH
  issued <- approved,
  executed <- [i \in DOMAIN accepted |->
                 [place |-> accepted[i].seq, command |-> accepted[i]]]

ImplementsInOrderExecution == Abstract!Spec

-----------------------------------------------------------------------------
(***************************************************************************)
(* The estimator.                                                          *)
(***************************************************************************)

\* Whatever arrives, in whatever order, the confirmed prefix never moves back
\* and never passes the commands sent (Twin.cc: "confirmedPrefix never moves
\* backwards, so a command cannot be applied twice").
PrefixNeverMovesBack ==
  [][confirmedPrefix' >= confirmedPrefix /\ confirmedPrefix' <= Len(approved)]_vars

\* The physical effect of each confirmed update is in the twin's model, once:
\* as many effects as updates in the confirmed prefix, the last one in force.
EffectsAppliedOnce ==
  LET updates == PhysicalEffects(0, confirmedPrefix)
  IN  /\ updatesAppliedToModel = Cardinality(updates)
      /\ modelDischargeRate = IF updates = {} THEN Unset
                              ELSE approved[Latest(updates)].value

Alarmed(channel) == \E row \in d3Alarm : row.channel = channel

\* Commands that were sent, and passed over by one that came after them.
PassedOver == {k \in DOMAIN approved : /\ k < lastAcceptedSequence
                                       /\ \A i \in DOMAIN accepted : accepted[i].seq # k}

\* Each of them is written over by the next command that was accepted, and so
\* leaves no mark: what telemetry reports is what a prefix of them produces.
PrefixExplains ==
  \A k \in PassedOver : \E i \in DOMAIN accepted :
    /\ accepted[i].seq > k /\ accepted[i].key = approved[k].key
    /\ \A j \in 1..(i - 1) : accepted[j].seq < k

\* The satellite accepts the ground's own commands only, and its packets reach
\* the twin in the order in which they were written.
Traceable ==
  \/ scenario = "B0"
  \/ CommandAuthEnabled /\ scenario \notin {"A2v", "A4", "A8"}

\* Without interference the twin raises no security alarm.  As long as a prefix
\* explains the satellite, and even if the relay repeats, alters or invents
\* commands that D1 turns away, it raises no logical alarm: a command on its way,
\* lost and written over, or applied is uncertainty, not a deviation.
NoPhantomAlarm ==
  /\ scenario = "B0" => ~Alarmed("security")
  /\ Traceable /\ PrefixExplains => ~Alarmed("logical")

\* Without interference the twin raises no logical alarm whatever the link loses
\* (Twin.h:206-208).
NoLogicalAlarm == scenario = "B0" => ~Alarmed("logical")

\* As long as a prefix explains the satellite, the twin never believes a command
\* applied before the satellite has it: the newest command the satellite accepted
\* is at or past the confirmed prefix.  (If a command passed over still shows in
\* the store, a later command of the same value makes the twin run ahead.)
NeverAheadOfSatellite ==
  Traceable /\ PrefixExplains => confirmedPrefix <= lastAcceptedSequence

\* Every rejection is counted as unexplained once, however many packets carry
\* the raised count and whichever of them are lost.
RejectionsCountedOnce ==
  /\ unexplainedRejections = expectedRejectedCount
  /\ expectedRejectedCount <= rejectedCmdCount

\* A logical alarm names a command only if that command is in the lineage of
\* the state telemetry reports and the ground never sent it; with D1 on there
\* is no such command and every logical alarm carries the explicit null.
LinkIsForeign ==
  \A row \in d3Alarm : row.link # NullLink =>
    /\ ~WasApproved(row.link)
    /\ row.link \in {accepted[i].seq : i \in DOMAIN accepted}
    /\ ~CommandAuthEnabled

-----------------------------------------------------------------------------
(***************************************************************************)
(* Liveness.  Passes recur, and in each of them the satellite's timer, the *)
(* link and the receivers act, and an episode of the relay ends; nothing   *)
(* forces the ground to send or the relay to interfere.                    *)
(***************************************************************************)
Fairness ==
  /\ WF_vars(Access /\ ~visible)
  /\ SF_vars(Uplink) /\ SF_vars(Downlink /\ visible)
  /\ WF_vars(ReceiveTelecommand) /\ WF_vars(ReceiveTelemetry)
  /\ SF_vars(GenerateTelemetry)
  /\ WF_vars(RelayEpisode /\ episodeActive)

FairSpec == Spec /\ Fairness

\* Once the ground has stopped sending, the twin's rejection baseline settles on
\* the satellite's count, and its confirmed state on the satellite's state if a
\* prefix explains that.
EstimateConverges ==
  <>[](/\ PrefixExplains => StoreAfter(confirmedPrefix) = paramStore
       /\ expectedRejectedCount = rejectedCmdCount)

=============================================================================
