--------------------------- MODULE OnPathAttacker ---------------------------
(***************************************************************************)
(* The test bed's on-path relay (OnPathAttacker.cc), through which every   *)
(* frame between the ground station and the link passes.  Under scenario   *)
(* "B0" it forwards; under the A scenarios it interferes while an episode  *)
(* is active; under SP2 and SP3 (the attack arms of the causal pairs) a    *)
(* target packet on the downlink is the cue for one hostile command.  The  *)
(* random draws are free choices, the schedule of the episodes inside the  *)
(* passes and the choice of the target packet are left open.               *)
(***************************************************************************)
EXTENDS LifesatPackets, SequencesExt

CONSTANTS ParamDelta,       \* paramDelta: what A1 and A2v add to a value
          ForgedBase,       \* forgedId's initial value (900000)
          ForgedValue,      \* a value the ground never approves
          MaxInterference   \* bound on the relay's own frames and alterations

ASSUME RelayAssumption ==
  /\ {ParamDelta, ForgedValue} \subseteq Int
  /\ {ForgedBase, MaxInterference} \subseteq Nat
  /\ {"fw_version", "chargeRate"} \subseteq Key

VARIABLES scenario, episodeActive,
          captured,              \* A3: the captured command, a sequence of at most one
          lastSeen,              \* A8: the latest packet, a sequence of at most one
          forgedId,
          interference,          \* alterations and injections so far
          frozenRejectedCount,   \* A7c
          delayedUp, delayedDown \* A1, A4: frames held by sendDelayed

memory == <<captured, lastSeen, frozenRejectedCount>>
delayed == <<delayedUp, delayedDown>>
relayVars == <<scenario, episodeActive, forgedId, interference, memory, delayed>>

Scenario == {"B0", "A1", "A2", "A2v", "A3", "A4", "A6", "A7c", "A8", "SP2", "SP3"}
CausalArm == {"SP2", "SP3"}

RelayTypeOK ==
  /\ scenario \in Scenario
  /\ episodeActive \in BOOLEAN
  /\ captured \in Seq(Telecommand)
  /\ lastSeen \in Seq(Telemetry)
  /\ forgedId \in Nat
  /\ interference \in Nat
  /\ frozenRejectedCount \in Nat \cup {-1}
  /\ delayedUp \in Seq(Telecommand)
  /\ delayedDown \in Seq(Telemetry)

RelayInit(scenarios) ==
  /\ scenario \in scenarios
  /\ episodeActive = FALSE
  /\ captured = << >> /\ lastSeen = << >>
  /\ forgedId = ForgedBase
  /\ interference = 0
  /\ frozenRejectedCount = -1
  /\ delayedUp = << >> /\ delayedDown = << >>

Active(s) == scenario = s /\ episodeActive

Interfere ==
  /\ interference < MaxInterference
  /\ interference' = interference + 1

\* An episode of A8 begins with a spoofed packet as soon as there is one to copy.
Spoofs == scenario = "A8" /\ lastSeen # << >>

BeginEpisode ==
  /\ scenario \notin CausalArm \cup {"B0"}
  /\ ~episodeActive
  /\ episodeActive' = TRUE
  /\ IF Spoofs THEN Interfere ELSE UNCHANGED interference
  /\ UNCHANGED <<scenario, forgedId, memory, delayed>>

\* spoofResync: the latest packet with a fresh source time and another voltage.
SpoofedTelemetry(t) == [lastSeen[1] EXCEPT !.sourceTime = t]

\* Fault: the frozen count survives the episode.
EndEpisodeKeepsFrozen ==
  /\ episodeActive
  /\ episodeActive' = FALSE
  /\ UNCHANGED <<scenario, forgedId, interference, memory, delayed>>

EndEpisode ==
  /\ episodeActive
  /\ episodeActive' = FALSE
  /\ frozenRejectedCount' = -1
  /\ UNCHANGED <<scenario, forgedId, interference, captured, lastSeen, delayed>>

\* A1 changes the value and leaves tag and digest, A2v signs the result anew.
Altered(tc)  == [tc EXCEPT !.body.value = @ + ParamDelta]
Resigned(tc) == Signed([tc.body EXCEPT !.value = @ + ParamDelta])

\* handleUplink: pass the command on, hold an altered copy back, re-sign it.
UplinkPass(tc) ==
  /\ captured' = IF Active("A3") /\ captured = << >> THEN <<tc>> ELSE captured
  /\ UNCHANGED <<scenario, episodeActive, forgedId, interference, lastSeen,
                 frozenRejectedCount, delayed>>

UplinkAlter(tc) ==
  /\ Active("A1") /\ Interfere
  /\ delayedUp' = Append(delayedUp, Altered(tc))
  /\ UNCHANGED <<scenario, episodeActive, forgedId, memory, delayedDown>>

UplinkResign ==
  /\ Active("A2v") /\ Interfere
  /\ UNCHANGED <<scenario, episodeActive, forgedId, memory, delayed>>

\* Fault: the hostile command names a mode beyond the last one.
ForgedBodyModePastEnd(t) ==
  [seq |-> forgedId + 1, issuedAt |-> t, type |-> "CMD_SET_MODE", key |-> "gain",
   value |-> ForgedValue, mode |-> 3]

\* The unsigned commands the relay makes itself.
ForgedBody(t) ==
  [seq |-> forgedId + 1, issuedAt |-> t,
   type |-> CASE scenario \in {"A6", "SP2"} -> "CMD_UPDATE"
              [] scenario = "SP3" -> "CMD_SET_MODE"
              [] OTHER -> "CMD_SET_PARAM",
   key |-> CASE scenario = "A6" -> "fw_version"
             [] scenario = "SP2" -> "chargeRate"
             [] OTHER -> "gain",
   value |-> ForgedValue,
   mode |-> IF scenario = "SP3" THEN 1 ELSE MODE_NOMINAL]

ForgeCommand ==
  /\ Interfere
  /\ forgedId' = forgedId + 1
  /\ UNCHANGED <<scenario, episodeActive, memory, delayed>>

Inject == scenario \in {"A2", "A6", "A7c"} /\ episodeActive /\ ForgeCommand

ReplayCaptured ==
  /\ Active("A3") /\ Interfere
  /\ captured # << >>
  /\ UNCHANGED <<scenario, episodeActive, forgedId, memory, delayed>>

\* A held frame leaves when its added delay is over.
ReleaseUp(i) ==
  /\ delayedUp' = RemoveAt(delayedUp, i)
  /\ UNCHANGED <<scenario, episodeActive, forgedId, interference, memory, delayedDown>>

ReleaseDown(i) ==
  /\ delayedDown' = RemoveAt(delayedDown, i)
  /\ UNCHANGED <<scenario, episodeActive, forgedId, interference, memory, delayedUp>>

\* handleDownlink: A7c shows the ground the count it froze, A8 keeps a copy, A4
\* drops or delays.  (A4's altered voltage moves the physical verdict only.)
Shown(tm) ==
  IF Active("A7c") /\ frozenRejectedCount >= 0
  THEN [tm EXCEPT !.rejectedCmdCount = frozenRejectedCount] ELSE tm

DownlinkPass(tm) ==
  /\ frozenRejectedCount' = IF Active("A7c") /\ frozenRejectedCount < 0
                            THEN tm.rejectedCmdCount ELSE frozenRejectedCount
  /\ lastSeen' = IF scenario = "A8" THEN <<tm>> ELSE lastSeen
  /\ UNCHANGED <<scenario, episodeActive, forgedId, interference, captured, delayed>>

DownlinkDrop ==
  /\ Active("A4") /\ Interfere
  /\ UNCHANGED <<scenario, episodeActive, forgedId, memory, delayed>>

DownlinkDelay(tm) ==
  /\ Active("A4") /\ Interfere
  /\ delayedDown' = Append(delayedDown, tm)
  /\ UNCHANGED <<scenario, episodeActive, forgedId, memory, delayedUp>>

\* causalDownlink for SP2 and SP3: the first target packet releases the one
\* hostile configuration command and is itself passed on.
HostileConfigSent == forgedId > ForgedBase

DownlinkCue == scenario \in CausalArm /\ ~HostileConfigSent /\ ForgeCommand

=============================================================================
