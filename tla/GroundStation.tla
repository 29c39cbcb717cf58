---------------------------- MODULE GroundStation ----------------------------
(***************************************************************************)
(* The commanding side of the ground station (GroundStation.cc): the       *)
(* nominal gain command of the command timer, and the configuration update *)
(* of the update timer behind the twin's pre-uplink validation.            *)
(***************************************************************************)
EXTENDS LifesatPackets

CONSTANTS SignCommands,     \* signCommands
          GainCycle,        \* the gain values repeat with this period (5)
          ProposeUpdates,   \* proposeUpdates
          TwinValidation,   \* twinValidation
          UpdateKey, UpdateValue,
          MaxCommands       \* bound on the commands of a behaviour

ASSUME GroundAssumption ==
  /\ {SignCommands, ProposeUpdates, TwinValidation} \subseteq BOOLEAN
  /\ GainCycle \in Nat \ {0}
  /\ UpdateKey \in Key /\ UpdateValue \in Int
  /\ MaxCommands \in Nat

VARIABLE sequence   \* commandId and sequence

GroundInit == sequence = 0

GainCommand(t) ==
  [seq |-> sequence + 1, issuedAt |-> t, type |-> "CMD_SET_PARAM", key |-> "gain",
   value |-> (sequence + 1) % GainCycle, mode |-> MODE_NOMINAL]

UpdateCommand(t) ==
  [seq |-> sequence + 1, issuedAt |-> t, type |-> "CMD_UPDATE", key |-> UpdateKey,
   value |-> UpdateValue, mode |-> MODE_NOMINAL]

Frame(b) == IF SignCommands THEN Signed(b) ELSE Unsigned(b)

\* validateUpdate: the twin has a verdict on the discharge rate only, and which
\* of the two it is depends on the forward projection of its model.
Verdicts == IF UpdateKey = "dischargeRate" THEN {"approved", "rejected"}
            ELSE {"unsupported"}

\* Only an approved verdict, or no gate at all, lets a proposal reach the uplink.
PassesGate == TwinValidation => "approved" \in Verdicts

=============================================================================
