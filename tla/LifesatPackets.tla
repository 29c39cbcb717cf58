--------------------------- MODULE LifesatPackets ---------------------------
(***************************************************************************)
(* The packets of the simulator (LifesatPackets.msg) and the operators on  *)
(* them that several components share.                                     *)
(*                                                                         *)
(* Two counters of the code are one number here: GroundStation.cc          *)
(* increments commandId and sequence together, and OnPathAttacker.cc sets  *)
(* both of its own commands' fields to forgedId, so a command carries one  *)
(* seq that stands for both.  issuedAt is also the sentAt of the twin's    *)
(* approved list: both are simTime() of the same handler.                  *)
(*                                                                         *)
(* Cryptography is symbolic: a tag (or a payload digest) is the body it    *)
(* was computed over, NoTag is the empty string of an unsigned command.    *)
(* The keyed tag can be computed by the holders of the key only; which     *)
(* actor computes it is fixed by the action that writes the field.         *)
(***************************************************************************)
EXTENDS Integers, Sequences, FiniteSets

CONSTANTS KeySeq,   \* the parameter keys, in the order of std::map
          Unset,    \* the value of a key that no command has written
          NoTag     \* the authTag / payloadDigest of an unsigned command

Key == {KeySeq[i] : i \in DOMAIN KeySeq}

MODE_NOMINAL == 0
SatMode == 0..2
CommandType == {"CMD_SET_PARAM", "CMD_SET_MODE", "CMD_UPDATE"}

\* The fields the tag covers (authenticatedBody).
Body == [seq : Int, issuedAt : Nat, type : CommandType, key : Key,
         value : Int, mode : SatMode]

ASSUME PacketsAssumption ==
  /\ KeySeq \in Seq(STRING)
  /\ {"gain", "dischargeRate"} \subseteq Key
  /\ \A i, j \in DOMAIN KeySeq : KeySeq[i] = KeySeq[j] => i = j
  /\ Unset \notin Int
  /\ NoTag \notin Body

Telecommand == [body : Body, tag : Body \cup {NoTag}, digest : Body \cup {NoTag}]

Signed(b)   == [body |-> b, tag |-> b, digest |-> b]
Unsigned(b) == [body |-> b, tag |-> NoTag, digest |-> NoTag]

WritesParam(b) == b.type \in {"CMD_SET_PARAM", "CMD_UPDATE"}

NO_WRITER == -1

\* What the twin reads of a telemetry packet.  The parameter digest is the
\* store itself: the digest is over the ordered key=value list, so it tells
\* stores apart exactly when they differ.
Telemetry == [sourceTime : Nat, mode : SatMode, store : [Key -> Int \cup {Unset}],
              rejectedCmdCount : Nat, modeWriteSeq : Int,
              paramWriteProvenance : [Key -> Int]]

=============================================================================
