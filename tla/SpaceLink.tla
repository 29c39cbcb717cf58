------------------------------ MODULE SpaceLink ------------------------------
(***************************************************************************)
(* The radio link and the contact that opens it (SpaceLink.cc and the      *)
(* transitions of AccessModel.cc).                                         *)
(*                                                                         *)
(* A frame at the link's input is forwarded or dropped by the visibility   *)
(* of that instant, which may already differ from the visibility its       *)
(* sender saw; a forwarded frame arrives after the propagation and         *)
(* transmission time.  Frames of one direction keep their order.           *)
(***************************************************************************)
EXTENDS Integers, Sequences

CONSTANT MaxInFlight   \* bound on the frames of one direction, per stage

ASSUME LinkAssumption == MaxInFlight \in Nat \ {0}

VARIABLES visible,              \* AccessModel::visible
          upIn, satOut,         \* uplink: at the link's input, on the way
          downIn, groundOut     \* downlink: the same

linkVars == <<visible, upIn, satOut, downIn, groundOut>>

LinkTypeOK(tcs, tms) ==
  /\ visible \in BOOLEAN
  /\ upIn \in Seq(tcs) /\ satOut \in Seq(tcs)
  /\ downIn \in Seq(tms) /\ groundOut \in Seq(tms)

LinkInit ==
  /\ visible = FALSE
  /\ upIn = << >> /\ satOut = << >>
  /\ downIn = << >> /\ groundOut = << >>

\* sample: a pass starts or ends.
ToggleAccess ==
  /\ visible' = ~visible
  /\ UNCHANGED <<upIn, satOut, downIn, groundOut>>

ForwardUp ==
  /\ upIn # << >>
  /\ Len(satOut) < MaxInFlight
  /\ upIn' = Tail(upIn)
  /\ satOut' = IF visible THEN Append(satOut, Head(upIn)) ELSE satOut
  /\ UNCHANGED <<visible, downIn, groundOut>>

ForwardDown ==
  /\ downIn # << >>
  /\ Len(groundOut) < MaxInFlight
  /\ downIn' = Tail(downIn)
  /\ groundOut' = IF visible THEN Append(groundOut, Head(downIn)) ELSE groundOut
  /\ UNCHANGED <<visible, upIn, satOut>>

=============================================================================
