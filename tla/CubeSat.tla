------------------------------- MODULE CubeSat -------------------------------
(***************************************************************************)
(* The satellite's command gate (defence D1), the state that accepted      *)
(* commands write, and the telemetry snapshot (CubeSat.cc).                *)
(*                                                                         *)
(* The voltage of the power model is left to the twin's physical channel,  *)
(* which the command loop treats as an input; of the power model only the  *)
(* discharge rate a CMD_UPDATE sets is kept.                               *)
(***************************************************************************)
EXTENDS LifesatPackets

CONSTANT CommandAuthEnabled   \* commandAuthEnabled: D1 is on

VARIABLES lastAcceptedSequence,
          rejectedCmdCount,
          rejectedBy,        \* rejAuth, rejFresh, rejIntegrity
          mode, modeWriteSeq,
          paramStore, paramProvenance,
          dischargeRate,     \* PowerModel::dischargeRate, Unset while nominal
          accepted           \* the tc.accept rows of the evidence log

satVars == <<lastAcceptedSequence, rejectedCmdCount, rejectedBy, mode,
             modeWriteSeq, paramStore, paramProvenance, dischargeRate, accepted>>

RejectReason == {"auth", "freshness", "integrity"}

CubeSatTypeOK ==
  /\ lastAcceptedSequence \in Int
  /\ rejectedCmdCount \in Nat
  /\ rejectedBy \in [RejectReason -> Nat]
  /\ mode \in SatMode
  /\ modeWriteSeq \in Int
  /\ paramStore \in [Key -> Int \cup {Unset}]
  /\ paramProvenance \in [Key -> Int]
  /\ dischargeRate \in Int \cup {Unset}
  /\ accepted \in Seq(Body)

CubeSatInit ==
  /\ lastAcceptedSequence = 0
  /\ rejectedCmdCount = 0
  /\ rejectedBy = [r \in RejectReason |-> 0]
  /\ mode = MODE_NOMINAL
  /\ modeWriteSeq = NO_WRITER
  /\ paramStore = [k \in Key |-> Unset]
  /\ paramProvenance = [k \in Key |-> NO_WRITER]
  /\ dischargeRate = Unset
  /\ accepted = << >>

\* Faulty gates: a repeated sequence number passes; the digest is checked before
\* the tag; a command without a tag passes; a lost command blocks its successors.
FailedCheckRepeatPasses(tc) ==
  IF ~CommandAuthEnabled THEN "none"
  ELSE IF tc.tag # tc.body THEN "auth"
  ELSE IF tc.body.seq < lastAcceptedSequence THEN "freshness"
  ELSE "none"

FailedCheckUntaggedPasses(tc) ==
  IF ~CommandAuthEnabled \/ tc.tag = NoTag THEN "none"
  ELSE IF tc.tag # tc.body THEN "auth"
  ELSE IF tc.body.seq <= lastAcceptedSequence THEN "freshness"
  ELSE "none"

\* The three checks of D1 in the order of the code; the first that fails names
\* the reason.  Without D1 every command passes.
FailedCheck(tc) ==
  IF ~CommandAuthEnabled THEN "none"
  ELSE IF tc.tag # tc.body THEN "auth"
  ELSE IF tc.body.seq <= lastAcceptedSequence THEN "freshness"
  ELSE IF tc.digest # tc.body THEN "integrity"
  ELSE "none"

Accept(b) ==
  /\ lastAcceptedSequence' = b.seq
  /\ accepted' = Append(accepted, b)
  /\ IF b.type = "CMD_SET_MODE"
     THEN mode' = b.mode /\ modeWriteSeq' = b.seq
     ELSE UNCHANGED <<mode, modeWriteSeq>>
  /\ IF WritesParam(b)
     THEN /\ paramStore' = [paramStore EXCEPT ![b.key] = b.value]
          /\ paramProvenance' = [paramProvenance EXCEPT ![b.key] = b.seq]
     ELSE UNCHANGED <<paramStore, paramProvenance>>
  /\ dischargeRate' = IF b.type = "CMD_UPDATE" /\ b.key = "dischargeRate"
                      THEN b.value ELSE dischargeRate
  /\ UNCHANGED <<rejectedCmdCount, rejectedBy>>

Reject(reason) ==
  /\ rejectedCmdCount' = rejectedCmdCount + 1
  /\ rejectedBy' = [rejectedBy EXCEPT ![reason] = @ + 1]
  /\ UNCHANGED <<lastAcceptedSequence, mode, modeWriteSeq, paramStore,
                 paramProvenance, dischargeRate, accepted>>

HandleTelecommand(tc) ==
  \/ FailedCheck(tc) = "none" /\ Accept(tc.body)
  \/ FailedCheck(tc) # "none" /\ Reject(FailedCheck(tc))

\* generateTelemetry: the packet written at time t.
Snapshot(t) ==
  [sourceTime |-> t, mode |-> mode, store |-> paramStore,
   rejectedCmdCount |-> rejectedCmdCount, modeWriteSeq |-> modeWriteSeq,
   paramWriteProvenance |-> paramProvenance]

=============================================================================
