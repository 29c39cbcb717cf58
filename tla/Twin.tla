-------------------------------- MODULE Twin --------------------------------
(***************************************************************************)
(* The ground twin as a state estimator (Twin.cc): the list of approved    *)
(* commands, the prefix of it that telemetry has confirmed, the rejection  *)
(* baseline, and the deviation detector D3 with its three channels.        *)
(*                                                                         *)
(* The physical channel compares real-valued voltages; here its verdict is *)
(* an input of ObserveTelemetry and the twin's model is the discharge rate *)
(* it has taken over from confirmed updates.  The alarm rows of the latest *)
(* observation are kept instead of the alarm counters.                     *)
(***************************************************************************)
EXTENDS LifesatPackets

VARIABLES approved,               \* released commands, oldest first
          confirmedPrefix,
          expectedRejectedCount,
          unexplainedRejections,
          modelDischargeRate,     \* Unset while nominal
          updatesAppliedToModel,
          d3Alarm                 \* d3.alarm rows of the latest observation

twinVars == <<approved, confirmedPrefix, expectedRejectedCount,
              unexplainedRejections, modelDischargeRate,
              updatesAppliedToModel, d3Alarm>>

Channel == {"physical", "logical", "security"}
NullLink == -1   \* the explicit null of an alarm bound to no command
AlarmRow == [channel : Channel, link : Int]

TwinTypeOK ==
  /\ approved \in Seq(Body)
  /\ confirmedPrefix \in Nat
  /\ expectedRejectedCount \in Nat
  /\ unexplainedRejections \in Int
  /\ modelDischargeRate \in Int \cup {Unset}
  /\ updatesAppliedToModel \in Nat
  /\ d3Alarm \in SUBSET AlarmRow

TwinInit ==
  /\ approved = << >>
  /\ confirmedPrefix = 0
  /\ expectedRejectedCount = 0
  /\ unexplainedRejections = 0
  /\ modelDischargeRate = Unset
  /\ updatesAppliedToModel = 0
  /\ d3Alarm = {}

Latest(S) == CHOOSE i \in S : \A j \in S : j <= i
Earliest(S) == CHOOSE i \in S : \A j \in S : i <= j

\* paramDigestAfter: the store with the first n approved commands applied, the
\* last write of each key winning.
StoreAfter(n) ==
  [k \in Key |->
     LET writes == {i \in 1..n : WritesParam(approved[i]) /\ approved[i].key = k}
     IN  IF writes = {} THEN Unset ELSE approved[Latest(writes)].value]

ModeAfter(n) ==
  LET writes == {i \in 1..n : approved[i].type = "CMD_SET_MODE"}
  IN  IF writes = {} THEN MODE_NOMINAL ELSE approved[Latest(writes)].mode

\* Fault: a command sent at the instant of the packet is left out.
SentBeforeTime(ts) == Cardinality({i \in DOMAIN approved : approved[i].issuedAt < ts})

SentByTime(ts) == Cardinality({i \in DOMAIN approved : approved[i].issuedAt <= ts})

WasApproved(seq) == \E i \in DOMAIN approved : approved[i].seq = seq

NoteApprovedCommand(b) ==
  /\ approved' = Append(approved, b)
  /\ UNCHANGED <<confirmedPrefix, expectedRejectedCount, unexplainedRejections,
                 modelDischargeRate, updatesAppliedToModel, d3Alarm>>

\* Faults: the search starts over at the empty prefix; it looks one command ahead.
AdmissibleFromStart(tm) == 0..SentByTime(tm.sourceTime)

\* The prefixes an observation may still match: nothing below the confirmed
\* one, nothing sent after the packet was written.
Admissible(tm) == confirmedPrefix..SentByTime(tm.sourceTime)

ModeExplained(tm) == \E n \in Admissible(tm) : ModeAfter(n) = tm.mode
DigestExplained(tm) == \E n \in Admissible(tm) : StoreAfter(n) = tm.store

Matches(tm) == {n \in Admissible(tm) : ModeAfter(n) = tm.mode /\ StoreAfter(n) = tm.store}

\* The updates with a physical effect among the commands from+1..to.
PhysicalEffects(from, to) ==
  {i \in (from + 1)..to : approved[i].type = "CMD_UPDATE"
                          /\ approved[i].key = "dischargeRate"}

\* Faults: the confirmed prefix is applied again from its start; the first
\* command of the range is left out.
ApplyEffectsFromStart(from, to) ==
  LET effects == PhysicalEffects(0, to)
  IN  /\ modelDischargeRate' = IF effects = {} THEN modelDischargeRate
                               ELSE approved[Latest(effects)].value
      /\ updatesAppliedToModel' = updatesAppliedToModel + Cardinality(effects)

ApplyConfirmedPhysicalEffects(from, to) ==
  LET effects == PhysicalEffects(from, to)
  IN  /\ modelDischargeRate' = IF effects = {} THEN modelDischargeRate
                               ELSE approved[Latest(effects)].value
      /\ updatesAppliedToModel' = updatesAppliedToModel + Cardinality(effects)

\* Fault: the last writer is named even when the ground sent it.
AlarmLinkAnyWriter(tm) ==
  LET writers == {i \in DOMAIN KeySeq : tm.paramWriteProvenance[KeySeq[i]] >= 0}
  IN  IF ~ModeExplained(tm) /\ tm.modeWriteSeq >= 0 THEN tm.modeWriteSeq
      ELSE IF ~DigestExplained(tm) /\ writers # {}
      THEN tm.paramWriteProvenance[KeySeq[Earliest(writers)]]
      ELSE NullLink

\* The command a logical alarm is bound to: the unapproved writer of the
\* deviating component, the mode first, then the first key of the store.
AlarmLink(tm) ==
  LET unapproved(seq) == seq >= 0 /\ ~WasApproved(seq)
      writers == {i \in DOMAIN KeySeq : unapproved(tm.paramWriteProvenance[KeySeq[i]])}
  IN  IF ~ModeExplained(tm) /\ unapproved(tm.modeWriteSeq) THEN tm.modeWriteSeq
      ELSE IF ~DigestExplained(tm) /\ writers # {}
      THEN tm.paramWriteProvenance[KeySeq[Earliest(writers)]]
      ELSE NullLink

AlarmRows(tm, physicalBreach) ==
     (IF physicalBreach THEN {[channel |-> "physical", link |-> NullLink]} ELSE {})
  \cup (IF Matches(tm) = {} THEN {[channel |-> "logical", link |-> AlarmLink(tm)]}
        ELSE {})
  \cup (IF tm.rejectedCmdCount # expectedRejectedCount
        THEN {[channel |-> "security", link |-> NullLink]} ELSE {})

\* Fault: the new rejection count is not adopted as the baseline.
ObserveKeepsBaseline(tm, physicalBreach) ==
  /\ IF Matches(tm) # {}
     THEN /\ confirmedPrefix' = Earliest(Matches(tm))
          /\ ApplyConfirmedPhysicalEffects(confirmedPrefix, Earliest(Matches(tm)))
     ELSE UNCHANGED <<confirmedPrefix, modelDischargeRate, updatesAppliedToModel>>
  /\ d3Alarm' = AlarmRows(tm, physicalBreach)
  /\ unexplainedRejections' =
       unexplainedRejections + (tm.rejectedCmdCount - expectedRejectedCount)
  /\ UNCHANGED <<approved, expectedRejectedCount>>

\* On a match the twin pins to the earliest matching prefix and takes over the
\* physical effects up to it; on a mismatch it stays where it is.
ObserveTelemetry(tm, physicalBreach) ==
  /\ IF Matches(tm) # {}
     THEN /\ confirmedPrefix' = Earliest(Matches(tm))
          /\ ApplyConfirmedPhysicalEffects(confirmedPrefix, Earliest(Matches(tm)))
     ELSE UNCHANGED <<confirmedPrefix, modelDischargeRate, updatesAppliedToModel>>
  /\ d3Alarm' = AlarmRows(tm, physicalBreach)
  /\ unexplainedRejections' =
       unexplainedRejections + (tm.rejectedCmdCount - expectedRejectedCount)
  /\ expectedRejectedCount' = tm.rejectedCmdCount
  /\ UNCHANGED approved

=============================================================================
