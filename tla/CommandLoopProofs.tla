-------------------------- MODULE CommandLoopProofs --------------------------
(***************************************************************************)
(* The command loop, for every value of the constants.  First its types,   *)
(* with the facts about the estimator that they rest on: the least and the *)
(* greatest member of a bounded set of positions, and the bound on the     *)
(* prefixes a report may match.                                            *)
(*                                                                         *)
(* Then authenticated commanding: with D1 on and a relay without the key,  *)
(* the satellite executes the ground's own commands, each at most once and *)
(* in order, and so the loop implements InOrderExecution.                  *)
(* AcceptedInOrderOnce is not inductive: it holds because of what is on    *)
(* its way.  OrderInv adds that the approved list is numbered by sequence, *)
(* that every frame the uplink, the relay or its capture holds is Genuine, *)
(* and that lastAcceptedSequence bounds what has been accepted.            *)
(***************************************************************************)
EXTENDS CommandLoop, FiniteSetTheorems, WellFoundedInduction, SequenceTheorems, TLAPS

\* Every set of naturals that is not empty has a least member, and Earliest
\* returns it.
LEMMA EarliestIsLeast ==
  ASSUME NEW S \in SUBSET Nat, S # {}
  PROVE  /\ Earliest(S) \in S
         /\ \A j \in S : Earliest(S) <= j
<1>1. PICK x \in S : \A y \in S : ~(<<y, x>> \in OpToRel(<, Nat))
  BY NatLessThanWellFounded, WFMin
<1>2. \A y \in S : x <= y
  <2>1. TAKE y \in S
  <2>2. <<y, x>> \in Nat \X Nat
    OBVIOUS
  <2>3. ~(y < x)
    BY <1>1, <2>2 DEF OpToRel
  <2> QED BY <2>3
<1> QED BY <1>2 DEF Earliest

\* Every set of positions up to n that is not empty has a greatest member, and
\* Latest returns it.
LEMMA LatestIsGreatest ==
  ASSUME NEW n \in Nat, NEW S \in SUBSET (1..n), S # {}
  PROVE  /\ Latest(S) \in S
         /\ \A j \in S : j <= Latest(S)
<1> DEFINE T == {n - i : i \in S}
<1>1. T \in SUBSET Nat /\ T # {}
  <2>1. \A i \in S : i \in 1..n /\ n - i \in Nat
    OBVIOUS
  <2>2. PICK i \in S : TRUE
    OBVIOUS
  <2> QED BY <2>1, <2>2
<1>2. PICK t \in T : \A u \in T : t <= u
  BY <1>1, EarliestIsLeast
<1>3. PICK i \in S : t = n - i
  BY <1>2
<1>4. \A j \in S : j <= i
  BY <1>2, <1>3
<1> QED BY <1>4 DEF Latest

\* The twin never considers a prefix longer than what was sent.
LEMMA SentByTimeBound ==
  ASSUME approved \in Seq(Body), NEW ts
  PROVE  SentByTime(ts) \in 0..Len(approved)
<1> DEFINE sent == {i \in DOMAIN approved : approved[i].issuedAt <= ts}
<1>1. Len(approved) \in Nat /\ DOMAIN approved = 1..Len(approved)
  OBVIOUS
<1>2. IsFiniteSet(DOMAIN approved) /\ Cardinality(DOMAIN approved) = Len(approved)
  BY <1>1, FS_Interval
<1>3. sent \in SUBSET (DOMAIN approved)
  OBVIOUS
<1>4. IsFiniteSet(sent) /\ Cardinality(sent) <= Len(approved)
  BY <1>2, <1>3, FS_Subset
<1>5. Cardinality(sent) \in Nat
  BY <1>4, FS_CardinalityType
<1> QED BY <1>1, <1>4, <1>5 DEF SentByTime

\* A match is a prefix of the sent commands that is not behind the confirmed one.
LEMMA MatchesBound ==
  ASSUME approved \in Seq(Body), confirmedPrefix \in Nat, NEW tm
  PROVE  /\ Matches(tm) \in SUBSET (confirmedPrefix..Len(approved))
         /\ Matches(tm) \in SUBSET Nat
<1>1. SentByTime(tm.sourceTime) \in 0..Len(approved) /\ Len(approved) \in Nat
  BY SentByTimeBound
<1> QED BY <1>1 DEF Matches, Admissible

\* The physical effects among the commands of a range that was sent: finitely
\* many, and the last of them, if there is one, is a command of the list.
LEMMA PhysicalEffectsFacts ==
  ASSUME approved \in Seq(Body), NEW from \in Nat, NEW to \in 0..Len(approved)
  PROVE  /\ PhysicalEffects(from, to) \in SUBSET (1..to)
         /\ Cardinality(PhysicalEffects(from, to)) \in Nat
         /\ PhysicalEffects(from, to) # {}
              => /\ Latest(PhysicalEffects(from, to)) \in PhysicalEffects(from, to)
                 /\ approved[Latest(PhysicalEffects(from, to))] \in Body
<1>1. Len(approved) \in Nat /\ to \in Nat
  OBVIOUS
<1>2. PhysicalEffects(from, to) \in SUBSET (1..to)
  BY <1>1 DEF PhysicalEffects
<1>3. Cardinality(PhysicalEffects(from, to)) \in Nat
  <2>1. IsFiniteSet(1..to)
    BY <1>1, FS_Interval
  <2>2. IsFiniteSet(PhysicalEffects(from, to))
    BY <1>2, <2>1, FS_Subset
  <2> QED BY <2>2, FS_CardinalityType
<1>4. ASSUME PhysicalEffects(from, to) # {}
      PROVE  Latest(PhysicalEffects(from, to)) \in PhysicalEffects(from, to)
  BY <1>1, <1>2, <1>4, LatestIsGreatest
<1>5. \A i \in 1..to : approved[i] \in Body
  BY <1>1
<1> QED BY <1>2, <1>3, <1>4, <1>5

-----------------------------------------------------------------------------

USE PacketsAssumption, LinkAssumption, RelayAssumption, GroundAssumption, LoopAssumption

\* The commands of the ground station and of the relay are well-formed bodies.
LEMMA BodiesTyped ==
  ASSUME sequence \in Nat, forgedId \in Nat, NEW t \in Nat
  PROVE  /\ GainCommand(t) \in Body
         /\ UpdateCommand(t) \in Body
         /\ ForgedBody(t) \in Body
<1>1. GainCommand(t) \in Body
  BY DEF GainCommand, Body, CommandType, SatMode, MODE_NOMINAL
<1>2. UpdateCommand(t) \in Body
  BY DEF UpdateCommand, Body, CommandType, SatMode, MODE_NOMINAL
<1>3. ForgedBody(t) \in Body
  BY DEF ForgedBody, Body, CommandType, SatMode, MODE_NOMINAL
<1> QED BY <1>1, <1>2, <1>3

\* So are the frames that carry them, signed or not, altered or signed anew.
LEMMA FramesTyped ==
  ASSUME NEW b \in Body
  PROVE  /\ Signed(b) \in Telecommand /\ Unsigned(b) \in Telecommand
         /\ Frame(b) \in Telecommand
         /\ Altered(Frame(b)) \in Telecommand
         /\ Resigned(Frame(b)) \in Telecommand
<1>1. Signed(b) \in Telecommand /\ Unsigned(b) \in Telecommand
  BY DEF Signed, Unsigned, Telecommand
<1>2. Frame(b) \in Telecommand /\ Frame(b).body = b
  BY <1>1 DEF Frame, Signed, Unsigned
<1>3. [b EXCEPT !.value = @ + ParamDelta] \in Body
  <2>1. b.value \in Int /\ ParamDelta \in Int
    BY RelayAssumption DEF Body
  <2>2. b.value + ParamDelta \in Int
    BY <2>1
  <2> QED BY <2>2, SMTT(30) DEF Body
<1>4. Altered(Frame(b)) \in Telecommand
  BY <1>2, <1>3 DEF Altered, Telecommand
<1>5. Resigned(Frame(b)) \in Telecommand
  BY <1>2, <1>3 DEF Resigned, Signed, Telecommand
<1> QED BY <1>1, <1>2, <1>4, <1>5

\* The packet of the satellite, also as the relay shows it, is well-formed.
LEMMA PacketsTyped ==
  /\ CubeSatTypeOK => \A t \in Nat : Snapshot(t) \in Telemetry
  /\ RelayTypeOK => \A tm \in Telemetry : Shown(tm) \in Telemetry
  /\ RelayTypeOK /\ Spoofs => \A t \in Nat : SpoofedTelemetry(t) \in Telemetry
<1>1. ASSUME CubeSatTypeOK, NEW t \in Nat PROVE Snapshot(t) \in Telemetry
  BY <1>1 DEF CubeSatTypeOK, Snapshot, Telemetry
<1>2. ASSUME RelayTypeOK, NEW tm \in Telemetry PROVE Shown(tm) \in Telemetry
  <2>1. \A n \in Nat : [tm EXCEPT !.rejectedCmdCount = n] \in Telemetry
    BY DEF Telemetry
  <2>2. frozenRejectedCount >= 0 => frozenRejectedCount \in Nat
    BY <1>2 DEF RelayTypeOK
  <2> QED BY <2>1, <2>2 DEF Shown
<1>3. ASSUME RelayTypeOK, Spoofs, NEW t \in Nat PROVE SpoofedTelemetry(t) \in Telemetry
  <2>1. lastSeen[1] \in Telemetry
    BY <1>3 DEF RelayTypeOK, Spoofs
  <2> QED BY <2>1 DEF SpoofedTelemetry, Telemetry
<1> QED BY <1>1, <1>2, <1>3

\* The rows of an observation name a channel and a number.
LEMMA AlarmRowsTyped ==
  ASSUME NEW tm \in Telemetry, NEW breach \in BOOLEAN
  PROVE  AlarmRows(tm, breach) \in SUBSET AlarmRow
<1> DEFINE writers == {i \in DOMAIN KeySeq :
                         /\ tm.paramWriteProvenance[KeySeq[i]] >= 0
                         /\ ~WasApproved(tm.paramWriteProvenance[KeySeq[i]])}
<1>1. tm.paramWriteProvenance \in [Key -> Int] /\ tm.modeWriteSeq \in Int
  BY DEF Telemetry
<1>2. writers \in SUBSET Nat /\ \A i \in writers : KeySeq[i] \in Key
  BY DEF Key
<1>3. writers # {} => Earliest(writers) \in writers
  BY <1>2, EarliestIsLeast
<1>4. writers # {} => tm.paramWriteProvenance[KeySeq[Earliest(writers)]] \in Int
  BY <1>1, <1>2, <1>3
<1>5. AlarmLink(tm) \in Int
  BY <1>1, <1>4 DEF AlarmLink, NullLink
<1> QED BY <1>5 DEF AlarmRows, AlarmRow, Channel, NullLink

-----------------------------------------------------------------------------
\* The parts of TypeOK, one per component, each kept by the operations of its
\* component.
LEMMA HandleTelecommandTyped ==
  ASSUME CubeSatTypeOK, NEW tc \in Telecommand, HandleTelecommand(tc)
  PROVE  CubeSatTypeOK'
<1> USE DEF CubeSatTypeOK
<1>1. tc.body \in Body /\ tc.body.seq \in Int /\ tc.body.key \in Key
        /\ tc.body.value \in Int /\ tc.body.mode \in SatMode
  BY DEF Telecommand, Body
<1>2. CASE Accept(tc.body)
  <2>1. lastAcceptedSequence' \in Int /\ accepted' \in Seq(Body)
    BY <1>1, <1>2 DEF Accept
  <2>2. mode' \in SatMode /\ modeWriteSeq' \in Int
    BY <1>1, <1>2 DEF Accept
  <2>3. paramStore' \in [Key -> Int \cup {Unset}] /\ paramProvenance' \in [Key -> Int]
    BY <1>1, <1>2 DEF Accept
  <2>4. dischargeRate' \in Int \cup {Unset}
    BY <1>1, <1>2 DEF Accept
  <2> QED BY <1>2, <2>1, <2>2, <2>3, <2>4 DEF Accept
<1>3. CASE Reject(FailedCheck(tc)) /\ FailedCheck(tc) # "none"
  <2>1. FailedCheck(tc) \in RejectReason
    BY <1>3 DEF FailedCheck, RejectReason
  <2> QED BY <1>3, <2>1 DEF Reject
<1> QED BY <1>2, <1>3 DEF HandleTelecommand

LEMMA NoteApprovedTyped ==
  ASSUME TwinTypeOK, NEW b \in Body, NoteApprovedCommand(b)
  PROVE  TwinTypeOK'
BY DEF TwinTypeOK, NoteApprovedCommand

LEMMA ObserveTyped ==
  ASSUME TwinTypeOK, NEW tm \in Telemetry, Observe(tm)
  PROVE  TwinTypeOK'
<1> USE DEF TwinTypeOK
<1>1. PICK breach \in PhysicalVerdicts : ObserveTelemetry(tm, breach)
  BY DEF Observe
<1>2. approved' \in Seq(Body)
  BY <1>1 DEF ObserveTelemetry
<1>3. tm.rejectedCmdCount \in Nat
  BY DEF Telemetry
<1>4. unexplainedRejections' \in Int /\ expectedRejectedCount' \in Nat
  BY <1>1, <1>3 DEF ObserveTelemetry
<1>5. d3Alarm' \in SUBSET AlarmRow
  BY <1>1, AlarmRowsTyped DEF ObserveTelemetry
<1>6. confirmedPrefix' \in Nat /\ modelDischargeRate' \in Int \cup {Unset}
        /\ updatesAppliedToModel' \in Nat
  <2>1. CASE Matches(tm) = {}
    BY <1>1, <2>1 DEF ObserveTelemetry
  <2>2. CASE Matches(tm) # {}
    <3> DEFINE to == Earliest(Matches(tm))
               effects == PhysicalEffects(confirmedPrefix, to)
    <3>1. to \in 0..Len(approved)
      BY <2>2, MatchesBound, EarliestIsLeast
    <3>2. Cardinality(effects) \in Nat
            /\ (effects # {} => approved[Latest(effects)] \in Body)
      BY <3>1, PhysicalEffectsFacts
    <3>3. confirmedPrefix' = to /\ ApplyConfirmedPhysicalEffects(confirmedPrefix, to)
      BY <1>1, <2>2 DEF ObserveTelemetry
    <3>4. effects # {} => approved[Latest(effects)].value \in Int
      BY <3>2 DEF Body
    <3>5. modelDischargeRate' = IF effects = {} THEN modelDischargeRate
                                ELSE approved[Latest(effects)].value
      BY <3>3 DEF ApplyConfirmedPhysicalEffects
    <3>6. updatesAppliedToModel' = updatesAppliedToModel + Cardinality(effects)
      BY <3>3 DEF ApplyConfirmedPhysicalEffects
    <3> HIDE DEF effects, to
    <3>7. confirmedPrefix' \in Nat
      BY <3>1, <3>3
    <3>8. modelDischargeRate' \in Int \cup {Unset}
      BY <3>4, <3>5
    <3>9. updatesAppliedToModel' \in Nat
      BY <3>2, <3>6
    <3> QED BY <3>7, <3>8, <3>9
  <2> QED BY <2>1, <2>2
<1> QED BY <1>2, <1>4, <1>5, <1>6

LEMMA RemoveAtTyped ==
  ASSUME NEW S, NEW s \in Seq(S), NEW i \in DOMAIN s
  PROVE  RemoveAt(s, i) \in Seq(S)
<1>1. i \in 1..Len(s) /\ Len(s) \in Nat
  OBVIOUS
<1>2. SubSeq(s, 1, i - 1) \in Seq(S)
  BY <1>1, SubSeqProperties
<1>3. SubSeq(s, i + 1, Len(s)) \in Seq(S)
  BY <1>1, SubSeqProperties
<1> QED BY <1>2, <1>3, ConcatProperties DEF RemoveAt

\* What a queue holds after an arrival, a departure or a removal was in it before
\* or is the arrival.
LEMMA QueueElements ==
  ASSUME NEW S, NEW s \in Seq(S)
  PROVE  /\ \A x \in S : \A j \in DOMAIN Append(s, x) :
              Append(s, x)[j] = x \/ \E k \in DOMAIN s : Append(s, x)[j] = s[k]
         /\ s # << >> => /\ \A j \in DOMAIN Tail(s) : \E k \in DOMAIN s : Tail(s)[j] = s[k]
                         /\ 1 \in DOMAIN s /\ Head(s) = s[1]
         /\ \A i \in DOMAIN s : \A j \in DOMAIN RemoveAt(s, i) :
              \E k \in DOMAIN s : RemoveAt(s, i)[j] = s[k]
<1>1. \A x \in S : \A j \in DOMAIN Append(s, x) :
        Append(s, x)[j] = x \/ \E k \in DOMAIN s : Append(s, x)[j] = s[k]
  OBVIOUS
<1>2. s # << >> => /\ \A j \in DOMAIN Tail(s) : \E k \in DOMAIN s : Tail(s)[j] = s[k]
                   /\ 1 \in DOMAIN s /\ Head(s) = s[1]
  OBVIOUS
<1>3. ASSUME NEW i \in DOMAIN s
      PROVE  \A j \in DOMAIN RemoveAt(s, i) : \E k \in DOMAIN s : RemoveAt(s, i)[j] = s[k]
  <2> DEFINE before == SubSeq(s, 1, i - 1)
             after == SubSeq(s, i + 1, Len(s))
             rest == before \o after
  <2>1. i \in 1..Len(s) /\ Len(s) \in Nat
    OBVIOUS
  <2>2. /\ before \in Seq(S) /\ Len(before) = i - 1
        /\ \A j \in 1..(i - 1) : before[j] = s[j]
    BY <2>1
  <2>3. /\ after \in Seq(S) /\ Len(after) = Len(s) - i
        /\ \A j \in 1..(Len(s) - i) : after[j] = s[i + j]
    BY <2>1
  <2> HIDE DEF before, after
  <2>4. /\ DOMAIN rest = 1..(Len(s) - 1)
        /\ \A j \in DOMAIN rest : rest[j] = IF j <= i - 1 THEN before[j] ELSE after[j - (i - 1)]
    BY <2>1, <2>2, <2>3, ConcatProperties
  <2>5. \A j \in DOMAIN rest : \E k \in DOMAIN s : rest[j] = s[k]
    <3> SUFFICES ASSUME NEW j \in DOMAIN rest PROVE \E k \in DOMAIN s : rest[j] = s[k]
      OBVIOUS
    <3>1. CASE j <= i - 1
      <4>1. j \in 1..(i - 1) /\ j \in DOMAIN s /\ rest[j] = before[j]
        BY <2>1, <2>4, <3>1
      <4> QED BY <2>2, <4>1
    <3>2. CASE j > i - 1
      <4>1. j - (i - 1) \in 1..(Len(s) - i)
        BY <2>1, <2>4, <3>2
      <4>2. ~(j <= i - 1)
        BY <2>1, <2>4, <3>2
      <4>3. rest[j] = after[j - (i - 1)]
        BY <2>4, <4>2
      <4>4. after[j - (i - 1)] = s[i + (j - (i - 1))]
        BY <2>3, <4>1
      <4>5. i + (j - (i - 1)) \in DOMAIN s
        BY <2>1, <4>1
      <4> QED BY <4>3, <4>4, <4>5
    <3> QED BY <2>1, <2>4, <3>1, <3>2
  <2>6. RemoveAt(s, i) = rest
    BY DEF RemoveAt, before, after
  <2> QED BY <2>5, <2>6
<1> QED BY <1>1, <1>2, <1>3

LEMMA RelayTyped ==
  ASSUME RelayTypeOK
  PROVE  /\ BeginEpisode \/ EndEpisode => RelayTypeOK'
         /\ \A tc \in Telecommand : UplinkPass(tc) => RelayTypeOK'
         /\ \A b \in Body : UplinkAlter(Frame(b)) => RelayTypeOK'
         /\ UplinkResign => RelayTypeOK'
         /\ Inject \/ ReplayCaptured => RelayTypeOK'
         /\ \A i \in DOMAIN delayedUp : ReleaseUp(i) => RelayTypeOK'
         /\ \A i \in DOMAIN delayedDown : ReleaseDown(i) => RelayTypeOK'
         /\ \A tm \in Telemetry : DownlinkPass(tm) => RelayTypeOK'
         /\ \A tm \in Telemetry : DownlinkDelay(tm) => RelayTypeOK'
         /\ DownlinkDrop \/ DownlinkCue => RelayTypeOK'
<1> USE DEF RelayTypeOK, Interfere, ForgeCommand, memory, delayed
<1>1. ASSUME BeginEpisode \/ EndEpisode PROVE RelayTypeOK'
  <2>1. interference' \in Nat
    BY <1>1 DEF BeginEpisode, EndEpisode
  <2>2. frozenRejectedCount' \in Nat \cup {-1}
    BY <1>1 DEF BeginEpisode, EndEpisode
  <2>3. UNCHANGED <<scenario, captured, lastSeen, forgedId, delayedUp, delayedDown>>
    BY <1>1 DEF BeginEpisode, EndEpisode
  <2>4. episodeActive' \in BOOLEAN
    BY <1>1 DEF BeginEpisode, EndEpisode
  <2> QED BY <2>1, <2>2, <2>3, <2>4
<1>2. ASSUME NEW tc \in Telecommand, UplinkPass(tc) PROVE RelayTypeOK'
  BY <1>2 DEF UplinkPass
<1>3. ASSUME NEW b \in Body, UplinkAlter(Frame(b)) PROVE RelayTypeOK'
  <2>1. Altered(Frame(b)) \in Telecommand
    BY FramesTyped
  <2> QED BY <1>3, <2>1 DEF UplinkAlter
<1>4. ASSUME UplinkResign PROVE RelayTypeOK'
  BY <1>4 DEF UplinkResign
<1>5. ASSUME Inject \/ ReplayCaptured PROVE RelayTypeOK'
  BY <1>5 DEF Inject, ReplayCaptured
<1>6. ASSUME NEW i \in DOMAIN delayedUp, ReleaseUp(i) PROVE RelayTypeOK'
  <2>1. delayedUp' \in Seq(Telecommand)
    BY <1>6, RemoveAtTyped DEF ReleaseUp
  <2> QED BY <1>6, <2>1 DEF ReleaseUp
<1>7. ASSUME NEW i \in DOMAIN delayedDown, ReleaseDown(i) PROVE RelayTypeOK'
  <2>1. delayedDown' \in Seq(Telemetry)
    BY <1>7, RemoveAtTyped DEF ReleaseDown
  <2> QED BY <1>7, <2>1 DEF ReleaseDown
<1>8. ASSUME NEW tm \in Telemetry, DownlinkPass(tm) PROVE RelayTypeOK'
  <2>1. tm.rejectedCmdCount \in Nat
    BY DEF Telemetry
  <2>2. lastSeen' \in Seq(Telemetry)
    <3>1. <<tm>> \in Seq(Telemetry)
      OBVIOUS
    <3> QED BY <1>8, <3>1 DEF DownlinkPass
  <2>3. frozenRejectedCount' \in Nat \cup {-1}
    BY <1>8, <2>1 DEF DownlinkPass
  <2> QED BY <1>8, <2>2, <2>3 DEF DownlinkPass
<1>9. ASSUME NEW tm \in Telemetry, DownlinkDelay(tm) PROVE RelayTypeOK'
  BY <1>9 DEF DownlinkDelay
<1>10. ASSUME DownlinkDrop \/ DownlinkCue PROVE RelayTypeOK'
  BY <1>10 DEF DownlinkDrop, DownlinkCue
<1> QED BY <1>1, <1>2, <1>3, <1>4, <1>5, <1>6, <1>7, <1>8, <1>9, <1>10

-----------------------------------------------------------------------------
LEMMA InitTyped == Init => TypeOK
<1> SUFFICES ASSUME Init PROVE TypeOK
  OBVIOUS
<1>1. now \in Nat /\ sequence \in Nat
  BY DEF Init, GroundInit
<1>2. LinkTypeOK(Telecommand, Telemetry)
  <2>1. << >> \in Seq(Telecommand) /\ << >> \in Seq(Telemetry)
    OBVIOUS
  <2> QED BY <2>1 DEF Init, LinkInit, LinkTypeOK
<1>3. CubeSatTypeOK
  BY DEF Init, CubeSatInit, CubeSatTypeOK, SatMode, MODE_NOMINAL, NO_WRITER
<1>4. TwinTypeOK
  BY DEF Init, TwinInit, TwinTypeOK
<1>5. RelayTypeOK
  <2>1. << >> \in Seq(Telecommand) /\ << >> \in Seq(Telemetry)
    OBVIOUS
  <2>2. scenario \in Scenario /\ forgedId \in Nat /\ interference \in Nat
    BY DEF Init, RelayInit
  <2> QED BY <2>1, <2>2 DEF Init, RelayInit, RelayTypeOK
<1> QED BY <1>1, <1>2, <1>3, <1>4, <1>5 DEF TypeOK

\* A component that a step leaves alone stays well-typed.
LEMMA UnchangedTyped ==
  ASSUME TypeOK
  PROVE  /\ UNCHANGED linkVars => LinkTypeOK(Telecommand, Telemetry)'
         /\ UNCHANGED satVars => CubeSatTypeOK'
         /\ UNCHANGED twinVars => TwinTypeOK'
         /\ UNCHANGED relayVars => RelayTypeOK'
<1>1. UNCHANGED linkVars => LinkTypeOK(Telecommand, Telemetry)'
  BY DEF TypeOK, LinkTypeOK, linkVars
<1>2. UNCHANGED satVars => CubeSatTypeOK'
  BY DEF TypeOK, CubeSatTypeOK, satVars
<1>3. UNCHANGED twinVars => TwinTypeOK'
  BY DEF TypeOK, TwinTypeOK, twinVars
<1>4. UNCHANGED relayVars => RelayTypeOK'
  BY DEF TypeOK, RelayTypeOK, relayVars, memory, delayed
<1> QED BY <1>1, <1>2, <1>3, <1>4

LEMMA ReleaseTyped ==
  ASSUME TypeOK, NEW b \in Body, Release(b)
  PROVE  TypeOK'
<1>1. Frame(b) \in Telecommand /\ Resigned(Frame(b)) \in Telecommand
  BY FramesTyped
<1>2. now' \in Nat /\ sequence' \in Nat
  BY DEF Release, TypeOK
<1>3. CubeSatTypeOK' /\ TwinTypeOK'
  BY UnchangedTyped, NoteApprovedTyped DEF Release, TypeOK
<1>4. RelayTypeOK'
  BY <1>1, RelayTyped DEF Release, TypeOK
<1>5. LinkTypeOK(Telecommand, Telemetry)'
  <2>1. \A tc \in Telecommand : ToLink(tc) => LinkTypeOK(Telecommand, Telemetry)'
    BY DEF TypeOK, LinkTypeOK, ToLink
  <2> QED BY <1>1, <2>1, UnchangedTyped DEF Release
<1> QED BY <1>2, <1>3, <1>4, <1>5 DEF TypeOK

LEMMA NextTyped == TypeOK /\ [Next]_vars => TypeOK'
<1> SUFFICES ASSUME TypeOK, [Next]_vars PROVE TypeOK'
  OBVIOUS
<1> DEFINE LinkOK == LinkTypeOK(Telecommand, Telemetry)
<1>1. now \in Nat /\ sequence \in Nat /\ LinkOK /\ CubeSatTypeOK /\ TwinTypeOK /\ RelayTypeOK
  BY DEF TypeOK
<1>2. CASE Tick
  BY <1>1, <1>2, UnchangedTyped DEF Tick, TypeOK
<1>3. CASE Access
  <2>1. LinkOK'
    BY <1>1, <1>3 DEF Access, ToggleAccess, LinkTypeOK
  <2> QED BY <1>1, <1>3, <2>1, UnchangedTyped DEF Access, TypeOK
<1>4. CASE GenerateTelecommand
  BY <1>1, <1>4, BodiesTyped, ReleaseTyped DEF GenerateTelecommand, RelayTypeOK
<1>5. CASE ProposeConfigurationUpdate
  BY <1>1, <1>5, BodiesTyped, ReleaseTyped DEF ProposeConfigurationUpdate, RelayTypeOK
<1>6. CASE Uplink
  <2>1. LinkOK'
    BY <1>1, <1>6 DEF Uplink, ForwardUp, LinkTypeOK
  <2> QED BY <1>1, <1>6, <2>1, UnchangedTyped DEF Uplink, TypeOK
<1>7. CASE Downlink
  <2>1. LinkOK'
    BY <1>1, <1>7 DEF Downlink, ForwardDown, LinkTypeOK
  <2> QED BY <1>1, <1>7, <2>1, UnchangedTyped DEF Downlink, TypeOK
<1>8. CASE ReceiveTelecommand
  <2>1. LinkOK'
    BY <1>1, <1>8 DEF ReceiveTelecommand, LinkTypeOK
  <2>2. Head(satOut) \in Telecommand
    BY <1>1, <1>8 DEF ReceiveTelecommand, LinkTypeOK
  <2>3. CubeSatTypeOK'
    BY <1>1, <1>8, <2>2, HandleTelecommandTyped DEF ReceiveTelecommand
  <2> QED BY <1>1, <1>8, <2>1, <2>3, UnchangedTyped DEF ReceiveTelecommand, TypeOK
<1>9. CASE GenerateTelemetry
  <2>1. Snapshot(now) \in Telemetry
    BY <1>1, PacketsTyped
  <2>2. LinkOK'
    BY <1>1, <1>9, <2>1 DEF GenerateTelemetry, LinkTypeOK
  <2> QED BY <1>1, <1>9, <2>2, UnchangedTyped DEF GenerateTelemetry, TypeOK
<1>10. CASE ReceiveTelemetry
  <2> DEFINE tm == Head(groundOut)
  <2>1. tm \in Telemetry /\ Shown(tm) \in Telemetry
    BY <1>1, <1>10, PacketsTyped DEF ReceiveTelemetry, LinkTypeOK
  <2>2. Unsigned(ForgedBody(now)) \in Telecommand
    BY <1>1, BodiesTyped, FramesTyped DEF RelayTypeOK
  <2>3. groundOut' \in Seq(Telemetry) /\ upIn' \in Seq(Telecommand)
    <3>1. groundOut' \in Seq(Telemetry)
      BY <1>1, <1>10 DEF ReceiveTelemetry, LinkTypeOK
    <3>2. upIn' = upIn \/ upIn' = Append(upIn, Unsigned(ForgedBody(now)))
      BY <1>10 DEF ReceiveTelemetry
    <3>3. upIn \in Seq(Telecommand)
      BY <1>1 DEF LinkTypeOK
    <3>4. upIn' \in Seq(Telecommand)
      BY <2>2, <3>2, <3>3
    <3> QED BY <3>1, <3>4
  <2>4. LinkOK'
    BY <1>1, <1>10, <2>3 DEF ReceiveTelemetry, LinkTypeOK
  <2>5. RelayTypeOK'
    BY <1>1, <1>10, <2>1, RelayTyped DEF ReceiveTelemetry
  <2>6. TwinTypeOK'
    BY <1>1, <1>10, <2>1, ObserveTyped, UnchangedTyped DEF ReceiveTelemetry
  <2> QED BY <1>1, <1>10, <2>4, <2>5, <2>6, UnchangedTyped DEF ReceiveTelemetry, TypeOK
<1>11. CASE ReceiveDelayedTelemetry
  <2>1. PICK i \in DOMAIN delayedDown :
          /\ Observe(delayedDown[i])
          /\ ReleaseDown(i)
          /\ UNCHANGED <<now, sequence, linkVars, satVars>>
    BY <1>11 DEF ReceiveDelayedTelemetry
  <2>2. delayedDown[i] \in Telemetry
    BY <1>1 DEF RelayTypeOK
  <2> QED BY <1>1, <2>1, <2>2, ObserveTyped, RelayTyped, UnchangedTyped DEF TypeOK
<1>12. CASE RelayEpisode
  <2>1. TwinTypeOK'
    BY <1>1, <1>12, ObserveTyped, PacketsTyped, UnchangedTyped DEF RelayEpisode
  <2>2. RelayTypeOK'
    BY <1>1, <1>12, RelayTyped DEF RelayEpisode
  <2> QED BY <1>1, <1>12, <2>1, <2>2, UnchangedTyped DEF RelayEpisode, TypeOK
<1>13. CASE RelaySends
  <2>1. RelayTypeOK'
    BY <1>1, <1>13, RelayTyped DEF RelaySends
  <2>2. \A tc \in Telecommand : ToLink(tc) => LinkOK'
    BY <1>1 DEF LinkTypeOK, ToLink
  <2>3. Unsigned(ForgedBody(now)) \in Telecommand
    BY <1>1, BodiesTyped, FramesTyped DEF RelayTypeOK
  <2>4. /\ captured # << >> => captured[1] \in Telecommand
        /\ \A i \in DOMAIN delayedUp : delayedUp[i] \in Telecommand
    BY <1>1 DEF RelayTypeOK
  <2>5. LinkOK'
    BY <1>13, <2>2, <2>3, <2>4 DEF RelaySends, ReplayCaptured
  <2> QED BY <1>1, <1>13, <2>1, <2>5, UnchangedTyped DEF RelaySends, TypeOK
<1>14. CASE UNCHANGED vars
  BY <1>1, <1>14, UnchangedTyped DEF vars, TypeOK
<1> QED BY <1>2, <1>3, <1>4, <1>5, <1>6, <1>7, <1>8, <1>9, <1>10, <1>11, <1>12,
           <1>13, <1>14 DEF Next

\* Every state of the loop is well-typed: commands, packets, counters and the
\* twin's model keep their sets whatever the relay and the link do.
THEOREM TypeInvariance == Spec => []TypeOK
BY InitTyped, NextTyped, PTL DEF Spec

-----------------------------------------------------------------------------
(* The order of what is executed                                           *)

\* A frame whose tag verifies carries a command of the released list.
Genuine(tc, released) ==
  tc.tag = tc.body => /\ tc.body.seq \in DOMAIN released
                      /\ released[tc.body.seq] = tc.body

AllGenuine(frames, released) == \A i \in DOMAIN frames : Genuine(frames[i], released)

Numbered ==
  /\ sequence = Len(approved)
  /\ \A i \in DOMAIN approved : approved[i].seq = i

FramesGenuine ==
  /\ AllGenuine(upIn, approved) /\ AllGenuine(satOut, approved)
  /\ AllGenuine(captured, approved) /\ AllGenuine(delayedUp, approved)

AcceptedBounded == \A i \in DOMAIN accepted : accepted[i].seq <= lastAcceptedSequence

OrderInv ==
  /\ TypeOK
  /\ scenario # "A2v"
  /\ Numbered
  /\ FramesGenuine
  /\ AcceptedInOrderOnce
  /\ AcceptedBounded

-----------------------------------------------------------------------------
\* What the relay makes itself does not verify.
LEMMA UnsignedIsGenuine == \A b \in Body : Genuine(Unsigned(b), approved)
BY PacketsAssumption DEF Genuine, Unsigned

\* The command released now, as sent and as altered, against the longer list.
LEMMA ReleasedIsGenuine ==
  ASSUME OrderInv, NEW b \in Body, b.seq = sequence + 1, NoteApprovedCommand(b)
  PROVE  Genuine(Frame(b), approved') /\ Genuine(Altered(Frame(b)), approved')
<1>1. sequence = Len(approved) /\ approved \in Seq(Body)
  BY DEF OrderInv, Numbered, TypeOK, TwinTypeOK
<1>2. b.seq \in DOMAIN approved' /\ approved'[b.seq] = b
  BY <1>1 DEF NoteApprovedCommand
<1>3. Frame(b).body = b /\ Frame(b).tag \in {b, NoTag} /\ Frame(b) \in Telecommand
  BY FramesTyped DEF Frame, Signed, Unsigned
<1>4. Genuine(Frame(b), approved')
  BY <1>2, <1>3, PacketsAssumption DEF Genuine
<1>5. Altered(Frame(b)).tag = Frame(b).tag /\ Altered(Frame(b)).body \in Body
  BY <1>3, FramesTyped DEF Altered, Telecommand
<1>6. Genuine(Altered(Frame(b)), approved')
  BY <1>2, <1>3, <1>5, PacketsAssumption DEF Genuine
<1> QED BY <1>4, <1>6

\* A longer list keeps what was genuine.
LEMMA GenuineKept ==
  ASSUME approved \in Seq(Body), NEW b \in Body, NoteApprovedCommand(b),
         NEW frames, AllGenuine(frames, approved)
  PROVE  AllGenuine(frames, approved')
BY DEF NoteApprovedCommand, Genuine, AllGenuine

\* One more genuine frame at the end, or one frame fewer, keeps a queue genuine.
LEMMA GenuineQueue ==
  ASSUME NEW released, NEW frames \in Seq(Telecommand), AllGenuine(frames, released)
  PROVE  /\ \A tc \in Telecommand : Genuine(tc, released)
              => AllGenuine(Append(frames, tc), released)
         /\ frames # << >> => AllGenuine(Tail(frames), released)
         /\ \A i \in DOMAIN frames : AllGenuine(RemoveAt(frames, i), released)
<1>1. ASSUME NEW tc \in Telecommand, Genuine(tc, released)
      PROVE  AllGenuine(Append(frames, tc), released)
  BY <1>1 DEF AllGenuine
<1>2. frames # << >> => AllGenuine(Tail(frames), released)
  BY DEF AllGenuine
<1>3. \A i \in DOMAIN frames : AllGenuine(RemoveAt(frames, i), released)
  BY QueueElements DEF AllGenuine
<1> QED BY <1>1, <1>2, <1>3

LEMMA OrderInit == Init /\ scenario # "A2v" => OrderInv
<1> SUFFICES ASSUME Init, scenario # "A2v" PROVE OrderInv
  OBVIOUS
<1>1. TypeOK
  BY InitTyped
<1>2. Numbered /\ AcceptedInOrderOnce /\ AcceptedBounded
  BY DEF Init, GroundInit, TwinInit, CubeSatInit, Numbered, AcceptedInOrderOnce,
         AcceptedBounded
<1>3. FramesGenuine
  BY DEF Init, LinkInit, RelayInit, FramesGenuine, AllGenuine
<1> QED BY <1>1, <1>2, <1>3 DEF OrderInv

LEMMA ReleaseOrder ==
  ASSUME OrderInv, NEW b \in Body, b.seq = sequence + 1, Release(b)
  PROVE  OrderInv'
<1>1. TypeOK'
  BY ReleaseTyped DEF OrderInv
<1>2. sequence = Len(approved) /\ approved \in Seq(Body) /\ NoteApprovedCommand(b)
        /\ sequence' = sequence + 1 /\ UNCHANGED satVars
  BY DEF OrderInv, Numbered, TypeOK, TwinTypeOK, Release
<1>3. scenario' # "A2v"
  BY DEF OrderInv, Release, UplinkPass, UplinkAlter, UplinkResign
<1>4. Numbered'
  BY <1>2 DEF OrderInv, Numbered, NoteApprovedCommand
<1>5. AcceptedInOrderOnce' /\ AcceptedBounded'
  BY <1>2 DEF OrderInv, AcceptedInOrderOnce, AcceptedBounded, NoteApprovedCommand, satVars
<1>6. /\ AllGenuine(upIn, approved') /\ AllGenuine(satOut, approved')
      /\ AllGenuine(captured, approved') /\ AllGenuine(delayedUp, approved')
  BY <1>2, GenuineKept DEF OrderInv, FramesGenuine
<1>7. Genuine(Frame(b), approved') /\ Genuine(Altered(Frame(b)), approved')
  BY <1>2, ReleasedIsGenuine
<1>8. Frame(b) \in Telecommand /\ Altered(Frame(b)) \in Telecommand
  BY FramesTyped
<1>9. upIn \in Seq(Telecommand) /\ delayedUp \in Seq(Telecommand)
  BY DEF OrderInv, TypeOK, RelayTypeOK, LinkTypeOK
<1>10. FramesGenuine'
  <2>1. CASE UplinkPass(Frame(b)) /\ ToLink(Frame(b))
    <3>1. upIn' = Append(upIn, Frame(b)) /\ UNCHANGED <<satOut, delayedUp>>
            /\ (captured' = captured \/ captured' = <<Frame(b)>>)
      BY <2>1 DEF UplinkPass, ToLink, delayed
    <3>2. AllGenuine(upIn', approved')
      BY <1>6, <1>7, <1>8, <1>9, <3>1, GenuineQueue
    <3>3. AllGenuine(captured', approved')
      BY <1>6, <1>7, <3>1 DEF AllGenuine
    <3> QED BY <1>6, <3>1, <3>2, <3>3 DEF FramesGenuine
  <2>2. CASE UplinkAlter(Frame(b)) /\ UNCHANGED linkVars
    <3>1. delayedUp' = Append(delayedUp, Altered(Frame(b))) /\ UNCHANGED <<upIn, satOut, captured>>
      BY <2>2 DEF UplinkAlter, linkVars, memory
    <3>2. AllGenuine(delayedUp', approved')
      BY <1>6, <1>7, <1>8, <1>9, <3>1, GenuineQueue
    <3> QED BY <1>6, <3>1, <3>2 DEF FramesGenuine
  <2>3. ~UplinkResign
    BY DEF OrderInv, UplinkResign, Active
  <2> QED BY <2>1, <2>2, <2>3 DEF Release
<1> QED BY <1>1, <1>3, <1>4, <1>5, <1>10 DEF OrderInv

LEMMA ReceiveOrder ==
  ASSUME CommandAuthEnabled, OrderInv, ReceiveTelecommand
  PROVE  OrderInv'
<1> DEFINE tc == Head(satOut)
<1>1. TypeOK'
  BY NextTyped DEF OrderInv, Next
<1>2. satOut \in Seq(Telecommand) /\ satOut # << >> /\ satOut' = Tail(satOut)
        /\ tc \in Telecommand /\ HandleTelecommand(tc)
        /\ UNCHANGED <<sequence, upIn, twinVars, relayVars>>
  BY DEF OrderInv, TypeOK, LinkTypeOK, ReceiveTelecommand
<1>3. UNCHANGED <<scenario, approved, captured, delayedUp>>
  BY <1>2 DEF twinVars, relayVars, memory, delayed
<1>4. scenario' # "A2v" /\ Numbered'
  BY <1>2, <1>3 DEF OrderInv, Numbered
<1>5. FramesGenuine'
  <2>1. AllGenuine(satOut', approved)
    BY <1>2, GenuineQueue DEF OrderInv, FramesGenuine
  <2> QED BY <1>2, <1>3, <2>1 DEF OrderInv, FramesGenuine
<1>6. accepted \in Seq(Body) /\ lastAcceptedSequence \in Int
  BY DEF OrderInv, TypeOK, CubeSatTypeOK
<1>7. CASE FailedCheck(tc) = "none" /\ Accept(tc.body)
  <2>1. tc.tag = tc.body /\ tc.body.seq > lastAcceptedSequence /\ tc.body \in Body
          /\ tc.body.seq \in Int
    BY <1>2, <1>6, <1>7 DEF FailedCheck, Telecommand, Body
  <2>2. tc = satOut[1] /\ 1 \in DOMAIN satOut
    BY <1>2
  <2>3. tc.body.seq \in DOMAIN approved /\ approved[tc.body.seq] = tc.body
    BY <2>1, <2>2 DEF OrderInv, FramesGenuine, AllGenuine, Genuine
  <2>4. accepted' = Append(accepted, tc.body) /\ lastAcceptedSequence' = tc.body.seq
    BY <1>7 DEF Accept
  <2>5. \A i \in DOMAIN accepted' :
          IF i \in DOMAIN accepted THEN accepted'[i] = accepted[i]
          ELSE i = Len(accepted) + 1 /\ accepted'[i] = tc.body
    BY <1>6, <2>1, <2>4
  <2>6. \A i \in DOMAIN accepted : accepted[i].seq \in Int /\ i \in 1..Len(accepted)
    <3>1. \A i \in DOMAIN accepted : accepted[i] \in Body /\ i \in 1..Len(accepted)
      BY <1>6
    <3> QED BY <3>1 DEF Body
  <2>7. AcceptedBounded'
    BY <1>6, <2>1, <2>4, <2>5, <2>6 DEF OrderInv, AcceptedBounded
  <2>8. \A i \in DOMAIN accepted' :
          accepted'[i].seq \in DOMAIN approved' /\ approved'[accepted'[i].seq] = accepted'[i]
    BY <1>3, <2>3, <2>5 DEF OrderInv, AcceptedInOrderOnce
  <2>9. \A i, j \in DOMAIN accepted' : i < j => accepted'[i].seq < accepted'[j].seq
    <3> SUFFICES ASSUME NEW i \in DOMAIN accepted', NEW j \in DOMAIN accepted', i < j
                 PROVE  accepted'[i].seq < accepted'[j].seq
      OBVIOUS
    <3>1. DOMAIN accepted' = 1..(Len(accepted) + 1) /\ DOMAIN accepted = 1..Len(accepted)
            /\ Len(accepted) \in Nat
      BY <1>6, <2>1, <2>4
    <3>2. i \in DOMAIN accepted
      BY <3>1
    <3>3. CASE j \in DOMAIN accepted
      BY <2>5, <3>2, <3>3 DEF OrderInv, AcceptedInOrderOnce
    <3>4. CASE j \notin DOMAIN accepted
      <4>1. accepted'[j] = tc.body /\ accepted'[i] = accepted[i]
        BY <2>5, <3>2, <3>4
      <4>2. accepted[i].seq <= lastAcceptedSequence
        BY <3>2 DEF OrderInv, AcceptedBounded
      <4> QED BY <1>6, <2>1, <2>6, <3>2, <4>1, <4>2
    <3> QED BY <3>3, <3>4
  <2> QED BY <1>1, <1>4, <1>5, <2>7, <2>8, <2>9 DEF OrderInv, AcceptedInOrderOnce
<1>8. CASE Reject(FailedCheck(tc))
  <2>1. UNCHANGED <<accepted, lastAcceptedSequence>>
    BY <1>8 DEF Reject
  <2> QED BY <1>1, <1>3, <1>4, <1>5, <2>1
          DEF OrderInv, AcceptedInOrderOnce, AcceptedBounded
<1> QED BY <1>2, <1>7, <1>8 DEF HandleTelecommand

-----------------------------------------------------------------------------
\* Every step of the loop keeps the invariant.
LEMMA OrderStep ==
  ASSUME CommandAuthEnabled, OrderInv, [Next]_vars
  PROVE  OrderInv'
<1>1. TypeOK'
  BY NextTyped DEF OrderInv
<1> DEFINE Kept == UNCHANGED <<scenario, sequence, approved, accepted, lastAcceptedSequence>>
<1>2. Kept /\ FramesGenuine' => OrderInv'
  BY <1>1 DEF OrderInv, Numbered, AcceptedInOrderOnce, AcceptedBounded
<1>3. /\ upIn \in Seq(Telecommand) /\ satOut \in Seq(Telecommand)
      /\ delayedUp \in Seq(Telecommand) /\ now \in Nat /\ sequence \in Nat
      /\ forgedId \in Nat /\ captured \in Seq(Telecommand)
  BY DEF OrderInv, TypeOK, LinkTypeOK, RelayTypeOK
<1>4. /\ AllGenuine(upIn, approved) /\ AllGenuine(satOut, approved)
      /\ AllGenuine(captured, approved) /\ AllGenuine(delayedUp, approved)
  BY DEF OrderInv, FramesGenuine
<1>5. Unsigned(ForgedBody(now)) \in Telecommand /\ Genuine(Unsigned(ForgedBody(now)), approved)
  BY <1>3, BodiesTyped, FramesTyped, UnsignedIsGenuine
<1> DEFINE SameFrames == UNCHANGED <<upIn, satOut, captured, delayedUp>>
<1>6. Kept /\ SameFrames => OrderInv'
  BY <1>2, <1>4 DEF FramesGenuine
<1>7. CASE Tick \/ Access \/ Downlink \/ GenerateTelemetry \/ UNCHANGED vars
  <2>1. Kept /\ SameFrames
    BY <1>7 DEF Tick, Access, ToggleAccess, Downlink, ForwardDown, GenerateTelemetry,
                vars, linkVars, satVars, twinVars, relayVars, memory, delayed
  <2> QED BY <1>6, <2>1
<1>8. CASE GenerateTelecommand \/ ProposeConfigurationUpdate
  <2>1. /\ GainCommand(now) \in Body /\ GainCommand(now).seq = sequence + 1
        /\ UpdateCommand(now) \in Body /\ UpdateCommand(now).seq = sequence + 1
    BY <1>3, BodiesTyped DEF GainCommand, UpdateCommand
  <2> QED BY <1>8, <2>1, ReleaseOrder DEF GenerateTelecommand, ProposeConfigurationUpdate
<1>9. CASE Uplink
  <2>1. Kept /\ UNCHANGED <<captured, delayedUp>> /\ upIn # << >> /\ upIn' = Tail(upIn)
          /\ satOut' \in {satOut, Append(satOut, Head(upIn))}
    BY <1>9 DEF Uplink, ForwardUp, satVars, twinVars, relayVars, memory, delayed
  <2>2. Head(upIn) \in Telecommand /\ Genuine(Head(upIn), approved)
    BY <1>3, <1>4, <2>1 DEF AllGenuine
  <2>3. AllGenuine(upIn', approved) /\ AllGenuine(satOut', approved)
    BY <1>3, <1>4, <2>1, <2>2, GenuineQueue
  <2> QED BY <1>2, <1>4, <2>1, <2>3 DEF FramesGenuine
<1>10. CASE ReceiveTelecommand
  BY <1>10, ReceiveOrder
<1>11. CASE ReceiveTelemetry
  <2>1. Kept /\ UNCHANGED <<satOut, captured, delayedUp>>
          /\ upIn' \in {upIn, Append(upIn, Unsigned(ForgedBody(now)))}
    BY <1>11 DEF ReceiveTelemetry, DownlinkPass, DownlinkCue, DownlinkDrop, DownlinkDelay,
                 ForgeCommand, Observe, ObserveTelemetry, satVars, twinVars, memory, delayed
  <2>2. AllGenuine(upIn', approved)
    BY <1>3, <1>4, <1>5, <2>1, GenuineQueue
  <2> QED BY <1>2, <1>4, <2>1, <2>2 DEF FramesGenuine
<1>12. CASE ReceiveDelayedTelemetry
  <2>1. Kept /\ SameFrames
    BY <1>12 DEF ReceiveDelayedTelemetry, ReleaseDown, Observe, ObserveTelemetry, linkVars,
                 satVars, memory
  <2> QED BY <1>6, <2>1
<1>13. CASE RelayEpisode
  <2>1. Kept /\ SameFrames
    BY <1>13 DEF RelayEpisode, BeginEpisode, EndEpisode, Observe, ObserveTelemetry, linkVars,
                 satVars, twinVars, memory, delayed
  <2> QED BY <1>6, <2>1
<1>14. CASE RelaySends
  <2>1. UNCHANGED <<sequence, approved, accepted, lastAcceptedSequence>>
    BY <1>14 DEF RelaySends, satVars, twinVars
  <2>2. CASE Inject /\ ToLink(Unsigned(ForgedBody(now)))
    <3>1. Kept /\ UNCHANGED <<satOut, captured, delayedUp>>
            /\ upIn' = Append(upIn, Unsigned(ForgedBody(now)))
      BY <2>1, <2>2 DEF Inject, ForgeCommand, ToLink, memory, delayed
    <3>2. AllGenuine(upIn', approved)
      BY <1>3, <1>4, <1>5, <3>1, GenuineQueue
    <3> QED BY <1>2, <1>4, <3>1, <3>2 DEF FramesGenuine
  <2>3. CASE ReplayCaptured /\ ToLink(captured[1])
    <3>1. Kept /\ UNCHANGED <<satOut, captured, delayedUp>> /\ upIn' = Append(upIn, captured[1])
            /\ captured # << >>
      BY <2>1, <2>3 DEF ReplayCaptured, ToLink, memory, delayed
    <3>2. captured[1] \in Telecommand /\ Genuine(captured[1], approved)
      BY <1>3, <1>4, <3>1 DEF AllGenuine
    <3>3. AllGenuine(upIn', approved)
      BY <1>3, <1>4, <3>1, <3>2, GenuineQueue
    <3> QED BY <1>2, <1>4, <3>1, <3>3 DEF FramesGenuine
  <2>4. CASE \E i \in DOMAIN delayedUp : ReleaseUp(i) /\ ToLink(delayedUp[i])
    <3>1. PICK i \in DOMAIN delayedUp : ReleaseUp(i) /\ ToLink(delayedUp[i])
      BY <2>4
    <3>2. Kept /\ UNCHANGED <<satOut, captured>> /\ upIn' = Append(upIn, delayedUp[i])
            /\ delayedUp' = RemoveAt(delayedUp, i)
      BY <2>1, <3>1 DEF ReleaseUp, ToLink, memory
    <3>3. delayedUp[i] \in Telecommand /\ Genuine(delayedUp[i], approved)
      BY <1>3, <1>4 DEF AllGenuine
    <3>4. AllGenuine(upIn', approved) /\ AllGenuine(delayedUp', approved)
      BY <1>3, <1>4, <3>2, <3>3, GenuineQueue
    <3> QED BY <1>2, <1>4, <3>2, <3>4 DEF FramesGenuine
  <2> QED BY <1>14, <2>2, <2>3, <2>4 DEF RelaySends
<1> QED BY <1>7, <1>8, <1>9, <1>10, <1>11, <1>12, <1>13, <1>14 DEF Next

\* With D1 on and no scenario that holds the key, the commands the satellite has
\* accepted are the ground's own, unaltered, each once and in the order of
\* sending, for every number of commands, keys, frames in flight and
\* interferences (CubeSat::handleTelecommand).
THEOREM AuthenticatedOrder ==
  ASSUME CommandAuthEnabled, "A2v" \notin Scenarios
  PROVE  Spec => []AcceptedInOrderOnce
<1>1. Init => OrderInv
  BY OrderInit DEF Init, RelayInit
<1>2. OrderInv /\ [Next]_vars => OrderInv'
  BY OrderStep
<1>3. OrderInv => AcceptedInOrderOnce
  BY DEF OrderInv
<1> QED BY <1>1, <1>2, <1>3, PTL DEF Spec

-----------------------------------------------------------------------------
(***************************************************************************)
(* The refinement.                                                         *)
(***************************************************************************)
Executed == [i \in DOMAIN accepted |-> [place |-> accepted[i].seq, command |-> accepted[i]]]

\* A step that releases a command is an Issue, a step that accepts one is an
\* Execute past the last place, every other step stutters.
LEMMA StepImplements ==
  ASSUME CommandAuthEnabled, OrderInv, OrderInv', [Next]_vars
  PROVE  [Abstract!Next]_(Abstract!vars)
<1>1. approved \in Seq(Body) /\ accepted \in Seq(Body) /\ satOut \in Seq(Telecommand)
        /\ lastAcceptedSequence \in Int
  BY DEF OrderInv, TypeOK, TwinTypeOK, CubeSatTypeOK, LinkTypeOK
<1>2. CASE UNCHANGED <<approved, accepted>>
  BY <1>2 DEF Abstract!vars
<1>3. ASSUME NEW b \in Body, Release(b)
      PROVE  Abstract!Issue
  <2>1. approved' = Append(approved, b) /\ accepted' = accepted
    BY <1>3 DEF Release, NoteApprovedCommand, satVars
  <2>2. Len(approved') = Len(approved) + 1 /\ SubSeq(approved', 1, Len(approved)) = approved
    BY <1>1, <2>1
  <2> QED BY <2>1, <2>2 DEF Abstract!Issue
<1>4. ASSUME ReceiveTelecommand, ~UNCHANGED accepted
      PROVE  Abstract!Execute
  <2> DEFINE tc == Head(satOut)
             i == tc.body.seq
  <2>1. tc \in Telecommand /\ Genuine(tc, approved) /\ UNCHANGED approved
    BY <1>1, <1>4 DEF ReceiveTelecommand, OrderInv, FramesGenuine, AllGenuine, twinVars
  <2>2. FailedCheck(tc) = "none" /\ Accept(tc.body)
    BY <1>4 DEF ReceiveTelecommand, HandleTelecommand, Reject
  <2>3. tc.tag = tc.body /\ i > lastAcceptedSequence /\ tc.body \in Body /\ i \in Int
    BY <1>1, <2>1, <2>2 DEF FailedCheck, Telecommand, Body
  <2>4. i \in DOMAIN approved /\ approved[i] = tc.body
    BY <2>1, <2>3 DEF Genuine
  <2>5. accepted' = Append(accepted, tc.body)
    BY <2>2 DEF Accept
  <2>6. Executed' = Append(Executed, [place |-> i, command |-> approved[i]])
    <3>1. DOMAIN accepted' = 1..(Len(accepted) + 1) /\ DOMAIN accepted = 1..Len(accepted)
            /\ Len(accepted) \in Nat
      BY <1>1, <2>3, <2>5
    <3>2. \A j \in DOMAIN accepted' :
            accepted'[j] = IF j \in DOMAIN accepted THEN accepted[j] ELSE tc.body
      BY <1>1, <2>3, <2>5
    <3>3. Executed \in Seq([place : Int, command : Body]) /\ Len(Executed) = Len(accepted)
      <4>1. \A j \in DOMAIN accepted : accepted[j] \in Body
        BY <1>1, <3>1
      <4>2. \A j \in DOMAIN accepted : accepted[j].seq \in Int
        BY <4>1 DEF Body
      <4>3. Executed \in [1..Len(accepted) -> [place : Int, command : Body]]
        BY <3>1, <4>1, <4>2 DEF Executed
      <4>4. \A S : \A n \in Nat : \A f \in [1..n -> S] : f \in Seq(S) /\ Len(f) = n
        <5> SUFFICES ASSUME NEW S, NEW n \in Nat, NEW f \in [1..n -> S]
                     PROVE  f \in Seq(S) /\ Len(f) = n
          OBVIOUS
        <5>1. f \in Seq(S)
          OBVIOUS
        <5> QED BY <5>1, LenProperties
      <4> HIDE DEF Executed
      <4> QED BY <3>1, <4>3, <4>4
    <3> DEFINE e == [place |-> i, command |-> approved[i]]
               longer == Append(Executed, e)
    <3>4. e \in [place : Int, command : Body]
      BY <2>3, <2>4
    <3>5. /\ longer \in Seq([place : Int, command : Body])
          /\ Len(longer) = Len(accepted) + 1
          /\ \A j \in 1..Len(accepted) : longer[j] = Executed[j]
          /\ longer[Len(accepted) + 1] = e
      <4> HIDE DEF e, Executed
      <4> QED BY <3>3, <3>4, AppendProperties
    <3>6. longer = [j \in 1..(Len(accepted) + 1) |-> longer[j]]
      <4> HIDE DEF longer
      <4> QED BY <3>1, <3>5
    <3>7. \A j \in 1..(Len(accepted) + 1) :
            longer[j] = [place |-> accepted'[j].seq, command |-> accepted'[j]]
      <4> SUFFICES ASSUME NEW j \in 1..(Len(accepted) + 1)
                   PROVE  longer[j] = [place |-> accepted'[j].seq, command |-> accepted'[j]]
        OBVIOUS
      <4>1. CASE j \in DOMAIN accepted
        <5>1. longer[j] = Executed[j] /\ accepted'[j] = accepted[j]
          BY <3>1, <3>2, <3>5, <4>1
        <5> HIDE DEF longer
        <5> QED BY <4>1, <5>1 DEF Executed
      <4>2. CASE j \notin DOMAIN accepted
        <5>1. j = Len(accepted) + 1 /\ accepted'[j] = tc.body
          BY <3>1, <3>2, <4>2
        <5>2. longer[j] = e
          BY <3>5, <5>1
        <5> HIDE DEF longer
        <5> QED BY <2>4, <5>1, <5>2
      <4> QED BY <4>1, <4>2
    <3> HIDE DEF longer
    <3>8. Executed' = longer
      BY <3>1, <3>6, <3>7 DEF Executed
    <3> QED BY <3>8 DEF longer
  <2>7. i \in (Abstract!LastPlace + 1)..Len(approved)
    <3>1. CASE accepted = << >>
      BY <1>1, <2>3, <2>4, <3>1 DEF Abstract!LastPlace
    <3>2. CASE accepted # << >>
      <4>1. Len(accepted) \in DOMAIN accepted /\ Len(Executed) = Len(accepted)
              /\ Executed # << >>
        BY <1>1, <3>2 DEF Executed
      <4>2. Executed[Len(Executed)].place = accepted[Len(accepted)].seq
        BY <4>1 DEF Executed
      <4>3. accepted[Len(accepted)] \in Body
        BY <1>1, <4>1
      <4>4. accepted[Len(accepted)].seq \in Int /\ accepted[Len(accepted)].seq <= lastAcceptedSequence
        BY <4>1, <4>3 DEF OrderInv, AcceptedBounded, Body
      <4> QED BY <1>1, <2>3, <2>4, <4>1, <4>2, <4>4 DEF Abstract!LastPlace, Executed
    <3> QED BY <3>1, <3>2
  <2> QED BY <2>1, <2>6, <2>7 DEF Abstract!Execute, Executed
<1>5. CASE GenerateTelecommand \/ ProposeConfigurationUpdate
  <2>1. GainCommand(now) \in Body /\ UpdateCommand(now) \in Body
    BY BodiesTyped DEF OrderInv, TypeOK, RelayTypeOK
  <2> QED BY <1>3, <1>5, <2>1
          DEF GenerateTelecommand, ProposeConfigurationUpdate, Abstract!Next
<1>6. CASE ReceiveTelecommand
  <2>1. UNCHANGED approved
    BY <1>6 DEF ReceiveTelecommand, twinVars
  <2> QED BY <1>2, <1>4, <1>6, <2>1 DEF Abstract!Next
<1>7. CASE Tick \/ Access \/ Uplink \/ Downlink \/ GenerateTelemetry \/ RelaySends
           \/ UNCHANGED vars
  BY <1>2, <1>7 DEF Tick, Access, Uplink, Downlink, GenerateTelemetry, RelaySends, vars,
                    satVars, twinVars
<1>8. CASE ReceiveTelemetry \/ ReceiveDelayedTelemetry \/ RelayEpisode
  BY <1>2, <1>8 DEF ReceiveTelemetry, ReceiveDelayedTelemetry, RelayEpisode, Observe,
                    ObserveTelemetry, satVars, twinVars
<1> QED BY <1>5, <1>6, <1>7, <1>8 DEF Next

\* Under the same assumptions the loop implements in-order execution: the
\* satellite only ever executes the next of the issued commands or skips some.
THEOREM Refinement ==
  ASSUME CommandAuthEnabled, "A2v" \notin Scenarios
  PROVE  Spec => ImplementsInOrderExecution
<1>1. Init => Abstract!Init
  BY DEF Init, TwinInit, CubeSatInit, Abstract!Init
<1>2. Init => OrderInv
  BY OrderInit DEF Init, RelayInit
<1>3. OrderInv /\ [Next]_vars => OrderInv'
  BY OrderStep
<1>4. OrderInv /\ OrderInv' /\ [Next]_vars => [Abstract!Next]_(Abstract!vars)
  BY StepImplements
<1> QED BY <1>1, <1>2, <1>3, <1>4, PTL DEF Spec, ImplementsInOrderExecution, Abstract!Spec

\* What follows names the assumptions it needs.
HIDE LoopAssumption
HIDE GroundAssumption
HIDE RelayAssumption
HIDE LinkAssumption
HIDE PacketsAssumption

-----------------------------------------------------------------------------
(***************************************************************************)
(* The twin in the loop, for every value of the constants.                 *)
(*                                                                         *)
(* Of any packet: the confirmed prefix never moves back nor past what was  *)
(* sent, and the physical effect of each update in it is in the twin's     *)
(* model exactly once.  An observation moves the prefix within the         *)
(* commands sent, and takes over the effects of exactly the commands it    *)
(* moves past.                                                             *)
(*                                                                         *)
(* Of packets that arrive untampered: the twin is never ahead of the       *)
(* satellite and raises no alarm of its own.                               *)
(*                                                                         *)
(* Of the alarms: the command that a logical one names was accepted by the *)
(* satellite and never sent by the ground, and rejections are counted      *)
(* once.                                                                   *)
(***************************************************************************)

EstimateInv ==
  /\ TypeOK
  /\ confirmedPrefix <= Len(approved)
  /\ EffectsAppliedOnce

-----------------------------------------------------------------------------
\* What a step can do to the twin: nothing, note a command, or observe a packet.
LEMMA TwinSteps ==
  ASSUME TypeOK, [Next]_vars
  PROVE  \/ UNCHANGED twinVars
         \/ \E b \in Body : NoteApprovedCommand(b)
         \/ \E tm : Observe(tm)
<1>1. CASE Tick \/ Access \/ Uplink \/ Downlink \/ ReceiveTelecommand \/ GenerateTelemetry
           \/ RelaySends \/ UNCHANGED vars
  BY <1>1 DEF Tick, Access, Uplink, Downlink, ReceiveTelecommand, GenerateTelemetry,
              RelaySends, vars
<1>2. CASE GenerateTelecommand \/ ProposeConfigurationUpdate
  <2>1. GainCommand(now) \in Body /\ UpdateCommand(now) \in Body
    BY BodiesTyped DEF TypeOK, RelayTypeOK
  <2> QED BY <1>2, <2>1 DEF GenerateTelecommand, ProposeConfigurationUpdate, Release
<1>3. CASE ReceiveTelemetry
  BY <1>3 DEF ReceiveTelemetry
<1>4. CASE ReceiveDelayedTelemetry
  BY <1>4 DEF ReceiveDelayedTelemetry
<1>5. CASE RelayEpisode
  BY <1>5 DEF RelayEpisode
<1> QED BY <1>1, <1>2, <1>3, <1>4, <1>5 DEF Next

\* An observation keeps the prefix or moves it forward to the earliest match.
LEMMA ObserveMoves ==
  ASSUME approved \in Seq(Body), confirmedPrefix \in Nat, confirmedPrefix <= Len(approved),
         NEW tm, Observe(tm)
  PROVE  /\ confirmedPrefix' \in confirmedPrefix..Len(approved)
         /\ UNCHANGED approved
         /\ \/ UNCHANGED <<confirmedPrefix, modelDischargeRate, updatesAppliedToModel>>
            \/ ApplyConfirmedPhysicalEffects(confirmedPrefix, confirmedPrefix')
<1>1. PICK breach \in PhysicalVerdicts : ObserveTelemetry(tm, breach)
  BY DEF Observe
<1>2. Len(approved) \in Nat
  OBVIOUS
<1>3. CASE Matches(tm) = {}
  BY <1>1, <1>2, <1>3 DEF ObserveTelemetry
<1>4. CASE Matches(tm) # {}
  <2>1. Earliest(Matches(tm)) \in Matches(tm)
    BY <1>4, MatchesBound, EarliestIsLeast
  <2>2. Earliest(Matches(tm)) \in confirmedPrefix..Len(approved)
    BY <2>1, MatchesBound
  <2> QED BY <1>1, <1>4, <2>2 DEF ObserveTelemetry
<1> QED BY <1>3, <1>4

-----------------------------------------------------------------------------
\* The effects up to a later prefix are those up to the earlier one and those
\* between, which have no command in common; the later ones are in force.
LEMMA EffectsSplit ==
  ASSUME approved \in Seq(Body), NEW n \in Nat, NEW to \in n..Len(approved)
  PROVE  LET before == PhysicalEffects(0, n)
             moved == PhysicalEffects(n, to)
             all == PhysicalEffects(0, to)
         IN  /\ Cardinality(all) = Cardinality(before) + Cardinality(moved)
             /\ moved = {} => all = before
             /\ moved # {} => all # {} /\ Latest(all) = Latest(moved)
<1> DEFINE before == PhysicalEffects(0, n)
           moved == PhysicalEffects(n, to)
           all == PhysicalEffects(0, to)
<1>1. Len(approved) \in Nat /\ to \in Nat /\ n <= to
  OBVIOUS
<1>2. all = before \cup moved /\ before \cap moved = {}
  BY <1>1 DEF PhysicalEffects
<1>3. before \in SUBSET (1..n) /\ moved \in SUBSET (1..to) /\ all \in SUBSET (1..to)
        /\ \A i \in moved : i > n
  BY <1>1 DEF PhysicalEffects
<1>4. IsFiniteSet(before) /\ IsFiniteSet(moved)
  <2>1. IsFiniteSet(1..n) /\ IsFiniteSet(1..to)
    BY <1>1, FS_Interval
  <2> HIDE DEF before, moved
  <2> QED BY <1>3, <2>1, FS_Subset
<1>5. Cardinality(before) \in Nat /\ Cardinality(moved) \in Nat
  BY <1>4, FS_CardinalityType
<1>6. Cardinality(all) = Cardinality(before) + Cardinality(moved)
  <2>1. Cardinality(before \cup moved)
          = Cardinality(before) + Cardinality(moved) - Cardinality(before \cap moved)
    BY <1>4, FS_Union
  <2>2. Cardinality(before \cap moved) = 0
    BY <1>2, FS_EmptySet
  <2> HIDE DEF before, moved, all
  <2> QED BY <1>2, <1>5, <2>1, <2>2
<1>7. ASSUME moved # {} PROVE all # {} /\ Latest(all) = Latest(moved)
  <2> HIDE DEF before, moved, all
  <2>1. all # {}
    BY <1>2, <1>7
  <2>2. Latest(all) \in all /\ \A j \in all : j <= Latest(all)
    BY <1>1, <1>3, <2>1, LatestIsGreatest
  <2>3. Latest(moved) \in moved /\ \A j \in moved : j <= Latest(moved)
    BY <1>1, <1>3, <1>7, LatestIsGreatest
  <2>4. Latest(moved) <= Latest(all)
    BY <1>2, <2>2, <2>3
  <2>5. Latest(moved) \in 1..to /\ Latest(all) \in 1..to /\ Latest(moved) > n
    BY <1>3, <2>2, <2>3
  <2>6. Latest(all) \notin before
    <3>1. \A i \in before : i \in 1..n
      BY <1>3
    <3> QED BY <2>4, <2>5, <3>1
  <2>7. Latest(all) <= Latest(moved)
    BY <1>2, <2>2, <2>3, <2>6
  <2> QED BY <2>1, <2>4, <2>5, <2>7
<1> QED BY <1>2, <1>6, <1>7

LEMMA EstimateInit == Init => EstimateInv
<1> SUFFICES ASSUME Init PROVE EstimateInv
  OBVIOUS
<1>1. TypeOK
  BY InitTyped
<1>2. confirmedPrefix = 0 /\ approved = << >>
  BY DEF Init, TwinInit
<1>3. PhysicalEffects(0, 0) = {}
  BY DEF PhysicalEffects
<1>4. EffectsAppliedOnce
  BY <1>2, <1>3, FS_EmptySet DEF Init, TwinInit, EffectsAppliedOnce
<1> QED BY <1>1, <1>2, <1>4 DEF EstimateInv

LEMMA EstimateStep ==
  ASSUME EstimateInv, [Next]_vars
  PROVE  /\ EstimateInv'
         /\ confirmedPrefix' \in confirmedPrefix..Len(approved)
<1> DEFINE n == confirmedPrefix
           effects == PhysicalEffects(0, n)
<1>1. TypeOK'
  BY NextTyped DEF EstimateInv
<1>2. /\ approved \in Seq(Body) /\ n \in Nat /\ n <= Len(approved) /\ Len(approved) \in Nat
      /\ updatesAppliedToModel = Cardinality(effects)
      /\ modelDischargeRate = IF effects = {} THEN Unset ELSE approved[Latest(effects)].value
  BY DEF EstimateInv, EffectsAppliedOnce, TypeOK, TwinTypeOK
<1>3. CASE UNCHANGED twinVars
  <2>1. EffectsAppliedOnce'
    BY <1>3 DEF EstimateInv, EffectsAppliedOnce, PhysicalEffects, twinVars
  <2> QED BY <1>1, <1>2, <1>3, <2>1 DEF EstimateInv, twinVars
<1>4. ASSUME NEW b \in Body, NoteApprovedCommand(b)
      PROVE  EstimateInv' /\ confirmedPrefix' \in confirmedPrefix..Len(approved)
  <2>1. approved' = Append(approved, b) /\ confirmedPrefix' = n
          /\ UNCHANGED <<updatesAppliedToModel, modelDischargeRate>>
    BY <1>4 DEF NoteApprovedCommand
  <2>2. Len(approved') = Len(approved) + 1 /\ \A i \in 1..n : approved'[i] = approved[i]
    BY <1>2, <2>1
  <2>3. PhysicalEffects(0, confirmedPrefix)' = effects
    <3>1. \A i \in (0 + 1)..n : i \in 1..n
      BY <1>2
    <3> QED BY <2>1, <2>2, <3>1 DEF PhysicalEffects
  <2>4. effects # {} => Latest(effects) \in 1..n
    <3>1. n \in 0..Len(approved) /\ 0 \in Nat
      BY <1>2
    <3>2. effects \in SUBSET (1..n) /\ (effects # {} => Latest(effects) \in effects)
      BY <1>2, <3>1, PhysicalEffectsFacts
    <3> HIDE DEF effects
    <3> QED BY <3>2
  <2>5. EffectsAppliedOnce'
    <3> HIDE DEF effects
    <3> QED BY <1>2, <2>1, <2>2, <2>3, <2>4 DEF EffectsAppliedOnce
  <2> QED BY <1>1, <1>2, <2>1, <2>2, <2>5 DEF EstimateInv
<1>5. ASSUME NEW tm, Observe(tm)
      PROVE  EstimateInv' /\ confirmedPrefix' \in confirmedPrefix..Len(approved)
  <2> DEFINE to == confirmedPrefix'
             moved == PhysicalEffects(n, to)
             all == PhysicalEffects(0, to)
  <2>1. /\ to \in n..Len(approved) /\ approved' = approved
        /\ \/ UNCHANGED <<confirmedPrefix, modelDischargeRate, updatesAppliedToModel>>
           \/ ApplyConfirmedPhysicalEffects(n, to)
    BY <1>2, <1>5, ObserveMoves
  <2>2. PhysicalEffects(0, confirmedPrefix)' = all
    BY <2>1 DEF PhysicalEffects
  <2>3. CASE UNCHANGED <<confirmedPrefix, modelDischargeRate, updatesAppliedToModel>>
    <3>1. all = effects
      BY <2>3
    <3>2. EffectsAppliedOnce'
      BY <1>2, <2>1, <2>2, <2>3, <3>1 DEF EffectsAppliedOnce
    <3> QED BY <1>1, <1>2, <2>1, <3>2 DEF EstimateInv
  <2>4. CASE ApplyConfirmedPhysicalEffects(n, to)
    <3>1. /\ updatesAppliedToModel' = updatesAppliedToModel + Cardinality(moved)
          /\ modelDischargeRate' = IF moved = {} THEN modelDischargeRate
                                   ELSE approved[Latest(moved)].value
      BY <2>4 DEF ApplyConfirmedPhysicalEffects
    <3>2. /\ Cardinality(all) = Cardinality(effects) + Cardinality(moved)
          /\ moved = {} => all = effects
          /\ moved # {} => all # {} /\ Latest(all) = Latest(moved)
      BY <1>2, <2>1, EffectsSplit
    <3>3. EffectsAppliedOnce'
      <4> HIDE DEF effects, moved, all
      <4> QED BY <1>2, <2>1, <2>2, <3>1, <3>2 DEF EffectsAppliedOnce
    <3> QED BY <1>1, <1>2, <2>1, <3>3 DEF EstimateInv
  <2> QED BY <2>1, <2>3, <2>4
<1>6. TypeOK
  BY DEF EstimateInv
<1> QED BY <1>3, <1>4, <1>5, <1>6, TwinSteps

-----------------------------------------------------------------------------
\* Whatever arrives, in whatever order and however often, the twin's confirmed
\* prefix never moves back and never passes the commands sent (Twin.cc,
\* observeTelemetry).
THEOREM PrefixForward == Spec => PrefixNeverMovesBack
<1>1. Init => EstimateInv
  BY EstimateInit
<1>2. EstimateInv /\ [Next]_vars => EstimateInv'
  BY EstimateStep
<1>3. EstimateInv /\ [Next]_vars
        => confirmedPrefix' >= confirmedPrefix /\ confirmedPrefix' <= Len(approved)
  <2> SUFFICES ASSUME EstimateInv, [Next]_vars
               PROVE  confirmedPrefix' >= confirmedPrefix /\ confirmedPrefix' <= Len(approved)
    OBVIOUS
  <2>1. confirmedPrefix' \in confirmedPrefix..Len(approved)
    BY EstimateStep
  <2>2. confirmedPrefix \in Nat /\ Len(approved) \in Nat
    BY DEF EstimateInv, TypeOK, TwinTypeOK
  <2> QED BY <2>1, <2>2
<1> QED BY <1>1, <1>2, <1>3, PTL DEF Spec, PrefixNeverMovesBack

\* The twin's model holds the effect of every confirmed update once, the last one
\* in force (Twin.cc, applyConfirmedPhysicalEffects), for every list of commands.
THEOREM EffectsOnce == Spec => []EffectsAppliedOnce
<1>1. Init => EstimateInv
  BY EstimateInit
<1>2. EstimateInv /\ [Next]_vars => EstimateInv'
  BY EstimateStep
<1>3. EstimateInv => EffectsAppliedOnce
  BY DEF EstimateInv
<1> QED BY <1>1, <1>2, <1>3, PTL DEF Spec

-----------------------------------------------------------------------------
(***************************************************************************)
(* The twin follows the satellite.  NeverAheadOfSatellite is a statement   *)
(* about two numbers; what keeps them in order are the packets between.    *)
(* Each of them reports the prefix that was in force when it was written:  *)
(* the newest writer it names, the store of that prefix, commands sent by  *)
(* its time.  The packets are in the order of what they report, so that    *)
(* the twin, which pins to the prefix a packet reports or to an earlier    *)
(* one, stays at or before all that are still to come.                     *)
(***************************************************************************)
IsNewest(provenance, n) ==
  /\ \A k \in Key : provenance[k] <= n
  /\ n = 0 \/ \E k \in Key : provenance[k] = n

Reports(tm, n) ==
  /\ IsNewest(tm.paramWriteProvenance, n)
  /\ \A i \in 1..n : approved[i].issuedAt <= tm.sourceTime
  /\ tm.mode = MODE_NOMINAL /\ tm.store = StoreAfter(n)

AllReport(packets) ==
  \A i \in DOMAIN packets :
    \E n \in confirmedPrefix..lastAcceptedSequence : Reports(packets[i], n)

Older(tm, later) == \A k \in Key : tm.paramWriteProvenance[k] <= later.paramWriteProvenance[k]

PacketsInOrder ==
  /\ \A i, j \in DOMAIN groundOut : i < j => Older(groundOut[i], groundOut[j])
  /\ \A i, j \in DOMAIN downIn : i < j => Older(downIn[i], downIn[j])
  /\ \A i \in DOMAIN groundOut, j \in DOMAIN downIn : Older(groundOut[i], downIn[j])
  /\ \A i \in DOMAIN groundOut : Older(groundOut[i], Snapshot(now))
  /\ \A i \in DOMAIN downIn : Older(downIn[i], Snapshot(now))

Follows ==
  /\ mode = MODE_NOMINAL /\ paramStore = StoreAfter(lastAcceptedSequence)
  /\ IsNewest(paramProvenance, lastAcceptedSequence)
  /\ confirmedPrefix <= lastAcceptedSequence
  /\ AllReport(groundOut) /\ AllReport(downIn)
  /\ PacketsInOrder
  /\ ~Alarmed("logical")

\* The satellite has executed commands of the ground, the newest one last.
SatelliteOwn ==
  /\ AcceptedInOrderOnce
  /\ lastAcceptedSequence = IF accepted = << >> THEN 0 ELSE accepted[Len(accepted)].seq

\* The ground sends only commands that write a parameter.
GroundOwn ==
  /\ Numbered
  /\ \A i \in DOMAIN approved : WritesParam(approved[i]) /\ approved[i].issuedAt <= now

\* Without interference the frames on the uplink are the ground's own, newer than
\* all that were accepted and in order, and nothing is ever rejected.
AsSent(frames) ==
  \A i \in DOMAIN frames :
    LET s == frames[i].body.seq
    IN  s \in DOMAIN approved /\ s > lastAcceptedSequence /\ frames[i] = Frame(approved[s])

Uncounted(packets) == \A i \in DOMAIN packets : packets[i].rejectedCmdCount = 0

Quiet ==
  /\ AsSent(satOut) /\ AsSent(upIn)
  /\ \A i, j \in DOMAIN satOut : i < j => satOut[i].body.seq < satOut[j].body.seq
  /\ \A i, j \in DOMAIN upIn : i < j => upIn[i].body.seq < upIn[j].body.seq
  /\ \A i \in DOMAIN satOut, j \in DOMAIN upIn : satOut[i].body.seq < upIn[j].body.seq
  /\ delayedUp = << >>
  /\ rejectedCmdCount = 0 /\ expectedRejectedCount = 0
  /\ Uncounted(groundOut) /\ Uncounted(downIn)
  /\ ~Alarmed("security")

\* Each part under the condition it depends on.
FollowInv ==
  /\ TypeOK
  /\ GroundOwn
  /\ CommandAuthEnabled /\ scenario # "A2v" => OrderInv
  /\ scenario # "A4" => delayedDown = << >>
  /\ scenario = "B0" => Quiet
  /\ Traceable => SatelliteOwn
  /\ Traceable /\ PrefixExplains => Follows

-----------------------------------------------------------------------------
\* Commands sent later change nothing of what an earlier prefix produces.
LEMMA StoreKept ==
  ASSUME approved \in Seq(Body), NEW b \in Body, NoteApprovedCommand(b),
         NEW n \in 0..Len(approved)
  PROVE  StoreAfter(n)' = StoreAfter(n)
<1>1. \A i \in 1..n : approved'[i] = approved[i]
  BY DEF NoteApprovedCommand
<1>2. ASSUME NEW k \in Key
      PROVE  {i \in 1..n : WritesParam(approved'[i]) /\ approved'[i].key = k}
               = {i \in 1..n : WritesParam(approved[i]) /\ approved[i].key = k}
  BY <1>1
<1>3. ASSUME NEW k \in Key, {i \in 1..n : WritesParam(approved[i]) /\ approved[i].key = k} # {}
      PROVE  Latest({i \in 1..n : WritesParam(approved[i]) /\ approved[i].key = k}) \in 1..n
  <2> DEFINE writes == {i \in 1..n : WritesParam(approved[i]) /\ approved[i].key = k}
  <2>1. writes \in SUBSET (1..n) /\ n \in Nat
    OBVIOUS
  <2>2. Latest(writes) \in writes
    BY <1>3, <2>1, LatestIsGreatest
  <2> QED BY <2>1, <2>2
<1> QED BY <1>1, <1>2, <1>3 DEF StoreAfter

\* No command of the ground station sets the mode.
LEMMA ModeStaysNominal ==
  ASSUME GroundOwn, NEW n \in 0..Len(approved)
  PROVE  ModeAfter(n) = MODE_NOMINAL
<1>1. \A i \in 1..n : i \in DOMAIN approved
  BY DEF GroundOwn, Numbered
<1> QED BY <1>1 DEF GroundOwn, WritesParam, ModeAfter

\* The commands sent by a time are at least those of a prefix sent by that time.
LEMMA SentCovers ==
  ASSUME approved \in Seq(Body), NEW ts, NEW n \in 0..Len(approved),
         \A i \in 1..n : approved[i].issuedAt <= ts
  PROVE  n <= SentByTime(ts)
<1> DEFINE sent == {i \in DOMAIN approved : approved[i].issuedAt <= ts}
<1>1. Len(approved) \in Nat /\ DOMAIN approved = 1..Len(approved) /\ n \in Nat
  OBVIOUS
<1>2. IsFiniteSet(DOMAIN approved)
  BY <1>1, FS_Interval
<1>3. sent \in SUBSET (DOMAIN approved) /\ (1..n) \in SUBSET sent
  BY <1>1
<1>4. IsFiniteSet(sent)
  BY <1>2, <1>3, FS_Subset
<1>5. Cardinality(1..n) <= Cardinality(sent)
  BY <1>3, <1>4, FS_Subset
<1>6. Cardinality(1..n) = n
  BY <1>1, FS_Interval
<1> QED BY <1>5, <1>6 DEF SentByTime

\* The prefix a packet reports is one that it matches, and the twin pins to it or
\* to an earlier one.
LEMMA ReportMatches ==
  ASSUME approved \in Seq(Body), confirmedPrefix \in Nat, GroundOwn,
         NEW n \in confirmedPrefix..Len(approved), NEW tm, Reports(tm, n)
  PROVE  /\ Matches(tm) # {}
         /\ Earliest(Matches(tm)) \in confirmedPrefix..n
<1>1. n \in 0..Len(approved) /\ n \in Nat
  OBVIOUS
<1>2. n <= SentByTime(tm.sourceTime) /\ SentByTime(tm.sourceTime) \in Nat
  BY <1>1, SentCovers, SentByTimeBound DEF Reports
<1>3. n \in Matches(tm)
  BY <1>1, <1>2, ModeStaysNominal DEF Reports, Matches, Admissible
<1>4. Earliest(Matches(tm)) \in Matches(tm) /\ Earliest(Matches(tm)) <= n
  BY <1>3, MatchesBound, EarliestIsLeast
<1>5. Earliest(Matches(tm)) \in confirmedPrefix..Len(approved)
  BY <1>4, MatchesBound
<1> QED BY <1>1, <1>3, <1>4, <1>5

-----------------------------------------------------------------------------
\* If a prefix explains the satellite once it has accepted command n, one did
\* before, and the commands it passed over have the key of n.
LEMMA ExplainedBefore ==
  ASSUME approved \in Seq(Body), accepted \in Seq(Body), SatelliteOwn, approved' = approved,
         NEW n \in DOMAIN approved, n > lastAcceptedSequence, Accept(approved[n]),
         approved[n].seq = n, PrefixExplains'
  PROVE  /\ PrefixExplains
         /\ \A k \in (lastAcceptedSequence + 1)..(n - 1) : approved[k].key = approved[n].key
<1> DEFINE b == approved[n]
           L == lastAcceptedSequence
<1>1. b \in Body /\ accepted' = Append(accepted, b) /\ lastAcceptedSequence' = n
  BY DEF Accept
<1>2. /\ Len(accepted) \in Nat /\ DOMAIN accepted = 1..Len(accepted)
      /\ DOMAIN accepted' = 1..(Len(accepted) + 1)
      /\ accepted'[Len(accepted) + 1] = b
      /\ \A i \in DOMAIN accepted : accepted'[i] = accepted[i]
  BY <1>1
<1>3. \A i \in DOMAIN accepted : /\ accepted[i].seq \in 1..L /\ accepted[i].seq \in DOMAIN approved
                                 /\ accepted[i].seq <= L
  <2> SUFFICES ASSUME NEW i \in DOMAIN accepted
               PROVE  accepted[i].seq \in DOMAIN approved /\ accepted[i].seq <= L
    BY DEF SatelliteOwn, AcceptedInOrderOnce
  <2>1. accepted[i].seq \in DOMAIN approved
    BY DEF SatelliteOwn, AcceptedInOrderOnce
  <2>2. L = accepted[Len(accepted)].seq /\ Len(accepted) \in DOMAIN accepted
    BY <1>2 DEF SatelliteOwn
  <2>3. L \in DOMAIN approved
    BY <2>2 DEF SatelliteOwn, AcceptedInOrderOnce
  <2>4. CASE i = Len(accepted)
    BY <2>1, <2>2, <2>3, <2>4
  <2>5. CASE i < Len(accepted)
    BY <2>1, <2>2, <2>3, <2>5 DEF SatelliteOwn, AcceptedInOrderOnce
  <2> QED BY <1>2, <2>1, <2>4, <2>5
<1>4. L \in 0..Len(approved)
  <2>1. CASE accepted = << >>
    BY <2>1 DEF SatelliteOwn
  <2>2. CASE accepted # << >>
    <3>1. Len(accepted) \in DOMAIN accepted /\ L = accepted[Len(accepted)].seq
      BY <1>2, <2>2 DEF SatelliteOwn
    <3> QED BY <1>3, <3>1
  <2> QED BY <2>1, <2>2
<1>5. ASSUME NEW k \in DOMAIN approved, k < n, \A i \in DOMAIN accepted' : accepted'[i].seq # k
      PROVE  \E i \in DOMAIN accepted' :
               /\ accepted'[i].seq > k /\ accepted'[i].key = approved[k].key
               /\ \A j \in 1..(i - 1) : accepted'[j].seq < k
  <2>1. k \in PassedOver'
    BY <1>1, <1>5 DEF PassedOver
  <2> QED BY <2>1 DEF PrefixExplains
<1>6. PrefixExplains
  <2> SUFFICES ASSUME NEW k \in PassedOver
               PROVE  \E i \in DOMAIN accepted :
                        /\ accepted[i].seq > k /\ accepted[i].key = approved[k].key
                        /\ \A j \in 1..(i - 1) : accepted[j].seq < k
    BY DEF PrefixExplains
  <2>1. k \in DOMAIN approved /\ k < L /\ \A i \in DOMAIN accepted : accepted[i].seq # k
    BY DEF PassedOver
  <2>2. k < n /\ \A i \in DOMAIN accepted' : accepted'[i].seq # k
    BY <1>2, <1>4, <2>1
  <2>3. PICK i \in DOMAIN accepted' :
               /\ accepted'[i].seq > k /\ accepted'[i].key = approved[k].key
               /\ \A j \in 1..(i - 1) : accepted'[j].seq < k
    BY <1>5, <2>1, <2>2
  <2>4. accepted # << >> /\ Len(accepted) \in DOMAIN accepted /\ accepted[Len(accepted)].seq = L
    <3>1. accepted # << >>
      BY <2>1 DEF SatelliteOwn
    <3> QED BY <1>2, <3>1 DEF SatelliteOwn
  <2>5. i # Len(accepted) + 1
    <3> SUFFICES ASSUME i = Len(accepted) + 1 PROVE FALSE
      OBVIOUS
    <3>1. Len(accepted) \in 1..(i - 1)
      BY <1>2, <2>4
    <3>2. L < k
      BY <1>2, <2>3, <2>4, <3>1
    <3> QED BY <1>4, <2>1, <3>2
  <2>6. i \in DOMAIN accepted /\ \A j \in 1..(i - 1) : j \in DOMAIN accepted
    BY <1>2, <2>5
  <2> QED BY <1>2, <2>3, <2>6
<1>7. ASSUME NEW k \in (L + 1)..(n - 1)
      PROVE  approved[k].key = b.key
  <2>1. k \in DOMAIN approved /\ k < n /\ k > L
    BY <1>4
  <2>2. \A i \in DOMAIN accepted' : accepted'[i].seq # k
    BY <1>2, <1>3, <1>4, <2>1
  <2>3. PICK i \in DOMAIN accepted' :
               /\ accepted'[i].seq > k /\ accepted'[i].key = approved[k].key
               /\ \A j \in 1..(i - 1) : accepted'[j].seq < k
    BY <1>5, <2>1, <2>2
  <2>4. i \notin DOMAIN accepted
    BY <1>2, <1>3, <1>4, <2>1, <2>3
  <2> QED BY <1>2, <2>3, <2>4
<1> QED BY <1>6, <1>7

\* The store after a command and those it passed over, all of one key, is the
\* store before with that key written.
LEMMA StoreFollows ==
  ASSUME approved \in Seq(Body), NEW n \in DOMAIN approved, NEW m \in 0..(n - 1),
         WritesParam(approved[n]),
         \A k \in (m + 1)..(n - 1) : approved[k].key = approved[n].key
  PROVE  StoreAfter(n) = [StoreAfter(m) EXCEPT ![approved[n].key] = approved[n].value]
<1> DEFINE writes(j, k) == {i \in 1..j : WritesParam(approved[i]) /\ approved[i].key = k}
           b == approved[n]
<1>1. n \in Nat /\ m \in Nat /\ m < n /\ b \in Body
  OBVIOUS
<1>2. b.key \in Key
  BY <1>1 DEF Body
<1>3. ASSUME NEW k \in Key, k # b.key
      PROVE  writes(n, k) = writes(m, k)
  <2>1. \A i \in 1..n : i \in 1..m \/ i \in (m + 1)..(n - 1) \/ i = n
    BY <1>1
  <2>2. \A i \in 1..m : i \in 1..n
    BY <1>1
  <2> QED BY <1>3, <2>1, <2>2
<1>4. Latest(writes(n, b.key)) = n /\ writes(n, b.key) # {}
  <2>1. writes(n, b.key) \in SUBSET (1..n) /\ n \in writes(n, b.key)
    BY <1>1
  <2> HIDE DEF writes
  <2>2. Latest(writes(n, b.key)) \in writes(n, b.key) /\ n <= Latest(writes(n, b.key))
    BY <1>1, <2>1, LatestIsGreatest
  <2>3. Latest(writes(n, b.key)) \in 1..n
    BY <2>1, <2>2
  <2> QED BY <1>1, <2>1, <2>2, <2>3
<1>5. \A j : StoreAfter(j) = [k \in Key |-> IF writes(j, k) = {} THEN Unset
                                            ELSE approved[Latest(writes(j, k))].value]
  BY DEF StoreAfter
<1> HIDE DEF writes
<1> QED BY <1>2, <1>3, <1>4, <1>5

-----------------------------------------------------------------------------
LEMMA FollowInit == Init => FollowInv
<1> SUFFICES ASSUME Init PROVE FollowInv
  OBVIOUS
<1>1. TypeOK
  BY InitTyped
<1>2. GroundOwn
  BY DEF Init, GroundInit, TwinInit, GroundOwn, Numbered
<1>3. scenario # "A2v" => OrderInv
  BY OrderInit
<1>4. delayedDown = << >>
  BY DEF Init, RelayInit
<1>5. Quiet
  BY DEF Init, LinkInit, CubeSatInit, TwinInit, RelayInit, Quiet, AsSent, Uncounted, Alarmed
<1>6. SatelliteOwn
  BY DEF Init, CubeSatInit, SatelliteOwn, AcceptedInOrderOnce
<1>7. Follows
  <2>1. StoreAfter(0) = [k \in Key |-> Unset]
    BY DEF StoreAfter
  <2>2. mode = MODE_NOMINAL /\ paramStore = StoreAfter(lastAcceptedSequence)
          /\ confirmedPrefix <= lastAcceptedSequence
    BY <2>1 DEF Init, CubeSatInit, TwinInit
  <2>3. IsNewest(paramProvenance, lastAcceptedSequence)
    BY DEF Init, CubeSatInit, NO_WRITER, IsNewest
  <2>4. AllReport(groundOut) /\ AllReport(downIn) /\ PacketsInOrder /\ ~Alarmed("logical")
    BY DEF Init, LinkInit, TwinInit, AllReport, PacketsInOrder, Alarmed
  <2> QED BY <2>2, <2>3, <2>4 DEF Follows
<1> QED BY <1>1, <1>2, <1>3, <1>4, <1>5, <1>6, <1>7 DEF FollowInv

\* What the ground station sends writes a parameter and carries the time of
\* sending; nothing else changes what was sent.
LEMMA OwnCommands ==
  ASSUME TypeOK
  PROVE  /\ GainCommand(now) \in Body /\ UpdateCommand(now) \in Body
         /\ \A b \in {GainCommand(now), UpdateCommand(now)} :
              b.seq = sequence + 1 /\ WritesParam(b) /\ b.issuedAt = now
<1>1. GainCommand(now) \in Body /\ UpdateCommand(now) \in Body
  BY BodiesTyped DEF TypeOK, RelayTypeOK
<1> QED BY <1>1 DEF GainCommand, UpdateCommand, WritesParam

\* A step that sends no command leaves the list of commands alone, and no step
\* changes the scenario.
LEMMA WhoSends ==
  ASSUME TypeOK, [Next]_vars
  PROVE  /\ scenario' = scenario
         /\ \/ UNCHANGED <<approved, sequence>> /\ now' \in Nat /\ now' >= now
            \/ \E b \in {GainCommand(now), UpdateCommand(now)} : Release(b)
<1>1. now \in Nat
  BY DEF TypeOK
<1>2. CASE Tick \/ Access \/ Uplink \/ Downlink \/ ReceiveTelecommand \/ GenerateTelemetry
           \/ UNCHANGED vars
  BY <1>1, <1>2 DEF Tick, Access, Uplink, Downlink, ReceiveTelecommand, GenerateTelemetry,
                    vars, twinVars, relayVars
<1>3. CASE GenerateTelecommand \/ ProposeConfigurationUpdate
  <2>1. PICK b \in {GainCommand(now), UpdateCommand(now)} : Release(b)
    BY <1>3 DEF GenerateTelecommand, ProposeConfigurationUpdate
  <2>2. scenario' = scenario
    BY <2>1 DEF Release, UplinkPass, UplinkAlter, UplinkResign
  <2> QED BY <2>1, <2>2
<1>4. CASE ReceiveTelemetry
  BY <1>1, <1>4 DEF ReceiveTelemetry, Observe, ObserveTelemetry, DownlinkPass, DownlinkCue,
                    DownlinkDrop, DownlinkDelay, ForgeCommand, twinVars
<1>5. CASE ReceiveDelayedTelemetry
  BY <1>1, <1>5 DEF ReceiveDelayedTelemetry, Observe, ObserveTelemetry, ReleaseDown
<1>6. CASE RelayEpisode
  BY <1>1, <1>6 DEF RelayEpisode, Observe, ObserveTelemetry, BeginEpisode, EndEpisode, twinVars
<1>7. CASE RelaySends
  BY <1>1, <1>7 DEF RelaySends, Inject, ForgeCommand, ReplayCaptured, ReleaseUp, twinVars
<1> QED BY <1>2, <1>3, <1>4, <1>5, <1>6, <1>7 DEF Next

LEMMA GroundOwnStep ==
  ASSUME TypeOK, GroundOwn, [Next]_vars
  PROVE  GroundOwn'
<1>1. approved \in Seq(Body) /\ now \in Nat /\ sequence = Len(approved)
        /\ \A i \in DOMAIN approved : approved[i].issuedAt \in Nat
  <2>1. approved \in Seq(Body) /\ now \in Nat /\ sequence = Len(approved)
    BY DEF TypeOK, TwinTypeOK, GroundOwn, Numbered
  <2>2. \A i \in DOMAIN approved : approved[i] \in Body
    BY <2>1
  <2> QED BY <2>1, <2>2 DEF Body
<1>2. CASE UNCHANGED <<approved, sequence>> /\ now' \in Nat /\ now' >= now
  BY <1>1, <1>2 DEF GroundOwn, Numbered
<1>3. ASSUME NEW b \in {GainCommand(now), UpdateCommand(now)}, Release(b)
      PROVE  GroundOwn'
  <2>1. b \in Body /\ b.seq = sequence + 1 /\ WritesParam(b) /\ b.issuedAt = now
    BY <1>3, OwnCommands
  <2>2. approved' = Append(approved, b) /\ sequence' = sequence + 1 /\ now' = now
    BY <1>3 DEF Release, NoteApprovedCommand
  <2>3. \A i \in DOMAIN approved' :
          IF i \in DOMAIN approved THEN approved'[i] = approved[i]
          ELSE i = Len(approved) + 1 /\ approved'[i] = b
    BY <1>1, <2>1, <2>2
  <2>4. Numbered'
    BY <1>1, <2>1, <2>2, <2>3 DEF GroundOwn, Numbered
  <2>5. \A i \in DOMAIN approved' : WritesParam(approved'[i]) /\ approved'[i].issuedAt <= now'
    BY <1>1, <2>1, <2>2, <2>3 DEF GroundOwn
  <2> QED BY <2>4, <2>5 DEF GroundOwn
<1> QED BY <1>2, <1>3, WhoSends

\* Only A4 holds packets back.
LEMMA HeldStep ==
  ASSUME scenario # "A4", delayedDown = << >>, [Next]_vars
  PROVE  delayedDown' = << >>
<1>1. CASE Tick \/ Access \/ Uplink \/ Downlink \/ ReceiveTelecommand \/ GenerateTelemetry
           \/ UNCHANGED vars
  BY <1>1 DEF Tick, Access, Uplink, Downlink, ReceiveTelecommand, GenerateTelemetry,
              vars, relayVars, delayed
<1>2. CASE GenerateTelecommand \/ ProposeConfigurationUpdate
  BY <1>2 DEF GenerateTelecommand, ProposeConfigurationUpdate, Release, UplinkPass, UplinkAlter,
              UplinkResign, delayed
<1>3. CASE ReceiveTelemetry
  BY <1>3 DEF ReceiveTelemetry, DownlinkPass, DownlinkCue, DownlinkDrop, DownlinkDelay,
              ForgeCommand, Active, delayed
<1>4. CASE ReceiveDelayedTelemetry
  BY <1>4 DEF ReceiveDelayedTelemetry
<1>5. CASE RelayEpisode
  BY <1>5 DEF RelayEpisode, BeginEpisode, EndEpisode, delayed
<1>6. CASE RelaySends
  BY <1>6 DEF RelaySends, Inject, ForgeCommand, ReplayCaptured, ReleaseUp, delayed
<1> QED BY <1>1, <1>2, <1>3, <1>4, <1>5, <1>6 DEF Next

-----------------------------------------------------------------------------
\* What the satellite does with a frame as long as its packets can be traced: it
\* accepts a command of the ground newer than all before, or, with the relay
\* about, it rejects.
LEMMA TracedReceive ==
  ASSUME CommandAuthEnabled => SignCommands, FollowInv, Traceable, ReceiveTelecommand
  PROVE  \/ \E n \in DOMAIN approved : /\ n > lastAcceptedSequence /\ approved[n].seq = n
                                       /\ Head(satOut).body = approved[n]
                                       /\ Accept(approved[n])
         \/ scenario # "B0" /\ \E reason : Reject(reason)
<1> DEFINE tc == Head(satOut)
           n == tc.body.seq
<1>1. satOut \in Seq(Telecommand) /\ satOut # << >> /\ HandleTelecommand(tc)
        /\ lastAcceptedSequence \in Int /\ tc = satOut[1] /\ 1 \in DOMAIN satOut
        /\ tc \in Telecommand
  BY DEF FollowInv, TypeOK, LinkTypeOK, CubeSatTypeOK, ReceiveTelecommand
<1>2. \A i \in DOMAIN approved : approved[i].seq = i
  BY DEF FollowInv, GroundOwn, Numbered
<1>3. CASE scenario = "B0"
  <2>1. n \in DOMAIN approved /\ n > lastAcceptedSequence /\ tc = Frame(approved[n])
    BY <1>1, <1>3 DEF FollowInv, Quiet, AsSent
  <2>2. tc.body = approved[n] /\ (CommandAuthEnabled => tc.tag = tc.body /\ tc.digest = tc.body)
    BY <2>1 DEF Frame, Signed, Unsigned
  <2>3. ~(n <= lastAcceptedSequence)
    <3>1. n \in Int
      BY <1>1 DEF Telecommand, Body
    <3> QED BY <1>1, <2>1, <3>1
  <2>4. FailedCheck(tc) = "none"
    BY <2>2, <2>3 DEF FailedCheck
  <2> QED BY <1>1, <1>2, <2>1, <2>2, <2>4 DEF HandleTelecommand
<1>4. CASE scenario # "B0"
  <2>1. CommandAuthEnabled /\ OrderInv
    BY <1>4 DEF FollowInv, Traceable
  <2>2. CASE FailedCheck(tc) = "none" /\ Accept(tc.body)
    <3>1. tc.tag = tc.body /\ ~(n <= lastAcceptedSequence)
      BY <2>1, <2>2 DEF FailedCheck
    <3>2. n \in DOMAIN approved /\ approved[n] = tc.body
      BY <1>1, <2>1, <3>1 DEF OrderInv, FramesGenuine, AllGenuine, Genuine
    <3>3. n \in Int
      BY <1>1 DEF Telecommand, Body
    <3> QED BY <1>1, <1>2, <2>2, <3>1, <3>2, <3>3
  <2>3. CASE Reject(FailedCheck(tc))
    BY <1>4, <2>3
  <2> QED BY <1>1, <2>2, <2>3 DEF HandleTelecommand
<1> QED BY <1>3, <1>4

\* Without interference the frames stay those of the ground, in their order.
LEMMA UplinkQuiet ==
  ASSUME CommandAuthEnabled => SignCommands, FollowInv, scenario = "B0", [Next]_vars
  PROVE  /\ AsSent(satOut)' /\ AsSent(upIn)'
         /\ (\A i, j \in DOMAIN satOut : i < j => satOut[i].body.seq < satOut[j].body.seq)'
         /\ (\A i, j \in DOMAIN upIn : i < j => upIn[i].body.seq < upIn[j].body.seq)'
         /\ (\A i \in DOMAIN satOut, j \in DOMAIN upIn : satOut[i].body.seq < upIn[j].body.seq)'
         /\ delayedUp' = << >>
<1> DEFINE Goal == /\ AsSent(satOut) /\ AsSent(upIn)
                   /\ \A i, j \in DOMAIN satOut : i < j => satOut[i].body.seq < satOut[j].body.seq
                   /\ \A i, j \in DOMAIN upIn : i < j => upIn[i].body.seq < upIn[j].body.seq
                   /\ \A i \in DOMAIN satOut, j \in DOMAIN upIn :
                        satOut[i].body.seq < upIn[j].body.seq
                   /\ delayedUp = << >>
<1>1. Goal /\ satOut \in Seq(Telecommand) /\ upIn \in Seq(Telecommand)
        /\ lastAcceptedSequence \in Int /\ approved \in Seq(Body) /\ sequence = Len(approved)
  BY DEF FollowInv, Quiet, TypeOK, LinkTypeOK, CubeSatTypeOK, TwinTypeOK, GroundOwn, Numbered
<1>2. CASE UNCHANGED <<upIn, satOut, delayedUp, approved, lastAcceptedSequence>>
  BY <1>1, <1>2 DEF AsSent
<1>3. CASE GenerateTelecommand \/ ProposeConfigurationUpdate
  <2>1. PICK b \in {GainCommand(now), UpdateCommand(now)} : Release(b)
    BY <1>3 DEF GenerateTelecommand, ProposeConfigurationUpdate
  <2>2. b \in Body /\ b.seq = sequence + 1 /\ Frame(b) \in Telecommand
    BY <2>1, OwnCommands, FramesTyped DEF FollowInv
  <2>3. /\ upIn' = Append(upIn, Frame(b)) /\ UNCHANGED <<satOut, delayedUp, lastAcceptedSequence>>
        /\ approved' = Append(approved, b)
    BY <2>1 DEF Release, UplinkPass, UplinkAlter, UplinkResign, Active, ToLink,
                NoteApprovedCommand, satVars, delayed
  <2>4. Frame(b).body = b
    BY DEF Frame, Signed, Unsigned
  <2>5. /\ \A i \in DOMAIN approved : approved'[i] = approved[i] /\ i \in DOMAIN approved'
        /\ sequence + 1 \in DOMAIN approved' /\ approved'[sequence + 1] = b
        /\ \A i \in DOMAIN approved : i < sequence + 1
    BY <1>1, <2>2, <2>3
  <2>6. \A i \in DOMAIN satOut : satOut[i].body.seq < sequence + 1
    BY <1>1, <2>5 DEF AsSent
  <2>7. \A i \in DOMAIN upIn : upIn[i].body.seq < sequence + 1
    BY <1>1, <2>5 DEF AsSent
  <2>8. \A i \in DOMAIN upIn' : IF i \in DOMAIN upIn THEN upIn'[i] = upIn[i]
                                ELSE upIn'[i] = Frame(b) /\ i = Len(upIn) + 1
    BY <1>1, <2>2, <2>3
  <2>9. sequence + 1 > lastAcceptedSequence
    <3>1. scenario = "B0" => SatelliteOwn
      BY DEF FollowInv, Traceable
    <3>2. CASE accepted = << >>
      BY <1>1, <3>1, <3>2 DEF SatelliteOwn
    <3>3. CASE accepted # << >>
      <4>1. accepted \in Seq(Body)
        BY DEF FollowInv, TypeOK, CubeSatTypeOK
      <4>2. Len(accepted) \in DOMAIN accepted
        BY <3>3, <4>1
      <4>3. lastAcceptedSequence \in DOMAIN approved
        BY <3>1, <3>3, <4>2 DEF SatelliteOwn, AcceptedInOrderOnce
      <4> QED BY <1>1, <4>3
    <3> QED BY <3>2, <3>3
  <2>10. AsSent(satOut)' /\ AsSent(upIn)'
    BY <1>1, <2>2, <2>3, <2>4, <2>5, <2>8, <2>9 DEF AsSent
  <2>11. \A i, j \in DOMAIN upIn' : i < j => upIn'[i].body.seq < upIn'[j].body.seq
    <3>1. DOMAIN upIn' = 1..(Len(upIn) + 1) /\ DOMAIN upIn = 1..Len(upIn) /\ Len(upIn) \in Nat
      BY <1>1, <2>2, <2>3
    <3> QED BY <1>1, <2>2, <2>4, <2>7, <2>8, <3>1
  <2>12. \A i \in DOMAIN satOut', j \in DOMAIN upIn' : satOut'[i].body.seq < upIn'[j].body.seq
    BY <1>1, <2>2, <2>3, <2>4, <2>6, <2>8
  <2> QED BY <1>1, <2>3, <2>10, <2>11, <2>12
<1>4. CASE Uplink
  <2>1. /\ upIn # << >> /\ upIn' = Tail(upIn)
        /\ satOut' = satOut \/ satOut' = Append(satOut, Head(upIn))
        /\ UNCHANGED <<delayedUp, approved, lastAcceptedSequence>>
    BY <1>4 DEF Uplink, ForwardUp, satVars, twinVars, relayVars, delayed
  <2>2. /\ DOMAIN upIn' = 1..(Len(upIn) - 1) /\ DOMAIN upIn = 1..Len(upIn) /\ Len(upIn) \in Nat
        /\ \A i \in DOMAIN upIn' : upIn'[i] = upIn[i + 1] /\ i + 1 \in DOMAIN upIn
        /\ Head(upIn) = upIn[1] /\ 1 \in DOMAIN upIn /\ upIn[1] \in Telecommand
    BY <1>1, <2>1
  <2>3. \A i \in DOMAIN satOut' : IF i \in DOMAIN satOut THEN satOut'[i] = satOut[i]
                                  ELSE satOut'[i] = upIn[1] /\ i = Len(satOut) + 1
    <3>1. CASE satOut' = satOut
      BY <3>1
    <3>2. CASE satOut' = Append(satOut, upIn[1])
      BY <1>1, <2>2, <3>2
    <3> QED BY <2>1, <2>2, <3>1, <3>2
  <2>4. AsSent(satOut)' /\ AsSent(upIn)'
    BY <1>1, <2>1, <2>2, <2>3 DEF AsSent
  <2>5. \A i, j \in DOMAIN upIn' : i < j => upIn'[i].body.seq < upIn'[j].body.seq
    BY <1>1, <2>2
  <2>6. \A i, j \in DOMAIN satOut' : i < j => satOut'[i].body.seq < satOut'[j].body.seq
    <3>1. DOMAIN satOut' \subseteq 1..(Len(satOut) + 1) /\ DOMAIN satOut = 1..Len(satOut)
            /\ Len(satOut) \in Nat
      BY <1>1, <2>1, <2>2
    <3> QED BY <1>1, <2>2, <2>3, <3>1
  <2>7. \A i \in DOMAIN satOut', j \in DOMAIN upIn' : satOut'[i].body.seq < upIn'[j].body.seq
    BY <1>1, <2>2, <2>3
  <2> QED BY <1>1, <2>1, <2>4, <2>5, <2>6, <2>7
<1>5. CASE ReceiveTelecommand
  <2>1. Traceable
    BY DEF Traceable
  <2>2. PICK n \in DOMAIN approved : /\ n > lastAcceptedSequence /\ approved[n].seq = n
                                     /\ Head(satOut).body = approved[n]
                                     /\ Accept(approved[n])
    BY <1>5, <2>1, TracedReceive
  <2>3. /\ satOut # << >> /\ satOut' = Tail(satOut) /\ UNCHANGED <<upIn, delayedUp, approved>>
        /\ lastAcceptedSequence' = satOut[1].body.seq /\ satOut[1].body.seq = n
        /\ Head(satOut) = satOut[1]
    BY <1>1, <1>5, <2>2 DEF ReceiveTelecommand, Accept, twinVars, relayVars, delayed
  <2>4. /\ DOMAIN satOut' = 1..(Len(satOut) - 1) /\ DOMAIN satOut = 1..Len(satOut)
        /\ Len(satOut) \in Nat /\ 1 \in DOMAIN satOut
        /\ \A i \in DOMAIN satOut' : /\ satOut'[i] = satOut[i + 1]
                                     /\ i + 1 \in DOMAIN satOut /\ 1 < i + 1
    BY <1>1, <2>3
  <2>5. \A i \in DOMAIN satOut' : satOut'[i].body.seq > satOut[1].body.seq
    <3>1. \A i \in DOMAIN satOut : satOut[i].body.seq \in DOMAIN approved
      BY <1>1 DEF AsSent
    <3>2. \A i \in DOMAIN satOut : satOut[i].body.seq \in Nat
      BY <1>1, <3>1
    <3>3. \A i \in DOMAIN satOut' : satOut[1].body.seq < satOut[i + 1].body.seq
      BY <1>1, <2>4
    <3> QED BY <2>4, <3>2, <3>3
  <2>6. \A j \in DOMAIN upIn : upIn[j].body.seq > satOut[1].body.seq
    <3>1. \A i \in DOMAIN upIn : upIn[i].body.seq \in DOMAIN approved
      BY <1>1 DEF AsSent
    <3>2. \A i \in DOMAIN upIn : upIn[i].body.seq \in Nat
      BY <1>1, <3>1
    <3> QED BY <1>1, <2>3, <2>4, <3>2
  <2>7. AsSent(satOut)' /\ AsSent(upIn)'
    BY <1>1, <2>3, <2>4, <2>5, <2>6 DEF AsSent
  <2> QED BY <1>1, <2>3, <2>4, <2>7
<1>6. CASE Tick \/ Access \/ Downlink \/ GenerateTelemetry \/ UNCHANGED vars
  BY <1>2, <1>6 DEF Tick, Access, ToggleAccess, Downlink, ForwardDown, GenerateTelemetry, vars,
                    linkVars, satVars, twinVars, relayVars, delayed
<1>7. CASE ReceiveTelemetry
  BY <1>2, <1>7 DEF ReceiveTelemetry, DownlinkPass, DownlinkCue, CausalArm, DownlinkDrop,
                    DownlinkDelay, Active, Observe, ObserveTelemetry, satVars, delayed
<1>8. CASE ReceiveDelayedTelemetry
  BY <1>8 DEF ReceiveDelayedTelemetry, FollowInv
<1>9. CASE RelayEpisode
  BY <1>2, <1>9 DEF RelayEpisode, BeginEpisode, EndEpisode, linkVars, satVars, twinVars, delayed
<1>10. CASE RelaySends
  BY <1>1, <1>10 DEF RelaySends, Inject, ReplayCaptured, Active
<1> QED BY <1>3, <1>4, <1>5, <1>6, <1>7, <1>8, <1>9, <1>10 DEF Next

\* Only the handler of a received command changes the satellite.
LEMMA SatelliteAlone ==
  ASSUME [Next]_vars, ~ReceiveTelecommand
  PROVE  UNCHANGED satVars
BY DEF Next, vars, Tick, Access, GenerateTelecommand, ProposeConfigurationUpdate, Release,
       Uplink, Downlink, GenerateTelemetry, ReceiveTelemetry, ReceiveDelayedTelemetry,
       RelayEpisode, RelaySends

\* As long as packets can be traced, a step writes a packet, moves one, shows the
\* oldest to the twin, with the count it carries unless the relay forged that, or
\* leaves the packets and the estimate alone.
LEMMA TracedPackets ==
  ASSUME FollowInv, Traceable, [Next]_vars
  PROVE  \/ UNCHANGED <<downIn, groundOut, confirmedPrefix, expectedRejectedCount, d3Alarm>>
         \/ GenerateTelemetry
         \/ Downlink
         \/ /\ groundOut # << >> /\ groundOut' = Tail(groundOut)
            /\ UNCHANGED <<now, downIn, satVars, sequence>>
            /\ \E count : \E tm : /\ tm = [Head(groundOut) EXCEPT !.rejectedCmdCount = count]
                                  /\ scenario = "B0" => tm = Head(groundOut)
                                  /\ Observe(tm)
<1>1. CASE GenerateTelemetry \/ Downlink
  BY <1>1
<1>2. CASE Tick \/ Access \/ Uplink \/ ReceiveTelecommand \/ RelaySends \/ UNCHANGED vars
  BY <1>2 DEF Tick, Access, ToggleAccess, Uplink, ForwardUp, ReceiveTelecommand, RelaySends,
              ToLink, vars, linkVars, twinVars
<1>3. CASE GenerateTelecommand \/ ProposeConfigurationUpdate
  BY <1>3 DEF GenerateTelecommand, ProposeConfigurationUpdate, Release, NoteApprovedCommand,
              ToLink, linkVars
<1>4. CASE ReceiveTelemetry
  <2> DEFINE tm == Head(groundOut)
  <2>1. groundOut \in Seq(Telemetry) /\ groundOut # << >> /\ tm \in Telemetry
    BY <1>4 DEF FollowInv, TypeOK, LinkTypeOK, ReceiveTelemetry
  <2>2. tm = [tm EXCEPT !.rejectedCmdCount = tm.rejectedCmdCount]
    BY <2>1 DEF Telemetry
  <2>3. Observe(tm) \/ (scenario # "B0" /\ Observe(Shown(tm))) \/ Active("A4")
    BY <1>4 DEF ReceiveTelemetry, DownlinkDrop, DownlinkDelay, Shown, Active
  <2>4. ~Active("A4")
    BY DEF Traceable, Active
  <2>5. Shown(tm) = tm \/ Shown(tm) = [tm EXCEPT !.rejectedCmdCount = frozenRejectedCount]
    BY DEF Shown
  <2>6. \E count : \E shown : /\ shown = [tm EXCEPT !.rejectedCmdCount = count]
                              /\ scenario = "B0" => shown = tm
                              /\ Observe(shown)
    BY <2>2, <2>3, <2>4, <2>5
  <2> QED BY <1>4, <2>6 DEF ReceiveTelemetry
<1>5. CASE ReceiveDelayedTelemetry
  BY <1>5 DEF ReceiveDelayedTelemetry, FollowInv, Traceable
<1>6. CASE RelayEpisode
  BY <1>6 DEF RelayEpisode, BeginEpisode, Spoofs, Traceable, linkVars, twinVars
<1> QED BY <1>1, <1>2, <1>3, <1>4, <1>5, <1>6 DEF Next

\* Without interference no rejection is counted, reported or alarmed.
LEMMA CountsQuiet ==
  ASSUME CommandAuthEnabled => SignCommands, FollowInv, scenario = "B0", [Next]_vars
  PROVE  /\ rejectedCmdCount' = 0 /\ expectedRejectedCount' = 0
         /\ Uncounted(groundOut)' /\ Uncounted(downIn)'
         /\ ~Alarmed("security")'
<1>1. Traceable /\ rejectedCmdCount = 0 /\ expectedRejectedCount = 0 /\ Uncounted(groundOut)
        /\ Uncounted(downIn) /\ ~Alarmed("security")
        /\ groundOut \in Seq(Telemetry) /\ downIn \in Seq(Telemetry)
        /\ Snapshot(now) \in Telemetry
  BY PacketsTyped DEF FollowInv, Quiet, Traceable, TypeOK, LinkTypeOK
<1>2. rejectedCmdCount' = 0
  <2>1. CASE ReceiveTelecommand
    BY <1>1, <2>1, TracedReceive DEF Accept
  <2>2. CASE ~ReceiveTelecommand
    BY <1>1, <2>2, SatelliteAlone DEF satVars
  <2> QED BY <2>1, <2>2
<1>3. CASE UNCHANGED <<downIn, groundOut, confirmedPrefix, expectedRejectedCount, d3Alarm>>
  BY <1>1, <1>2, <1>3 DEF Uncounted, Alarmed
<1>4. CASE GenerateTelemetry
  <2>1. downIn' = Append(downIn, Snapshot(now)) /\ UNCHANGED <<groundOut, twinVars>>
    BY <1>4 DEF GenerateTelemetry
  <2>2. Snapshot(now).rejectedCmdCount = 0
    BY <1>1 DEF Snapshot
  <2>3. Uncounted(downIn)'
    BY <1>1, <2>1, <2>2, QueueElements DEF Uncounted
  <2> QED BY <1>1, <1>2, <2>1, <2>3 DEF Uncounted, Alarmed, twinVars
<1>5. CASE Downlink
  <2>1. /\ downIn # << >> /\ downIn' = Tail(downIn)
        /\ groundOut' = groundOut \/ groundOut' = Append(groundOut, Head(downIn))
        /\ UNCHANGED twinVars
    BY <1>5 DEF Downlink, ForwardDown
  <2>2. Head(downIn) \in Telemetry /\ Head(downIn).rejectedCmdCount = 0
    BY <1>1, <2>1 DEF Uncounted
  <2>3. Uncounted(downIn)'
    BY <1>1, <2>1, QueueElements DEF Uncounted
  <2>4. Uncounted(groundOut)'
    <3>1. CASE groundOut' = groundOut
      BY <1>1, <3>1 DEF Uncounted
    <3>2. CASE groundOut' = Append(groundOut, Head(downIn))
      BY <1>1, <2>2, <3>2 DEF Uncounted
    <3> QED BY <2>1, <3>1, <3>2
  <2> QED BY <1>1, <1>2, <2>1, <2>3, <2>4 DEF Alarmed, twinVars
<1>6. CASE /\ groundOut # << >> /\ groundOut' = Tail(groundOut) /\ UNCHANGED downIn
           /\ Observe(Head(groundOut))
  <2>1. Head(groundOut).rejectedCmdCount = 0
    BY <1>1, <1>6 DEF Uncounted
  <2>2. expectedRejectedCount' = 0 /\ ~Alarmed("security")'
    BY <1>1, <1>6, <2>1 DEF Observe, ObserveTelemetry, AlarmRows, Alarmed
  <2>3. Uncounted(groundOut)'
    BY <1>1, <1>6, QueueElements DEF Uncounted
  <2> QED BY <1>1, <1>2, <1>6, <2>2, <2>3 DEF Uncounted
<1> QED BY <1>1, <1>3, <1>4, <1>5, <1>6, TracedPackets

-----------------------------------------------------------------------------
\* The commands accepted are the ground's, and the newest of them is the last.
LEMMA SatelliteOwnStep ==
  ASSUME CommandAuthEnabled => SignCommands, FollowInv, Traceable, [Next]_vars
  PROVE  SatelliteOwn'
<1>1. SatelliteOwn /\ approved \in Seq(Body) /\ accepted \in Seq(Body)
        /\ lastAcceptedSequence \in Int
  BY DEF FollowInv, TypeOK, TwinTypeOK, CubeSatTypeOK
<1>2. CASE ReceiveTelecommand
  <2>1. UNCHANGED approved
    BY <1>2 DEF ReceiveTelecommand, twinVars
  <2>2. CASE \E reason : Reject(reason)
    BY <1>1, <2>1, <2>2 DEF Reject, SatelliteOwn, AcceptedInOrderOnce
  <2>3. ASSUME NEW n \in DOMAIN approved, n > lastAcceptedSequence, approved[n].seq = n,
               Accept(approved[n])
        PROVE  SatelliteOwn'
    <3>1. approved[n] \in Body /\ accepted' = Append(accepted, approved[n])
            /\ lastAcceptedSequence' = n
      BY <1>1, <2>3 DEF Accept
    <3>2. /\ DOMAIN accepted' = 1..(Len(accepted) + 1) /\ DOMAIN accepted = 1..Len(accepted)
          /\ Len(accepted) \in Nat /\ Len(accepted') = Len(accepted) + 1 /\ accepted' # << >>
          /\ accepted'[Len(accepted) + 1] = approved[n]
          /\ \A i \in DOMAIN accepted : accepted'[i] = accepted[i]
      BY <1>1, <3>1
    <3>3. \A i \in DOMAIN accepted : accepted[i].seq < n
      <4> SUFFICES ASSUME NEW i \in DOMAIN accepted PROVE accepted[i].seq < n
        OBVIOUS
      <4>1. Len(accepted) \in DOMAIN accepted /\ i <= Len(accepted)
              /\ lastAcceptedSequence = accepted[Len(accepted)].seq
        BY <1>1, <3>2 DEF SatelliteOwn
      <4>2. accepted[i].seq \in DOMAIN approved
        BY <1>1 DEF SatelliteOwn, AcceptedInOrderOnce
      <4>3. i = Len(accepted) \/ accepted[i].seq < lastAcceptedSequence
        BY <1>1, <3>2, <4>1 DEF SatelliteOwn, AcceptedInOrderOnce
      <4> QED BY <1>1, <2>3, <4>1, <4>2, <4>3
    <3>4. \A i \in DOMAIN accepted' :
            accepted'[i].seq \in DOMAIN approved /\ approved[accepted'[i].seq] = accepted'[i]
      BY <1>1, <2>3, <3>2 DEF SatelliteOwn, AcceptedInOrderOnce
    <3>5. \A i, j \in DOMAIN accepted' : i < j => accepted'[i].seq < accepted'[j].seq
      <4> SUFFICES ASSUME NEW i \in DOMAIN accepted', NEW j \in DOMAIN accepted', i < j
                   PROVE  accepted'[i].seq < accepted'[j].seq
        OBVIOUS
      <4>1. i \in DOMAIN accepted /\ accepted'[i] = accepted[i]
        BY <3>2
      <4>2. CASE j \in DOMAIN accepted
        BY <1>1, <3>2, <4>1, <4>2 DEF SatelliteOwn, AcceptedInOrderOnce
      <4>3. CASE j = Len(accepted) + 1
        BY <2>3, <3>2, <3>3, <4>1, <4>3
      <4> QED BY <3>2, <4>2, <4>3
    <3> QED BY <2>1, <2>3, <3>1, <3>2, <3>4, <3>5 DEF SatelliteOwn, AcceptedInOrderOnce
  <2> QED BY <1>2, <2>2, <2>3, TracedReceive
<1>3. CASE ~ReceiveTelecommand
  <2>1. UNCHANGED <<accepted, lastAcceptedSequence>>
    BY <1>3, SatelliteAlone DEF satVars
  <2>2. approved' = approved \/ \E b : approved' = Append(approved, b)
    BY WhoSends DEF FollowInv, Release, NoteApprovedCommand
  <2>3. \A i \in DOMAIN approved : i \in DOMAIN approved' /\ approved'[i] = approved[i]
    BY <1>1, <2>2
  <2> QED BY <1>1, <2>1, <2>3 DEF SatelliteOwn, AcceptedInOrderOnce
<1> QED BY <1>2, <1>3

\* It is one of the commands sent, if there is any.
LEMMA NewestWasSent ==
  ASSUME FollowInv, Traceable
  PROVE  lastAcceptedSequence \in 0..Len(approved)
<1>1. SatelliteOwn /\ accepted \in Seq(Body) /\ approved \in Seq(Body)
  BY DEF FollowInv, TypeOK, CubeSatTypeOK, TwinTypeOK
<1>2. CASE accepted = << >>
  BY <1>1, <1>2 DEF SatelliteOwn
<1>3. CASE accepted # << >>
  <2>1. Len(accepted) \in DOMAIN accepted
    BY <1>1, <1>3
  <2> QED BY <1>1, <1>3, <2>1 DEF SatelliteOwn, AcceptedInOrderOnce
<1> QED BY <1>2, <1>3

-----------------------------------------------------------------------------
\* A packet keeps the prefix it reports when later commands are sent.
LEMMA ReportKept ==
  ASSUME approved \in Seq(Body), NEW b \in Body, NoteApprovedCommand(b),
         NEW n \in 0..Len(approved), NEW tm, Reports(tm, n)
  PROVE  Reports(tm, n)'
<1>1. StoreAfter(n)' = StoreAfter(n)
  BY StoreKept
<1>2. \A i \in 1..n : approved'[i] = approved[i]
  BY DEF NoteApprovedCommand
<1> QED BY <1>1, <1>2 DEF Reports, IsNewest

\* A command sent makes no difference to what is on its way and what was accepted.
LEMMA ReleaseFollows ==
  ASSUME FollowInv, Traceable, NEW b \in Body, Release(b), PrefixExplains'
  PROVE  PrefixExplains /\ (Follows => Follows')
<1>1. /\ approved \in Seq(Body) /\ confirmedPrefix \in Nat
      /\ NoteApprovedCommand(b) /\ UNCHANGED <<now, satVars, downIn, groundOut>>
      /\ lastAcceptedSequence \in 0..Len(approved)
  BY NewestWasSent DEF FollowInv, TypeOK, TwinTypeOK, Release, ToLink, linkVars
<1>2. /\ UNCHANGED <<confirmedPrefix, d3Alarm, mode, paramStore, paramProvenance, accepted,
                     lastAcceptedSequence>>
      /\ approved' = Append(approved, b)
  BY <1>1 DEF NoteApprovedCommand, satVars
<1>3. PrefixExplains
  <2>1. \A k \in PassedOver : k \in PassedOver' /\ approved'[k] = approved[k]
    BY <1>1, <1>2 DEF PassedOver
  <2> QED BY <1>2, <2>1 DEF PrefixExplains
<1>4. ASSUME Follows PROVE Follows'
  <2>1. StoreAfter(lastAcceptedSequence)' = StoreAfter(lastAcceptedSequence)
    <3>1. \A n \in 0..Len(approved) : StoreAfter(n)' = StoreAfter(n)
      BY <1>1, StoreKept
    <3> QED BY <1>1, <1>2, <3>1 DEF StoreAfter
  <2>2. \A tm : \A n \in confirmedPrefix..lastAcceptedSequence : Reports(tm, n) => Reports(tm, n)'
    <3> SUFFICES ASSUME NEW tm, NEW n \in confirmedPrefix..lastAcceptedSequence, Reports(tm, n)
                 PROVE  Reports(tm, n)'
      OBVIOUS
    <3>1. n \in 0..Len(approved)
      BY <1>1
    <3> QED BY <1>1, <3>1, ReportKept
  <2>3. AllReport(groundOut)' /\ AllReport(downIn)'
    BY <1>1, <1>2, <1>4, <2>2 DEF Follows, AllReport
  <2>4. PacketsInOrder'
    BY <1>1, <1>2, <1>4 DEF Follows, PacketsInOrder, Older, Snapshot
  <2> QED BY <1>2, <1>4, <2>1, <2>3, <2>4 DEF Follows, IsNewest, StoreAfter, Alarmed
<1> QED BY <1>3, <1>4

\* A command accepted becomes the newest one, and the store follows.
LEMMA AcceptFollows ==
  ASSUME FollowInv, Traceable, NEW n \in DOMAIN approved, n > lastAcceptedSequence,
         approved[n].seq = n, Accept(approved[n]), UNCHANGED <<now, downIn, groundOut, twinVars>>,
         PrefixExplains'
  PROVE  PrefixExplains /\ (Follows => Follows')
<1> DEFINE b == approved[n]
<1>1. /\ approved \in Seq(Body) /\ accepted \in Seq(Body) /\ confirmedPrefix \in Nat
      /\ SatelliteOwn /\ UNCHANGED <<approved, confirmedPrefix, d3Alarm>>
      /\ lastAcceptedSequence \in 0..Len(approved)
      /\ paramStore \in [Key -> Int \cup {Unset}] /\ paramProvenance \in [Key -> Int]
      /\ groundOut \in Seq(Telemetry) /\ downIn \in Seq(Telemetry)
  BY NewestWasSent
     DEF FollowInv, TypeOK, TwinTypeOK, CubeSatTypeOK, LinkTypeOK, twinVars
<1>2. b \in Body /\ b.key \in Key /\ WritesParam(b) /\ b.type # "CMD_SET_MODE"
  <2>1. b \in Body
    BY <1>1
  <2> QED BY <2>1 DEF FollowInv, GroundOwn, Body, WritesParam
<1>3. /\ PrefixExplains
      /\ \A k \in (lastAcceptedSequence + 1)..(n - 1) : approved[k].key = b.key
  BY <1>1, ExplainedBefore
<1>4. ASSUME Follows PROVE Follows'
  <2>1. /\ lastAcceptedSequence' = n /\ mode' = mode
        /\ paramStore' = [paramStore EXCEPT ![b.key] = b.value]
        /\ paramProvenance' = [paramProvenance EXCEPT ![b.key] = n]
    BY <1>2 DEF Accept
  <2>2. n \in Nat /\ lastAcceptedSequence \in 0..(n - 1)
    BY <1>1
  <2>3. paramStore' = StoreAfter(lastAcceptedSequence)'
    <3>1. StoreAfter(n) = [StoreAfter(lastAcceptedSequence) EXCEPT ![b.key] = b.value]
      BY <1>1, <1>2, <1>3, <2>2, StoreFollows
    <3>2. StoreAfter(lastAcceptedSequence)' = StoreAfter(n)
      BY <1>1, <2>1 DEF StoreAfter
    <3> QED BY <1>4, <2>1, <3>1, <3>2 DEF Follows
  <2>4. \A k \in Key : paramProvenance[k] <= paramProvenance'[k]
    BY <1>1, <1>2, <1>4, <2>1, <2>2 DEF Follows, IsNewest
  <2>5. IsNewest(paramProvenance, lastAcceptedSequence)'
    BY <1>1, <1>2, <1>4, <2>1, <2>2 DEF Follows, IsNewest
  <2>6. AllReport(groundOut)' /\ AllReport(downIn)'
    <3>1. \A m \in confirmedPrefix..lastAcceptedSequence : m \in confirmedPrefix..n
      BY <1>1, <2>2
    <3>2. \A tm : \A m : Reports(tm, m)' <=> Reports(tm, m)
      BY <1>1 DEF Reports, StoreAfter
    <3> QED BY <1>1, <1>4, <2>1, <3>1, <3>2 DEF Follows, AllReport
  <2>7. PacketsInOrder'
    <3>1. \A tm \in Telemetry : Older(tm, Snapshot(now)) => Older(tm, Snapshot(now))'
      <4> SUFFICES ASSUME NEW tm \in Telemetry, NEW k \in Key,
                          tm.paramWriteProvenance[k] <= paramProvenance[k]
                   PROVE  tm.paramWriteProvenance[k] <= paramProvenance'[k]
        BY DEF Older, Snapshot
      <4>1. tm.paramWriteProvenance[k] \in Int
        BY DEF Telemetry
      <4>2. paramProvenance[k] \in Int /\ paramProvenance'[k] \in Int
        BY <1>1, <1>2, <2>1, <2>2
      <4> QED BY <2>4, <4>1, <4>2
    <3>2. /\ \A i \in DOMAIN groundOut : groundOut[i] \in Telemetry
          /\ \A i \in DOMAIN downIn : downIn[i] \in Telemetry
      BY <1>1
    <3> QED BY <1>4, <3>1, <3>2 DEF Follows, PacketsInOrder, Older
  <2>8. confirmedPrefix' <= lastAcceptedSequence'
    BY <1>1, <1>4, <2>1, <2>2 DEF Follows
  <2> QED BY <1>1, <1>4, <2>1, <2>3, <2>5, <2>6, <2>7, <2>8 DEF Follows, Alarmed
<1> QED BY <1>3, <1>4

\* A packet written now reports the newest command.
LEMMA WriteFollows ==
  ASSUME FollowInv, Traceable, Follows, GenerateTelemetry
  PROVE  Follows'
<1>1. /\ downIn' = Append(downIn, Snapshot(now)) /\ Snapshot(now) \in Telemetry
      /\ UNCHANGED <<now, groundOut, satVars, twinVars>>
      /\ groundOut \in Seq(Telemetry) /\ downIn \in Seq(Telemetry)
      /\ lastAcceptedSequence \in 0..Len(approved) /\ confirmedPrefix \in Nat
      /\ approved \in Seq(Body)
  BY NewestWasSent, PacketsTyped
     DEF FollowInv, TypeOK, LinkTypeOK, TwinTypeOK, GenerateTelemetry
<1>2. UNCHANGED <<confirmedPrefix, d3Alarm, mode, paramStore, paramProvenance, approved,
                  lastAcceptedSequence>>
  BY <1>1 DEF satVars, twinVars
<1>3. Reports(Snapshot(now), lastAcceptedSequence)
  <2>1. \A i \in 1..lastAcceptedSequence : i \in DOMAIN approved
    BY <1>1
  <2> QED BY <2>1 DEF Snapshot, Reports, Follows, FollowInv, GroundOwn
<1>4. lastAcceptedSequence \in confirmedPrefix..lastAcceptedSequence
  BY <1>1 DEF Follows
<1>5. \A i \in DOMAIN downIn' : IF i \in DOMAIN downIn THEN downIn'[i] = downIn[i]
                                ELSE downIn'[i] = Snapshot(now) /\ i = Len(downIn) + 1
  BY <1>1
<1>6. AllReport(downIn')
  BY <1>3, <1>4, <1>5 DEF Follows, AllReport
<1>7. \A tm : \A m : Reports(tm, m)' <=> Reports(tm, m)
  BY <1>2 DEF Reports, StoreAfter
<1>8. AllReport(groundOut)' /\ AllReport(downIn)'
  BY <1>1, <1>2, <1>6, <1>7 DEF Follows, AllReport
<1>9. PacketsInOrder'
  <2>1. Snapshot(now)' = Snapshot(now)
    BY <1>1 DEF Snapshot, satVars
  <2>2. DOMAIN downIn' = 1..(Len(downIn) + 1) /\ DOMAIN downIn = 1..Len(downIn)
          /\ Len(downIn) \in Nat
    BY <1>1
  <2>3. Older(Snapshot(now), Snapshot(now))
    BY <1>1 DEF Older, Telemetry
  <2>4. \A i, j \in DOMAIN downIn' : i < j => Older(downIn'[i], downIn'[j])
    BY <1>5, <2>2 DEF Follows, PacketsInOrder
  <2>5. \A i \in DOMAIN groundOut, j \in DOMAIN downIn' : Older(groundOut[i], downIn'[j])
    BY <1>5 DEF Follows, PacketsInOrder
  <2>6. \A i \in DOMAIN downIn' : Older(downIn'[i], Snapshot(now))
    BY <1>5, <2>3 DEF Follows, PacketsInOrder
  <2> QED BY <1>1, <2>1, <2>4, <2>5, <2>6 DEF Follows, PacketsInOrder
<1> QED BY <1>2, <1>8, <1>9 DEF Follows, IsNewest, StoreAfter, Alarmed

\* A packet on the link is forwarded or lost, and overtakes none.
LEMMA MoveFollows ==
  ASSUME FollowInv, Follows, Downlink
  PROVE  Follows'
<1>1. /\ downIn # << >> /\ downIn' = Tail(downIn)
      /\ groundOut' = groundOut \/ groundOut' = Append(groundOut, Head(downIn))
      /\ UNCHANGED <<now, satVars, twinVars>>
      /\ groundOut \in Seq(Telemetry) /\ downIn \in Seq(Telemetry)
  BY DEF FollowInv, TypeOK, LinkTypeOK, Downlink, ForwardDown
<1>2. UNCHANGED <<confirmedPrefix, d3Alarm, mode, paramStore, paramProvenance, approved,
                  lastAcceptedSequence>>
  BY <1>1 DEF satVars, twinVars
<1>3. /\ DOMAIN downIn' = 1..(Len(downIn) - 1) /\ DOMAIN downIn = 1..Len(downIn)
      /\ Len(downIn) \in Nat /\ 1 \in DOMAIN downIn /\ Head(downIn) = downIn[1]
      /\ downIn[1] \in Telemetry
      /\ \A i \in DOMAIN downIn' : downIn'[i] = downIn[i + 1] /\ i + 1 \in DOMAIN downIn
                                   /\ 1 < i + 1
  BY <1>1
<1>4. \A i \in DOMAIN groundOut' : IF i \in DOMAIN groundOut THEN groundOut'[i] = groundOut[i]
                                   ELSE groundOut'[i] = downIn[1] /\ i = Len(groundOut) + 1
  <2>1. CASE groundOut' = groundOut
    BY <2>1
  <2>2. CASE groundOut' = Append(groundOut, downIn[1])
    BY <1>1, <1>3, <2>2
  <2> QED BY <1>1, <1>3, <2>1, <2>2
<1>5. DOMAIN groundOut' \subseteq 1..(Len(groundOut) + 1) /\ DOMAIN groundOut = 1..Len(groundOut)
        /\ Len(groundOut) \in Nat
  <2>1. CASE groundOut' = groundOut
    BY <1>1, <2>1
  <2>2. CASE groundOut' = Append(groundOut, downIn[1])
    BY <1>1, <1>3, <2>2
  <2> QED BY <1>1, <1>3, <2>1, <2>2
<1>6. \A tm : \A m : Reports(tm, m)' <=> Reports(tm, m)
  BY <1>2 DEF Reports, StoreAfter
<1>7. AllReport(groundOut)' /\ AllReport(downIn)'
  <2>1. AllReport(groundOut') /\ AllReport(downIn')
    BY <1>3, <1>4 DEF Follows, AllReport
  <2> QED BY <1>2, <1>6, <2>1 DEF AllReport
<1>8. PacketsInOrder'
  <2>1. Snapshot(now)' = Snapshot(now)
    BY <1>1 DEF Snapshot, satVars
  <2>2. \A i, j \in DOMAIN downIn' : i < j => Older(downIn'[i], downIn'[j])
    BY <1>3 DEF Follows, PacketsInOrder
  <2>3. \A i, j \in DOMAIN groundOut' : i < j => Older(groundOut'[i], groundOut'[j])
    BY <1>3, <1>4, <1>5 DEF Follows, PacketsInOrder
  <2>4. \A i \in DOMAIN groundOut', j \in DOMAIN downIn' : Older(groundOut'[i], downIn'[j])
    BY <1>3, <1>4 DEF Follows, PacketsInOrder
  <2>5. /\ \A i \in DOMAIN groundOut' : Older(groundOut'[i], Snapshot(now))
        /\ \A i \in DOMAIN downIn' : Older(downIn'[i], Snapshot(now))
    BY <1>3, <1>4 DEF Follows, PacketsInOrder
  <2> QED BY <2>1, <2>2, <2>3, <2>4, <2>5 DEF PacketsInOrder
<1> QED BY <1>2, <1>7, <1>8 DEF Follows, IsNewest, StoreAfter, Alarmed

\* The twin, shown the oldest packet, pins to the prefix that packet reports or
\* to an earlier one, which is at or before those of the packets behind it.
LEMMA ObserveFollows ==
  ASSUME FollowInv, Traceable, Follows,
         groundOut # << >>, groundOut' = Tail(groundOut),
         UNCHANGED <<now, downIn, satVars, sequence>>,
         NEW count, NEW tm, tm = [Head(groundOut) EXCEPT !.rejectedCmdCount = count], Observe(tm)
  PROVE  Follows'
<1> DEFINE head == groundOut[1]
<1>1. /\ groundOut \in Seq(Telemetry) /\ downIn \in Seq(Telemetry)
      /\ approved \in Seq(Body) /\ confirmedPrefix \in Nat
      /\ lastAcceptedSequence \in 0..Len(approved) /\ GroundOwn
  BY NewestWasSent DEF FollowInv, TypeOK, LinkTypeOK, TwinTypeOK
<1>2. /\ DOMAIN groundOut' = 1..(Len(groundOut) - 1) /\ DOMAIN groundOut = 1..Len(groundOut)
      /\ Len(groundOut) \in Nat /\ 1 \in DOMAIN groundOut /\ Head(groundOut) = head
      /\ head \in Telemetry
      /\ \A i \in DOMAIN groundOut' : groundOut'[i] = groundOut[i + 1]
                                      /\ i + 1 \in DOMAIN groundOut /\ 1 < i + 1
  BY <1>1
<1>3. PICK n \in confirmedPrefix..lastAcceptedSequence : Reports(head, n)
  BY <1>2 DEF Follows, AllReport
<1>4. Reports(tm, n)
  BY <1>2, <1>3 DEF Reports, Telemetry
<1>5. n \in confirmedPrefix..Len(approved) /\ n \in Nat
  BY <1>1, <1>3
<1>6. Matches(tm) # {} /\ Earliest(Matches(tm)) \in confirmedPrefix..n
  BY <1>1, <1>4, <1>5, ReportMatches
<1>7. /\ confirmedPrefix' = Earliest(Matches(tm)) /\ UNCHANGED approved
      /\ ~Alarmed("logical")'
  BY <1>6 DEF Observe, ObserveTelemetry, AlarmRows, Alarmed
<1>8. UNCHANGED <<mode, paramStore, paramProvenance, lastAcceptedSequence, approved>>
  BY <1>7 DEF satVars
<1>9. confirmedPrefix' \in confirmedPrefix..n /\ confirmedPrefix' \in Nat
  BY <1>1, <1>6, <1>7
<1>10. ASSUME NEW later \in Telemetry, Older(head, later),
              NEW m \in confirmedPrefix..lastAcceptedSequence, Reports(later, m)
       PROVE  m \in confirmedPrefix'..lastAcceptedSequence
  <2>1. m \in Nat /\ confirmedPrefix \in Nat /\ lastAcceptedSequence \in Nat
    BY <1>1
  <2>2. n <= m
    <3>1. CASE n = 0
      BY <2>1, <3>1
    <3>2. CASE n # 0
      <4>1. PICK k \in Key : head.paramWriteProvenance[k] = n
        BY <1>3, <3>2 DEF Reports, IsNewest
      <4>2. n <= later.paramWriteProvenance[k] /\ later.paramWriteProvenance[k] <= m
        BY <1>10, <4>1 DEF Older, Reports, IsNewest
      <4>3. later.paramWriteProvenance[k] \in Int
        BY <4>1 DEF Telemetry
      <4> QED BY <1>5, <2>1, <4>2, <4>3
    <3> QED BY <3>1, <3>2
  <2> QED BY <1>5, <1>9, <2>1, <2>2
<1>11. \A p : \A m : Reports(p, m)' <=> Reports(p, m)
  BY <1>8 DEF Reports, StoreAfter
<1>12. AllReport(groundOut)'
  <2> SUFFICES ASSUME NEW i \in DOMAIN groundOut'
               PROVE  \E m \in confirmedPrefix'..lastAcceptedSequence : Reports(groundOut'[i], m)
    BY <1>8, <1>11 DEF AllReport
  <2>1. groundOut'[i] \in Telemetry /\ Older(head, groundOut'[i])
    BY <1>1, <1>2 DEF Follows, PacketsInOrder
  <2>2. PICK m \in confirmedPrefix..lastAcceptedSequence : Reports(groundOut'[i], m)
    BY <1>2 DEF Follows, AllReport
  <2> QED BY <1>10, <2>1, <2>2
<1>13. AllReport(downIn)'
  <2> SUFFICES ASSUME NEW i \in DOMAIN downIn
               PROVE  \E m \in confirmedPrefix'..lastAcceptedSequence : Reports(downIn[i], m)
    BY <1>8, <1>11 DEF AllReport
  <2>1. downIn[i] \in Telemetry /\ Older(head, downIn[i])
    BY <1>1, <1>2 DEF Follows, PacketsInOrder
  <2>2. PICK m \in confirmedPrefix..lastAcceptedSequence : Reports(downIn[i], m)
    BY DEF Follows, AllReport
  <2> QED BY <1>10, <2>1, <2>2
<1>14. PacketsInOrder'
  <2>1. Snapshot(now)' = Snapshot(now)
    BY DEF Snapshot, satVars
  <2> QED BY <1>2, <2>1 DEF Follows, PacketsInOrder
<1>15. confirmedPrefix' <= lastAcceptedSequence'
  BY <1>1, <1>3, <1>5, <1>8, <1>9
<1> QED BY <1>7, <1>8, <1>12, <1>13, <1>14, <1>15 DEF Follows, IsNewest, StoreAfter

-----------------------------------------------------------------------------
\* Once no prefix explains the satellite none will again; as long as one does,
\* the twin follows.
LEMMA FollowsStep ==
  ASSUME CommandAuthEnabled => SignCommands, FollowInv, Traceable, [Next]_vars, PrefixExplains'
  PROVE  Follows'
<1>1. TypeOK /\ (PrefixExplains => Follows)
  BY DEF FollowInv
<1>2. CASE GenerateTelecommand \/ ProposeConfigurationUpdate
  <2>1. PICK b \in {GainCommand(now), UpdateCommand(now)} : Release(b)
    BY <1>2 DEF GenerateTelecommand, ProposeConfigurationUpdate
  <2>2. b \in Body
    BY <1>1, OwnCommands
  <2> QED BY <1>1, <2>1, <2>2, ReleaseFollows
<1> DEFINE Rest == <<approved, mode, paramStore, paramProvenance, accepted,
                     lastAcceptedSequence, downIn, groundOut, confirmedPrefix, d3Alarm>>
<1>3. CASE UNCHANGED Rest
  <2>1. PrefixExplains
    BY <1>3 DEF PrefixExplains, PassedOver
  <2>2. \A tm : \A m : Reports(tm, m)' <=> Reports(tm, m)
    BY <1>3 DEF Reports, StoreAfter
  <2>3. AllReport(groundOut)' /\ AllReport(downIn)'
    BY <1>1, <1>3, <2>1, <2>2 DEF Follows, AllReport
  <2>4. PacketsInOrder'
    BY <1>1, <1>3, <2>1 DEF Follows, PacketsInOrder, Older, Snapshot
  <2> QED BY <1>1, <1>3, <2>1, <2>3, <2>4 DEF Follows, IsNewest, Alarmed, StoreAfter
<1>4. CASE ReceiveTelecommand
  <2>1. UNCHANGED <<now, downIn, groundOut, twinVars>>
    BY <1>4 DEF ReceiveTelecommand
  <2>2. CASE \E reason : Reject(reason)
    BY <1>3, <2>1, <2>2 DEF Reject, twinVars
  <2>3. ASSUME NEW n \in DOMAIN approved, n > lastAcceptedSequence, approved[n].seq = n,
               Accept(approved[n])
        PROVE  Follows'
    BY <1>1, <2>1, <2>3, AcceptFollows
  <2> QED BY <1>4, <2>2, <2>3, TracedReceive
<1>5. CASE ~ReceiveTelecommand /\ ~GenerateTelecommand /\ ~ProposeConfigurationUpdate
  <2>1. UNCHANGED satVars
    BY <1>5, SatelliteAlone
  <2>2. UNCHANGED approved
    BY <1>5 DEF Next, vars, Tick, Access, Uplink, Downlink, GenerateTelemetry, ReceiveTelemetry,
                ReceiveDelayedTelemetry, RelayEpisode, RelaySends, Observe, ObserveTelemetry,
                twinVars
  <2>3. PrefixExplains
    BY <2>1, <2>2 DEF PrefixExplains, PassedOver, satVars
  <2>4. CASE UNCHANGED <<downIn, groundOut, confirmedPrefix, expectedRejectedCount, d3Alarm>>
    BY <1>3, <2>1, <2>2, <2>4 DEF satVars
  <2>5. CASE GenerateTelemetry
    BY <1>1, <2>3, <2>5, WriteFollows
  <2>6. CASE Downlink
    BY <1>1, <2>3, <2>6, MoveFollows
  <2>7. ASSUME groundOut # << >>, groundOut' = Tail(groundOut),
               UNCHANGED <<now, downIn, satVars, sequence>>,
               NEW count, NEW tm, tm = [Head(groundOut) EXCEPT !.rejectedCmdCount = count],
               Observe(tm)
        PROVE  Follows'
    BY <1>1, <2>3, <2>7, ObserveFollows
  <2> QED BY <2>4, <2>5, <2>6, <2>7, TracedPackets
<1> QED BY <1>2, <1>4, <1>5

LEMMA FollowStep ==
  ASSUME CommandAuthEnabled => SignCommands, FollowInv, [Next]_vars
  PROVE  FollowInv'
<1>1. TypeOK /\ TypeOK'
  BY NextTyped DEF FollowInv
<1>2. GroundOwn' /\ scenario' = scenario
  BY <1>1, GroundOwnStep, WhoSends DEF FollowInv
<1>3. (CommandAuthEnabled /\ scenario # "A2v" => OrderInv)'
  BY <1>2, OrderStep DEF FollowInv
<1>4. (scenario # "A4" => delayedDown = << >>)'
  BY <1>2, HeldStep DEF FollowInv
<1>5. (scenario = "B0" => Quiet)'
  BY <1>2, UplinkQuiet, CountsQuiet DEF Quiet
<1>6. (Traceable => SatelliteOwn)'
  BY <1>2, SatelliteOwnStep DEF Traceable
<1>7. (Traceable /\ PrefixExplains => Follows)'
  BY <1>2, FollowsStep DEF Traceable
<1> QED BY <1>1, <1>2, <1>3, <1>4, <1>5, <1>6, <1>7 DEF FollowInv

\* For every number of commands, keys, values and frames in flight, with the link
\* losing what it will, the relay repeating, altering and inventing commands that
\* D1 turns away and hiding the count: as long as a prefix explains the satellite
\* the twin's confirmed prefix ends at or before the newest command the satellite
\* has accepted (Twin.cc, observeTelemetry).
THEOREM TwinStaysBehind ==
  ASSUME CommandAuthEnabled => SignCommands
  PROVE  Spec => []NeverAheadOfSatellite
<1>1. Init => FollowInv
  BY FollowInit
<1>2. FollowInv /\ [Next]_vars => FollowInv'
  BY FollowStep
<1>3. FollowInv => NeverAheadOfSatellite
  BY DEF FollowInv, Follows, NeverAheadOfSatellite
<1> QED BY <1>1, <1>2, <1>3, PTL DEF Spec

\* Under the same assumption the twin raises no alarm of its own: no security alarm
\* without interference, no logical one as long as a prefix explains the satellite.
THEOREM NoAlarmOfItsOwn ==
  ASSUME CommandAuthEnabled => SignCommands
  PROVE  Spec => []NoPhantomAlarm
<1>1. Init => FollowInv
  BY FollowInit
<1>2. FollowInv /\ [Next]_vars => FollowInv'
  BY FollowStep
<1>3. FollowInv => NoPhantomAlarm
  BY DEF FollowInv, Follows, Quiet, NoPhantomAlarm
<1> QED BY <1>1, <1>2, <1>3, PTL DEF Spec

-----------------------------------------------------------------------------
(* The binding of the alarms, with D1 on or off.  The name of a writer     *)
(* travels far: from the command's frame into the satellite's provenance,  *)
(* from there into a packet that the link or the relay may hold back, and  *)
(* from the packet into the alarm.  LineageInv follows it.  The forged     *)
(* numbers start above every number the ground uses, so that a command     *)
(* unknown to the twin when it is named is never sent later.               *)

USE PacketsAssumption, RelayAssumption, GroundAssumption

AcceptedSeqs == {accepted[i].seq : i \in DOMAIN accepted}
Past == [seqs |-> AcceptedSeqs, count |-> rejectedCmdCount]

\* A number the ground has used, or one the relay may invent.
Numbers(n) == 1..n \cup {s \in Int : s > ForgedBase}

\* A frame carries such a number, and one whose tag verifies the ground's own.
Known(tc, n) == /\ tc.body.seq \in Numbers(n)
                /\ tc.tag = tc.body => tc.body.seq \in 1..n

AllKnown(frames, n) == \A i \in DOMAIN frames : Known(frames[i], n)

\* A packet tells of the past: it names no writer or one that was accepted, and a
\* count that was reached.
Written(tm, past) ==
  /\ tm.rejectedCmdCount <= past.count
  /\ tm.modeWriteSeq >= 0 => tm.modeWriteSeq \in past.seqs
  /\ \A k \in Key :
       tm.paramWriteProvenance[k] >= 0 => tm.paramWriteProvenance[k] \in past.seqs

AllWritten(packets, past) == \A i \in DOMAIN packets : Written(packets[i], past)

Sent ==
  /\ sequence = Len(approved) /\ sequence <= MaxCommands
  /\ \A i \in DOMAIN approved : approved[i].seq = i

FramesKnown ==
  /\ AllKnown(upIn, sequence) /\ AllKnown(satOut, sequence)
  /\ AllKnown(captured, sequence) /\ AllKnown(delayedUp, sequence)

PacketsWritten ==
  /\ AllWritten(downIn, Past) /\ AllWritten(groundOut, Past)
  /\ AllWritten(delayedDown, Past) /\ AllWritten(lastSeen, Past)

AcceptedKnown ==
  /\ AcceptedSeqs \subseteq Numbers(sequence)
  /\ CommandAuthEnabled => AcceptedSeqs \subseteq 1..sequence

\* What an alarm names stays unsent.
Foreign(s) == s > ForgedBase /\ s \in AcceptedSeqs /\ ~CommandAuthEnabled

AlarmsForeign == \A row \in d3Alarm : row.link # NullLink => Foreign(row.link)

TwinTells == AlarmsForeign /\ RejectionsCountedOnce

LineageInv ==
  /\ TypeOK
  /\ Sent
  /\ forgedId >= ForgedBase
  /\ FramesKnown
  /\ AcceptedKnown
  /\ Written(Snapshot(now), Past)
  /\ PacketsWritten
  /\ TwinTells
  /\ frozenRejectedCount <= rejectedCmdCount

-----------------------------------------------------------------------------
LEMMA LineageIsForeign ==
  ASSUME LineageInv, MaxCommands <= ForgedBase
  PROVE  LinkIsForeign
<1> SUFFICES ASSUME NEW row \in d3Alarm, row.link # NullLink
             PROVE  /\ ~WasApproved(row.link) /\ row.link \in AcceptedSeqs
                    /\ ~CommandAuthEnabled
  BY DEF LinkIsForeign, AcceptedSeqs
<1>1. Foreign(row.link)
  BY DEF LineageInv, TwinTells, AlarmsForeign
<1>2. row.link \in Int
  BY DEF LineageInv, TypeOK, TwinTypeOK, AlarmRow
<1>3. approved \in Seq(Body) /\ Len(approved) <= ForgedBase
  BY DEF LineageInv, Sent, TypeOK, TwinTypeOK
<1>4. ~WasApproved(row.link)
  BY <1>1, <1>2, <1>3 DEF LineageInv, Sent, Foreign, WasApproved
<1> QED BY <1>1, <1>4 DEF Foreign

LEMMA LineageInit == Init => LineageInv
<1> SUFFICES ASSUME Init PROVE LineageInv
  OBVIOUS
<1>1. TypeOK
  BY InitTyped
<1>2. Sent /\ AlarmsForeign
  BY DEF Init, GroundInit, TwinInit, Sent, AlarmsForeign
<1>3. forgedId >= ForgedBase /\ FramesKnown /\ PacketsWritten
  BY DEF Init, LinkInit, RelayInit, FramesKnown, AllKnown, PacketsWritten, AllWritten
<1>4. AcceptedKnown /\ Written(Snapshot(now), Past)
  BY DEF Init, CubeSatInit, AcceptedKnown, AcceptedSeqs, Past, Written, Snapshot, NO_WRITER
<1>5. RejectionsCountedOnce /\ frozenRejectedCount <= rejectedCmdCount
  BY DEF Init, CubeSatInit, TwinInit, RelayInit, RejectionsCountedOnce
<1> QED BY <1>1, <1>2, <1>3, <1>4, <1>5 DEF LineageInv, TwinTells

\* A queue of frames stays known, and one of packets written, under everything
\* the link and the relay do to a queue.
LEMMA KnownQueue ==
  ASSUME NEW n, NEW frames \in Seq(Telecommand), AllKnown(frames, n)
  PROVE  /\ \A tc \in Telecommand : Known(tc, n) => AllKnown(Append(frames, tc), n)
         /\ frames # << >> => AllKnown(Tail(frames), n) /\ Known(Head(frames), n)
         /\ \A i \in DOMAIN frames : AllKnown(RemoveAt(frames, i), n)
<1> HIDE DEF Known
<1> QED BY QueueElements DEF AllKnown

LEMMA WrittenQueue ==
  ASSUME NEW past, NEW packets \in Seq(Telemetry), AllWritten(packets, past)
  PROVE  /\ \A tm \in Telemetry : Written(tm, past) => AllWritten(Append(packets, tm), past)
         /\ packets # << >> => AllWritten(Tail(packets), past) /\ Written(Head(packets), past)
         /\ \A i \in DOMAIN packets : AllWritten(RemoveAt(packets, i), past)
BY QueueElements DEF AllWritten

\* An observation of a packet that tells of the past names a foreign command or
\* none, and counts the rejections it reports.
LEMMA ObserveForeign ==
  ASSUME LineageInv, NEW tm \in Telemetry, Written(tm, Past), Observe(tm),
         UNCHANGED satVars
  PROVE  TwinTells' /\ UNCHANGED approved
<1>1. PICK breach \in PhysicalVerdicts : ObserveTelemetry(tm, breach)
  BY DEF Observe
<1>2. d3Alarm' = AlarmRows(tm, breach) /\ UNCHANGED approved
  BY <1>1 DEF ObserveTelemetry
<1>3. ASSUME NEW s \in Int, s >= 0, ~WasApproved(s), s \in AcceptedSeqs
      PROVE  Foreign(s)
  <2>1. s \notin 1..sequence
    BY <1>3 DEF LineageInv, Sent, WasApproved, TypeOK, TwinTypeOK
  <2> QED BY <1>3, <2>1 DEF LineageInv, AcceptedKnown, Numbers, Foreign
<1> DEFINE provenance == tm.paramWriteProvenance
           writers == {i \in DOMAIN KeySeq : /\ provenance[KeySeq[i]] >= 0
                                             /\ ~WasApproved(provenance[KeySeq[i]])}
           link == provenance[KeySeq[Earliest(writers)]]
<1>4. tm.modeWriteSeq \in Int /\ \A i \in DOMAIN KeySeq : /\ KeySeq[i] \in Key
                                                         /\ provenance[KeySeq[i]] \in Int
  BY DEF Telemetry, Key
<1>5. ASSUME writers # {} PROVE Foreign(link)
  <2>1. Earliest(writers) \in writers
    <3>1. writers \in SUBSET Nat
      OBVIOUS
    <3> QED BY <1>5, <3>1, EarliestIsLeast
  <2>2. link \in Int /\ link >= 0 /\ ~WasApproved(link) /\ link \in AcceptedSeqs
    BY <1>4, <2>1 DEF Written, Past
  <2> QED BY <1>3, <2>2
<1>6. AlarmLink(tm) # NullLink => Foreign(AlarmLink(tm))
  <2>1. tm.modeWriteSeq >= 0 /\ ~WasApproved(tm.modeWriteSeq) => Foreign(tm.modeWriteSeq)
    BY <1>3, <1>4 DEF Written, Past
  <2>2. AlarmLink(tm) \in {NullLink} \/ Foreign(AlarmLink(tm))
    <3> HIDE DEF link
    <3>1. CASE ~ModeExplained(tm) /\ tm.modeWriteSeq >= 0 /\ ~WasApproved(tm.modeWriteSeq)
      BY <2>1, <3>1 DEF AlarmLink
    <3>2. CASE ~(~ModeExplained(tm) /\ tm.modeWriteSeq >= 0 /\ ~WasApproved(tm.modeWriteSeq))
      <4>1. AlarmLink(tm) = IF ~DigestExplained(tm) /\ writers # {} THEN link ELSE NullLink
        BY <3>2 DEF AlarmLink, link
      <4> QED BY <1>5, <4>1
    <3> QED BY <3>1, <3>2
  <2> QED BY <2>2
<1>7. \A row \in d3Alarm' : row.link # NullLink => Foreign(row.link)
  BY <1>2, <1>6 DEF AlarmRows
<1>8. UNCHANGED <<accepted, rejectedCmdCount>>
  BY DEF satVars
<1>9. RejectionsCountedOnce'
  <2>1. tm.rejectedCmdCount \in Nat /\ tm.rejectedCmdCount <= rejectedCmdCount
    BY DEF Telemetry, Written, Past
  <2>2. /\ unexplainedRejections' = unexplainedRejections + (tm.rejectedCmdCount - expectedRejectedCount)
        /\ expectedRejectedCount' = tm.rejectedCmdCount
    BY <1>1 DEF ObserveTelemetry
  <2>3. unexplainedRejections = expectedRejectedCount /\ expectedRejectedCount \in Nat
    BY DEF LineageInv, TwinTells, RejectionsCountedOnce, TypeOK, TwinTypeOK
  <2> QED BY <1>8, <2>1, <2>2, <2>3 DEF RejectionsCountedOnce
<1> QED BY <1>2, <1>7, <1>8, <1>9 DEF TwinTells, AlarmsForeign, Foreign, AcceptedSeqs

\* A release lengthens the list of the ground; its frame, in every form the relay
\* can give it, carries a number of that list.
LEMMA ReleaseLineage ==
  ASSUME LineageInv, NEW b \in Body, b.seq = sequence + 1, Release(b)
  PROVE  LineageInv'
<1>1. TypeOK'
  BY ReleaseTyped DEF LineageInv, TwinTells
<1>2. /\ sequence \in Nat /\ approved \in Seq(Body) /\ approved' = Append(approved, b)
      /\ sequence < MaxCommands /\ sequence' = sequence + 1
      /\ UNCHANGED <<satVars, d3Alarm, now, unexplainedRejections, expectedRejectedCount>>
  BY DEF LineageInv, TypeOK, TwinTypeOK, Release, NoteApprovedCommand
<1>3. Sent'
  BY <1>2 DEF LineageInv, Sent
<1>4. UNCHANGED <<accepted, modeWriteSeq, paramProvenance, rejectedCmdCount, forgedId,
                  frozenRejectedCount, downIn, groundOut, delayedDown, lastSeen>>
  BY <1>2 DEF satVars, Release, UplinkPass, UplinkAlter, UplinkResign, ToLink, linkVars,
              memory, delayed
<1>5. Numbers(sequence) \subseteq Numbers(sequence') /\ 1..sequence \subseteq 1..sequence'
  BY <1>2 DEF Numbers
<1>6. AcceptedKnown' /\ PacketsWritten' /\ AlarmsForeign'
        /\ Written(Snapshot(now), Past)'
  <2>1. AcceptedSeqs' = AcceptedSeqs /\ Past' = Past
    BY <1>4 DEF AcceptedSeqs, Past
  <2>2. AcceptedKnown'
    BY <1>5, <2>1 DEF LineageInv, AcceptedKnown
  <2>3. PacketsWritten'
    BY <1>4, <2>1 DEF LineageInv, PacketsWritten, AllWritten, Written
  <2>4. AlarmsForeign'
    BY <1>2, <2>1 DEF LineageInv, TwinTells, AlarmsForeign, Foreign
  <2>5. Written(Snapshot(now), Past)'
    BY <1>4, <2>1 DEF LineageInv, Written, Snapshot
  <2> QED BY <2>2, <2>3, <2>4, <2>5
<1>7. ASSUME NEW frames, AllKnown(frames, sequence) PROVE AllKnown(frames, sequence')
  BY <1>5, <1>7 DEF AllKnown, Known
<1>8. \A tc \in {Frame(b), Altered(Frame(b)), Resigned(Frame(b))} :
        tc \in Telecommand /\ Known(tc, sequence')
  <2>1. Frame(b).body = b /\ b.seq = sequence'
    BY <1>2 DEF Frame, Signed, Unsigned
  <2>2. \A tc \in {Frame(b), Altered(Frame(b)), Resigned(Frame(b))} : tc.body.seq = sequence'
    BY <2>1 DEF Altered, Resigned, Signed, Body, Frame, Unsigned
  <2>3. sequence' \in 1..sequence'
    BY <1>2
  <2> QED BY <2>2, <2>3, FramesTyped DEF Known, Numbers
<1>9. upIn \in Seq(Telecommand) /\ delayedUp \in Seq(Telecommand)
  BY DEF LineageInv, TypeOK, RelayTypeOK, LinkTypeOK
<1>10. FramesKnown'
  <2>1. \E tc \in {Frame(b), Altered(Frame(b)), Resigned(Frame(b))} :
          /\ upIn' \in {upIn, Append(upIn, tc)} /\ delayedUp' \in {delayedUp, Append(delayedUp, tc)}
          /\ captured' \in {captured, <<tc>>} /\ UNCHANGED satOut
    BY DEF Release, UplinkPass, UplinkAlter, UplinkResign, ToLink, linkVars, memory, delayed
  <2>2. PICK tc \in {Frame(b), Altered(Frame(b)), Resigned(Frame(b))} :
          /\ upIn' \in {upIn, Append(upIn, tc)} /\ delayedUp' \in {delayedUp, Append(delayedUp, tc)}
          /\ captured' \in {captured, <<tc>>} /\ UNCHANGED satOut
    BY <2>1
  <2>3. tc \in Telecommand /\ Known(tc, sequence')
    BY <1>8
  <2>4. AllKnown(<<tc>>, sequence')
    BY <2>3 DEF AllKnown
  <2>5. AllKnown(upIn, sequence') /\ AllKnown(satOut, sequence')
          /\ AllKnown(captured, sequence') /\ AllKnown(delayedUp, sequence')
    BY <1>7 DEF LineageInv, FramesKnown
  <2>6. AllKnown(Append(upIn, tc), sequence') /\ AllKnown(Append(delayedUp, tc), sequence')
    BY <1>9, <2>3, <2>5, KnownQueue
  <2> QED BY <2>2, <2>4, <2>5, <2>6 DEF FramesKnown
<1>11. forgedId' >= ForgedBase /\ RejectionsCountedOnce'
        /\ frozenRejectedCount' <= rejectedCmdCount'
  BY <1>2, <1>4 DEF LineageInv, TwinTells, RejectionsCountedOnce
<1> QED BY <1>1, <1>3, <1>6, <1>10, <1>11 DEF LineageInv, TwinTells

\* The satellite notes the number of what it accepts, and only that.
LEMMA ReceiveLineage ==
  ASSUME LineageInv, ReceiveTelecommand
  PROVE  LineageInv'
<1> DEFINE tc == Head(satOut)
<1>1. TypeOK'
  BY NextTyped DEF LineageInv, Next
<1>2. /\ satOut \in Seq(Telecommand) /\ satOut # << >> /\ satOut' = Tail(satOut)
      /\ HandleTelecommand(tc) /\ tc \in Telecommand
      /\ accepted \in Seq(Body) /\ rejectedCmdCount \in Nat
      /\ UNCHANGED <<now, sequence, upIn, downIn, groundOut, approved, d3Alarm, forgedId,
                     captured, lastSeen, delayedUp, delayedDown, frozenRejectedCount,
                     expectedRejectedCount, unexplainedRejections>>
  BY DEF LineageInv, TypeOK, CubeSatTypeOK, LinkTypeOK, ReceiveTelecommand, twinVars,
         relayVars, memory, delayed
<1>3. Known(tc, sequence) /\ AllKnown(satOut', sequence)
  BY <1>2, KnownQueue DEF LineageInv, FramesKnown
<1>4. Sent' /\ FramesKnown' /\ forgedId' >= ForgedBase
  BY <1>2, <1>3 DEF LineageInv, Sent, FramesKnown
<1>5. AcceptedSeqs \subseteq AcceptedSeqs' /\ rejectedCmdCount <= rejectedCmdCount'
        /\ AcceptedKnown' /\ Written(Snapshot(now), Past)'
  <2>1. CASE FailedCheck(tc) = "none" /\ Accept(tc.body)
    <3>1. tc.body \in Body /\ accepted' = Append(accepted, tc.body)
      BY <1>2, <2>1 DEF Accept, Telecommand
    <3>2. AcceptedSeqs' = AcceptedSeqs \cup {tc.body.seq}
      <4>1. /\ \A i \in DOMAIN accepted : i \in DOMAIN accepted' /\ accepted'[i] = accepted[i]
            /\ \A i \in DOMAIN accepted' :
                 i \in DOMAIN accepted \/ (i = Len(accepted) + 1 /\ accepted'[i] = tc.body)
            /\ Len(accepted) + 1 \in DOMAIN accepted'
            /\ accepted'[Len(accepted) + 1] = tc.body
        BY <1>2, <3>1
      <4>2. AcceptedSeqs' = {accepted'[i].seq : i \in DOMAIN accepted'}
        BY DEF AcceptedSeqs
      <4> HIDE DEF tc
      <4> QED BY <4>1, <4>2 DEF AcceptedSeqs
    <3>3. CommandAuthEnabled => tc.body.seq \in 1..sequence
      BY <1>3, <2>1 DEF FailedCheck, Known
    <3>4. AcceptedKnown'
      BY <1>2, <1>3, <3>2, <3>3 DEF LineageInv, AcceptedKnown, Known
    <3>5. modeWriteSeq' \in {modeWriteSeq, tc.body.seq}
            /\ \A k \in Key : paramProvenance'[k] \in {paramProvenance[k], tc.body.seq}
      BY <2>1 DEF Accept, LineageInv, TypeOK, CubeSatTypeOK
    <3>6. rejectedCmdCount' = rejectedCmdCount
      BY <2>1 DEF Accept
    <3>7. Written(Snapshot(now), Past)'
      BY <1>2, <3>2, <3>5, <3>6 DEF LineageInv, Written, Past, Snapshot
    <3> QED BY <1>2, <3>2, <3>4, <3>6, <3>7
  <2>2. CASE Reject(FailedCheck(tc))
    <3>1. UNCHANGED <<accepted, modeWriteSeq, paramProvenance>>
            /\ rejectedCmdCount' = rejectedCmdCount + 1
      BY <2>2 DEF Reject
    <3>2. AcceptedSeqs' = AcceptedSeqs
      BY <3>1 DEF AcceptedSeqs
    <3>3. Written(Snapshot(now), Past)'
      BY <1>2, <3>1, <3>2 DEF LineageInv, Written, Past, Snapshot
    <3> QED BY <1>2, <3>1, <3>2, <3>3 DEF LineageInv, AcceptedKnown
  <2> QED BY <1>2, <2>1, <2>2 DEF HandleTelecommand
<1>6. PacketsWritten'
  <2>1. ASSUME NEW packets \in Seq(Telemetry), AllWritten(packets, Past)
        PROVE  AllWritten(packets, Past')
    <3> SUFFICES ASSUME NEW i \in DOMAIN packets PROVE Written(packets[i], Past')
      BY DEF AllWritten
    <3>1. Written(packets[i], Past)
      BY <2>1 DEF AllWritten
    <3>2. packets[i].rejectedCmdCount \in Nat
      <4>1. packets[i] \in Telemetry
        BY <2>1
      <4> QED BY <4>1 DEF Telemetry
    <3>3. rejectedCmdCount' \in Nat
      BY <1>1 DEF TypeOK, CubeSatTypeOK
    <3> QED BY <1>2, <1>5, <3>1, <3>2, <3>3 DEF Written, Past
  <2>2. /\ downIn \in Seq(Telemetry) /\ groundOut \in Seq(Telemetry)
        /\ lastSeen \in Seq(Telemetry) /\ delayedDown \in Seq(Telemetry)
    BY DEF LineageInv, TypeOK, LinkTypeOK, RelayTypeOK
  <2> QED BY <1>2, <2>1, <2>2 DEF LineageInv, PacketsWritten
<1>7. AlarmsForeign'
  BY <1>2, <1>5 DEF LineageInv, TwinTells, AlarmsForeign, Foreign
<1>8. RejectionsCountedOnce' /\ frozenRejectedCount' <= rejectedCmdCount'
  <2>1. frozenRejectedCount \in Int /\ expectedRejectedCount \in Nat /\ rejectedCmdCount' \in Nat
    BY <1>1 DEF LineageInv, TypeOK, TwinTypeOK, RelayTypeOK, CubeSatTypeOK
  <2> QED BY <1>2, <1>5, <2>1 DEF LineageInv, TwinTells, RejectionsCountedOnce
<1> QED BY <1>1, <1>4, <1>5, <1>6, <1>7, <1>8 DEF LineageInv, TwinTells

-----------------------------------------------------------------------------
\* What the relay froze is a count the ground could have seen.
LEMMA FrozenStep ==
  ASSUME LineageInv, [Next]_vars
  PROVE  frozenRejectedCount' <= rejectedCmdCount
<1> DEFINE Kept == frozenRejectedCount' \in {frozenRejectedCount, -1}
<1>1. rejectedCmdCount \in Nat /\ groundOut \in Seq(Telemetry)
  BY DEF LineageInv, TypeOK, CubeSatTypeOK, LinkTypeOK
<1>2. Kept => frozenRejectedCount' <= rejectedCmdCount
  BY <1>1 DEF LineageInv
<1>3. CASE Tick \/ Access \/ Uplink \/ Downlink \/ ReceiveTelecommand \/ GenerateTelemetry
           \/ UNCHANGED vars
  BY <1>2, <1>3 DEF Tick, Access, Uplink, Downlink, ReceiveTelecommand, GenerateTelemetry,
                    vars, relayVars, memory
<1>4. CASE GenerateTelecommand \/ ProposeConfigurationUpdate
  BY <1>2, <1>4 DEF GenerateTelecommand, ProposeConfigurationUpdate, Release, UplinkPass,
                    UplinkAlter, UplinkResign, memory
<1>5. CASE ReceiveTelemetry
  <2>1. CASE DownlinkPass(Head(groundOut))
    <3>1. Written(Head(groundOut), Past)
      BY <1>1, <1>5, WrittenQueue DEF LineageInv, PacketsWritten, ReceiveTelemetry
    <3>2. frozenRejectedCount' \in {frozenRejectedCount, Head(groundOut).rejectedCmdCount}
      BY <2>1 DEF DownlinkPass
    <3> QED BY <1>2, <3>1, <3>2 DEF Written, Past
  <2>2. CASE DownlinkCue \/ DownlinkDrop \/ DownlinkDelay(Head(groundOut))
    BY <1>2, <2>2 DEF DownlinkCue, ForgeCommand, DownlinkDrop, DownlinkDelay, memory
  <2> QED BY <1>5, <2>1, <2>2 DEF ReceiveTelemetry
<1>6. CASE ReceiveDelayedTelemetry \/ RelayEpisode
  BY <1>2, <1>6 DEF ReceiveDelayedTelemetry, ReleaseDown, RelayEpisode, BeginEpisode, EndEpisode,
                    memory
<1>7. CASE RelaySends
  BY <1>2, <1>7 DEF RelaySends, Inject, ForgeCommand, ReplayCaptured, ReleaseUp, memory
<1> QED BY <1>3, <1>4, <1>5, <1>6, <1>7 DEF Next

\* Every step of the loop keeps the lineage.
LEMMA LineageStep ==
  ASSUME LineageInv, [Next]_vars
  PROVE  LineageInv'
<1>1. TypeOK'
  BY NextTyped DEF LineageInv
<1>2. /\ upIn \in Seq(Telecommand) /\ satOut \in Seq(Telecommand)
      /\ captured \in Seq(Telecommand) /\ delayedUp \in Seq(Telecommand)
      /\ downIn \in Seq(Telemetry) /\ groundOut \in Seq(Telemetry)
      /\ lastSeen \in Seq(Telemetry) /\ delayedDown \in Seq(Telemetry)
      /\ now \in Nat /\ sequence \in Nat /\ forgedId \in Nat
  BY DEF LineageInv, TypeOK, LinkTypeOK, RelayTypeOK
<1>3. CubeSatTypeOK /\ RelayTypeOK
  BY DEF LineageInv, TypeOK
<1>4. /\ AllKnown(upIn, sequence) /\ AllKnown(satOut, sequence)
      /\ AllKnown(captured, sequence) /\ AllKnown(delayedUp, sequence)
      /\ AllWritten(downIn, Past) /\ AllWritten(groundOut, Past)
      /\ AllWritten(delayedDown, Past) /\ AllWritten(lastSeen, Past)
  BY DEF LineageInv, FramesKnown, PacketsWritten
<1>5. Unsigned(ForgedBody(now)) \in Telecommand /\ Known(Unsigned(ForgedBody(now)), sequence)
  <2>1. ForgedBody(now) \in Body /\ Unsigned(ForgedBody(now)) \in Telecommand
    BY <1>2, BodiesTyped, FramesTyped
  <2>2. ForgedBody(now).seq = forgedId + 1 /\ forgedId >= ForgedBase
    BY DEF LineageInv, ForgedBody
  <2>3. forgedId + 1 \in Numbers(sequence)
    BY <1>2, <2>2 DEF Numbers
  <2> QED BY <2>1, <2>2, <2>3 DEF Known, Unsigned
\* A step outside the ground's sending and the satellite's receiving.
<1> DEFINE SameLoop == UNCHANGED <<sequence, satVars, approved>>
           SameFrames == UNCHANGED <<upIn, satOut, captured, delayedUp>>
           SamePackets == UNCHANGED <<downIn, groundOut, lastSeen, delayedDown>>
<1>6. ASSUME SameLoop, forgedId' \in {forgedId, forgedId + 1}, FramesKnown', PacketsWritten',
             TwinTells'
      PROVE  LineageInv'
  <2>1. Past' = Past /\ UNCHANGED <<accepted, modeWriteSeq, paramProvenance, rejectedCmdCount>>
    BY <1>6 DEF satVars, Past, AcceptedSeqs
  <2>2. forgedId' >= ForgedBase
    BY <1>2, <1>6 DEF LineageInv
  <2>3. Sent' /\ AcceptedKnown' /\ Written(Snapshot(now), Past)'
    BY <1>6, <2>1 DEF LineageInv, Sent, AcceptedKnown, AcceptedSeqs, Written, Snapshot
  <2>4. frozenRejectedCount' <= rejectedCmdCount'
    BY <2>1, FrozenStep
  <2> QED BY <1>1, <1>6, <2>2, <2>3, <2>4 DEF LineageInv
<1>7. SameLoop /\ SameFrames => FramesKnown'
  BY <1>4 DEF FramesKnown
<1>8. SameLoop => Past' = Past
  BY DEF satVars, Past, AcceptedSeqs
<1>9. SameLoop /\ SamePackets => PacketsWritten'
  BY <1>4, <1>8 DEF PacketsWritten
<1>10. SameLoop /\ UNCHANGED twinVars => TwinTells'
  BY <1>8 DEF LineageInv, TwinTells, AlarmsForeign, Foreign, RejectionsCountedOnce, Past,
              satVars, twinVars
<1>11. CASE Tick \/ Access \/ UNCHANGED vars
  <2>1. SameLoop /\ SameFrames /\ SamePackets /\ UNCHANGED <<twinVars, forgedId>>
    BY <1>11 DEF Tick, Access, ToggleAccess, vars, linkVars, twinVars, relayVars, memory, delayed
  <2> QED BY <1>6, <1>7, <1>9, <1>10, <2>1
<1>12. CASE GenerateTelecommand \/ ProposeConfigurationUpdate
  <2>1. /\ GainCommand(now) \in Body /\ GainCommand(now).seq = sequence + 1
        /\ UpdateCommand(now) \in Body /\ UpdateCommand(now).seq = sequence + 1
    BY <1>2, BodiesTyped DEF GainCommand, UpdateCommand
  <2> QED BY <1>12, <2>1, ReleaseLineage DEF GenerateTelecommand, ProposeConfigurationUpdate
<1>13. CASE Uplink
  <2>1. /\ SameLoop /\ SamePackets /\ UNCHANGED <<twinVars, forgedId, captured, delayedUp>>
        /\ upIn # << >> /\ upIn' = Tail(upIn) /\ satOut' \in {satOut, Append(satOut, Head(upIn))}
    BY <1>13 DEF Uplink, ForwardUp, twinVars, relayVars, memory, delayed
  <2>2. Head(upIn) \in Telecommand
    BY <1>2, <2>1
  <2>3. AllKnown(upIn', sequence) /\ AllKnown(satOut', sequence)
    BY <1>2, <1>4, <2>1, <2>2, KnownQueue
  <2>4. FramesKnown'
    BY <1>4, <2>1, <2>3 DEF FramesKnown
  <2> QED BY <1>6, <1>9, <1>10, <2>1, <2>4
<1>14. CASE Downlink
  <2>1. /\ SameLoop /\ SameFrames /\ UNCHANGED <<twinVars, forgedId, lastSeen, delayedDown>>
        /\ downIn # << >> /\ downIn' = Tail(downIn)
        /\ groundOut' \in {groundOut, Append(groundOut, Head(downIn))}
    BY <1>14 DEF Downlink, ForwardDown, twinVars, relayVars, memory, delayed
  <2>2. Head(downIn) \in Telemetry
    BY <1>2, <2>1
  <2>3. AllWritten(downIn', Past) /\ AllWritten(groundOut', Past)
    BY <1>2, <1>4, <2>1, <2>2, WrittenQueue
  <2>4. PacketsWritten'
    BY <1>4, <1>8, <2>1, <2>3 DEF PacketsWritten
  <2> QED BY <1>6, <1>7, <1>10, <2>1, <2>4
<1>15. CASE ReceiveTelecommand
  BY <1>15, ReceiveLineage
<1>16. CASE GenerateTelemetry
  <2>1. /\ SameLoop /\ SameFrames /\ UNCHANGED <<twinVars, forgedId, groundOut, lastSeen, delayedDown>>
        /\ downIn' = Append(downIn, Snapshot(now))
    BY <1>16 DEF GenerateTelemetry, twinVars, relayVars, memory, delayed
  <2>2. Snapshot(now) \in Telemetry /\ Written(Snapshot(now), Past)
    BY <1>2, <1>3, PacketsTyped DEF LineageInv
  <2>3. AllWritten(downIn', Past)
    BY <1>2, <1>4, <2>1, <2>2, WrittenQueue
  <2>4. PacketsWritten'
    BY <1>4, <1>8, <2>1, <2>3 DEF PacketsWritten
  <2> QED BY <1>6, <1>7, <1>10, <2>1, <2>4
<1>17. CASE ReceiveTelemetry
  <2> DEFINE tm == Head(groundOut)
  <2>1. /\ groundOut # << >> /\ groundOut' = Tail(groundOut)
        /\ UNCHANGED <<sequence, satOut, downIn, satVars>>
    BY <1>17 DEF ReceiveTelemetry
  <2>2. tm \in Telemetry /\ Shown(tm) \in Telemetry
    BY <1>2, <1>3, <2>1, PacketsTyped
  <2>3. AllWritten(groundOut', Past) /\ Written(tm, Past)
    BY <1>2, <1>4, <2>1, WrittenQueue
  <2>4. Written(Shown(tm), Past)
    <3>1. CASE Shown(tm) = tm
      BY <2>3, <3>1
    <3>2. CASE Shown(tm) = [tm EXCEPT !.rejectedCmdCount = frozenRejectedCount]
      BY <2>2, <2>3, <3>2 DEF LineageInv, Written, Past, Telemetry
    <3> QED BY <3>1, <3>2 DEF Shown
  <2>5. AllWritten(<<tm>>, Past) /\ AllWritten(Append(delayedDown, tm), Past)
    BY <1>2, <1>4, <2>2, <2>3, WrittenQueue DEF AllWritten
  <2>6. AllKnown(Append(upIn, Unsigned(ForgedBody(now))), sequence)
    BY <1>2, <1>4, <1>5, KnownQueue
  <2>7. CASE DownlinkPass(tm) /\ Observe(Shown(tm)) /\ UNCHANGED upIn
    <3>1. TwinTells' /\ UNCHANGED approved
      BY <2>1, <2>2, <2>4, <2>7, ObserveForeign
    <3>2. lastSeen' \in {lastSeen, <<tm>>} /\ UNCHANGED <<captured, delayedUp, delayedDown, forgedId>>
      BY <2>7 DEF DownlinkPass, delayed
    <3>3. PacketsWritten'
      BY <1>4, <1>8, <2>1, <2>3, <2>5, <3>1, <3>2 DEF PacketsWritten
    <3> QED BY <1>6, <1>7, <2>1, <2>7, <3>1, <3>2, <3>3
  <2>8. CASE DownlinkCue /\ upIn' = Append(upIn, Unsigned(ForgedBody(now))) /\ Observe(tm)
    <3>1. TwinTells' /\ UNCHANGED approved
      BY <2>1, <2>2, <2>3, <2>8, ObserveForeign
    <3>2. forgedId' = forgedId + 1 /\ UNCHANGED <<captured, lastSeen, delayedUp, delayedDown>>
      BY <2>8 DEF DownlinkCue, ForgeCommand, memory, delayed
    <3>3. PacketsWritten' /\ FramesKnown'
      BY <1>4, <1>8, <2>1, <2>3, <2>6, <2>8, <3>1, <3>2 DEF PacketsWritten, FramesKnown
    <3> QED BY <1>6, <2>1, <3>1, <3>2, <3>3
  <2>9. CASE (DownlinkDrop \/ DownlinkDelay(tm)) /\ UNCHANGED <<upIn, twinVars>>
    <3>1. /\ delayedDown' \in {delayedDown, Append(delayedDown, tm)}
          /\ UNCHANGED <<captured, lastSeen, delayedUp, forgedId, approved, twinVars>>
      BY <2>9 DEF DownlinkDrop, DownlinkDelay, memory, delayed, twinVars
    <3>2. PacketsWritten'
      BY <1>4, <1>8, <2>1, <2>3, <2>5, <3>1 DEF PacketsWritten
    <3> QED BY <1>6, <1>7, <1>10, <2>1, <2>9, <3>1, <3>2
  <2> QED BY <1>17, <2>7, <2>8, <2>9 DEF ReceiveTelemetry
<1>18. CASE ReceiveDelayedTelemetry
  <2>1. PICK i \in DOMAIN delayedDown :
          Observe(delayedDown[i]) /\ ReleaseDown(i) /\ UNCHANGED <<sequence, linkVars, satVars>>
    BY <1>18 DEF ReceiveDelayedTelemetry
  <2>2. delayedDown[i] \in Telemetry /\ Written(delayedDown[i], Past)
    BY <1>2, <1>4 DEF AllWritten
  <2>3. TwinTells' /\ UNCHANGED approved
    BY <2>1, <2>2, ObserveForeign
  <2>4. SameFrames /\ UNCHANGED <<downIn, groundOut, lastSeen, forgedId>>
          /\ delayedDown' = RemoveAt(delayedDown, i)
    BY <2>1 DEF ReleaseDown, linkVars, memory
  <2>5. AllWritten(delayedDown', Past)
    BY <1>2, <1>4, <2>4, WrittenQueue
  <2>6. PacketsWritten'
    BY <1>4, <1>8, <2>1, <2>3, <2>4, <2>5 DEF PacketsWritten
  <2> QED BY <1>6, <1>7, <2>1, <2>3, <2>4, <2>6
<1>19. CASE RelayEpisode
  <2>1. /\ SameFrames /\ SamePackets /\ UNCHANGED <<forgedId, sequence, satVars>>
    BY <1>19 DEF RelayEpisode, BeginEpisode, EndEpisode, linkVars, memory, delayed
  <2>2. TwinTells' /\ UNCHANGED approved
    <3>1. CASE UNCHANGED twinVars
      BY <1>10, <2>1, <3>1 DEF twinVars
    <3>2. CASE Spoofs /\ Observe(SpoofedTelemetry(now))
      <4>1. SpoofedTelemetry(now) \in Telemetry
        BY <1>2, <1>3, <3>2, PacketsTyped
      <4>2. Written(SpoofedTelemetry(now), Past)
        <5>1. lastSeen[1] \in Telemetry /\ Written(lastSeen[1], Past)
          BY <1>2, <1>4, <3>2 DEF Spoofs, AllWritten
        <5> QED BY <5>1 DEF SpoofedTelemetry, Written, Telemetry
      <4> QED BY <2>1, <3>2, <4>1, <4>2, ObserveForeign
    <3> QED BY <1>19, <3>1, <3>2 DEF RelayEpisode
  <2> QED BY <1>6, <1>7, <1>9, <2>1, <2>2
<1>20. CASE RelaySends
  <2>1. SameLoop /\ UNCHANGED twinVars
    BY <1>20 DEF RelaySends, twinVars
  <2>2. PICK tc \in Telecommand :
          /\ Known(tc, sequence) /\ upIn' = Append(upIn, tc)
          /\ UNCHANGED <<satOut, downIn, groundOut, captured, lastSeen, delayedDown>>
          /\ forgedId' \in {forgedId, forgedId + 1}
          /\ delayedUp' = delayedUp \/ \E i \in DOMAIN delayedUp : delayedUp' = RemoveAt(delayedUp, i)
    <3>1. CASE Inject /\ ToLink(Unsigned(ForgedBody(now)))
      BY <1>5, <3>1 DEF Inject, ForgeCommand, ToLink, memory, delayed
    <3>2. CASE ReplayCaptured /\ ToLink(captured[1])
      <4>1. captured[1] \in Telecommand /\ Known(captured[1], sequence)
        BY <1>2, <1>4, <3>2 DEF ReplayCaptured, AllKnown
      <4> QED BY <3>2, <4>1 DEF ReplayCaptured, ToLink, memory, delayed
    <3>3. CASE \E i \in DOMAIN delayedUp : ReleaseUp(i) /\ ToLink(delayedUp[i])
      <4>1. PICK i \in DOMAIN delayedUp : ReleaseUp(i) /\ ToLink(delayedUp[i])
        BY <3>3
      <4>2. delayedUp[i] \in Telecommand /\ Known(delayedUp[i], sequence)
        BY <1>2, <1>4 DEF AllKnown
      <4> QED BY <4>1, <4>2 DEF ReleaseUp, ToLink, memory
    <3> QED BY <1>20, <3>1, <3>2, <3>3 DEF RelaySends
  <2>3. AllKnown(upIn', sequence) /\ AllKnown(delayedUp', sequence)
    BY <1>2, <1>4, <2>2, KnownQueue
  <2>4. FramesKnown' /\ PacketsWritten'
    BY <1>4, <1>8, <2>1, <2>2, <2>3 DEF FramesKnown, PacketsWritten
  <2> QED BY <1>6, <1>10, <2>1, <2>2, <2>4
<1> QED BY <1>11, <1>12, <1>13, <1>14, <1>15, <1>16, <1>17, <1>18, <1>19, <1>20 DEF Next

\* As long as the ground's numbers stay below those the relay invents, a logical
\* alarm that names a command names one that the satellite accepted and the ground
\* never sent, with D1 on it names none at all, whatever the relay does, whichever
\* scenario, and however long a packet is on its way (Twin.cc, the alarm's link).
THEOREM AlarmsBound ==
  ASSUME MaxCommands <= ForgedBase
  PROVE  Spec => []LinkIsForeign
<1>1. Init => LineageInv
  BY LineageInit
<1>2. LineageInv /\ [Next]_vars => LineageInv'
  BY LineageStep
<1>3. LineageInv => LinkIsForeign
  BY LineageIsForeign
<1> QED BY <1>1, <1>2, <1>3, PTL DEF Spec

\* Every rejection is counted once: the twin's total is the baseline it has
\* adopted, and that never exceeds the satellite's count, whatever is lost,
\* delayed, overtaken, frozen or repeated on the way.
THEOREM RejectionsCounted == Spec => []RejectionsCountedOnce
<1>1. Init => LineageInv
  BY LineageInit
<1>2. LineageInv /\ [Next]_vars => LineageInv'
  BY LineageStep
<1>3. LineageInv => RejectionsCountedOnce
  BY DEF LineageInv, TwinTells
<1> QED BY <1>1, <1>2, <1>3, PTL DEF Spec

=============================================================================
