----------------------------- MODULE CausalArms -----------------------------
(***************************************************************************)
(* The matched pairs of causal runs, for every schedule of contacts, every *)
(* offset of the onset and every value of the constants under which the    *)
(* space link is short against the episodes (NearEarth): first what is on  *)
(* record of a run, then what the ground sees of it.                       *)
(*                                                                         *)
(* The arms act at different places and yet show the same at the ground,   *)
(* because every frame is sent on the beat of the telemetry interval and   *)
(* its way takes a time that its number decides.                           *)
(***************************************************************************)
EXTENDS CausalPair, FiniteSetTheorems, WellFoundedInduction, TLAPS

\* How long an episode is planned to last, from the sending of its target on.
Span ==
  CASE pair \in {"SP1", "SP5"} -> Interval
    [] pair = "SP2" -> Interval * EclipseSteps
    [] pair = "SP3" -> ModeDuration
    [] pair = "SP4" -> DelayTarget + Interval

\* A frame arrives within the interval it was sent in, and what an attacker answers to
\* it reaches the satellite while the episode of SP-2 or SP-3 lasts.
NearEarth ==
  \A d, e \in Transits : d <= Interval /\ d + e < Interval * EclipseSteps /\ d + e < ModeDuration

Cause == {"none", "attack", "fault", "third_cause"}
RowSet == [kind : RowKind, cause : Cause, at : Int]

Controller ==
  [firstPassStart : Int, onsetTime : Int, targetSeq : Int, targetSendTime : Int,
   anchorSeq : Int, targetContactStart : Int, contactFrameIndex : Int, plannedEnd : Int,
   episodeOpen : BOOLEAN, episodeEndTime : Int, truth : Seq(RowSet), thrown : BOOLEAN]

\* What is fixed for a pair.
Fixed ==
  /\ pair \in Pair \ {"SP6"}
  /\ \A p \in passes \cup schedule : p.start \in Nat
  /\ onsetOffset \in Nat
  /\ transit \in [{0, 1} -> Transits]

\* What selects the target, what says where the episode stands, and what is on record.
SameClock(c, d) ==
  /\ d.firstPassStart = c.firstPassStart /\ d.onsetTime = c.onsetTime
  /\ d.targetSeq = c.targetSeq /\ d.targetSendTime = c.targetSendTime
  /\ d.anchorSeq = c.anchorSeq /\ d.targetContactStart = c.targetContactStart

SameEpisode(c, d) ==
  /\ d.episodeOpen = c.episodeOpen /\ d.plannedEnd = c.plannedEnd
  /\ d.episodeEndTime = c.episodeEndTime

SameRecord(c, d) == d.truth = c.truth /\ d.thrown = c.thrown

-----------------------------------------------------------------------------
(* The invariant of one arm                                                *)

\* Before the target there is nothing.
Waiting(c) ==
  /\ c.targetSeq < 0 /\ c.targetContactStart < 0
  /\ c.truth = << >> /\ ~c.episodeOpen /\ c.episodeEndTime < 0 /\ ~c.thrown

\* The target was sent at an instant that has passed, in a contact that began before.
Chosen(c, n, s) ==
  /\ c.firstPassStart >= 0
  /\ 1 <= c.targetSeq /\ c.targetSeq <= s
  /\ 0 <= c.targetContactStart /\ c.targetContactStart < c.targetSendTime
  /\ c.targetSendTime <= n

\* An intervention on record at position k.
Intervened(a, c, k) ==
  /\ c.truth[k].kind = "intervention"
  /\ c.truth[k].cause \in {a, "third_cause"}
  /\ c.targetSendTime <= c.truth[k].at /\ c.truth[k].at <= c.plannedEnd

\* The record begins with the row of the begin, its times are in order and none is
\* ahead of the clock, and the cause of the arm is in it at most once.
Begun(a, c, n) ==
  /\ c.plannedEnd = c.targetSendTime + Span
  /\ c.truth # << >>
  /\ c.truth[1] = [kind |-> "episode.begin", cause |-> "none", at |-> c.targetContactStart]
  /\ \A k \in DOMAIN c.truth : c.truth[k].at <= n
  /\ \A k \in DOMAIN c.truth : k > 1 => c.truth[k - 1].at <= c.truth[k].at
  /\ \A j, k \in DOMAIN c.truth : c.truth[j].cause = a /\ c.truth[k].cause = a => j = k

Open(a, c) ==
  /\ c.episodeOpen /\ c.episodeEndTime < 0
  /\ \A k \in 2..Len(c.truth) : Intervened(a, c, k)

Closed(a, c, n) ==
  /\ ~c.episodeOpen /\ c.plannedEnd <= c.episodeEndTime /\ c.episodeEndTime <= n
  /\ Len(c.truth) >= 2
  /\ c.truth[Len(c.truth)] = [kind |-> "episode.end", cause |-> "none", at |-> c.episodeEndTime]
  /\ \A k \in 2..(Len(c.truth) - 1) : Intervened(a, c, k)

\* The third cause is on record exactly in the runs of its arm, unless an error came
\* before it, which leaves the episode open for good.
ThirdOnRecord(c) ==
  /\ "third_cause" \in Caused(c) => robustness = "RB-third-cause"
  /\ robustness = "RB-third-cause" /\ ~(c.thrown /\ c.episodeOpen) => "third_cause" \in Caused(c)

Episode(a, c, n, s) ==
  /\ Chosen(c, n, s) /\ Begun(a, c, n) /\ ThirdOnRecord(c)
  /\ Open(a, c) \/ Closed(a, c, n)

Stage(a, c, n, s) == Waiting(c) \/ Episode(a, c, n, s)

\* What is in the air has its time still to come; a target on its way to the attacker
\* is there after one transit, and a hostile command before the episode can end.
InTheAir(a, r, n, s) ==
  \A i \in r.air :
    /\ i.seq <= s
    /\ ~r.ctl.thrown => n <= i.at
    /\ i.what = "hostile" => r.ctl.targetSeq >= 0 /\ i.at < r.ctl.targetSendTime + Span /\ a = "attack"
    /\ i.what = "frame" /\ r.ctl.targetSeq >= 0 /\ i.seq = r.ctl.targetSeq /\ a = "attack" =>
         \E e \in Transits : i.at = r.ctl.targetSendTime + e

\* A target that the link got is under way, or was delivered while the episode was
\* planned to last.
Reaching(r) ==
  \/ \E i \in r.air : /\ i.seq = r.ctl.targetSeq /\ i.what \in {"frame", "late"}
                      /\ i.at <= r.ctl.targetSendTime + Span
  \/ \E k \in DOMAIN r.ground : /\ r.ground[k].seq = r.ctl.targetSeq
                                /\ r.ctl.targetSendTime <= r.ground[k].at
                                /\ r.ground[k].at <= r.ctl.targetSendTime + Span

Ended(r, n, s) ==
  /\ r.outcome = Outcome(r.ctl) /\ n = Horizon /\ s = n \div Interval
  /\ ~r.ctl.thrown => \A i \in r.air : n < i.at

Item == [what : {"frame", "late", "hostile"}, seq : Nat, odd : BOOLEAN, at : Int]
Delivery == [seq : Int, odd : BOOLEAN, at : Int]
Run ==
  [ctl : Controller, air : SUBSET Item, ground : Seq(Delivery), shifted : BOOLEAN,
   gapEnd : Int, held : {NoFrame}, captured : {NoFrame}, hostileSent : BOOLEAN,
   outcome : {"running", "ok", "failed"}]

ArmInv(a, r, n, s) ==
  /\ r \in Run
  /\ Stage(a, r.ctl, n, s)
  /\ r.gapEnd >= 0 => r.ctl.targetSeq >= 0
  /\ InTheAir(a, r, n, s)
  /\ r.ctl.targetSeq >= 0 /\ ~r.ctl.thrown /\ InView(r.ctl.targetSendTime) => Reaching(r)
  /\ r.outcome = "running" \/ Ended(r, n, s)

\* The two arms have the same clock, and while no error ended either the same episode.
Shared(c, d) ==
  /\ SameClock(c, d)
  /\ ~c.thrown /\ ~d.thrown => SameEpisode(c, d)

PairInv ==
  /\ Fixed
  /\ now \in Nat /\ sent \in Nat
  /\ run \in [Arm -> Run]
  /\ \A a \in Arm : ArmInv(a, run[a], now, sent)
  /\ Shared(run["attack"].ctl, run["fault"].ctl)

-----------------------------------------------------------------------------
(* The controller                                                          *)

LEMMA LeastIsThere ==
  ASSUME NEW S \in SUBSET Nat, S # {}
  PROVE  Min(S) \in S
<1>1. PICK x \in S : \A y \in S : ~(<<y, x>> \in OpToRel(<, Nat))
  BY NatLessThanWellFounded, WFMin, Zenon
<1>2. \A y \in S : x <= y
  <2>1. TAKE y \in S
  <2>2. <<y, x>> \in Nat \X Nat
    OBVIOUS
  <2>3. ~(y < x)
    BY <1>1, <2>2 DEF OpToRel
  <2> QED BY <2>3
<1> QED BY <1>2 DEF Min

LEMMA StartOfPass ==
  ASSUME Fixed, NEW t
  PROVE  /\ CurrentPassStart(t) \in Int
         /\ Visible(t) => CurrentPassStart(t) >= 0 /\ CurrentPassStart(t) < t
<1>1. CASE Visible(t)
  <2> DEFINE p == CHOOSE q \in passes : InPass(q, t)
  <2>1. p \in passes /\ InPass(p, t)
    BY <1>1 DEF Visible
  <2>2. CurrentPassStart(t) = p.start
    BY <1>1 DEF CurrentPassStart
  <2> HIDE DEF p
  <2> QED BY <2>1, <2>2 DEF Fixed, InPass
<1>2. CASE ~Visible(t)
  BY <1>2 DEF CurrentPassStart
<1> QED BY <1>1, <1>2

LEMMA QualifyingStart == Fixed /\ Qualifying # {} => Min(Qualifying) \in Int
<1> SUFFICES ASSUME Fixed, Qualifying # {} PROVE Min(Qualifying) \in Int
  OBVIOUS
<1>1. Qualifying \in SUBSET Nat
  BY DEF Fixed, Qualifying
<1>2. Min(Qualifying) \in Qualifying
  BY <1>1, LeastIsThere, Zenon
<1>3. \A x \in Qualifying : x \in Int
  BY <1>1
<1> QED BY <1>2, <1>3, Zenon

LEMMA ClockStarts ==
  ASSUME Fixed, NEW c \in Controller, NEW t \in Int
  PROVE  /\ StartsClock(c, t) \in Controller
         /\ SameEpisode(c, StartsClock(c, t)) /\ SameRecord(c, StartsClock(c, t))
         /\ StartsClock(c, t).targetSeq = c.targetSeq
         /\ StartsClock(c, t).targetSendTime = c.targetSendTime
         /\ StartsClock(c, t).targetContactStart = c.targetContactStart
         /\ StartsClock(c, t).anchorSeq = c.anchorSeq
         /\ c.firstPassStart >= 0 => StartsClock(c, t) = c
<1> DEFINE start == IF pair = "SP2" THEN IF Qualifying = {} THEN -1 ELSE Min(Qualifying)
                    ELSE CurrentPassStart(t)
<1>1. start \in Int
  BY QualifyingStart, StartOfPass
<1>2. StartsClock(c, t) = IF c.firstPassStart >= 0 \/ start < 0 THEN c
                          ELSE [c EXCEPT !.firstPassStart = start,
                                         !.onsetTime = start + onsetOffset]
  BY DEF StartsClock
<1>3. onsetOffset \in Nat
  BY DEF Fixed
<1> HIDE DEF start
<1> DEFINE onset == start + onsetOffset
           d == [c EXCEPT !.firstPassStart = start, !.onsetTime = onset]
<1>4. onset \in Int
  BY <1>1, <1>3
<1> HIDE DEF onset
<1>5. CASE StartsClock(c, t) = c
  BY <1>5 DEF SameEpisode, SameRecord
<1>6. CASE c.firstPassStart < 0 /\ StartsClock(c, t) = d
  <2>1. d \in Controller
    BY <1>1, <1>4 DEF Controller
  <2>2. SameEpisode(c, d) /\ SameRecord(c, d)
    BY DEF Controller, SameEpisode, SameRecord
  <2>3. /\ d.targetSeq = c.targetSeq /\ d.targetSendTime = c.targetSendTime
        /\ d.targetContactStart = c.targetContactStart /\ d.anchorSeq = c.anchorSeq
    BY DEF Controller
  <2>4. ~(c.firstPassStart >= 0)
    BY <1>6 DEF Controller
  <2> HIDE DEF d
  <2> QED BY <1>6, <2>1, <2>2, <2>3, <2>4
<1>7. StartsClock(c, t) = c \/ (c.firstPassStart < 0 /\ StartsClock(c, t) = d)
  BY <1>2 DEF onset, Controller
<1> QED BY <1>5, <1>6, <1>7

\* What an offer does: nothing once there is a target; before that it may start the
\* clock, and may select what is offered.
LEMMA OfferEffect ==
  ASSUME Fixed, NEW c \in Controller, NEW seq \in Int, NEW t \in Int, Visible(t)
  PROVE  LET d == OfferTelemetryTarget(c, seq, t) IN
         /\ d \in Controller /\ SameEpisode(c, d) /\ SameRecord(c, d)
         /\ c.targetSeq >= 0 /\ c.firstPassStart >= 0 => d = c
         /\ c.targetSeq < 0 =>
              \/ d.targetSeq = c.targetSeq /\ d.targetContactStart = c.targetContactStart
              \/ /\ d.targetSeq = seq /\ d.targetSendTime = t
                 /\ d.targetContactStart = CurrentPassStart(t) /\ d.firstPassStart >= 0
<1> DEFINE b == StartsClock(c, t)
           d == OfferTelemetryTarget(c, seq, t)
           start == CurrentPassStart(t)
<1>1. /\ b \in Controller
      /\ SameEpisode(c, b) /\ SameRecord(c, b)
      /\ b.targetSeq = c.targetSeq /\ b.targetContactStart = c.targetContactStart
      /\ c.firstPassStart >= 0 => b = c
  BY ClockStarts
<1>2. start \in Int
  BY StartOfPass
<1>3. \/ d = b
      \/ b.firstPassStart >= 0 /\ b.targetSeq < 0 /\ d = [b EXCEPT !.anchorSeq = seq]
      \/ /\ b.firstPassStart >= 0 /\ b.targetSeq < 0
         /\ d = [b EXCEPT !.targetSeq = seq, !.targetSendTime = t, !.targetContactStart = start]
  <2>1. /\ b.firstPassStart \in Int /\ b.targetSeq \in Int
    BY <1>1 DEF Controller
  <2> QED BY <2>1 DEF OfferTelemetryTarget
<1> HIDE DEF b, d, start
<1>0. c.targetSeq \in Int
  BY DEF Controller
<1>4. CASE d = b
  BY <1>1, <1>4 DEF d
<1>5. CASE b.firstPassStart >= 0 /\ b.targetSeq < 0 /\ d = [b EXCEPT !.anchorSeq = seq]
  <2>1. d \in Controller
    BY <1>1, <1>5 DEF Controller
  <2>2. SameEpisode(b, d) /\ SameRecord(b, d)
    BY <1>1, <1>5 DEF Controller, SameEpisode, SameRecord
  <2>3. d.targetSeq = b.targetSeq /\ d.targetContactStart = b.targetContactStart
    BY <1>1, <1>5 DEF Controller
  <2>4. c.targetSeq < 0
    BY <1>1, <1>5
  <2>5. ~(c.targetSeq >= 0)
    BY <1>0, <2>4
  <2> QED BY <1>1, <2>1, <2>2, <2>3, <2>5 DEF SameEpisode, SameRecord, d
<1>6. CASE /\ b.firstPassStart >= 0 /\ b.targetSeq < 0
           /\ d = [b EXCEPT !.targetSeq = seq, !.targetSendTime = t, !.targetContactStart = start]
  <2>1. d \in Controller
    BY <1>1, <1>2, <1>6 DEF Controller
  <2>2. SameEpisode(b, d) /\ SameRecord(b, d)
    BY <1>1, <1>6 DEF Controller, SameEpisode, SameRecord
  <2>3. /\ d.targetSeq = seq /\ d.targetSendTime = t /\ d.targetContactStart = start
        /\ d.firstPassStart >= 0
    BY <1>1, <1>6 DEF Controller
  <2>4. c.targetSeq < 0
    BY <1>1, <1>6
  <2>5. ~(c.targetSeq >= 0)
    BY <1>0, <2>4
  <2> QED BY <1>1, <2>1, <2>2, <2>3, <2>5 DEF SameEpisode, SameRecord, d, start
<1> QED BY <1>3, <1>4, <1>5, <1>6

\* Two controllers with one clock take an offer alike.
LEMMA OfferShared ==
  ASSUME Fixed, NEW c \in Controller, NEW e \in Controller, NEW seq \in Int, NEW t \in Int,
         SameClock(c, e)
  PROVE  SameClock(OfferTelemetryTarget(c, seq, t), OfferTelemetryTarget(e, seq, t))
<1> DEFINE b == StartsClock(c, t)
           f == StartsClock(e, t)
           first == IF pair = "SP2" THEN IF Qualifying = {} THEN -1 ELSE Min(Qualifying)
                    ELSE CurrentPassStart(t)
           onset == first + onsetOffset
           start == CurrentPassStart(t)
<1>1. b \in Controller /\ f \in Controller
  BY ClockStarts
<1>2. SameClock(b, f)
  <2>1. b = IF c.firstPassStart >= 0 \/ first < 0 THEN c
            ELSE [c EXCEPT !.firstPassStart = first, !.onsetTime = onset]
    BY DEF StartsClock
  <2>2. f = IF e.firstPassStart >= 0 \/ first < 0 THEN e
            ELSE [e EXCEPT !.firstPassStart = first, !.onsetTime = onset]
    BY DEF StartsClock
  <2>3. e.firstPassStart = c.firstPassStart
    BY DEF SameClock
  <2> HIDE DEF b, f, first, onset
  <2>4. CASE c.firstPassStart >= 0 \/ first < 0
    BY <2>1, <2>2, <2>3, <2>4
  <2>5. CASE ~(c.firstPassStart >= 0 \/ first < 0)
    <3>1. b = [c EXCEPT !.firstPassStart = first, !.onsetTime = onset]
      BY <2>1, <2>5
    <3>2. f = [e EXCEPT !.firstPassStart = first, !.onsetTime = onset]
      BY <2>2, <2>3, <2>5
    <3> QED BY <3>1, <3>2 DEF SameClock, Controller
  <2> QED BY <2>4, <2>5
<1>3. /\ f.firstPassStart = b.firstPassStart /\ f.targetSeq = b.targetSeq
      /\ f.onsetTime = b.onsetTime /\ f.anchorSeq = b.anchorSeq
  BY <1>2 DEF SameClock
<1> DEFINE Hold(d) == d.firstPassStart < 0 \/ d.targetSeq >= 0 \/ t < d.onsetTime \/ pair = "SP6"
           Anchor(d) == pair = "SP5" /\ d.anchorSeq < 0
           Take(d) == IF Hold(d) THEN d
                      ELSE IF Anchor(d) THEN [d EXCEPT !.anchorSeq = seq]
                      ELSE [d EXCEPT !.targetSeq = seq, !.targetSendTime = t,
                                     !.targetContactStart = start]
<1>4. OfferTelemetryTarget(c, seq, t) = Take(b) /\ OfferTelemetryTarget(e, seq, t) = Take(f)
  BY DEF OfferTelemetryTarget
<1>5. (Hold(b) <=> Hold(f)) /\ (Anchor(b) <=> Anchor(f))
  BY <1>3
<1> SUFFICES SameClock(Take(b), Take(f))
  BY <1>4
<1> HIDE DEF b, f, start
<1>6. CASE Hold(b)
  BY <1>2, <1>5, <1>6
<1> HIDE DEF Hold
<1>7. CASE ~Hold(b) /\ Anchor(b)
  <2>1. Take(b) = [b EXCEPT !.anchorSeq = seq] /\ Take(f) = [f EXCEPT !.anchorSeq = seq]
    BY <1>5, <1>7
  <2> HIDE DEF Take
  <2> QED BY <1>1, <1>2, <2>1 DEF SameClock, Controller
<1> HIDE DEF Anchor
<1>8. CASE ~Hold(b) /\ ~Anchor(b)
  <2>1. /\ Take(b) = [b EXCEPT !.targetSeq = seq, !.targetSendTime = t,
                               !.targetContactStart = start]
        /\ Take(f) = [f EXCEPT !.targetSeq = seq, !.targetSendTime = t,
                               !.targetContactStart = start]
    BY <1>5, <1>8
  <2> HIDE DEF Take
  <2> QED BY <1>1, <1>2, <2>1 DEF SameClock, Controller
<1> QED BY <1>6, <1>7, <1>8

-----------------------------------------------------------------------------
(* The record of the episode                                               *)

\* A target just selected, whose episode the controller has not opened yet.
Selected(c, n, s) ==
  /\ Chosen(c, n, s) /\ c.targetSendTime = n
  /\ c.truth = << >> /\ ~c.episodeOpen /\ c.episodeEndTime < 0 /\ ~c.thrown

\* d is c with one more row.
RowAdded(c, row, d) ==
  /\ d \in Controller /\ SameClock(c, d) /\ SameEpisode(c, d) /\ d.thrown = c.thrown
  /\ d.truth \in Seq(RowSet) /\ Len(d.truth) = Len(c.truth) + 1
  /\ d.truth[Len(d.truth)] = row
  /\ \A k \in 1..Len(c.truth) : d.truth[k] = c.truth[k]
  /\ Caused(d) = Caused(c) \cup {row.cause}

LEMMA RowEffect ==
  ASSUME NEW c \in Controller, NEW kind \in RowKind, NEW cause \in Cause, NEW t \in Int,
         NEW d, d = Row(c, kind, cause, t)
  PROVE  RowAdded(c, [kind |-> kind, cause |-> cause, at |-> t], d)
<1> DEFINE row == [kind |-> kind, cause |-> cause, at |-> t]
           longer == Append(c.truth, row)
<1>1. row \in RowSet
  BY DEF RowSet
<1>2. c.truth \in Seq(RowSet)
  BY DEF Controller
<1>3. d = [c EXCEPT !.truth = longer]
  BY DEF Row
<1>4. /\ longer \in Seq(RowSet) /\ Len(longer) = Len(c.truth) + 1
      /\ longer[Len(longer)] = row
      /\ \A k \in 1..Len(c.truth) : longer[k] = c.truth[k]
  <2> HIDE DEF row
  <2> QED BY <1>1, <1>2
<1>5. row.cause = cause
  OBVIOUS
<1> HIDE DEF longer, row
<1>6. d \in Controller
  BY <1>3, <1>4 DEF Controller
<1>7. SameClock(c, d) /\ SameEpisode(c, d) /\ d.thrown = c.thrown /\ d.truth = longer
  BY <1>3 DEF SameClock, SameEpisode, Controller
<1>8. Caused(d) = Caused(c) \cup {cause}
  <2>1. Len(c.truth) \in Nat /\ DOMAIN c.truth = 1..Len(c.truth) /\ DOMAIN longer = 1..Len(longer)
    BY <1>2, <1>4
  <2>2. Caused(d) = {longer[k].cause : k \in DOMAIN longer}
    BY <1>7 DEF Caused
  <2>3. DOMAIN longer = (DOMAIN c.truth) \cup {Len(longer)}
    BY <1>4, <2>1
  <2>4. \A k \in DOMAIN c.truth : longer[k].cause = c.truth[k].cause
    BY <1>4, <2>1
  <2>5. longer[Len(longer)].cause = cause
    BY <1>4, <1>5
  <2>7. Caused(c) = {c.truth[k].cause : k \in DOMAIN c.truth}
    BY DEF Caused
  <2>6. ASSUME NEW x PROVE x \in Caused(d) <=> x \in Caused(c) \cup {cause}
    BY <2>2, <2>3, <2>4, <2>5, <2>7
  <2> QED BY <2>6
<1>9. RowAdded(c, row, d)
  BY <1>4, <1>5, <1>6, <1>7, <1>8 DEF RowAdded
<1> QED BY <1>9 DEF row

LEMMA SpanIsNat == Fixed => Span \in Nat
<1> SUFFICES ASSUME Fixed PROVE Span \in Nat
  OBVIOUS
<1>1. pair \in {"SP1", "SP2", "SP3", "SP4", "SP5"}
  BY DEF Fixed, Pair
<1>2. Interval \in Nat /\ DelayTarget \in Nat /\ ModeDuration \in Nat /\ EclipseSteps \in Nat
  BY ScenarioAssumption
<1>3. Interval * EclipseSteps \in Nat
  BY <1>2
<1> QED BY <1>1, <1>2, <1>3 DEF Span

LEMMA PlannedEnd ==
  ASSUME Fixed, NEW c \in Controller, NEW t, c.targetSendTime >= 0
  PROVE  DeclaredEnd(c, t) = c.targetSendTime + Span
<1>1. pair \in {"SP1", "SP2", "SP3", "SP4", "SP5"}
  BY DEF Fixed, Pair
<1> QED BY <1>1 DEF DeclaredEnd, Span

\* While there is no target the episode clock does nothing.
LEMMA TickOfWaiting ==
  ASSUME Fixed, NEW c \in Controller, Waiting(c), NEW t \in Int
  PROVE  ~Scheduled(c) /\ TickEpisode(c, t) = c
<1>1. Caused(c) = {}
  BY DEF Waiting, Caused
<1>2. c.targetSeq \in Int /\ c.targetContactStart \in Int
  BY DEF Controller
<1>3. ~Scheduled(c)
  BY <1>1, <1>2 DEF Waiting, Scheduled, InterventionEmitted
<1>4. ~c.episodeOpen /\ c.episodeEndTime < 0
  BY DEF Waiting
<1> QED BY <1>3, <1>4 DEF TickEpisode, TickIn

\* It opens the episode of a target just selected.
LEMMA TickOfSelected ==
  ASSUME Fixed, NEW a \in Arm, NEW c \in Controller, NEW n \in Nat, NEW s \in Nat,
         Selected(c, n, s)
  PROVE  LET d == TickEpisode(c, n) IN
         /\ d \in Controller /\ SameClock(c, d) /\ ~d.thrown /\ Caused(d) = {"none"}
         /\ Chosen(d, n, s) /\ Begun(a, d, n) /\ Open(a, d)
<1> DEFINE end == c.targetSendTime + Span
           b == [c EXCEPT !.plannedEnd = end, !.episodeOpen = TRUE]
           d == TickEpisode(c, n)
           start == c.targetContactStart
<1>1. /\ c.targetSeq \in Int /\ c.targetSendTime \in Int /\ start \in Int
      /\ c.episodeOpen = FALSE /\ c.episodeEndTime < 0 /\ c.truth = << >> /\ ~c.thrown
      /\ start >= 0 /\ start < c.targetSendTime /\ c.targetSendTime = n /\ c.targetSeq >= 0
  BY DEF Controller, Selected, Chosen
<1>2. Scheduled(c) /\ EpisodeStart(c, CurrentPassStart(n)) = start
  BY <1>1 DEF Scheduled, EpisodeStart
<1>3. DeclaredEnd(c, n) = end
  BY <1>1, PlannedEnd
<1>4. d = Row(b, "episode.begin", "none", start)
  BY <1>1, <1>2, <1>3 DEF TickEpisode, TickIn
<1>5. end \in Int
  BY <1>1, SpanIsNat
<1>6. end >= n
  BY <1>1, SpanIsNat
<1> HIDE DEF end, start
<1>7. b \in Controller /\ SameClock(c, b) /\ b.thrown = c.thrown /\ b.truth = << >>
  BY <1>1, <1>5 DEF Controller, SameClock
<1>8. b.plannedEnd = end /\ b.episodeOpen = TRUE /\ b.episodeEndTime = c.episodeEndTime
  BY DEF Controller
<1>9. Caused(b) = {}
  BY <1>7 DEF Caused
<1> HIDE DEF b, d
<1>17. "episode.begin" \in RowKind /\ "none" \in Cause
  BY DEF RowKind, Cause
<1>18. b \in Controller /\ start \in Int
  BY <1>1, <1>7
<1>10. /\ d \in Controller /\ SameClock(b, d) /\ SameEpisode(b, d) /\ d.thrown = b.thrown
       /\ d.truth \in Seq(RowSet) /\ Len(d.truth) = Len(b.truth) + 1
       /\ d.truth[Len(d.truth)] = [kind |-> "episode.begin", cause |-> "none", at |-> start]
       /\ Caused(d) = Caused(b) \cup {"none"}
  <2>1. RowAdded(b, [kind |-> "episode.begin", cause |-> "none", at |-> start], d)
    BY <1>4, <1>17, <1>18, RowEffect
  <2> QED BY <2>1 DEF RowAdded
<1>11. Len(d.truth) = 1 /\ DOMAIN d.truth = {1} /\ d.truth # << >>
  BY <1>7, <1>10
<1>12. d.truth[1] = [kind |-> "episode.begin", cause |-> "none", at |-> start]
  BY <1>10, <1>11
<1>13. SameClock(c, d)
  BY <1>7, <1>10 DEF SameClock
<1>14. Chosen(d, n, s)
  BY <1>13 DEF SameClock, Chosen, Selected
<1>15. Begun(a, d, n)
  <2>1. d.plannedEnd = d.targetSendTime + Span /\ d.targetContactStart = start
    BY <1>8, <1>10, <1>13 DEF SameEpisode, SameClock, end, start
  <2>2. d.truth[1].at <= n
    BY <1>1, <1>12
  <2> QED BY <1>11, <1>12, <2>1, <2>2 DEF Begun
<1>16. Open(a, d)
  <2>1. d.episodeOpen /\ d.episodeEndTime < 0
    BY <1>1, <1>8, <1>10 DEF SameEpisode
  <2> QED BY <1>11, <2>1 DEF Open
<1> QED BY <1>1, <1>7, <1>9, <1>10, <1>13, <1>14, <1>15, <1>16 DEF d

\* In an open episode an intervention is put on record behind what is there.
LEMMA InterventionOnRecord ==
  ASSUME Fixed, NEW a \in Arm, NEW c \in Controller, NEW n \in Nat, NEW s \in Nat,
         Chosen(c, n, s), Begun(a, c, n), Open(a, c), n <= c.plannedEnd,
         NEW cause \in {a, "third_cause"}, cause \notin Caused(c),
         NEW d, d = Row(c, "intervention", cause, n)
  PROVE  /\ d \in Controller /\ SameClock(c, d) /\ SameEpisode(c, d) /\ d.thrown = c.thrown
         /\ Chosen(d, n, s) /\ Begun(a, d, n) /\ Open(a, d)
         /\ Caused(d) = Caused(c) \cup {cause}
<1> DEFINE l == Len(c.truth)
           row == [kind |-> "intervention", cause |-> cause, at |-> n]
<1>1. "intervention" \in RowKind /\ cause \in Cause /\ n \in Int
  BY DEF RowKind, Cause, Arm
<1>2. /\ d \in Controller /\ SameClock(c, d) /\ SameEpisode(c, d) /\ d.thrown = c.thrown
      /\ d.truth \in Seq(RowSet) /\ Len(d.truth) = l + 1
      /\ d.truth[Len(d.truth)] = row
      /\ \A k \in 1..l : d.truth[k] = c.truth[k]
      /\ Caused(d) = Caused(c) \cup {cause}
  <2>1. RowAdded(c, row, d)
    BY <1>1, RowEffect
  <2> QED BY <2>1 DEF RowAdded
<1>11. c.truth \in Seq(RowSet)
  BY DEF Controller
<1>3. l \in Nat /\ DOMAIN c.truth = 1..l /\ DOMAIN d.truth = 1..(l + 1)
  BY <1>2, <1>11
<1>4. l >= 1
  BY <1>3, <1>11 DEF Begun
<1>5. Chosen(d, n, s)
  BY <1>2 DEF Chosen, SameClock
<1>6. row.kind = "intervention" /\ row.cause = cause /\ row.at = n
  OBVIOUS
<1> HIDE DEF l, row
<1>7. d.truth[l + 1] = row
  BY <1>2
<1>8. \A k \in DOMAIN d.truth : k \in DOMAIN c.truth \/ k = l + 1
  BY <1>3
<1>9. Begun(a, d, n)
  <2>1. d.plannedEnd = d.targetSendTime + Span /\ d.targetContactStart = c.targetContactStart
    BY <1>2 DEF SameEpisode, SameClock, Begun
  <2>2. d.truth # << >>
    BY <1>2, <1>3
  <2>3. d.truth[1] = c.truth[1]
    BY <1>2, <1>3, <1>4
  <2>4. ASSUME NEW k \in DOMAIN d.truth PROVE d.truth[k].at <= n
    <3>1. CASE k \in DOMAIN c.truth
      BY <1>2, <1>3, <3>1 DEF Begun
    <3>2. CASE k = l + 1
      BY <1>6, <1>7, <3>2
    <3> QED BY <1>8, <3>1, <3>2
  <2>5. ASSUME NEW k \in DOMAIN d.truth, k > 1 PROVE d.truth[k - 1].at <= d.truth[k].at
    <3>1. CASE k \in DOMAIN c.truth
      <4>1. k - 1 \in DOMAIN c.truth
        BY <1>3, <2>5, <3>1
      <4>2. d.truth[k - 1] = c.truth[k - 1] /\ d.truth[k] = c.truth[k]
        BY <1>2, <1>3, <3>1, <4>1
      <4> QED BY <2>5, <3>1, <4>2 DEF Begun
    <3>2. CASE k = l + 1
      <4>1. l \in DOMAIN c.truth /\ d.truth[l] = c.truth[l] /\ k - 1 = l
        BY <1>2, <1>3, <1>4, <3>2
      <4>2. c.truth[l].at <= n
        BY <4>1 DEF Begun
      <4> QED BY <1>6, <1>7, <3>2, <4>1, <4>2
    <3> QED BY <1>8, <3>1, <3>2
  <2>6. ASSUME NEW j \in DOMAIN d.truth, NEW k \in DOMAIN d.truth,
               d.truth[j].cause = a, d.truth[k].cause = a
        PROVE  j = k
    <3>1. \A i \in DOMAIN c.truth : d.truth[i] = c.truth[i]
      BY <1>2, <1>3
    <3>2. \A i \in DOMAIN c.truth : c.truth[i].cause # cause
      BY DEF Caused
    <3>3. CASE j \in DOMAIN c.truth /\ k \in DOMAIN c.truth
      BY <2>6, <3>1, <3>3 DEF Begun
    <3>4. CASE j \in DOMAIN c.truth /\ k = l + 1
      BY <1>6, <1>7, <2>6, <3>1, <3>2, <3>4
    <3>5. CASE j = l + 1 /\ k \in DOMAIN c.truth
      BY <1>6, <1>7, <2>6, <3>1, <3>2, <3>5
    <3> QED BY <1>8, <3>3, <3>4, <3>5
  <2> QED BY <2>1, <2>2, <2>3, <2>4, <2>5, <2>6 DEF Begun
<1>10. Open(a, d)
  <2>1. d.episodeOpen /\ d.episodeEndTime < 0
    BY <1>2 DEF SameEpisode, Open
  <2>2. ASSUME NEW k \in 2..Len(d.truth) PROVE Intervened(a, d, k)
    <3>1. d.targetSendTime = c.targetSendTime /\ d.plannedEnd = c.plannedEnd
      BY <1>2 DEF SameEpisode, SameClock
    <3>2. CASE k \in 2..l
      <4>1. d.truth[k] = c.truth[k]
        BY <1>2, <1>3, <3>2
      <4>2. Intervened(a, c, k)
        BY <3>2 DEF Open, l
      <4> QED BY <3>1, <4>1, <4>2 DEF Intervened
    <3>3. CASE k = l + 1
      <4>1. c.targetSendTime <= n
        BY DEF Chosen
      <4> QED BY <1>6, <1>7, <3>1, <3>3, <4>1 DEF Intervened
    <3>4. k \in 2..l \/ k = l + 1
      BY <1>2, <1>3
    <3> QED BY <3>2, <3>3, <3>4
  <2> QED BY <2>1, <2>2 DEF Open
<1> QED BY <1>2, <1>5, <1>9, <1>10

\* The episode clock keeps an episode what it is, and ends an open one when its end is
\* due.
LEMMA TickOfEpisode ==
  ASSUME Fixed, NEW a \in Arm, NEW c \in Controller, NEW n \in Nat, NEW s \in Nat,
         Episode(a, c, n, s), ~c.thrown, NEW d, d = TickEpisode(c, n)
  PROVE  d \in Controller /\ SameClock(c, d) /\ ~d.thrown /\ Episode(a, d, n, s)
<1>1. /\ c.targetSeq \in Int /\ c.targetSendTime \in Int /\ c.plannedEnd \in Int
      /\ c.episodeOpen \in BOOLEAN /\ c.episodeEndTime \in Int /\ c.truth \in Seq(RowSet)
  BY DEF Controller
<1>2. Chosen(c, n, s) /\ Begun(a, c, n) /\ ThirdOnRecord(c)
  BY DEF Episode
<1>3. c.plannedEnd >= 0
  <2>1. c.plannedEnd = c.targetSendTime + Span
    BY <1>2 DEF Begun
  <2>2. 0 <= c.targetContactStart /\ c.targetContactStart < c.targetSendTime
    BY <1>2 DEF Chosen
  <2>3. c.targetContactStart \in Int
    BY DEF Controller
  <2> QED BY <1>1, <2>1, <2>2, <2>3, SpanIsNat
<1>4. CASE ~(c.episodeOpen /\ n >= c.plannedEnd)
  <2>1. c.episodeOpen \/ c.episodeEndTime >= 0
    <3>1. c.episodeOpen \/ c.plannedEnd <= c.episodeEndTime
      BY DEF Episode, Open, Closed
    <3> QED BY <1>1, <1>3, <3>1
  <2>2. d = c
    BY <1>1, <1>4, <2>1 DEF TickEpisode, TickIn
  <2> QED BY <2>2 DEF SameClock
<1>5. CASE c.episodeOpen /\ n >= c.plannedEnd
  <2> DEFINE b == [c EXCEPT !.episodeOpen = FALSE, !.episodeEndTime = n]
             l == Len(c.truth)
             row == [kind |-> "episode.end", cause |-> "none", at |-> n]
  <2>1. d = Row(b, "episode.end", "none", n)
    BY <1>5 DEF TickEpisode, TickIn
  <2>2. /\ b \in Controller /\ SameClock(c, b) /\ b.thrown = c.thrown /\ b.truth = c.truth
        /\ b.plannedEnd = c.plannedEnd /\ b.episodeOpen = FALSE /\ b.episodeEndTime = n
    <3>1. b \in Controller
      <4>1. n \in Int /\ FALSE \in BOOLEAN
        OBVIOUS
      <4> QED BY <4>1 DEF Controller
    <3>2. /\ b.thrown = c.thrown /\ b.truth = c.truth /\ b.plannedEnd = c.plannedEnd
          /\ b.episodeOpen = FALSE /\ b.episodeEndTime = n
      BY DEF Controller
    <3>3. SameClock(c, b)
      BY DEF Controller, SameClock
    <3> QED BY <3>1, <3>2, <3>3
  <2> HIDE DEF b
  <2>3. "episode.end" \in RowKind /\ "none" \in Cause /\ n \in Int /\ b \in Controller
    BY <2>2 DEF RowKind, Cause
  <2>4. /\ d \in Controller /\ SameClock(b, d) /\ SameEpisode(b, d) /\ d.thrown = b.thrown
        /\ d.truth \in Seq(RowSet) /\ Len(d.truth) = Len(b.truth) + 1
        /\ d.truth[Len(d.truth)] = row
        /\ \A k \in 1..Len(b.truth) : d.truth[k] = b.truth[k]
        /\ Caused(d) = Caused(b) \cup {"none"}
    <3>1. RowAdded(b, row, d)
      BY <2>1, <2>3, RowEffect
    <3> QED BY <3>1 DEF RowAdded
  <2>5. row.kind = "episode.end" /\ row.cause = "none" /\ row.at = n
    OBVIOUS
  <2>6. l \in Nat /\ DOMAIN c.truth = 1..l /\ DOMAIN d.truth = 1..(l + 1) /\ Len(d.truth) = l + 1
    BY <1>1, <2>2, <2>4
  <2>7. l >= 1
    BY <1>1, <1>2, <2>6 DEF Begun
  <2>8. /\ \A k \in DOMAIN c.truth : d.truth[k] = c.truth[k]
        /\ d.truth[l + 1] = row
    BY <2>2, <2>4, <2>6
  <2>9. SameClock(c, d) /\ d.thrown = c.thrown
    BY <2>2, <2>4 DEF SameClock
  <2>10. d.plannedEnd = c.plannedEnd /\ d.episodeOpen = FALSE /\ d.episodeEndTime = n
    BY <2>2, <2>4 DEF SameEpisode
  <2>11. Caused(d) = Caused(c) \cup {"none"}
    <3>1. Caused(b) = Caused(c)
      BY <2>2 DEF Caused
    <3> QED BY <2>4, <3>1
  <2> HIDE DEF l
  <2>12. \A k \in DOMAIN d.truth : k \in DOMAIN c.truth \/ k = l + 1
    BY <2>6
  <2>13. Chosen(d, n, s)
    BY <1>2, <2>9 DEF Chosen, SameClock
  <2>14. Begun(a, d, n)
    <3>1. d.plannedEnd = d.targetSendTime + Span /\ d.targetContactStart = c.targetContactStart
      BY <1>2, <2>9, <2>10 DEF SameClock, Begun
    <3>2. d.truth # << >>
      BY <2>4, <2>6
    <3>3. d.truth[1] = c.truth[1]
      <4>1. 1 \in DOMAIN c.truth
        BY <2>6, <2>7
      <4> QED BY <2>8, <4>1
    <3>4. ASSUME NEW k \in DOMAIN d.truth PROVE d.truth[k].at <= n
      <4>1. CASE k \in DOMAIN c.truth
        BY <1>2, <2>8, <4>1 DEF Begun
      <4>2. CASE k = l + 1
        BY <2>5, <2>8, <4>2
      <4> QED BY <2>12, <4>1, <4>2
    <3>5. ASSUME NEW k \in DOMAIN d.truth, k > 1 PROVE d.truth[k - 1].at <= d.truth[k].at
      <4>1. CASE k \in DOMAIN c.truth
        <5>1. k - 1 \in DOMAIN c.truth
          BY <2>6, <3>5, <4>1
        <5>2. d.truth[k - 1] = c.truth[k - 1] /\ d.truth[k] = c.truth[k]
          BY <2>8, <4>1, <5>1
        <5> QED BY <1>2, <3>5, <4>1, <5>2 DEF Begun
      <4>2. CASE k = l + 1
        <5>1. l \in DOMAIN c.truth /\ d.truth[l] = c.truth[l] /\ k - 1 = l
          BY <2>6, <2>7, <2>8, <4>2
        <5>2. c.truth[l].at <= n
          BY <1>2, <5>1 DEF Begun
        <5> QED BY <2>5, <2>8, <4>2, <5>1, <5>2
      <4> QED BY <2>12, <4>1, <4>2
    <3>6. ASSUME NEW j \in DOMAIN d.truth, NEW k \in DOMAIN d.truth,
                 d.truth[j].cause = a, d.truth[k].cause = a
          PROVE  j = k
      <4>1. a # "none"
        BY DEF Arm
      <4>2. j \in DOMAIN c.truth /\ k \in DOMAIN c.truth
        BY <2>5, <2>8, <2>12, <3>6, <4>1
      <4> QED BY <1>2, <2>8, <3>6, <4>2 DEF Begun
    <3> QED BY <1>2, <3>1, <3>2, <3>3, <3>4, <3>5, <3>6 DEF Begun
  <2>15. Open(a, c)
    BY <1>5 DEF Episode, Closed
  <2>16. Closed(a, d, n)
    <3>1. ASSUME NEW k \in 2..(Len(d.truth) - 1) PROVE Intervened(a, d, k)
      <4>1. k \in 2..Len(c.truth) /\ k \in DOMAIN c.truth
        BY <2>6, <2>7 DEF l
      <4>2. Intervened(a, c, k)
        BY <2>15, <4>1 DEF Open
      <4>3. d.truth[k] = c.truth[k]
        BY <2>8, <4>1
      <4> QED BY <2>9, <2>10, <4>2, <4>3 DEF Intervened, SameClock
    <3>2. Len(d.truth) >= 2 /\ d.truth[Len(d.truth)] = row
      BY <2>4, <2>6, <2>7
    <3> QED BY <1>5, <2>10, <3>1, <3>2 DEF Closed
  <2>17. ThirdOnRecord(d)
    <3>1. "third_cause" \in Caused(d) <=> "third_cause" \in Caused(c)
      BY <2>11
    <3> QED BY <1>2, <3>1 DEF ThirdOnRecord
  <2> QED BY <2>4, <2>9, <2>13, <2>14, <2>16, <2>17 DEF Episode
<1> QED BY <1>4, <1>5

\* An episode under way, whatever the third cause.
Opened(a, c, n, s) == c \in Controller /\ Chosen(c, n, s) /\ Begun(a, c, n) /\ Open(a, c)

\* Two controllers with the same clock and episode stay so, while both or neither have
\* something to open an episode for.
LEMMA TickShared ==
  ASSUME NEW c \in Controller, NEW e \in Controller, NEW t \in Int,
         SameClock(c, e), SameEpisode(c, e), Scheduled(c) <=> Scheduled(e)
  PROVE  SameEpisode(TickEpisode(c, t), TickEpisode(e, t))
<1> DEFINE end == DeclaredEnd(c, t)
           start == EpisodeStart(c, CurrentPassStart(t))
           f == TickEpisode(c, t)
           g == TickEpisode(e, t)
           co == [c EXCEPT !.plannedEnd = end, !.episodeOpen = TRUE]
           eo == [e EXCEPT !.plannedEnd = end, !.episodeOpen = TRUE]
           cx == [c EXCEPT !.episodeOpen = FALSE, !.episodeEndTime = t]
           ex == [e EXCEPT !.episodeOpen = FALSE, !.episodeEndTime = t]
<1>1. EpisodeStart(e, CurrentPassStart(t)) = start /\ DeclaredEnd(e, t) = end
  BY DEF SameClock, EpisodeStart, DeclaredEnd
<1>2. /\ e.plannedEnd = c.plannedEnd /\ e.episodeEndTime = c.episodeEndTime
      /\ e.episodeOpen = c.episodeOpen
  BY DEF SameEpisode
<1>3. CASE ~c.episodeOpen /\ c.episodeEndTime < 0 /\ Scheduled(c) /\ start >= 0
  <2>1. f = Row(co, "episode.begin", "none", start)
    BY <1>3 DEF TickEpisode, TickIn
  <2>2. g = Row(eo, "episode.begin", "none", start)
    BY <1>1, <1>2, <1>3 DEF TickEpisode, TickIn
  <2>5. /\ co = [c EXCEPT !.plannedEnd = end, !.episodeOpen = TRUE]
        /\ eo = [e EXCEPT !.plannedEnd = end, !.episodeOpen = TRUE]
    OBVIOUS
  <2> HIDE DEF f, g, start, end, co, eo
  <2>3. f.episodeOpen = TRUE /\ f.plannedEnd = end /\ f.episodeEndTime = c.episodeEndTime
    BY <2>1, <2>5 DEF Row, Controller
  <2>4. g.episodeOpen = TRUE /\ g.plannedEnd = end /\ g.episodeEndTime = e.episodeEndTime
    BY <2>2, <2>5 DEF Row, Controller
  <2> QED BY <1>2, <2>3, <2>4 DEF SameEpisode, f, g
<1>4. CASE c.episodeOpen /\ t >= c.plannedEnd
  <2>1. f = Row(cx, "episode.end", "none", t)
    BY <1>4 DEF TickEpisode, TickIn
  <2>2. g = Row(ex, "episode.end", "none", t)
    BY <1>2, <1>4 DEF TickEpisode, TickIn
  <2>5. /\ cx = [c EXCEPT !.episodeOpen = FALSE, !.episodeEndTime = t]
        /\ ex = [e EXCEPT !.episodeOpen = FALSE, !.episodeEndTime = t]
    OBVIOUS
  <2> HIDE DEF f, g, cx, ex
  <2>3. f.episodeOpen = FALSE /\ f.plannedEnd = c.plannedEnd /\ f.episodeEndTime = t
    BY <2>1, <2>5 DEF Row, Controller
  <2>4. g.episodeOpen = FALSE /\ g.plannedEnd = e.plannedEnd /\ g.episodeEndTime = t
    BY <2>2, <2>5 DEF Row, Controller
  <2> QED BY <1>2, <2>3, <2>4 DEF SameEpisode, f, g
<1>5. CASE /\ ~(~c.episodeOpen /\ c.episodeEndTime < 0 /\ Scheduled(c) /\ start >= 0)
           /\ ~(c.episodeOpen /\ t >= c.plannedEnd)
  <2>1. f = c
    BY <1>5 DEF TickEpisode, TickIn
  <2>2. g = e
    BY <1>1, <1>2, <1>5 DEF TickEpisode, TickIn
  <2> QED BY <2>1, <2>2
<1> QED BY <1>3, <1>4, <1>5

\* What does not touch the episode or its record keeps both what they are.
LEMMA OpenedOnwards ==
  ASSUME NEW a, NEW c, NEW n, NEW s, Opened(a, c, n, s),
         NEW d \in Controller, SameClock(c, d), SameEpisode(c, d), d.truth = c.truth
  PROVE  Opened(a, d, n, s)
<1>1. Chosen(d, n, s)
  BY DEF Opened, Chosen, SameClock
<1>2. Begun(a, d, n)
  BY DEF Opened, Begun, SameClock, SameEpisode
<1>3. Open(a, d)
  BY DEF Opened, Open, Intervened, SameClock, SameEpisode
<1> QED BY <1>1, <1>2, <1>3 DEF Opened

LEMMA ThrownEffect ==
  ASSUME NEW c \in Controller, NEW d, d = [c EXCEPT !.thrown = TRUE]
  PROVE  /\ d \in Controller /\ SameClock(c, d) /\ SameEpisode(c, d) /\ d.truth = c.truth
         /\ d.thrown /\ Caused(d) = Caused(c)
<1>1. d \in Controller
  BY DEF Controller
<1>2. SameClock(c, d) /\ SameEpisode(c, d)
  BY DEF Controller, SameClock, SameEpisode
<1>3. d.truth = c.truth /\ d.thrown = TRUE
  BY DEF Controller
<1>4. Caused(d) = Caused(c)
  BY <1>3 DEF Caused
<1> QED BY <1>1, <1>2, <1>3, <1>4

\* recordIntervention in an open episode: a row of the arm's own cause, or the error.
LEMMA RecordEffect ==
  ASSUME Fixed, NEW a \in Arm, NEW c, NEW n \in Nat, NEW s \in Nat,
         Opened(a, c, n, s), n <= c.plannedEnd,
         NEW d, d = RecordIntervention(c, a, n)
  PROVE  /\ Opened(a, d, n, s) /\ SameClock(c, d) /\ SameEpisode(c, d)
         /\ c.thrown => d.thrown
         /\ Caused(c) \subseteq Caused(d) /\ Caused(d) \subseteq Caused(c) \cup {a}
<1>1. c \in Controller
  BY DEF Opened
<1>2. CASE InterventionEmitted(c)
  <2>1. d = [c EXCEPT !.thrown = TRUE]
    BY <1>2 DEF RecordIntervention
  <2>2. /\ d \in Controller /\ SameClock(c, d) /\ SameEpisode(c, d) /\ d.truth = c.truth
        /\ d.thrown /\ Caused(d) = Caused(c)
    BY <1>1, <2>1, ThrownEffect
  <2>3. Opened(a, d, n, s)
    BY <2>2, OpenedOnwards
  <2> QED BY <2>2, <2>3
<1>3. CASE ~InterventionEmitted(c)
  <2>1. d = Row(c, "intervention", a, n)
    BY <1>3 DEF RecordIntervention
  <2>2. a \notin Caused(c) /\ a \in {a, "third_cause"}
    BY <1>3 DEF InterventionEmitted, Arm
  <2>3. Chosen(c, n, s) /\ Begun(a, c, n) /\ Open(a, c)
    BY DEF Opened
  <2>4. /\ d \in Controller /\ SameClock(c, d) /\ SameEpisode(c, d) /\ d.thrown = c.thrown
        /\ Chosen(d, n, s) /\ Begun(a, d, n) /\ Open(a, d)
        /\ Caused(d) = Caused(c) \cup {a}
    BY <1>1, <2>1, <2>2, <2>3, InterventionOnRecord
  <2> QED BY <2>4 DEF Opened
<1> QED BY <1>2, <1>3

\* recordThirdCause in an open episode without one.
LEMMA ThirdEffect ==
  ASSUME Fixed, NEW a \in Arm, NEW c, NEW n \in Nat, NEW s \in Nat,
         Opened(a, c, n, s), n <= c.plannedEnd, "third_cause" \notin Caused(c),
         NEW d, d = RecordThirdCause(c, n)
  PROVE  /\ Opened(a, d, n, s) /\ SameClock(c, d) /\ SameEpisode(c, d) /\ d.thrown = c.thrown
         /\ ThirdOnRecord(d) /\ Caused(d) \subseteq Caused(c) \cup {"third_cause"}
<1>1. c \in Controller
  BY DEF Opened
<1>2. CASE robustness # "RB-third-cause"
  <2>1. d = c
    BY <1>2 DEF RecordThirdCause
  <2> QED BY <1>2, <2>1 DEF SameClock, SameEpisode, ThirdOnRecord
<1>3. CASE robustness = "RB-third-cause"
  <2>1. d = Row(c, "intervention", "third_cause", n)
    BY <1>3 DEF RecordThirdCause
  <2>2. "third_cause" \in {a, "third_cause"}
    OBVIOUS
  <2>3. Chosen(c, n, s) /\ Begun(a, c, n) /\ Open(a, c)
    BY DEF Opened
  <2>4. /\ d \in Controller /\ SameClock(c, d) /\ SameEpisode(c, d) /\ d.thrown = c.thrown
        /\ Chosen(d, n, s) /\ Begun(a, d, n) /\ Open(a, d)
        /\ Caused(d) = Caused(c) \cup {"third_cause"}
    BY <1>1, <2>1, <2>2, <2>3, InterventionOnRecord
  <2> QED BY <1>3, <2>4 DEF Opened, ThirdOnRecord
<1> QED BY <1>2, <1>3

-----------------------------------------------------------------------------
(* The satellite                                                           *)

\* What the satellite and its controller leave alone.
SameOutside(r, q) ==
  /\ q.air = r.air /\ q.ground = r.ground /\ q.gapEnd = r.gapEnd
  /\ q.outcome = r.outcome /\ q.hostileSent = r.hostileSent

LEMMA WithController ==
  ASSUME NEW r \in Run, NEW d \in Controller, NEW q, q = [r EXCEPT !.ctl = d]
  PROVE  q \in Run /\ q.ctl = d /\ q.shifted = r.shifted /\ SameOutside(r, q)
<1>1. q \in Run
  BY DEF Run
<1>2. q.ctl = d /\ q.shifted = r.shifted
  BY DEF Run
<1>3. SameOutside(r, q)
  BY DEF Run, SameOutside
<1> QED BY <1>1, <1>2, <1>3

LEMMA ShiftEffect ==
  ASSUME NEW r \in Run, NEW q, q = Shift(r)
  PROVE  q \in Run /\ q.ctl = r.ctl /\ q.shifted /\ SameOutside(r, q)
<1>1. q = [r EXCEPT !.shifted = TRUE]
  BY DEF Shift
<1>2. q \in Run
  BY <1>1 DEF Run
<1>3. q.ctl = r.ctl /\ q.shifted = TRUE
  BY <1>1 DEF Run
<1>4. SameOutside(r, q)
  BY <1>1 DEF Run, SameOutside
<1> QED BY <1>2, <1>3, <1>4

\* What a mechanism may do to an open episode.
Recorded(a, c, d, n, s) ==
  /\ Opened(a, d, n, s) /\ SameClock(c, d) /\ SameEpisode(c, d) /\ (c.thrown => d.thrown)
  /\ Caused(c) \subseteq Caused(d) /\ Caused(d) \subseteq Caused(c) \cup {a}

LEMMA WithRowEffect ==
  ASSUME Fixed, NEW a \in Arm, NEW r \in Run, now \in Nat, NEW s \in Nat,
         Opened(a, r.ctl, now, s), now <= r.ctl.plannedEnd,
         NEW q, q = WithRow(a, r)
  PROVE  /\ q \in Run /\ SameOutside(r, q) /\ Recorded(a, r.ctl, q.ctl, now, s)
         /\ q.shifted = r.shifted
<1> DEFINE d == RecordIntervention(r.ctl, a, now)
<1>1. q = [r EXCEPT !.ctl = d]
  BY DEF WithRow
<1>2. /\ Opened(a, d, now, s) /\ SameClock(r.ctl, d) /\ SameEpisode(r.ctl, d)
      /\ r.ctl.thrown => d.thrown
      /\ Caused(r.ctl) \subseteq Caused(d) /\ Caused(d) \subseteq Caused(r.ctl) \cup {a}
  BY RecordEffect
<1> HIDE DEF d
<1>3. d \in Controller
  BY <1>2 DEF Opened
<1>4. q \in Run /\ q.ctl = d /\ SameOutside(r, q) /\ q.shifted = r.shifted
  BY <1>1, <1>3, WithController
<1> QED BY <1>2, <1>4 DEF Recorded

LEMMA ThrowEffect ==
  ASSUME NEW a, NEW r \in Run, NEW n, NEW s, Opened(a, r.ctl, n, s), NEW q, q = Throw(r)
  PROVE  /\ q \in Run /\ SameOutside(r, q) /\ Recorded(a, r.ctl, q.ctl, n, s)
         /\ q.shifted = r.shifted /\ q.ctl.thrown
<1> DEFINE d == [r.ctl EXCEPT !.thrown = TRUE]
<1>1. q = [r EXCEPT !.ctl = d]
  BY DEF Throw
<1>2. r.ctl \in Controller /\ d = [r.ctl EXCEPT !.thrown = TRUE]
  BY DEF Opened
<1> HIDE DEF d
<1>3. /\ d \in Controller /\ SameClock(r.ctl, d) /\ SameEpisode(r.ctl, d)
      /\ d.truth = r.ctl.truth /\ d.thrown /\ Caused(d) = Caused(r.ctl)
  BY <1>2, ThrownEffect
<1>4. Opened(a, d, n, s)
  BY <1>3, OpenedOnwards
<1>5. q \in Run /\ q.ctl = d /\ SameOutside(r, q) /\ q.shifted = r.shifted
  BY <1>1, <1>3, WithController
<1> QED BY <1>3, <1>4, <1>5 DEF Recorded

LEMMA NothingRecorded ==
  ASSUME NEW a, NEW r, NEW n, NEW s, Opened(a, r.ctl, n, s)
  PROVE  SameOutside(r, r) /\ Recorded(a, r.ctl, r.ctl, n, s)
BY DEF SameOutside, Recorded, SameClock, SameEpisode

\* What the state jump has to do with the mechanism: only a fault on board jumps, SP-5's
\* does or ends the run, and SP-2's does whenever it is put on record.
Shifting(a, r, q) ==
  /\ q.shifted # r.shifted => q.shifted /\ a = "fault" /\ pair \in {"SP2", "SP3", "SP5"}
  /\ pair = "SP5" /\ a = "fault" => q.shifted \/ q.ctl.thrown
  /\ pair = "SP2" /\ a \in Caused(q.ctl) => q.shifted

\* The mechanism of a pair in an arm: nothing, a row, a row and the shift, or an error.
LEMMA MechanismEffect ==
  ASSUME Fixed, NEW a \in Arm, NEW r \in Run, now \in Nat, NEW s \in Nat,
         Opened(a, r.ctl, now, s), now <= r.ctl.plannedEnd, a \notin Caused(r.ctl),
         NEW q, q = Mechanism(a, r)
  PROVE  /\ q \in Run /\ SameOutside(r, q) /\ Recorded(a, r.ctl, q.ctl, now, s)
         /\ Shifting(a, r, q)
<1>1. pair \in {"SP1", "SP2", "SP3", "SP4", "SP5"}
  BY DEF Fixed, Pair
<1>2. \/ q = r /\ pair \in {"SP2", "SP3"}
      \/ q = WithRow(a, r) /\ (pair \in {"SP1", "SP4"} \/ (pair = "SP5" /\ a = "attack"))
      \/ q = WithRow(a, Shift(r)) /\ a = "fault" /\ pair \in {"SP2", "SP3", "SP5"}
      \/ q = Throw(r) /\ pair = "SP5"
  BY <1>1 DEF Mechanism, LedgerFault, Arm
<1>3. CASE q = r /\ pair \in {"SP2", "SP3"}
  BY <1>3, NothingRecorded DEF Shifting
<1>4. CASE q = WithRow(a, r) /\ (pair \in {"SP1", "SP4"} \/ (pair = "SP5" /\ a = "attack"))
  BY <1>4, WithRowEffect DEF Shifting
<1>5. CASE q = Throw(r) /\ pair = "SP5"
  BY <1>5, ThrowEffect DEF Shifting
<1>6. CASE q = WithRow(a, Shift(r)) /\ a = "fault" /\ pair \in {"SP2", "SP3", "SP5"}
  <2> DEFINE p == Shift(r)
  <2>1. p \in Run /\ p.ctl = r.ctl /\ p.shifted /\ SameOutside(r, p)
    BY ShiftEffect
  <2> HIDE DEF p
  <2>2. q = WithRow(a, p)
    BY <1>6 DEF p
  <2>3. Opened(a, p.ctl, now, s) /\ now <= p.ctl.plannedEnd
    BY <2>1
  <2>4. q \in Run /\ SameOutside(p, q) /\ Recorded(a, p.ctl, q.ctl, now, s) /\ q.shifted = p.shifted
    BY <2>1, <2>2, <2>3, WithRowEffect
  <2>5. SameOutside(r, q)
    BY <2>1, <2>4 DEF SameOutside
  <2>6. Shifting(a, r, q)
    BY <1>6, <2>1, <2>4 DEF Shifting
  <2> QED BY <2>1, <2>4, <2>5, <2>6
<1> QED BY <1>2, <1>3, <1>4, <1>5, <1>6

\* The third cause follows the mechanism unless that was an error, and either way the
\* episode has what it needs on record.
LEMMA ThirdCauseEffect ==
  ASSUME Fixed, NEW a \in Arm, NEW r \in Run, now \in Nat, NEW s \in Nat,
         Opened(a, r.ctl, now, s), now <= r.ctl.plannedEnd, "third_cause" \notin Caused(r.ctl),
         NEW q, q = ThirdCause(r)
  PROVE  /\ q \in Run /\ SameOutside(r, q)
         /\ Opened(a, q.ctl, now, s) /\ ThirdOnRecord(q.ctl)
         /\ SameClock(r.ctl, q.ctl) /\ SameEpisode(r.ctl, q.ctl) /\ q.ctl.thrown = r.ctl.thrown
         /\ q.shifted = r.shifted /\ Caused(q.ctl) \subseteq Caused(r.ctl) \cup {"third_cause"}
<1>1. CASE r.ctl.thrown
  <2>1. q = r
    BY <1>1 DEF ThirdCause
  <2>2. r.ctl.episodeOpen
    BY DEF Opened, Open
  <2>3. ThirdOnRecord(r.ctl)
    BY <1>1, <2>2 DEF ThirdOnRecord
  <2> QED BY <2>1, <2>3 DEF SameOutside, SameClock, SameEpisode
<1>2. CASE ~r.ctl.thrown
  <2> DEFINE d == RecordThirdCause(r.ctl, now)
  <2>1. q = [r EXCEPT !.ctl = d]
    BY <1>2 DEF ThirdCause
  <2>2. /\ Opened(a, d, now, s) /\ SameClock(r.ctl, d) /\ SameEpisode(r.ctl, d)
        /\ d.thrown = r.ctl.thrown /\ ThirdOnRecord(d)
        /\ Caused(d) \subseteq Caused(r.ctl) \cup {"third_cause"}
    BY ThirdEffect
  <2> HIDE DEF d
  <2>3. d \in Controller
    BY <2>2 DEF Opened
  <2>4. q \in Run /\ q.ctl = d /\ SameOutside(r, q) /\ q.shifted = r.shifted
    BY <2>1, <2>3, WithController
  <2> QED BY <2>2, <2>4
<1> QED BY <1>1, <1>2

\* A tick's consideration: it waits on, or an episode goes on untouched, or the offered
\* observation becomes the target and its episode opens.
Continues(a, r, q, n, s) ==
  \/ Waiting(q.ctl) /\ Waiting(r.ctl)
  \/ q = r /\ Episode(a, q.ctl, n, s)
  \/ /\ Waiting(r.ctl) /\ Episode(a, q.ctl, n, s) /\ Opened(a, q.ctl, n, s) /\ Visible(n)
     /\ q.ctl.targetSeq = s /\ q.ctl.targetSendTime = n

LEMMA ConsiderEffect ==
  ASSUME Fixed, NEW a \in Arm, NEW r \in Run, now \in Nat, NEW s \in Nat, s >= 1,
         Waiting(r.ctl) \/ Episode(a, r.ctl, now, s), NEW q, q = Consider(a, r, s)
  PROVE  /\ q \in Run /\ SameOutside(r, q) /\ Continues(a, r, q, now, s)
         /\ Visible(now) =>
              LET o == OfferTelemetryTarget(r.ctl, s, now) IN
              /\ SameClock(o, q.ctl)
              /\ Waiting(q.ctl) \/ Episode(a, r.ctl, now, s) => SameEpisode(o, q.ctl)
              /\ Waiting(r.ctl) /\ ~Waiting(q.ctl) => SameEpisode(TickEpisode(o, now), q.ctl)
         /\ IF Waiting(r.ctl) /\ ~Waiting(q.ctl) THEN Shifting(a, r, q) ELSE q.shifted = r.shifted
<1> DEFINE c == r.ctl
           o == OfferTelemetryTarget(c, s, now)
<1>1. c \in Controller /\ now \in Int /\ s \in Int
  BY DEF Run
<1>2. ~(Waiting(c) /\ Episode(a, c, now, s))
  BY <1>1 DEF Waiting, Episode, Chosen, Controller
<1>3. CASE ~Visible(now)
  <2>1. q = r
    BY <1>3 DEF Consider
  <2> QED BY <1>3, <2>1 DEF SameOutside, Continues
<1>4. CASE Visible(now)
  <2>1. /\ o \in Controller /\ SameEpisode(c, o) /\ SameRecord(c, o)
        /\ c.targetSeq >= 0 /\ c.firstPassStart >= 0 => o = c
        /\ c.targetSeq < 0 =>
             \/ o.targetSeq = c.targetSeq /\ o.targetContactStart = c.targetContactStart
             \/ /\ o.targetSeq = s /\ o.targetSendTime = now
                /\ o.targetContactStart = CurrentPassStart(now) /\ o.firstPassStart >= 0
    BY <1>1, <1>4, OfferEffect
  <2>2. CurrentPassStart(now) \in Int /\ CurrentPassStart(now) >= 0 /\ CurrentPassStart(now) < now
    BY <1>4, StartOfPass
  <2> DEFINE offered == [r EXCEPT !.ctl = o]
  <2>3. offered = [r EXCEPT !.ctl = o]
    OBVIOUS
  <2>4. offered \in Run /\ offered.ctl = o /\ SameOutside(r, offered) /\ offered.shifted = r.shifted
    BY <2>1, WithController
  <2>5. CASE o.targetSeq = c.targetSeq
    <3>1. q = offered
      BY <1>4, <2>4, <2>5 DEF Consider
    <3> HIDE DEF offered, o
    <3>2. CASE Waiting(c)
      <4>1. c.targetSeq \in Int /\ c.targetSeq < 0 /\ ~(s < 0) /\ s # c.targetSeq
        BY <1>1, <3>2 DEF Waiting, Controller
      <4>2. o.targetContactStart = c.targetContactStart
        BY <2>1, <2>5, <4>1
      <4>3. Waiting(o)
        BY <2>1, <2>5, <3>2, <4>2 DEF Waiting, SameEpisode, SameRecord
      <4>4. SameClock(o, o) /\ SameEpisode(o, o)
        BY DEF SameClock, SameEpisode
      <4> QED BY <1>2, <2>4, <3>1, <3>2, <4>3, <4>4 DEF Continues, o
    <3>3. CASE Episode(a, c, now, s)
      <4>1. c.targetSeq >= 0 /\ c.firstPassStart >= 0
        BY <1>1, <3>3 DEF Episode, Chosen, Controller
      <4>2. o = c
        BY <2>1, <4>1
      <4>3. offered = r
        BY <2>3, <4>2 DEF Run
      <4>4. SameClock(o, c) /\ SameEpisode(o, c)
        BY <4>2 DEF SameClock, SameEpisode
      <4> QED BY <1>2, <2>4, <3>1, <3>3, <4>3, <4>4 DEF Continues, o
    <3> QED BY <3>2, <3>3
  <2>6. CASE o.targetSeq # c.targetSeq
    <3>1. Waiting(c)
      <4>1. SUFFICES ASSUME Episode(a, c, now, s) PROVE FALSE
        OBVIOUS
      <4>2. c.targetSeq >= 0 /\ c.firstPassStart >= 0
        BY <1>1, <4>1 DEF Episode, Chosen, Controller
      <4> QED BY <2>1, <2>6, <4>2
    <3>2. c.targetSeq < 0
      BY <3>1 DEF Waiting
    <3>3. /\ o.targetSeq = s /\ o.targetSendTime = now
          /\ o.targetContactStart = CurrentPassStart(now) /\ o.firstPassStart >= 0
      BY <2>1, <2>6, <3>2
    <3>4. Selected(o, now, s)
      <4>1. Chosen(o, now, s)
        BY <2>2, <3>3 DEF Chosen
      <4>2. o.truth = << >> /\ ~o.episodeOpen /\ o.episodeEndTime < 0 /\ ~o.thrown
        BY <2>1, <3>1 DEF Waiting, SameEpisode, SameRecord
      <4> QED BY <3>3, <4>1, <4>2 DEF Selected
    <3> DEFINE t == TickEpisode(o, now)
               opened == [offered EXCEPT !.ctl = t]
               applied == Mechanism(a, opened)
    <3>5. q = ThirdCause(applied)
      BY <1>4, <2>4, <2>6 DEF Consider
    <3>6. /\ t \in Controller /\ SameClock(o, t) /\ ~t.thrown /\ Caused(t) = {"none"}
          /\ Chosen(t, now, s) /\ Begun(a, t, now) /\ Open(a, t)
      BY <2>1, <3>4, TickOfSelected
    <3>7. opened = [offered EXCEPT !.ctl = t]
      OBVIOUS
    <3> HIDE DEF t, offered, o
    <3>8. /\ opened \in Run /\ opened.ctl = t /\ SameOutside(offered, opened)
          /\ opened.shifted = offered.shifted
      BY <2>4, <3>6, <3>7, WithController
    <3>9. Opened(a, t, now, s)
      BY <3>6 DEF Opened
    <3>10. now <= t.plannedEnd
      <4>1. t.plannedEnd = t.targetSendTime + Span /\ t.targetSendTime = now
        BY <3>3, <3>6 DEF Begun, SameClock
      <4> QED BY <4>1, SpanIsNat
    <3> HIDE DEF opened
    <3>22. a \notin Caused(opened.ctl)
      BY <3>6, <3>8 DEF Arm
    <3>11. /\ applied \in Run /\ SameOutside(opened, applied) /\ Recorded(a, t, applied.ctl, now, s)
           /\ Shifting(a, opened, applied)
      BY <3>8, <3>9, <3>10, <3>22, MechanismEffect
    <3> HIDE DEF applied
    <3>12. /\ Opened(a, applied.ctl, now, s) /\ SameClock(t, applied.ctl)
           /\ SameEpisode(t, applied.ctl)
      BY <3>11 DEF Recorded
    <3>13. now <= applied.ctl.plannedEnd
      BY <3>10, <3>12 DEF SameEpisode
    <3>14. "third_cause" \notin Caused(applied.ctl)
      BY <3>6, <3>11 DEF Recorded, Arm
    <3>15. /\ q \in Run /\ SameOutside(applied, q)
           /\ Opened(a, q.ctl, now, s) /\ ThirdOnRecord(q.ctl)
           /\ SameClock(applied.ctl, q.ctl) /\ SameEpisode(applied.ctl, q.ctl)
           /\ q.shifted = applied.shifted /\ q.ctl.thrown = applied.ctl.thrown
           /\ Caused(q.ctl) \subseteq Caused(applied.ctl) \cup {"third_cause"}
      BY <3>5, <3>11, <3>12, <3>13, <3>14, ThirdCauseEffect
    <3>16. SameOutside(r, q)
      BY <2>4, <3>8, <3>11, <3>15 DEF SameOutside
    <3>17. SameClock(o, q.ctl) /\ SameEpisode(t, q.ctl)
      BY <3>6, <3>12, <3>15 DEF SameClock, SameEpisode
    <3>18. Episode(a, q.ctl, now, s)
      BY <3>15 DEF Opened, Episode
    <3>19. q.ctl.targetSeq = s /\ q.ctl.targetSendTime = now
      BY <3>3, <3>17 DEF SameClock
    <3>20. ~Waiting(q.ctl)
      BY <3>19 DEF Waiting
    <3>21. Continues(a, r, q, now, s)
      BY <1>4, <3>1, <3>15, <3>18, <3>19 DEF Continues
    <3>23. Shifting(a, r, q)
      <4>1. a \in Caused(q.ctl) => a \in Caused(applied.ctl)
        BY <3>15 DEF Arm
      <4> QED BY <2>4, <3>8, <3>11, <3>15, <4>1 DEF Shifting
    <3> QED BY <1>2, <3>1, <3>15, <3>16, <3>17, <3>20, <3>21, <3>23 DEF o, t
  <2> QED BY <2>5, <2>6
<1> QED BY <1>3, <1>4

-----------------------------------------------------------------------------
(* The space link                                                          *)

LEMMA ShortTransit ==
  ASSUME NearEarth, Fixed, NEW d \in Transits
  PROVE  /\ d \in Nat /\ d <= Span
         /\ pair = "SP4" => d + DelayTarget <= Span
         /\ pair \in {"SP2", "SP3"} => \A e \in Transits : d + e < Span
<1>1. pair \in {"SP1", "SP2", "SP3", "SP4", "SP5"}
  BY DEF Fixed, Pair
<1>2. /\ d \in Nat /\ DelayTarget \in Nat /\ Interval \in Nat /\ EclipseSteps \in Nat
      /\ ModeDuration \in Nat
  BY ScenarioAssumption, PairAssumption
<1>3. /\ d <= Interval
      /\ \A e \in Transits : e \in Nat /\ d + e < Interval * EclipseSteps /\ d + e < ModeDuration
  BY PairAssumption DEF NearEarth
<1> DEFINE eclipse == Interval * EclipseSteps
<1>4. eclipse \in Nat /\ d <= eclipse
  <2>1. eclipse \in Nat
    BY <1>2
  <2>2. d + d < eclipse
    BY <1>3
  <2> HIDE DEF eclipse
  <2> QED BY <1>2, <2>1, <2>2
<1>5. d <= ModeDuration
  <2>1. d + d < ModeDuration
    BY <1>3
  <2> QED BY <1>2, <2>1
<1>6. pair = "SP2" => Span = eclipse
  BY DEF Span
<1>7. \A e \in Transits : d + e < eclipse
  BY <1>3
<1> HIDE DEF eclipse
<1>8. CASE pair = "SP2"
  BY <1>2, <1>4, <1>6, <1>7, <1>8
<1>9. CASE pair # "SP2"
  BY <1>1, <1>2, <1>3, <1>5, <1>9 DEF Span
<1> QED BY <1>8, <1>9

\* One more item in the air.
Flown(r, q, i) ==
  /\ q.air = r.air \cup {i}
  /\ q.ctl = r.ctl /\ q.ground = r.ground /\ q.gapEnd = r.gapEnd
  /\ q.outcome = r.outcome /\ q.hostileSent = r.hostileSent

FlownAs(r, q, what, seq, at) ==
  \E i \in Item : i.what = what /\ i.seq = seq /\ i.at = at /\ q \in Run /\ Flown(r, q, i)

LEMMA FlyEffect ==
  ASSUME NEW r \in Run, NEW what \in {"frame", "late", "hostile"}, NEW seq \in Nat,
         NEW odd \in BOOLEAN, NEW at \in Int, NEW q, q = Fly(r, what, seq, odd, at)
  PROVE  FlownAs(r, q, what, seq, at)
<1> DEFINE i == [what |-> what, seq |-> seq, odd |-> odd, at |-> at]
           air == r.air \cup {i}
<1>1. i \in Item /\ i.what = what /\ i.seq = seq /\ i.at = at
  BY DEF Item
<1>2. q = [r EXCEPT !.air = air]
  BY DEF Fly
<1> HIDE DEF i
<1>3. air \in SUBSET Item
  BY <1>1 DEF Run
<1>4. air = r.air \cup {i}
  OBVIOUS
<1> HIDE DEF air
<1>5. q \in Run
  BY <1>2, <1>3 DEF Run
<1>6. Flown(r, q, i)
  BY <1>2, <1>4 DEF Run, Flown
<1> QED BY <1>1, <1>5, <1>6 DEF FlownAs

Frame == [seq : Nat, odd : BOOLEAN]

\* A frame is sent where the timer sees a contact, and lost where the contact ends at
\* that instant.
SentDown(a, r, f, d) == IF Visible(now) THEN LinkDown(a, r, f, d) ELSE r
Linked(t) == Visible(t) /\ InView(t)

\* What the link does to a frame: it sends it on or loses it, and in contact it does not
\* lose the target.
LEMMA LinkEffect ==
  ASSUME NearEarth, Fixed, NEW a \in Arm, NEW r \in Run, now \in Nat, NEW f \in Frame,
         NEW d \in Transits, NEW q, q = SentDown(a, r, f, d)
  PROVE  /\ q \in Run /\ q.ctl = r.ctl /\ q.ground = r.ground /\ q.outcome = r.outcome
         /\ q.gapEnd = r.gapEnd \/ r.ctl.targetSeq = f.seq
         /\ r.air \subseteq q.air
         /\ \A i \in q.air \ r.air : /\ i.what = "frame" /\ i.seq = f.seq /\ now <= i.at
                                     /\ a = "attack" => i.at = now + d
         /\ Linked(now) /\ r.ctl.targetSeq = f.seq /\ r.gapEnd < 0 =>
              \E i \in q.air : /\ i.seq = f.seq /\ i.what \in {"frame", "late"}
                               /\ i.at <= now + Span
<1>1. /\ f.seq \in Nat /\ f.odd \in BOOLEAN /\ r.gapEnd \in Int /\ d \in Nat
      /\ DelayTarget \in Nat /\ now \in Int
  BY ShortTransit, ScenarioAssumption DEF Frame, Run
<1>2. d <= Span /\ (pair = "SP4" => d + DelayTarget <= Span) /\ Span \in Nat
  BY ShortTransit, SpanIsNat
<1>3. ASSUME NEW w \in Nat, NEW p, p = Forward(r, f, w)
      PROVE  \E i \in Item : /\ i.what = "frame" /\ i.seq = f.seq /\ i.at = now + w
                             /\ p \in Run /\ Flown(r, p, i)
  <2> DEFINE at == now + w
             seq == f.seq
             odd == f.odd
  <2>1. p = Fly(r, "frame", seq, odd, at)
    BY <1>3 DEF Forward
  <2>2. at \in Int /\ seq \in Nat /\ odd \in BOOLEAN
    BY <1>1
  <2> HIDE DEF at, seq, odd
  <2>3. FlownAs(r, p, "frame", seq, at)
    BY <2>1, <2>2, FlyEffect
  <2> QED BY <2>3 DEF at, seq, FlownAs
<1>4. pair # "SP6"
  BY DEF Fixed
<1>5. CASE q = r /\ (~Linked(now) \/ r.gapEnd >= 0)
  BY <1>1, <1>5
<1>6. CASE q = Forward(r, f, d)
  <2>1. PICK i \in Item : /\ i.what = "frame" /\ i.seq = f.seq /\ i.at = now + d
                          /\ q \in Run /\ Flown(r, q, i)
    BY <1>1, <1>3, <1>6
  <2>2. now <= i.at /\ i.at <= now + Span
    BY <1>1, <1>2, <2>1
  <2> QED BY <2>1, <2>2 DEF Flown
<1>7. CASE /\ a = "fault" /\ pair = "SP4" /\ IsTarget(r, f.seq)
           /\ q = [Forward(r, f, d + DelayTarget) EXCEPT !.gapEnd = now + DelayTarget]
  <2> DEFINE p == Forward(r, f, d + DelayTarget)
             gap == now + DelayTarget
             w == d + DelayTarget
  <2>1. w \in Nat /\ p = Forward(r, f, w) /\ gap \in Int
    BY <1>1
  <2>2. q = [p EXCEPT !.gapEnd = gap]
    BY <1>7
  <2>3. w <= Span /\ w = d + DelayTarget
    BY <1>2, <1>7
  <2> HIDE DEF p, gap, w
  <2>4. PICK i \in Item : /\ i.what = "frame" /\ i.seq = f.seq /\ i.at = now + w
                          /\ p \in Run /\ Flown(r, p, i)
    BY <1>3, <2>1
  <2>5. q \in Run
    BY <2>1, <2>2, <2>4 DEF Run
  <2>6. q.ctl = p.ctl /\ q.ground = p.ground /\ q.outcome = p.outcome /\ q.air = p.air
    BY <2>2, <2>4 DEF Run
  <2>7. now <= i.at /\ i.at <= now + Span
    BY <1>1, <1>2, <2>1, <2>3, <2>4
  <2>8. r.ctl.targetSeq = f.seq
    BY <1>7 DEF IsTarget
  <2>9. q.air = r.air \cup {i} /\ q.ctl = r.ctl /\ q.ground = r.ground /\ q.outcome = r.outcome
    BY <2>4, <2>6 DEF Flown
  <2> QED BY <1>7, <2>4, <2>5, <2>7, <2>8, <2>9
<1>8. \/ q = r /\ (~Linked(now) \/ r.gapEnd >= 0)
      \/ q = Forward(r, f, d)
      \/ /\ a = "fault" /\ pair = "SP4" /\ IsTarget(r, f.seq)
         /\ q = [Forward(r, f, d + DelayTarget) EXCEPT !.gapEnd = now + DelayTarget]
  BY <1>4 DEF SentDown, Linked, LinkDown, CausalCoverageGap, GapOpen
<1> QED BY <1>5, <1>6, <1>7, <1>8

-----------------------------------------------------------------------------
(* The telemetry tick                                                      *)

LEMMA EpisodeLater ==
  ASSUME NEW a, NEW c \in Controller, NEW m \in Nat, NEW n \in Nat, NEW s \in Nat, NEW u \in Nat,
         Episode(a, c, m, s), m <= n, s <= u
  PROVE  Episode(a, c, n, u)
<1>1. c.targetSeq \in Int /\ c.targetSendTime \in Int /\ c.episodeEndTime \in Int /\ c.truth \in Seq(RowSet)
  BY DEF Controller
<1>2. Chosen(c, n, u)
  BY <1>1 DEF Episode, Chosen
<1>3. Begun(a, c, n)
  <2>1. Begun(a, c, m)
    BY DEF Episode
  <2>2. ASSUME NEW k \in DOMAIN c.truth PROVE c.truth[k].at <= n
    <3>1. c.truth[k].at \in Int
      <4>1. c.truth[k] \in RowSet
        BY <1>1
      <4> QED BY <4>1 DEF RowSet
    <3>2. c.truth[k].at <= m
      BY <2>1 DEF Begun
    <3> QED BY <3>1, <3>2
  <2> QED BY <2>1, <2>2 DEF Begun
<1>4. Open(a, c) \/ Closed(a, c, n)
  BY <1>1 DEF Episode, Closed
<1> QED BY <1>2, <1>3, <1>4 DEF Episode

\* Before the target its number is negative, and in the episode it is one that was sent.
LEMMA StageTyped ==
  ASSUME NEW a, NEW c \in Controller, NEW n, NEW s
  PROVE  /\ Waiting(c) => c.targetSeq < 0 /\ ~(c.targetSeq >= 0) /\ ~c.thrown
         /\ Episode(a, c, n, s) => c.targetSeq >= 1 /\ c.targetSeq >= 0 /\ ~(c.targetSeq < 0)
                                   /\ c.targetSeq <= s
<1>1. c.targetSeq \in Int
  BY DEF Controller
<1> QED BY <1>1 DEF Waiting, Episode, Chosen

LEMMA FrameIsOdd ==
  ASSUME Fixed, NEW a, NEW r \in Run, NEW q \in Run, NEW seq
  PROVE  FrameOdd(a, r, q, seq) \in BOOLEAN
<1>1. pair \in {"SP1", "SP2", "SP3", "SP4", "SP5"}
  BY DEF Fixed, Pair
<1>2. r.shifted \in BOOLEAN /\ q.shifted \in BOOLEAN
  BY DEF Run
<1> QED BY <1>1, <1>2 DEF FrameOdd

\* The episode clock brings no third cause: it was on record with the target.
LEMMA NoLateThird ==
  ASSUME Fixed, NEW a \in Arm, NEW k \in Run, now \in Nat, NEW s \in Nat,
         Stage(a, k.ctl, now, s), ~k.ctl.thrown,
         NEW p, p = [k EXCEPT !.ctl = TickEpisode(@, now)]
  PROVE  p.ctl.episodeOpen => ThirdCause(p) = p
<1> DEFINE e == TickEpisode(k.ctl, now)
<1>1. k.ctl \in Controller /\ now \in Int
  BY DEF Run
<1>2. e \in Controller /\ ~e.thrown /\ (e.episodeOpen => ThirdOnRecord(e))
  <2>1. CASE Waiting(k.ctl)
    <3>1. e = k.ctl
      BY <1>1, <2>1, TickOfWaiting
    <3> QED BY <1>1, <2>1, <3>1 DEF Waiting
  <2>2. CASE Episode(a, k.ctl, now, s)
    <3>1. e \in Controller /\ ~e.thrown /\ Episode(a, e, now, s)
      BY <1>1, <2>2, TickOfEpisode
    <3> QED BY <3>1 DEF Episode
  <2> QED BY <2>1, <2>2 DEF Stage
<1>3. p = [k EXCEPT !.ctl = e]
  OBVIOUS
<1> HIDE DEF e
<1>4. p \in Run /\ p.ctl = e
  <2>1. e \in Controller
    BY <1>2
  <2>2. p \in Run
    BY <1>3, <2>1 DEF Run
  <2>3. p.ctl = e
    BY <1>3 DEF Run
  <2> QED BY <2>2, <2>3
<1>5. e.episodeOpen => RecordThirdCause(e, now) = e
  BY <1>2 DEF ThirdOnRecord, RecordThirdCause
<1>6. [p EXCEPT !.ctl = e] = p
  BY <1>4 DEF Run
<1> QED BY <1>2, <1>4, <1>5, <1>6 DEF ThirdCause

\* What a tick makes of an arm that no error ended.
LEMMA TelemetryForm ==
  ASSUME Fixed, NEW a \in Arm, NEW r, now \in Nat, NEW s \in Nat,
         ~r.ctl.thrown, r.outcome = "running", NEW k \in Run, k = Consider(a, r, s),
         Stage(a, k.ctl, now, s), ~k.ctl.thrown,
         NEW p, p = [k EXCEPT !.ctl = TickEpisode(@, now)], NEW d
  PROVE  TelemetryOf(a, r, s, d) = SentDown(a, p, [seq |-> s, odd |-> FrameOdd(a, r, k, s)], d)
<1>1. p.ctl.episodeOpen => ThirdCause(p) = p
  BY NoLateThird
<1> QED BY <1>1 DEF TelemetryOf, Going, SentDown

\* Which controller a tick leaves in an arm that goes on.
TickedFrom(a, r, q, s) ==
  LET k == Consider(a, r, s).ctl IN
  /\ r.ctl.thrown => q = r
  /\ ~r.ctl.thrown /\ k.thrown => q.ctl = k
  /\ ~r.ctl.thrown /\ ~k.thrown => q.ctl = TickEpisode(k, now)

LEMMA TelemetryStep ==
  ASSUME NearEarth, Fixed, NEW a \in Arm, NEW r, now \in Nat, sent \in Nat,
         ArmInv(a, r, now, sent), r.outcome = "running",
         NEW d \in Transits, NEW q, q = TelemetryOf(a, r, sent + 1, d)
  PROVE  ArmInv(a, q, now, sent + 1) /\ TickedFrom(a, r, q, sent + 1)
<1> DEFINE s == sent + 1
           k == Consider(a, r, s)
<1>1. /\ r \in Run /\ Stage(a, r.ctl, now, sent) /\ (r.gapEnd >= 0 => r.ctl.targetSeq >= 0)
      /\ InTheAir(a, r, now, sent)
      /\ r.ctl.targetSeq >= 0 /\ ~r.ctl.thrown /\ InView(r.ctl.targetSendTime) => Reaching(r)
  BY DEF ArmInv
<1>2. s \in Nat /\ s \in Int /\ s >= 1 /\ sent <= s /\ now \in Int
  OBVIOUS
<1>3. r.ctl \in Controller /\ (\A i \in r.air : i \in Item) /\ r.ground \in Seq(Delivery)
  BY <1>1 DEF Run
<1>4. \A i \in Item : i.seq \in Int /\ i.at \in Int
  BY DEF Item
<1>5. Waiting(r.ctl) \/ Episode(a, r.ctl, now, s)
  <2>1. Episode(a, r.ctl, now, sent) => Episode(a, r.ctl, now, s)
    BY <1>2, <1>3, EpisodeLater
  <2> QED BY <1>1, <2>1 DEF Stage
<1>6. \A i \in r.air : i.seq <= sent /\ i.seq <= s /\ i.seq # s
  BY <1>1, <1>3, <1>4 DEF InTheAir
<1>7. r.ctl.targetSeq # s
  <2>1. r.ctl.targetSeq < 0 \/ r.ctl.targetSeq <= sent
    BY <1>1, <1>3, StageTyped DEF Stage
  <2>2. r.ctl.targetSeq \in Int
    BY <1>3 DEF Controller
  <2> QED BY <2>1, <2>2
<1> HIDE DEF s
<1>8. CASE r.ctl.thrown
  <2>1. q = r
    BY <1>8 DEF TelemetryOf, Going, s
  <2>2. InTheAir(a, r, now, s)
    BY <1>1, <1>6 DEF InTheAir
  <2>3. ArmInv(a, r, now, s)
    BY <1>1, <1>5, <1>8, <2>2 DEF ArmInv, Stage
  <2> QED BY <1>8, <2>1, <2>3 DEF TickedFrom, s
<1>9. CASE ~r.ctl.thrown
  <2>1. /\ k \in Run /\ SameOutside(r, k) /\ Continues(a, r, k, now, s)
    BY <1>1, <1>2, <1>5, ConsiderEffect
  <2>2. k.ctl \in Controller /\ Stage(a, k.ctl, now, s)
    BY <2>1, <1>5 DEF Run, Continues, Stage
  <2>3. k.air = r.air /\ k.ground = r.ground /\ k.gapEnd = r.gapEnd /\ k.outcome = "running"
    BY <2>1 DEF SameOutside
  <2>4. \/ r.ctl.targetSeq < 0 /\ ~(r.ctl.targetSeq >= 0) /\ k.ctl.targetSeq < 0
        \/ k = r /\ r.ctl.targetSeq >= 1
        \/ /\ ~(r.ctl.targetSeq >= 0) /\ Visible(now)
           /\ k.ctl.targetSeq = s /\ k.ctl.targetSendTime = now /\ k.ctl.targetSeq >= 0
    BY <1>3, <2>1, <2>2, StageTyped DEF Continues
  <2>5. r.gapEnd >= 0 => k.ctl.targetSeq >= 0
    BY <1>1, <2>4
  <2>6. \A i \in r.air : i.what # "hostile" \/ k = r
    BY <1>1, <2>4 DEF InTheAir
  <2> HIDE DEF k
  \* What was in the air before is neither the new target nor behind the clock.
  <2>7. ASSUME NEW p, p.ctl.targetSeq = k.ctl.targetSeq,
               p.ctl.targetSendTime = k.ctl.targetSendTime, NEW i \in r.air
        PROVE  /\ i.seq <= s /\ now <= i.at
               /\ i.what = "hostile" =>
                    p.ctl.targetSeq >= 0 /\ i.at < p.ctl.targetSendTime + Span /\ a = "attack"
               /\ i.what = "frame" /\ p.ctl.targetSeq >= 0 /\ i.seq = p.ctl.targetSeq
                  /\ a = "attack" => \E e \in Transits : i.at = p.ctl.targetSendTime + e
    <3>1. i.seq <= s /\ i.seq # s /\ now <= i.at
      BY <1>1, <1>6, <1>9 DEF InTheAir
    <3>2. CASE k = r
      BY <1>1, <2>7, <3>1, <3>2 DEF InTheAir
    <3>3. CASE k # r
      <4>1. i.what # "hostile"
        BY <2>6, <3>3
      <4>2. p.ctl.targetSeq < 0 \/ p.ctl.targetSeq = s
        BY <2>4, <2>7, <3>3
      <4>3. k.ctl.targetSeq \in Int
        BY <2>2 DEF Controller
      <4>4. ~(p.ctl.targetSeq >= 0 /\ i.seq = p.ctl.targetSeq)
        BY <2>7, <3>1, <4>2, <4>3
      <4> QED BY <3>1, <4>1, <4>4
    <3> QED BY <3>2, <3>3
  <2>8. CASE k.ctl.thrown
    <3>1. q = k
      BY <1>9, <2>8 DEF TelemetryOf, Going, k, s
    <3>2. InTheAir(a, k, now, s)
      BY <2>3, <2>7 DEF InTheAir
    <3>3. ArmInv(a, k, now, s)
      BY <2>1, <2>2, <2>3, <2>5, <2>8, <3>2 DEF ArmInv
    <3> QED BY <1>9, <2>8, <3>1, <3>3 DEF TickedFrom, k, s
  <2>9. CASE ~k.ctl.thrown
    <3> DEFINE e == TickEpisode(k.ctl, now)
               ticked == [k EXCEPT !.ctl = e]
               odd == FrameOdd(a, r, k, s)
               frame == [seq |-> s, odd |-> odd]
    <3>1. q = SentDown(a, ticked, frame, d)
      BY <1>2, <1>9, <2>1, <2>2, <2>9, TelemetryForm DEF k, s, ArmInv
    <3>2. ticked = [k EXCEPT !.ctl = e]
      OBVIOUS
    <3>3. /\ e \in Controller /\ SameClock(k.ctl, e) /\ ~e.thrown
          /\ Stage(a, e, now, s)
      <4>1. CASE Waiting(k.ctl)
        <5>1. e = k.ctl
          BY <1>2, <2>2, <4>1, TickOfWaiting
        <5> QED BY <2>2, <2>9, <5>1 DEF SameClock
      <4>2. CASE Episode(a, k.ctl, now, s)
        BY <1>2, <2>2, <2>9, <4>2, TickOfEpisode DEF Stage
      <4> QED BY <2>2, <4>1, <4>2 DEF Stage
    <3>4. odd \in BOOLEAN
      BY <1>1, <2>1, FrameIsOdd
    <3> HIDE DEF e, odd
    <3>5. frame \in Frame /\ frame.seq = s
      BY <1>2, <3>4 DEF Frame
    <3> HIDE DEF ticked, frame
    <3>6. ticked \in Run /\ ticked.ctl = e /\ SameOutside(k, ticked)
      BY <2>1, <3>2, <3>3, WithController
    <3>7. /\ q \in Run /\ q.ctl = e /\ q.ground = ticked.ground /\ q.outcome = ticked.outcome
          /\ q.gapEnd = ticked.gapEnd \/ e.targetSeq = s
          /\ ticked.air \subseteq q.air
          /\ \A i \in q.air \ ticked.air : /\ i.what = "frame" /\ i.seq = s /\ now <= i.at
                                           /\ a = "attack" => i.at = now + d
          /\ Linked(now) /\ e.targetSeq = s /\ ticked.gapEnd < 0 =>
               \E i \in q.air : /\ i.seq = s /\ i.what \in {"frame", "late"}
                                /\ i.at <= now + Span
      BY <3>1, <3>5, <3>6, LinkEffect
    <3>8. /\ q.ground = r.ground /\ q.outcome = "running" /\ ticked.air = r.air
          /\ ticked.gapEnd = r.gapEnd /\ r.gapEnd \in Int
      BY <1>1, <2>3, <3>6, <3>7 DEF SameOutside, Run
    <3>9. q.ctl.targetSeq = k.ctl.targetSeq /\ q.ctl.targetSendTime = k.ctl.targetSendTime
      BY <3>3, <3>7 DEF SameClock
    <3>10. InTheAir(a, q, now, s)
      <4>1. ASSUME NEW i \in q.air, i \notin r.air
            PROVE  /\ i.seq = s /\ i.seq <= s /\ now <= i.at /\ i.what = "frame"
                   /\ a = "attack" => i.at = now + d
        BY <1>2, <3>7, <3>8, <4>1
      <4>2. ASSUME NEW i \in q.air, i \notin r.air, k.ctl.targetSeq = i.seq, k.ctl.targetSeq >= 0
            PROVE  k.ctl.targetSendTime = now
        <5>1. k.ctl.targetSeq = s /\ ~(k.ctl.targetSeq < 0)
          BY <1>2, <4>1, <4>2
        <5>2. k # r
          BY <1>7, <5>1
        <5> QED BY <2>4, <5>1, <5>2
      <4>3. ASSUME NEW i \in q.air
            PROVE  /\ i.seq <= s /\ now <= i.at
                   /\ i.what = "hostile" =>
                        q.ctl.targetSeq >= 0 /\ i.at < q.ctl.targetSendTime + Span /\ a = "attack"
                   /\ i.what = "frame" /\ q.ctl.targetSeq >= 0 /\ i.seq = q.ctl.targetSeq
                      /\ a = "attack" => \E x \in Transits : i.at = q.ctl.targetSendTime + x
        <5>1. CASE i \in r.air
          BY <2>7, <3>9, <5>1
        <5>2. CASE i \notin r.air
          BY <3>9, <4>1, <4>2, <5>2
        <5> QED BY <5>1, <5>2
      <4> QED BY <4>3 DEF InTheAir
    <3>11. q.gapEnd >= 0 => q.ctl.targetSeq >= 0
      BY <1>2, <2>5, <3>7, <3>8, <3>9
    <3>12. ASSUME q.ctl.targetSeq >= 0, InView(q.ctl.targetSendTime) PROVE Reaching(q)
      <4>1. CASE k = r /\ r.ctl.targetSeq >= 1
        <5>1. Reaching(r)
          BY <1>1, <1>9, <3>9, <3>12, <4>1
        <5> QED BY <3>7, <3>8, <3>9, <4>1, <5>1 DEF Reaching
      <4>2. CASE /\ ~(r.ctl.targetSeq >= 0) /\ Visible(now)
                 /\ k.ctl.targetSeq = s /\ k.ctl.targetSendTime = now
        <5>1. r.gapEnd < 0
          BY <1>1, <3>8, <4>2
        <5>2. e.targetSeq = s
          BY <3>7, <3>9, <4>2
        <5>4. Linked(now)
          BY <3>9, <3>12, <4>2 DEF Linked
        <5>3. \E i \in q.air : /\ i.seq = s /\ i.what \in {"frame", "late"} /\ i.at <= now + Span
          BY <3>7, <3>8, <4>2, <5>1, <5>2, <5>4
        <5> QED BY <3>9, <4>2, <5>3 DEF Reaching
      <4>3. k.ctl.targetSeq \in Int
        BY <2>2 DEF Controller
      <4> QED BY <2>4, <3>9, <3>12, <4>1, <4>2, <4>3
    <3>13. ArmInv(a, q, now, s)
      BY <3>3, <3>7, <3>8, <3>10, <3>11, <3>12 DEF ArmInv
    <3> QED BY <1>9, <2>9, <3>7, <3>13 DEF TickedFrom, e, k, s
  <2> QED BY <2>8, <2>9
<1> QED BY <1>8, <1>9

\* The clock after the tick is the clock the consideration left.
LEMMA TickedClock ==
  ASSUME NearEarth, Fixed, NEW a \in Arm, NEW r \in Run, now \in Nat, NEW s \in Nat, s >= 1,
         Waiting(r.ctl) \/ Episode(a, r.ctl, now, s), NEW q, TickedFrom(a, r, q, s)
  PROVE  LET k == Consider(a, r, s).ctl IN
         /\ k \in Controller /\ Stage(a, k, now, s)
         /\ ~r.ctl.thrown => SameClock(k, q.ctl) /\ (q.ctl.thrown <=> k.thrown)
         /\ r.ctl.targetSeq >= 0 => SameClock(r.ctl, q.ctl)
<1> DEFINE k == Consider(a, r, s)
           e == TickEpisode(k.ctl, now)
<1>1. k \in Run /\ Continues(a, r, k, now, s)
  BY ConsiderEffect
<1>2. k.ctl \in Controller /\ r.ctl \in Controller /\ now \in Int
  BY <1>1 DEF Run
<1>3. Stage(a, k.ctl, now, s)
  BY <1>1 DEF Continues, Stage
<1>4. /\ r.ctl.thrown => q = r
      /\ ~r.ctl.thrown /\ k.ctl.thrown => q.ctl = k.ctl
      /\ ~r.ctl.thrown /\ ~k.ctl.thrown => q.ctl = e
  BY DEF TickedFrom
<1>5. r.ctl.targetSeq >= 0 => k = r
  BY <1>1, <1>2, StageTyped DEF Continues
<1>6. ~k.ctl.thrown => SameClock(k.ctl, e) /\ ~e.thrown
  <2>1. CASE Waiting(k.ctl)
    <3>1. e = k.ctl
      BY <1>2, <2>1, TickOfWaiting
    <3> QED BY <3>1 DEF SameClock
  <2>2. CASE Episode(a, k.ctl, now, s) /\ ~k.ctl.thrown
    BY <1>2, <2>2, TickOfEpisode
  <2> QED BY <1>3, <2>1, <2>2 DEF Stage
<1> HIDE DEF k, e
<1>7. ~r.ctl.thrown => SameClock(k.ctl, q.ctl) /\ (q.ctl.thrown <=> k.ctl.thrown)
  <2>1. SameClock(k.ctl, k.ctl)
    BY DEF SameClock
  <2> QED BY <1>4, <1>6, <2>1
<1>8. r.ctl.targetSeq >= 0 => SameClock(r.ctl, q.ctl)
  <2>1. SameClock(r.ctl, r.ctl)
    BY DEF SameClock
  <2> QED BY <1>4, <1>5, <1>7, <2>1
<1> QED BY <1>2, <1>3, <1>7, <1>8 DEF k

\* What two arms that no error ended make of the same offer.
LEMMA ConsiderShared ==
  ASSUME Fixed, NEW r \in Run, NEW x \in Run, now \in Nat, NEW s \in Nat, s >= 1,
         Waiting(r.ctl) \/ Episode("attack", r.ctl, now, s),
         Waiting(x.ctl) \/ Episode("fault", x.ctl, now, s),
         SameClock(r.ctl, x.ctl), SameEpisode(r.ctl, x.ctl),
         NEW k, k = Consider("attack", r, s), NEW l, l = Consider("fault", x, s)
  PROVE  SameClock(k.ctl, l.ctl) /\ SameEpisode(k.ctl, l.ctl)
<1> DEFINE o == OfferTelemetryTarget(r.ctl, s, now)
           u == OfferTelemetryTarget(x.ctl, s, now)
<1>1. /\ k \in Run /\ Continues("attack", r, k, now, s)
      /\ Visible(now) =>
           /\ SameClock(o, k.ctl)
           /\ Waiting(k.ctl) \/ Episode("attack", r.ctl, now, s) => SameEpisode(o, k.ctl)
           /\ Waiting(r.ctl) /\ ~Waiting(k.ctl) => SameEpisode(TickEpisode(o, now), k.ctl)
  BY ConsiderEffect DEF Arm
<1>2. /\ l \in Run /\ Continues("fault", x, l, now, s)
      /\ Visible(now) =>
           /\ SameClock(u, l.ctl)
           /\ Waiting(l.ctl) \/ Episode("fault", x.ctl, now, s) => SameEpisode(u, l.ctl)
           /\ Waiting(x.ctl) /\ ~Waiting(l.ctl) => SameEpisode(TickEpisode(u, now), l.ctl)
  BY ConsiderEffect DEF Arm
<1>3. /\ r.ctl \in Controller /\ x.ctl \in Controller /\ k.ctl \in Controller
      /\ l.ctl \in Controller /\ s \in Int /\ now \in Int
  BY <1>1, <1>2 DEF Run
<1>4. CASE ~Visible(now)
  BY <1>4 DEF Consider
<1>5. CASE Visible(now)
  <2>1. o \in Controller /\ SameEpisode(r.ctl, o)
    BY <1>3, <1>5, OfferEffect
  <2>2. u \in Controller /\ SameEpisode(x.ctl, u)
    BY <1>3, <1>5, OfferEffect
  <2>3. SameClock(o, u)
    BY <1>3, OfferShared
  <2> HIDE DEF o, u
  <2>4. SameEpisode(o, u)
    BY <2>1, <2>2 DEF SameEpisode
  <2>5. SameClock(k.ctl, l.ctl)
    BY <1>1, <1>2, <1>5, <2>3 DEF SameClock
  <2>6. (Waiting(r.ctl) <=> Waiting(x.ctl)) /\ (Waiting(r.ctl) <=> r.ctl.targetSeq < 0)
    <3>1. x.ctl.targetSeq = r.ctl.targetSeq
      BY DEF SameClock
    <3> QED BY <1>3, <3>1, StageTyped
  <2>7. Waiting(k.ctl) <=> Waiting(l.ctl)
    <3>1. l.ctl.targetSeq = k.ctl.targetSeq
      BY <2>5 DEF SameClock
    <3>2. Waiting(k.ctl) \/ Episode("attack", k.ctl, now, s)
      BY <1>1 DEF Continues
    <3>3. Waiting(l.ctl) \/ Episode("fault", l.ctl, now, s)
      BY <1>2 DEF Continues
    <3> QED BY <1>3, <3>1, <3>2, <3>3, StageTyped
  <2>8. CASE Waiting(k.ctl) \/ ~Waiting(r.ctl)
    <3>1. SameEpisode(o, k.ctl) /\ SameEpisode(u, l.ctl)
      BY <1>1, <1>2, <1>5, <2>6, <2>7, <2>8
    <3> QED BY <2>4, <2>5, <3>1 DEF SameEpisode
  <2>9. CASE ~Waiting(k.ctl) /\ Waiting(r.ctl)
    <3>1. SameEpisode(TickEpisode(o, now), k.ctl) /\ SameEpisode(TickEpisode(u, now), l.ctl)
      BY <1>1, <1>2, <1>5, <2>6, <2>7, <2>9
    <3>2. Scheduled(o) /\ Scheduled(u)
      <4>1. k.ctl.targetSeq >= 0
        BY <1>1, <1>3, <2>9, StageTyped DEF Continues
      <4>2. o.targetSeq >= 0 /\ u.targetSeq >= 0
        BY <1>1, <1>5, <2>3, <4>1 DEF SameClock
      <4> QED BY <4>2 DEF Scheduled
    <3>3. SameEpisode(TickEpisode(o, now), TickEpisode(u, now))
      BY <1>3, <2>1, <2>2, <2>3, <2>4, <3>2, TickShared
    <3> QED BY <2>5, <3>1, <3>3 DEF SameEpisode
  <2> QED BY <2>8, <2>9
<1> QED BY <1>4, <1>5

\* A telemetry tick keeps the two arms together.
LEMMA TelemetryShared ==
  ASSUME NearEarth, Fixed, NEW r \in Run, NEW x \in Run, now \in Nat, NEW s \in Nat, s >= 1,
         Waiting(r.ctl) \/ Episode("attack", r.ctl, now, s),
         Waiting(x.ctl) \/ Episode("fault", x.ctl, now, s),
         Shared(r.ctl, x.ctl),
         NEW q, TickedFrom("attack", r, q, s), NEW p, TickedFrom("fault", x, p, s)
  PROVE  Shared(q.ctl, p.ctl)
<1> DEFINE k == Consider("attack", r, s)
           l == Consider("fault", x, s)
<1>1. /\ k.ctl \in Controller /\ Stage("attack", k.ctl, now, s)
      /\ ~r.ctl.thrown => SameClock(k.ctl, q.ctl) /\ (q.ctl.thrown <=> k.ctl.thrown)
      /\ r.ctl.targetSeq >= 0 => SameClock(r.ctl, q.ctl)
  BY TickedClock DEF Arm
<1>2. /\ l.ctl \in Controller /\ Stage("fault", l.ctl, now, s)
      /\ ~x.ctl.thrown => SameClock(l.ctl, p.ctl) /\ (p.ctl.thrown <=> l.ctl.thrown)
      /\ x.ctl.targetSeq >= 0 => SameClock(x.ctl, p.ctl)
  BY TickedClock DEF Arm
<1>3. SameClock(r.ctl, x.ctl) /\ x.ctl.targetSeq = r.ctl.targetSeq
  BY DEF Shared, SameClock
<1>4. r.ctl \in Controller /\ x.ctl \in Controller /\ now \in Int
  BY DEF Run
<1>5. CASE r.ctl.thrown \/ x.ctl.thrown
  <2>1. r.ctl.targetSeq >= 0 /\ x.ctl.targetSeq >= 0
    BY <1>3, <1>4, <1>5, StageTyped
  <2>2. SameClock(q.ctl, p.ctl)
    BY <1>1, <1>2, <1>3, <2>1 DEF SameClock
  <2>3. q.ctl.thrown \/ p.ctl.thrown
    BY <1>5 DEF TickedFrom
  <2> QED BY <2>2, <2>3 DEF Shared
<1>6. CASE ~r.ctl.thrown /\ ~x.ctl.thrown
  <2>1. SameEpisode(r.ctl, x.ctl)
    BY <1>6 DEF Shared
  <2>2. SameClock(k.ctl, l.ctl) /\ SameEpisode(k.ctl, l.ctl)
    BY <1>3, <2>1, ConsiderShared
  <2>3. SameClock(q.ctl, p.ctl)
    BY <1>1, <1>2, <1>6, <2>2 DEF SameClock
  <2>4. ASSUME ~q.ctl.thrown, ~p.ctl.thrown PROVE SameEpisode(q.ctl, p.ctl)
    <3>1. ~k.ctl.thrown /\ ~l.ctl.thrown
      BY <1>1, <1>2, <1>6, <2>4
    <3>2. q.ctl = TickEpisode(k.ctl, now) /\ p.ctl = TickEpisode(l.ctl, now)
      BY <1>6, <3>1 DEF TickedFrom
    <3> HIDE DEF k, l
    <3>3. Scheduled(k.ctl) <=> Scheduled(l.ctl)
      <4>1. l.ctl.targetSeq = k.ctl.targetSeq
        BY <2>2 DEF SameClock
      <4>2. CASE Waiting(k.ctl)
        <5>1. Waiting(l.ctl)
          BY <1>1, <1>2, <4>1, <4>2, StageTyped DEF Stage
        <5> QED BY <1>1, <1>2, <1>4, <4>2, <5>1, TickOfWaiting
      <4>3. CASE Episode("attack", k.ctl, now, s)
        <5>1. k.ctl.targetSeq >= 0
          BY <1>1, <4>3, StageTyped
        <5> QED BY <4>1, <5>1 DEF Scheduled
      <4> QED BY <1>1, <4>2, <4>3 DEF Stage
    <3> QED BY <1>1, <1>2, <1>4, <2>2, <3>2, <3>3, TickShared
  <2> QED BY <2>3, <2>4 DEF Shared
<1> QED BY <1>5, <1>6

-----------------------------------------------------------------------------
(* What no step changes                                                    *)

LEMMA FixedKept == Fixed /\ UNCHANGED fixedVars => Fixed'
BY DEF Fixed, fixedVars, scheduleVars

LEMMA ArmInvKept ==
  ASSUME UNCHANGED fixedVars, NEW a, NEW r, NEW n, NEW s, ArmInv(a, r, n, s)
  PROVE  ArmInv(a, r, n, s)'
<1>1. pair' = pair /\ robustness' = robustness /\ passes' = passes
  BY DEF fixedVars, scheduleVars
<1>2. Span' = Span /\ (InView(r.ctl.targetSendTime)' <=> InView(r.ctl.targetSendTime))
  BY <1>1 DEF Span, InView
<1>3. Stage(a, r.ctl, n, s)'
  BY <1>1, <1>2 DEF ArmInv, Stage, Waiting, Episode, Chosen, Begun, ThirdOnRecord, Caused, Open,
     Closed, Intervened
<1>4. InTheAir(a, r, n, s)'
  BY <1>2 DEF ArmInv, InTheAir
<1>5. r.ctl.targetSeq >= 0 /\ ~r.ctl.thrown /\ InView(r.ctl.targetSendTime)' => Reaching(r)'
  BY <1>2 DEF ArmInv, Reaching
<1>6. r.outcome = "running" \/ Ended(r, n, s)'
  BY DEF ArmInv, Ended, Outcome, InterventionEmitted, Caused
<1>7. r \in Run /\ (r.gapEnd >= 0 => r.ctl.targetSeq >= 0)
  BY DEF ArmInv
<1> QED BY <1>3, <1>4, <1>5, <1>6, <1>7 DEF ArmInv, Run

LEMMA PairInvKept ==
  ASSUME Fixed, UNCHANGED fixedVars, now' \in Nat, sent' \in Nat, run' \in [Arm -> Run],
         \A a \in Arm : ArmInv(a, run'[a], now', sent'),
         Shared(run'["attack"].ctl, run'["fault"].ctl)
  PROVE  PairInv'
<1>1. Fixed'
  BY FixedKept
<1>2. \A a \in Arm : ArmInv(a, run[a], now, sent)'
  BY ArmInvKept
<1>3. Shared(run["attack"].ctl, run["fault"].ctl)'
  BY DEF Shared, SameClock, SameEpisode
<1> QED BY <1>1, <1>2, <1>3 DEF PairInv

-----------------------------------------------------------------------------
(* Arrivals                                                                *)

\* What an arrival leaves alone: all but the air and the ground.
Beside(r, q) == q.ctl = r.ctl /\ q.gapEnd = r.gapEnd /\ q.outcome = r.outcome

LEMMA RemoveEffect ==
  ASSUME NEW r \in Run, NEW i, NEW q, q = Landed(r, i)
  PROVE  q \in Run /\ q.air = r.air \ {i} /\ q.ground = r.ground /\ Beside(r, q)
<1> DEFINE air == r.air \ {i}
<1>1. q = [r EXCEPT !.air = air]
  BY DEF Landed
<1>2. air \in SUBSET Item /\ air = r.air \ {i}
  BY DEF Run
<1> HIDE DEF air
<1>3. q \in Run
  BY <1>1, <1>2 DEF Run
<1>4. q.air = air /\ q.ground = r.ground /\ Beside(r, q)
  BY <1>1 DEF Run, Beside
<1> QED BY <1>2, <1>3, <1>4

\* One more delivery at the ground.
DeliveredTo(r, q, seq) ==
  /\ q.air = r.air /\ Beside(r, q)
  /\ \A k \in DOMAIN r.ground : k \in DOMAIN q.ground /\ q.ground[k] = r.ground[k]
  /\ \E k \in DOMAIN q.ground : q.ground[k].seq = seq /\ q.ground[k].at = now

LEMMA DeliverEffect ==
  ASSUME NEW r \in Run, now \in Nat, NEW seq \in Int, NEW odd \in BOOLEAN,
         NEW q, q = Deliver(r, seq, odd)
  PROVE  q \in Run /\ DeliveredTo(r, q, seq)
<1> DEFINE m == [seq |-> seq, odd |-> odd, at |-> now]
           ground == Append(r.ground, m)
<1>1. m \in Delivery /\ m.seq = seq /\ m.at = now
  BY DEF Delivery
<1>2. q = [r EXCEPT !.ground = ground]
  BY DEF Deliver
<1>3. r.ground \in Seq(Delivery)
  BY DEF Run
<1> HIDE DEF m
<1>4. /\ ground \in Seq(Delivery) /\ ground[Len(r.ground) + 1] = m
      /\ Len(r.ground) + 1 \in DOMAIN ground
      /\ \A k \in DOMAIN r.ground : k \in DOMAIN ground /\ ground[k] = r.ground[k]
  BY <1>1, <1>3
<1> HIDE DEF ground
<1>5. q \in Run
  BY <1>2, <1>4 DEF Run
<1>6. q.ground = ground /\ q.air = r.air /\ Beside(r, q)
  BY <1>2 DEF Run, Beside
<1> QED BY <1>1, <1>4, <1>5, <1>6 DEF DeliveredTo

LEMMA FlyBeside ==
  ASSUME NEW r, NEW q, NEW i, Flown(r, q, i)
  PROVE  Beside(r, q) /\ q.ground = r.ground /\ q.air = r.air \cup {i}
BY DEF Flown, Beside

\* What an arrival may put in the air: a held target, or the hostile command.
MayFly(a, r, j, n, s) ==
  /\ j.seq <= s /\ n <= j.at
  /\ \/ j.what = "late"
     \/ /\ j.what = "hostile" /\ a = "attack" /\ r.ctl.targetSeq >= 0
        /\ j.at < r.ctl.targetSendTime + Span

\* An arrival takes item i from the air, delivers it or sends its target on, and keeps the
\* invariant of the arm.
LEMMA ArrivalKeeps ==
  ASSUME Fixed, NEW a \in Arm, NEW r, NEW n \in Nat, NEW s \in Nat, ArmInv(a, r, n, s),
         ~r.ctl.thrown, r.outcome = "running",
         NEW i \in r.air, i.at <= n, NEW q \in Run, Beside(r, q),
         r.air \ {i} \subseteq q.air,
         \A j \in q.air : j \in r.air \/ MayFly(a, r, j, n, s),
         \A k \in DOMAIN r.ground : k \in DOMAIN q.ground /\ q.ground[k] = r.ground[k],
         i.what # "hostile" =>
           \/ \E k \in DOMAIN q.ground : q.ground[k].seq = i.seq /\ q.ground[k].at = n
           \/ \E j \in q.air : j.seq = i.seq /\ j.what = "late" /\ j.at <= r.ctl.targetSendTime + Span
  PROVE  ArmInv(a, q, n, s)
<1>1. /\ r \in Run /\ Stage(a, r.ctl, n, s) /\ (r.gapEnd >= 0 => r.ctl.targetSeq >= 0)
      /\ InTheAir(a, r, n, s)
      /\ r.ctl.targetSeq >= 0 /\ InView(r.ctl.targetSendTime) => Reaching(r)
  BY DEF ArmInv
<1>2. q.ctl = r.ctl /\ q.gapEnd = r.gapEnd /\ q.outcome = "running"
  BY DEF Beside
<1>3. i \in Item /\ i.at \in Int
  BY <1>1 DEF Run, Item
<1>4. i.at = n
  BY <1>1, <1>3 DEF InTheAir
<1>5. InTheAir(a, q, n, s)
  <2>1. ASSUME NEW j \in q.air
        PROVE  /\ j.seq <= s /\ n <= j.at
               /\ j.what = "hostile" =>
                    r.ctl.targetSeq >= 0 /\ j.at < r.ctl.targetSendTime + Span /\ a = "attack"
               /\ j.what = "frame" /\ r.ctl.targetSeq >= 0 /\ j.seq = r.ctl.targetSeq
                  /\ a = "attack" => \E x \in Transits : j.at = r.ctl.targetSendTime + x
    <3>1. CASE j \in r.air
      BY <1>1, <3>1 DEF InTheAir
    <3>2. CASE MayFly(a, r, j, n, s)
      BY <3>2 DEF MayFly
    <3> QED BY <3>1, <3>2
  <2> QED BY <1>2, <2>1 DEF InTheAir
<1>6. ASSUME r.ctl.targetSeq >= 0, InView(r.ctl.targetSendTime) PROVE Reaching(q)
  <2>1. Episode(a, r.ctl, n, s)
    <3>1. r.ctl \in Controller
      BY <1>1 DEF Run
    <3> QED BY <1>1, <1>6, <3>1, StageTyped DEF Stage
  <2>2. r.ctl.targetSendTime <= n
    BY <2>1 DEF Episode, Chosen
  <2>3. CASE \E k \in DOMAIN r.ground : /\ r.ground[k].seq = r.ctl.targetSeq
                                        /\ r.ctl.targetSendTime <= r.ground[k].at
                                        /\ r.ground[k].at <= r.ctl.targetSendTime + Span
    BY <1>2, <2>3 DEF Reaching
  <2>4. CASE \E j \in r.air : /\ j.seq = r.ctl.targetSeq /\ j.what \in {"frame", "late"}
                              /\ j.at <= r.ctl.targetSendTime + Span
    <3>1. PICK j \in r.air : /\ j.seq = r.ctl.targetSeq /\ j.what \in {"frame", "late"}
                             /\ j.at <= r.ctl.targetSendTime + Span
      BY <2>4
    <3>2. CASE j # i
      BY <1>2, <3>1, <3>2 DEF Reaching
    <3>3. CASE j = i
      <4>1. i.what # "hostile" /\ i.seq = r.ctl.targetSeq /\ n <= r.ctl.targetSendTime + Span
        BY <1>4, <3>1, <3>3
      <4> QED BY <1>2, <2>2, <4>1 DEF Reaching
    <3> QED BY <3>2, <3>3
  <2> QED BY <1>1, <1>6, <2>3, <2>4 DEF Reaching
<1> QED BY <1>1, <1>2, <1>5, <1>6 DEF ArmInv

LEMMA AtTheGround ==
  ASSUME Fixed, NEW a \in Arm, NEW r, now \in Nat, sent \in Nat, ArmInv(a, r, now, sent), Going(r),
         NEW i \in r.air, i.at <= now, NEW odd, odd \in BOOLEAN,
         NEW q, q = Deliver(Landed(r, i), i.seq, odd)
  PROVE  ArmInv(a, q, now, sent) /\ q.ctl = r.ctl
<1> DEFINE p == Landed(r, i)
           seq == i.seq
<1>1. r \in Run /\ ~r.ctl.thrown /\ r.outcome = "running"
  BY DEF ArmInv, Going
<1>2. seq \in Int /\ seq = i.seq
  BY <1>1 DEF Run, Item
<1>3. p = Landed(r, i) /\ q = Deliver(p, seq, odd)
  OBVIOUS
<1> HIDE DEF p, seq
<1>4. p \in Run /\ p.air = r.air \ {i} /\ p.ground = r.ground /\ Beside(r, p)
  BY <1>1, <1>3, RemoveEffect
<1>9. q \in Run /\ DeliveredTo(p, q, seq)
  BY <1>2, <1>3, <1>4, DeliverEffect
<1>5. /\ q \in Run /\ q.air = p.air /\ Beside(p, q)
      /\ \A k \in DOMAIN p.ground : k \in DOMAIN q.ground /\ q.ground[k] = p.ground[k]
      /\ \E k \in DOMAIN q.ground : q.ground[k].seq = seq /\ q.ground[k].at = now
  BY <1>9 DEF DeliveredTo
<1>6. Beside(r, q)
  BY <1>4, <1>5 DEF Beside
<1>7. /\ r.air \ {i} \subseteq q.air /\ (\A j \in q.air : j \in r.air)
      /\ \A k \in DOMAIN r.ground : k \in DOMAIN q.ground /\ q.ground[k] = r.ground[k]
  BY <1>4, <1>5
<1>8. ArmInv(a, q, now, sent)
  BY <1>1, <1>2, <1>5, <1>6, <1>7, ArrivalKeeps
<1> QED BY <1>6, <1>8 DEF Beside

\* SP-4, the attack arm: the target is held by the attacker.
LEMMA TargetHeld ==
  ASSUME NearEarth, Fixed, NEW r, now \in Nat, sent \in Nat, ArmInv("attack", r, now, sent),
         Going(r), NEW i \in r.air, i.at <= now, i.what = "frame", pair = "SP4",
         r.ctl.targetSeq = i.seq, r.ctl.targetSeq >= 0,
         NEW p \in Run, p.air = r.air \ {i}, p.ground = r.ground, Beside(r, p),
         NEW q, q = Fly(p, "late", i.seq, i.odd, now + DelayTarget)
  PROVE  ArmInv("attack", q, now, sent) /\ q.ctl = r.ctl
<1> DEFINE seq == i.seq
           odd == i.odd
           at == now + DelayTarget
<1>1. r \in Run /\ ~r.ctl.thrown /\ r.outcome = "running" /\ InTheAir("attack", r, now, sent)
  BY DEF ArmInv, Going
<1>2. i \in Item /\ i.at \in Int
  BY <1>1 DEF Run, Item
<1>3. seq \in Nat /\ odd \in BOOLEAN /\ at \in Int /\ seq <= sent /\ now <= i.at
  BY <1>1, <1>2, ScenarioAssumption DEF Item, InTheAir
<1>4. at <= r.ctl.targetSendTime + Span /\ now <= at
  <2>1. PICK e \in Transits : i.at = r.ctl.targetSendTime + e
    BY <1>1 DEF InTheAir
  <2>2. e \in Nat /\ e + DelayTarget <= Span /\ Span \in Nat
    BY ShortTransit, SpanIsNat
  <2>3. r.ctl.targetSendTime \in Int
    BY <1>1 DEF Run, Controller
  <2>4. DelayTarget \in Nat
    BY ScenarioAssumption
  <2>5. i.at = now
    BY <1>2, <1>3
  <2> QED BY <2>1, <2>2, <2>3, <2>4, <2>5
<1>5. q = Fly(p, "late", seq, odd, at)
  OBVIOUS
<1>6. seq = i.seq
  OBVIOUS
<1> HIDE DEF seq, odd, at
<1>14. FlownAs(p, q, "late", seq, at)
  BY <1>3, <1>5, FlyEffect
<1>7. PICK j \in Item : j.what = "late" /\ j.seq = seq /\ j.at = at /\ q \in Run /\ Flown(p, q, j)
  BY <1>14 DEF FlownAs
<1>8. Beside(p, q) /\ q.ground = p.ground /\ q.air = p.air \cup {j}
  BY <1>7, FlyBeside
<1>9. Beside(r, q)
  BY <1>8 DEF Beside
<1>10. MayFly("attack", r, j, now, sent)
  BY <1>3, <1>4, <1>7 DEF MayFly
<1>11. /\ r.air \ {i} \subseteq q.air
       /\ \A m \in q.air : m \in r.air \/ MayFly("attack", r, m, now, sent)
       /\ \A k \in DOMAIN r.ground : k \in DOMAIN q.ground /\ q.ground[k] = r.ground[k]
  BY <1>8, <1>10
<1>12. \E m \in q.air : m.seq = i.seq /\ m.what = "late" /\ m.at <= r.ctl.targetSendTime + Span
  BY <1>4, <1>6, <1>7, <1>8
<1>13. ArmInv("attack", q, now, sent)
  BY <1>1, <1>7, <1>9, <1>11, <1>12, ArrivalKeeps DEF Arm
<1> QED BY <1>9, <1>13 DEF Beside

\* SP-2 and SP-3, the attack arm: the target is the trigger of the hostile command, which
\* is sent while the contact lasts and arrives before the episode can end.
LEMMA TargetTriggers ==
  ASSUME NearEarth, Fixed, NEW r, now \in Nat, sent \in Nat, ArmInv("attack", r, now, sent),
         Going(r), NEW i \in r.air, i.at <= now, i.what = "frame", pair \in {"SP2", "SP3"},
         r.ctl.targetSeq = i.seq, r.ctl.targetSeq >= 0, NEW d \in Transits,
         NEW p \in Run, p.air = r.air \ {i}, p.ground = r.ground, Beside(r, p),
         NEW q, q = Deliver(LinkUp([p EXCEPT !.hostileSent = TRUE], d), i.seq, i.odd)
  PROVE  ArmInv("attack", q, now, sent) /\ q.ctl = r.ctl
<1> DEFINE g == [p EXCEPT !.hostileSent = TRUE]
           h == LinkUp(g, d)
           seq == i.seq
           odd == i.odd
           at == now + d
<1>1. r \in Run /\ ~r.ctl.thrown /\ r.outcome = "running" /\ InTheAir("attack", r, now, sent)
  BY DEF ArmInv, Going
<1>2. i \in Item /\ i.at \in Int
  BY <1>1 DEF Run, Item
<1>3. /\ d \in Nat /\ seq \in Int /\ seq = i.seq /\ odd \in BOOLEAN /\ at \in Int
      /\ now <= i.at /\ now <= at /\ at = now + d
  BY <1>1, <1>2, PairAssumption DEF Item, InTheAir
<1>4. at < r.ctl.targetSendTime + Span
  <2>1. PICK e \in Transits : i.at = r.ctl.targetSendTime + e
    BY <1>1 DEF InTheAir
  <2>2. e \in Nat /\ e + d < Span /\ Span \in Nat
    BY ShortTransit, SpanIsNat
  <2>3. r.ctl.targetSendTime \in Int
    BY <1>1 DEF Run, Controller
  <2>4. i.at = now
    BY <1>2, <1>3
  <2> QED BY <1>3, <2>1, <2>2, <2>3, <2>4
<1>5. g \in Run /\ g.air = p.air /\ g.ground = p.ground /\ Beside(p, g)
  <2>1. g \in Run
    BY DEF Run
  <2>2. g.air = p.air /\ g.ground = p.ground /\ Beside(p, g)
    BY DEF Run, Beside
  <2> QED BY <2>1, <2>2
<1>6. h = g \/ h = Fly(g, "hostile", 0, FALSE, at)
  BY DEF LinkUp
<1>7. q = Deliver(h, seq, odd)
  OBVIOUS
<1> HIDE DEF g, h, seq, odd, at
<1>8. /\ h \in Run /\ Beside(g, h) /\ h.ground = g.ground /\ g.air \subseteq h.air
      /\ \A j \in h.air : j \in g.air \/ MayFly("attack", r, j, now, sent)
  <2>1. CASE h = g
    BY <1>5, <2>1 DEF Beside
  <2>2. CASE h = Fly(g, "hostile", 0, FALSE, at)
    <3> DEFINE none == 0
               quiet == FALSE
    <3>1. none \in Nat /\ quiet \in BOOLEAN /\ none <= sent
      OBVIOUS
    <3>5. h = Fly(g, "hostile", none, quiet, at)
      BY <2>2
    <3> HIDE DEF none, quiet
    <3>6. FlownAs(g, h, "hostile", none, at)
      BY <1>3, <1>5, <3>1, <3>5, FlyEffect
    <3>2. PICK j \in Item : /\ j.what = "hostile" /\ j.seq = none /\ j.at = at
                            /\ h \in Run /\ Flown(g, h, j)
      BY <3>6 DEF FlownAs
    <3>3. Beside(g, h) /\ h.ground = g.ground /\ h.air = g.air \cup {j}
      BY <3>2, FlyBeside
    <3>4. MayFly("attack", r, j, now, sent)
      BY <1>3, <1>4, <3>1, <3>2 DEF MayFly
    <3> QED BY <3>2, <3>3, <3>4
  <2> QED BY <1>6, <2>1, <2>2
<1>9. q \in Run /\ DeliveredTo(h, q, seq)
  BY <1>3, <1>7, <1>8, DeliverEffect
<1>10. /\ q.air = h.air /\ Beside(h, q)
       /\ \A k \in DOMAIN h.ground : k \in DOMAIN q.ground /\ q.ground[k] = h.ground[k]
       /\ \E k \in DOMAIN q.ground : q.ground[k].seq = seq /\ q.ground[k].at = now
  BY <1>9 DEF DeliveredTo
<1>11. Beside(r, q)
  BY <1>5, <1>8, <1>10 DEF Beside
<1>12. /\ r.air \ {i} \subseteq q.air
       /\ \A m \in q.air : m \in r.air \/ MayFly("attack", r, m, now, sent)
  BY <1>5, <1>8, <1>10
<1>13. \A k \in DOMAIN r.ground : k \in DOMAIN q.ground /\ q.ground[k] = r.ground[k]
  BY <1>5, <1>8, <1>10
<1>14. \E k \in DOMAIN q.ground : q.ground[k].seq = i.seq /\ q.ground[k].at = now
  BY <1>3, <1>10
<1>15. ArmInv("attack", q, now, sent)
  BY <1>1, <1>9, <1>11, <1>12, <1>13, <1>14, ArrivalKeeps DEF Arm
<1> QED BY <1>11, <1>15 DEF Beside

LEMMA OnPathKeeps ==
  ASSUME NearEarth, Fixed, NEW a \in Arm, NEW r, now \in Nat, sent \in Nat,
         ArmInv(a, r, now, sent), Going(r),
         NEW i \in r.air, i.at <= now, i.what = "frame", NEW d \in Transits,
         NEW q, q = OnPath(a, Landed(r, i), i, d)
  PROVE  ArmInv(a, q, now, sent) /\ q.ctl = r.ctl
<1> DEFINE p == Landed(r, i)
           either == i.odd \/ IsTarget(p, i.seq)
<1>1. r \in Run
  BY DEF ArmInv
<1>2. i.odd \in BOOLEAN /\ i.seq \in Nat
  BY <1>1 DEF Run, Item
<1>3. p = Landed(r, i)
  OBVIOUS
<1>4. p \in Run /\ p.air = r.air \ {i} /\ p.ground = r.ground /\ Beside(r, p)
  BY <1>1, <1>3, RemoveEffect
<1>5. p.ctl = r.ctl
  BY <1>4 DEF Beside
<1>6. \/ q = Deliver(p, i.seq, i.odd)
      \/ q = Deliver(p, i.seq, either)
      \/ /\ a = "attack" /\ pair = "SP4" /\ IsTarget(p, i.seq)
         /\ q = Fly(p, "late", i.seq, i.odd, now + DelayTarget)
      \/ /\ a = "attack" /\ pair \in {"SP2", "SP3"} /\ IsTarget(p, i.seq)
         /\ q = Deliver(LinkUp([p EXCEPT !.hostileSent = TRUE], d), i.seq, i.odd)
  <2>1. pair \in {"SP1", "SP2", "SP3", "SP4", "SP5"}
    BY DEF Fixed, Pair
  <2>2. q = OnPath(a, p, i, d) /\ a \in {"attack", "fault"}
    BY DEF Arm
  <2> HIDE DEF p
  <2> QED BY <2>1, <2>2 DEF OnPath
<1>7. IsTarget(p, i.seq) => r.ctl.targetSeq = i.seq
  BY <1>5 DEF IsTarget
<1>8. either \in BOOLEAN
  BY <1>2 DEF IsTarget
<1>9. IsTarget(p, i.seq) => r.ctl.targetSeq >= 0
  BY <1>2, <1>7
<1> HIDE DEF either
<1>10. CASE q = Deliver(p, i.seq, i.odd)
  BY <1>2, <1>10, AtTheGround
<1>11. CASE q = Deliver(p, i.seq, either)
  BY <1>8, <1>11, AtTheGround
<1> HIDE DEF p
<1>12. CASE /\ a = "attack" /\ pair = "SP4" /\ IsTarget(p, i.seq)
            /\ q = Fly(p, "late", i.seq, i.odd, now + DelayTarget)
  BY <1>4, <1>7, <1>9, <1>12, TargetHeld
<1>13. CASE /\ a = "attack" /\ pair \in {"SP2", "SP3"} /\ IsTarget(p, i.seq)
            /\ q = Deliver(LinkUp([p EXCEPT !.hostileSent = TRUE], d), i.seq, i.odd)
  BY <1>4, <1>7, <1>9, <1>13, TargetTriggers
<1> QED BY <1>6, <1>10, <1>11, <1>12, <1>13

\* The hostile command finds the episode open, and what it puts on record leaves the clock
\* and the episode alone.
LEMMA HostileKeeps ==
  ASSUME Fixed, NEW a \in Arm, NEW r, now \in Nat, sent \in Nat,
         ArmInv(a, r, now, sent), Going(r),
         NEW i \in r.air, i.at <= now, i.what = "hostile",
         NEW q, q = AcceptHostile(Landed(r, i))
  PROVE  /\ ArmInv(a, q, now, sent)
         /\ SameClock(r.ctl, q.ctl) /\ SameEpisode(r.ctl, q.ctl)
<1> DEFINE p == Landed(r, i)
           u == Shift(p)
<1>1. /\ r \in Run /\ ~r.ctl.thrown /\ r.outcome = "running" /\ InTheAir(a, r, now, sent)
      /\ Stage(a, r.ctl, now, sent)
  BY DEF ArmInv, Going
<1>2. i \in Item /\ i.at \in Int /\ r.ctl \in Controller /\ i \in r.air
  BY <1>1 DEF Run, Item
<1>3. /\ now <= i.at /\ r.ctl.targetSeq >= 0 /\ i.at < r.ctl.targetSendTime + Span /\ a = "attack"
  BY <1>1, <1>2 DEF InTheAir
<1>4. p = Landed(r, i)
  OBVIOUS
<1>5. q = p \/ q = WithRow("attack", u)
  BY DEF AcceptHostile
<1> HIDE DEF p
<1>6. p \in Run /\ p.air = r.air \ {i} /\ p.ground = r.ground /\ Beside(r, p)
  BY <1>1, <1>4, RemoveEffect
<1>7. ArmInv(a, p, now, sent)
  <2>1. /\ r.air \ {i} \subseteq p.air /\ (\A j \in p.air : j \in r.air)
        /\ \A k \in DOMAIN r.ground : k \in DOMAIN p.ground /\ p.ground[k] = r.ground[k]
    BY <1>6
  <2> QED BY <1>1, <1>6, <2>1, ArrivalKeeps
<1>8. p.ctl = r.ctl /\ p.outcome = r.outcome
  BY <1>6 DEF Beside
<1>9. CASE q = p
  BY <1>7, <1>8, <1>9 DEF SameClock, SameEpisode
<1>10. CASE q = WithRow("attack", u)
  <2>1. u \in Run /\ u.ctl = p.ctl /\ SameOutside(p, u)
    BY <1>6, ShiftEffect
  <2> HIDE DEF u
  <2>2. Episode("attack", r.ctl, now, sent)
    BY <1>1, <1>2, <1>3, StageTyped DEF Stage
  <2>3. r.ctl.plannedEnd = r.ctl.targetSendTime + Span
    BY <2>2 DEF Episode, Begun
  <2>4. /\ now < r.ctl.plannedEnd /\ now <= r.ctl.plannedEnd /\ r.ctl.plannedEnd \in Int
    <3>1. r.ctl.plannedEnd \in Int
      BY <1>2 DEF Controller
    <3> QED BY <1>2, <1>3, <2>3, <3>1
  <2>5. Opened("attack", r.ctl, now, sent)
    <3>1. ~Closed("attack", r.ctl, now)
      <4>1. r.ctl.episodeEndTime \in Int
        BY <1>2 DEF Controller
      <4> QED BY <2>4, <4>1 DEF Closed
    <3> QED BY <1>2, <2>2, <3>1 DEF Episode, Opened
  <2>6. Opened("attack", u.ctl, now, sent) /\ now <= u.ctl.plannedEnd /\ "attack" \in Arm
    BY <1>8, <2>1, <2>4, <2>5 DEF Arm
  <2>7. q \in Run /\ SameOutside(u, q) /\ Recorded("attack", u.ctl, q.ctl, now, sent)
    BY <1>10, <2>1, <2>6, WithRowEffect
  <2>8. /\ Opened("attack", q.ctl, now, sent) /\ SameClock(r.ctl, q.ctl) /\ SameEpisode(r.ctl, q.ctl)
        /\ Caused(r.ctl) \subseteq Caused(q.ctl) /\ Caused(q.ctl) \subseteq Caused(r.ctl) \cup {"attack"}
    BY <1>8, <2>1, <2>7 DEF Recorded
  <2>9. ThirdOnRecord(q.ctl)
    <3>1. ThirdOnRecord(r.ctl)
      BY <2>2 DEF Episode
    <3> QED BY <1>1, <2>8, <3>1 DEF ThirdOnRecord
  <2>10. Stage(a, q.ctl, now, sent)
    BY <1>3, <2>8, <2>9 DEF Stage, Episode, Opened
  <2>11. /\ q.air = p.air /\ q.ground = p.ground /\ q.gapEnd = p.gapEnd /\ q.outcome = "running"
    BY <1>1, <1>8, <2>1, <2>7 DEF SameOutside
  <2>12. /\ q.ctl.targetSeq = p.ctl.targetSeq /\ q.ctl.targetSendTime = p.ctl.targetSendTime
         /\ ~p.ctl.thrown
    BY <1>1, <1>8, <2>8 DEF SameClock
  <2>13. InTheAir(a, q, now, sent)
    <3>1. InTheAir(a, p, now, sent)
      BY <1>7 DEF ArmInv
    <3> QED BY <2>11, <2>12, <3>1 DEF InTheAir
  <2>14. q.ctl.targetSeq >= 0 /\ InView(q.ctl.targetSendTime) => Reaching(q)
    <3>1. p.ctl.targetSeq >= 0 /\ InView(p.ctl.targetSendTime) => Reaching(p)
      BY <1>7, <2>12 DEF ArmInv
    <3> QED BY <2>11, <2>12, <3>1 DEF Reaching
  <2>15. q.gapEnd >= 0 => q.ctl.targetSeq >= 0
    BY <1>7, <2>11, <2>12 DEF ArmInv
  <2>16. ArmInv(a, q, now, sent)
    BY <2>7, <2>10, <2>11, <2>13, <2>14, <2>15 DEF ArmInv
  <2> QED BY <2>8, <2>16
<1> QED BY <1>5, <1>9, <1>10

-----------------------------------------------------------------------------
(* The invariant of the pair                                               *)

LEMMA DelayIsTransit == Fixed /\ now \in Nat => Delay \in Transits
<1> SUFFICES ASSUME Fixed, now \in Nat PROVE Delay \in Transits
  OBVIOUS
<1> DEFINE k == now \div Interval
<1>1. k \in Nat
  BY ScenarioAssumption
<1>2. Delay = transit[k % 2]
  BY DEF Delay
<1> HIDE DEF k
<1>3. k % 2 \in {0, 1}
  BY <1>1
<1> QED BY <1>2, <1>3 DEF Fixed

LEMMA InitPair == Init /\ pair # "SP6" => PairInv
<1> SUFFICES ASSUME Init, pair # "SP6" PROVE PairInv
  OBVIOUS
<1>1. Fixed
  <2>1. pair \in Pair
    BY PairAssumption DEF Init, Cell
  <2>2. PICK sky \in Skies : passes = Contacts(sky, Horizon) /\ schedule = PassSchedule(sky, Horizon)
    BY DEF Init
  <2>3. \A t \in Rises(sky, Horizon) : t \in Nat
    BY DEF Rises
  <2>4. ASSUME NEW p \in passes PROVE p.start \in Nat
    <3> DEFINE Out(s) == Min({t \in (s + 1)..(Horizon + 1) : t \notin sky \/ t = Horizon + 1})
    <3>1. passes = {[start |-> s, end |-> Out(s)] : s \in Rises(sky, Horizon)}
      BY <2>2 DEF Contacts
    <3> HIDE DEF Out
    <3>2. PICK s \in Rises(sky, Horizon) : p = [start |-> s, end |-> Out(s)]
      BY <3>1
    <3> QED BY <2>3, <3>2
  <2>5. ASSUME NEW p \in schedule PROVE p.start \in Nat
    <3> DEFINE Last(s) == Min({t \in s..Horizon : t + 1 \notin sky \/ t = Horizon})
    <3>1. schedule = {[start |-> s, end |-> Last(s)] : s \in Rises(sky, Horizon)}
      BY <2>2 DEF PassSchedule
    <3> HIDE DEF Last
    <3>2. PICK s \in Rises(sky, Horizon) : p = [start |-> s, end |-> Last(s)]
      BY <3>1
    <3> QED BY <2>3, <3>2
  <2> QED BY <2>1, <2>4, <2>5, PairAssumption DEF Fixed, Init
<1>2. Fresh \in Controller
  BY DEF Fresh, Controller
<1>3. /\ Fresh.targetSeq = -1 /\ Fresh.targetContactStart = -1 /\ Fresh.truth = << >>
      /\ Fresh.episodeOpen = FALSE /\ Fresh.episodeEndTime = -1 /\ Fresh.thrown = FALSE
  BY DEF Fresh
<1>4. StartOfRun \in Run
  <2> HIDE DEF Fresh, NoFrame
  <2> QED BY <1>2 DEF StartOfRun, Run
<1>5. /\ StartOfRun.ctl = Fresh /\ StartOfRun.air = {} /\ StartOfRun.gapEnd = -1
      /\ StartOfRun.outcome = "running"
  BY DEF StartOfRun
<1>6. Waiting(Fresh)
  BY <1>3 DEF Waiting
<1>7. \A a \in Arm : ArmInv(a, StartOfRun, now, sent)
  BY <1>3, <1>4, <1>5, <1>6 DEF ArmInv, Stage, InTheAir
<1>8. now \in Nat /\ sent \in Nat /\ run = [a \in Arm |-> StartOfRun]
  BY DEF Init
<1>9. run \in [Arm -> Run] /\ \A a \in Arm : run[a] = StartOfRun
  BY <1>4, <1>8
<1>10. "attack" \in Arm /\ "fault" \in Arm
  BY DEF Arm
<1>11. Shared(run["attack"].ctl, run["fault"].ctl)
  BY <1>9, <1>10 DEF Shared, SameClock, SameEpisode
<1> QED BY <1>1, <1>7, <1>8, <1>9, <1>11 DEF PairInv

LEMMA OneArm ==
  ASSUME PairInv, NEW a \in Arm, NEW q, ArmInv(a, q, now, sent),
         SameClock(run[a].ctl, q.ctl), SameEpisode(run[a].ctl, q.ctl),
         ~q.ctl.thrown => ~run[a].ctl.thrown,
         run' = [run EXCEPT ![a] = q], UNCHANGED <<fixedVars, now, sent>>
  PROVE  PairInv'
<1>1. Fixed /\ now \in Nat /\ sent \in Nat /\ run \in [Arm -> Run]
  BY DEF PairInv
<1>2. q \in Run
  BY DEF ArmInv
<1>3. run' \in [Arm -> Run] /\ run'[a] = q /\ \A b \in Arm : b # a => run'[b] = run[b]
  BY <1>1, <1>2
<1>4. \A b \in Arm : ArmInv(b, run'[b], now', sent')
  <2>1. TAKE b \in Arm
  <2>2. CASE b = a
    BY <1>3, <2>2
  <2>3. CASE b # a
    <3>1. ArmInv(b, run[b], now, sent)
      BY DEF PairInv
    <3> QED BY <1>3, <2>3, <3>1
  <2> QED BY <2>2, <2>3
<1>5. Shared(run'["attack"].ctl, run'["fault"].ctl)
  <2>1. Shared(run["attack"].ctl, run["fault"].ctl)
    BY DEF PairInv
  <2>2. CASE a = "attack"
    <3>1. run'["attack"] = q /\ run'["fault"] = run["fault"]
      BY <1>3, <2>2 DEF Arm
    <3> QED BY <2>1, <2>2, <3>1 DEF Shared, SameClock, SameEpisode
  <2>3. CASE a = "fault"
    <3>1. run'["fault"] = q /\ run'["attack"] = run["attack"]
      BY <1>3, <2>3 DEF Arm
    <3> QED BY <2>1, <2>3, <3>1 DEF Shared, SameClock, SameEpisode
  <2> QED BY <2>2, <2>3 DEF Arm
<1>6. UNCHANGED fixedVars /\ now' \in Nat /\ sent' \in Nat
  BY <1>1
<1> QED BY <1>1, <1>3, <1>4, <1>5, <1>6, PairInvKept

LEMMA TelemetryKeepsPair == NearEarth /\ PairInv /\ Telemetry => PairInv'
<1> SUFFICES ASSUME NearEarth, PairInv, Telemetry PROVE PairInv'
  OBVIOUS
<1> DEFINE s == sent + 1
<1>1. Fixed /\ now \in Nat /\ sent \in Nat /\ run \in [Arm -> Run]
  BY DEF PairInv
<1>2. /\ sent < now \div Interval /\ sent' = s /\ now' = now /\ UNCHANGED fixedVars
      /\ run' = [a \in Arm |-> TelemetryOf(a, run[a], s, Delay)]
  BY DEF Telemetry
<1>3. Delay \in Transits
  BY <1>1, DelayIsTransit
<1>4. ASSUME NEW a \in Arm
      PROVE  /\ ArmInv(a, run'[a], now, s) /\ TickedFrom(a, run[a], run'[a], s)
             /\ run[a] \in Run
             /\ Waiting(run[a].ctl) \/ Episode(a, run[a].ctl, now, s)
  <2>1. ArmInv(a, run[a], now, sent)
    BY DEF PairInv
  <2>2. run[a].outcome = "running"
    <3>1. now \div Interval \in Nat
      BY <1>1, ScenarioAssumption
    <3> QED BY <1>1, <1>2, <2>1, <3>1 DEF ArmInv, Ended
  <2>3. run'[a] = TelemetryOf(a, run[a], s, Delay)
    BY <1>2
  <2>4. ArmInv(a, run'[a], now, s) /\ TickedFrom(a, run[a], run'[a], s)
    BY <1>1, <1>3, <2>1, <2>2, <2>3, TelemetryStep
  <2>5. run[a] \in Run /\ run[a].ctl \in Controller
    BY <1>1 DEF Run
  <2>6. s \in Nat /\ sent <= s /\ now <= now
    BY <1>1
  <2> HIDE DEF s
  <2>7. Episode(a, run[a].ctl, now, sent) => Episode(a, run[a].ctl, now, s)
    BY <1>1, <2>5, <2>6, EpisodeLater
  <2> QED BY <2>1, <2>4, <2>5, <2>7 DEF ArmInv, Stage
<1>5. s \in Nat /\ s >= 1
  BY <1>1
<1> HIDE DEF s
<1>6. run' \in [Arm -> Run]
  <2>1. \A a \in Arm : run'[a] \in Run
    BY <1>4 DEF ArmInv
  <2>2. run' = [a \in Arm |-> run'[a]]
    BY <1>2
  <2> QED BY <2>1, <2>2
<1>7. "attack" \in Arm /\ "fault" \in Arm
  BY DEF Arm
<1>8. Shared(run["attack"].ctl, run["fault"].ctl)
  BY DEF PairInv
<1>9. Shared(run'["attack"].ctl, run'["fault"].ctl)
  BY <1>1, <1>4, <1>5, <1>7, <1>8, TelemetryShared
<1>10. \A a \in Arm : ArmInv(a, run'[a], now', sent')
  BY <1>2, <1>4
<1> QED BY <1>1, <1>2, <1>5, <1>6, <1>9, <1>10, PairInvKept

LEMMA ArrivalKeepsPair ==
  ASSUME NearEarth, PairInv, NEW a \in Arm,
         ArriveAtAttacker(a) \/ ArriveAtGround(a) \/ ArriveAtSatellite(a)
  PROVE  PairInv'
<1>1. Fixed /\ now \in Nat /\ sent \in Nat /\ run \in [Arm -> Run] /\ ArmInv(a, run[a], now, sent)
  BY DEF PairInv
<1>2. Delay \in Transits
  BY <1>1, DelayIsTransit
<1>3. run[a] \in Run /\ \A i \in run[a].air : i.odd \in BOOLEAN
  BY <1>1 DEF Run, Item
<1>4. CASE ArriveAtAttacker(a)
  <2>1. PICK i \in Due(a) :
          /\ Going(run[a]) /\ i.what = "frame"
          /\ run' = [run EXCEPT ![a] = OnPath(a, Landed(@, i), i, Delay)]
          /\ UNCHANGED <<fixedVars, now, sent>>
    BY <1>4 DEF ArriveAtAttacker
  <2> DEFINE q == OnPath(a, Landed(run[a], i), i, Delay)
  <2>2. run' = [run EXCEPT ![a] = q]
    BY <2>1
  <2>3. i \in run[a].air /\ i.at <= now
    BY DEF Due
  <2>4. ArmInv(a, q, now, sent) /\ q.ctl = run[a].ctl
    BY <1>1, <1>2, <2>1, <2>3, OnPathKeeps
  <2> HIDE DEF q
  <2>5. SameClock(run[a].ctl, q.ctl) /\ SameEpisode(run[a].ctl, q.ctl)
    BY <2>4 DEF SameClock, SameEpisode
  <2> QED BY <2>1, <2>2, <2>4, <2>5, OneArm
<1>5. CASE ArriveAtGround(a)
  <2>1. PICK i \in Due(a) :
          /\ Going(run[a]) /\ i.what = "late"
          /\ run' = [run EXCEPT ![a] = Deliver(Landed(@, i), i.seq, i.odd)]
          /\ UNCHANGED <<fixedVars, now, sent>>
    BY <1>5 DEF ArriveAtGround
  <2> DEFINE odd == i.odd
             q == Deliver(Landed(run[a], i), i.seq, odd)
  <2>2. run' = [run EXCEPT ![a] = q]
    BY <2>1
  <2>3. i \in run[a].air /\ i.at <= now /\ odd \in BOOLEAN
    BY <1>3 DEF Due
  <2> HIDE DEF odd
  <2>4. ArmInv(a, q, now, sent) /\ q.ctl = run[a].ctl
    BY <1>1, <2>1, <2>3, AtTheGround
  <2> HIDE DEF q
  <2>5. SameClock(run[a].ctl, q.ctl) /\ SameEpisode(run[a].ctl, q.ctl)
    BY <2>4 DEF SameClock, SameEpisode
  <2> QED BY <2>1, <2>2, <2>4, <2>5, OneArm
<1>6. CASE ArriveAtSatellite(a)
  <2>1. PICK i \in Due(a) :
          /\ Going(run[a]) /\ i.what = "hostile"
          /\ run' = [run EXCEPT ![a] = AcceptHostile(Landed(@, i))]
          /\ UNCHANGED <<fixedVars, now, sent>>
    BY <1>6 DEF ArriveAtSatellite
  <2> DEFINE q == AcceptHostile(Landed(run[a], i))
  <2>2. run' = [run EXCEPT ![a] = q]
    BY <2>1
  <2>3. i \in run[a].air /\ i.at <= now
    BY DEF Due
  <2>4. /\ ArmInv(a, q, now, sent)
        /\ SameClock(run[a].ctl, q.ctl) /\ SameEpisode(run[a].ctl, q.ctl)
    BY <1>1, <2>1, <2>3, HostileKeeps
  <2> HIDE DEF q
  <2>5. ~run[a].ctl.thrown
    BY <2>1 DEF Going
  <2> QED BY <2>1, <2>2, <2>4, <2>5, OneArm
<1> QED BY <1>4, <1>5, <1>6

LEMMA FinishKeepsPair == ASSUME PairInv, NEW a \in Arm, Finish(a) PROVE PairInv'
<1> DEFINE r == run[a]
           out == Outcome(r.ctl)
           q == [r EXCEPT !.outcome = out]
<1>1. /\ now = Horizon /\ TelemetryDone /\ AllDelivered /\ r.outcome = "running"
      /\ run' = [run EXCEPT ![a].outcome = Outcome(run[a].ctl)]
      /\ UNCHANGED <<fixedVars, now, sent>>
  BY DEF Finish
<1>2. now \in Nat /\ run \in [Arm -> Run] /\ ArmInv(a, r, now, sent)
  BY DEF PairInv
<1>3. out \in {"running", "ok", "failed"} /\ out = Outcome(r.ctl)
  BY DEF Outcome
<1>4. run' = [run EXCEPT ![a] = q]
  BY <1>1
<1>5. r \in Run
  BY <1>2
<1>6. \A i \in r.air : i.at \in Int
  BY <1>5 DEF Run, Item
<1>7. ~r.ctl.thrown => \A i \in r.air : now < i.at
  <2>1. ~r.ctl.thrown => Due(a) = {}
    BY <1>1 DEF AllDelivered, Going
  <2> QED BY <1>2, <1>6, <2>1 DEF Due
<1>8. q = [r EXCEPT !.outcome = out]
  OBVIOUS
<1> HIDE DEF q, out
<1>9. q \in Run
  BY <1>3, <1>5, <1>8 DEF Run
<1>10. /\ q.ctl = r.ctl /\ q.air = r.air /\ q.ground = r.ground /\ q.gapEnd = r.gapEnd
       /\ q.outcome = out
  BY <1>5, <1>8 DEF Run
<1>11. ArmInv(a, q, now, sent)
  <2>1. InTheAir(a, q, now, sent)
    BY <1>2, <1>10 DEF ArmInv, InTheAir
  <2>2. q.ctl.targetSeq >= 0 /\ ~q.ctl.thrown /\ InView(q.ctl.targetSendTime) => Reaching(q)
    BY <1>2, <1>10 DEF ArmInv, Reaching
  <2>3. Ended(q, now, sent)
    BY <1>1, <1>3, <1>7, <1>10 DEF Ended, TelemetryDone
  <2> QED BY <1>2, <1>9, <1>10, <2>1, <2>2, <2>3 DEF ArmInv
<1>12. SameClock(run[a].ctl, q.ctl) /\ SameEpisode(run[a].ctl, q.ctl)
  BY <1>10 DEF SameClock, SameEpisode
<1> QED BY <1>1, <1>4, <1>10, <1>11, <1>12, OneArm

LEMMA TickKeepsPair == PairInv /\ Tick => PairInv'
<1> SUFFICES ASSUME PairInv, Tick PROVE PairInv'
  OBVIOUS
<1>1. Fixed /\ now \in Nat /\ sent \in Nat /\ run \in [Arm -> Run]
  BY DEF PairInv
<1>2. /\ now < Horizon /\ AllDelivered /\ now' = now + 1 /\ sent' = sent /\ run' = run
      /\ UNCHANGED fixedVars
  BY DEF Tick
<1> DEFINE n == now + 1
<1>3. n \in Nat /\ now <= n /\ n = now + 1 /\ sent <= sent
  BY <1>1
<1> HIDE DEF n
<1>4. ASSUME NEW a \in Arm PROVE ArmInv(a, run[a], n, sent)
  <2> DEFINE r == run[a]
  <2>1. ArmInv(a, r, now, sent)
    BY DEF PairInv
  <2>2. r \in Run /\ r.ctl \in Controller /\ r.outcome = "running"
    <3>1. Horizon \in Nat
      BY PairAssumption
    <3> QED BY <1>1, <1>2, <2>1, <3>1 DEF ArmInv, Ended, Run
  <2>3. ~r.ctl.thrown => \A i \in r.air : n <= i.at
    <3>1. \A i \in r.air : i.at \in Int
      BY <2>2 DEF Run, Item
    <3>2. ~r.ctl.thrown => Due(a) = {}
      BY <1>2, <2>2 DEF AllDelivered, Going
    <3> QED BY <1>1, <1>3, <3>1, <3>2 DEF Due
  <2> HIDE DEF r
  <2>4. Stage(a, r.ctl, n, sent)
    <3>1. Episode(a, r.ctl, now, sent) => Episode(a, r.ctl, n, sent)
      BY <1>1, <1>3, <2>2, EpisodeLater
    <3> QED BY <2>1, <3>1 DEF ArmInv, Stage
  <2>5. InTheAir(a, r, n, sent)
    BY <2>1, <2>3 DEF ArmInv, InTheAir
  <2>6. ArmInv(a, r, n, sent)
    BY <2>1, <2>2, <2>4, <2>5 DEF ArmInv
  <2> QED BY <2>6 DEF r
<1>5. Shared(run'["attack"].ctl, run'["fault"].ctl)
  BY <1>2 DEF PairInv
<1>6. \A a \in Arm : ArmInv(a, run'[a], now', sent')
  BY <1>2, <1>3, <1>4
<1> QED BY <1>1, <1>2, <1>3, <1>5, <1>6, PairInvKept

\* Every step keeps both arms in their invariant, and with one clock.
LEMMA NextKeepsPair == NearEarth /\ PairInv /\ [Next]_vars => PairInv'
<1> SUFFICES ASSUME NearEarth, PairInv, [Next]_vars PROVE PairInv'
  OBVIOUS
<1>1. CASE Telemetry
  BY <1>1, TelemetryKeepsPair
<1>2. CASE Tick
  BY <1>2, TickKeepsPair
<1>3. ASSUME NEW a \in Arm,
             ArriveAtAttacker(a) \/ ArriveAtGround(a) \/ ArriveAtSatellite(a) \/ Finish(a)
      PROVE  PairInv'
  BY <1>3, ArrivalKeepsPair, FinishKeepsPair
<1>4. CASE UNCHANGED vars
  <2>1. /\ UNCHANGED fixedVars /\ now' = now /\ sent' = sent /\ run' = run
    BY <1>4 DEF vars, fixedVars
  <2>2. /\ Fixed /\ now \in Nat /\ sent \in Nat /\ run \in [Arm -> Run]
        /\ \A a \in Arm : ArmInv(a, run[a], now, sent)
        /\ Shared(run["attack"].ctl, run["fault"].ctl)
    BY DEF PairInv
  <2> QED BY <2>1, <2>2, PairInvKept
<1> QED BY <1>1, <1>2, <1>3, <1>4 DEF Next

-----------------------------------------------------------------------------
(* What is read of a run                                                   *)

\* The shape of the record, in whatever state the arm is.
Recording(a) ==
  /\ Rows(a) \in Seq(RowSet)
  /\ \A k \in DOMAIN Rows(a) :
       /\ (Rows(a)[k].kind = "episode.begin") <=> (k = 1)
       /\ Rows(a)[k].kind = "episode.end" => k = Len(Rows(a))
       /\ k > 1 => Rows(a)[k - 1].at <= Rows(a)[k].at
       /\ Rows(a)[k].kind = "intervention" => Rows(a)[k].cause \in {a, "third_cause"}
       /\ Rows(a)[k].kind # "intervention" => Rows(a)[k].cause = "none"

LEMMA RecordingOfArm == ASSUME PairInv, NEW a \in Arm PROVE Recording(a)
<1> DEFINE c == run[a].ctl
<1>1. /\ run[a] \in Run /\ ArmInv(a, run[a], now, sent)
  BY DEF PairInv
<1>2. c \in Controller /\ Stage(a, c, now, sent)
  BY <1>1 DEF ArmInv, Run
<1>3. c.truth \in Seq(RowSet) /\ Rows(a) = c.truth
  BY <1>2 DEF Controller, Rows
<1> HIDE DEF c
<1>4. CASE Waiting(c)
  BY <1>3, <1>4 DEF Waiting, Recording
<1>5. CASE Episode(a, c, now, sent)
  <2> DEFINE l == Len(c.truth)
  <2>1. l \in Nat /\ DOMAIN c.truth = 1..l /\ l = Len(c.truth)
    BY <1>3
  <2>2. Begun(a, c, now)
    BY <1>5 DEF Episode
  <2>3. /\ c.truth[1].kind = "episode.begin" /\ c.truth[1].cause = "none"
    BY <2>2 DEF Begun
  <2>4. \A k \in DOMAIN c.truth : k > 1 => c.truth[k - 1].at <= c.truth[k].at
    BY <2>2 DEF Begun
  <2>5. \A k \in 2..l : \/ c.truth[k].kind = "intervention" /\ c.truth[k].cause \in {a, "third_cause"}
                        \/ k = l /\ c.truth[k].kind = "episode.end" /\ c.truth[k].cause = "none"
    <3>1. CASE Open(a, c)
      BY <2>1, <3>1 DEF Open, Intervened
    <3>2. CASE Closed(a, c, now)
      <4>1. c.truth[l].kind = "episode.end" /\ c.truth[l].cause = "none"
        BY <3>2 DEF Closed
      <4>2. \A k \in 2..(l - 1) : c.truth[k].kind = "intervention" /\ c.truth[k].cause \in {a, "third_cause"}
        BY <3>2 DEF Closed, Intervened
      <4> HIDE DEF l
      <4>3. \A k \in 2..l : k \in 2..(l - 1) \/ k = l
        BY <2>1
      <4> QED BY <4>1, <4>2, <4>3
    <3> QED BY <1>5, <3>1, <3>2 DEF Episode
  <2> HIDE DEF l
  <2>6. ASSUME NEW k \in DOMAIN c.truth
        PROVE  /\ (c.truth[k].kind = "episode.begin") <=> (k = 1)
               /\ c.truth[k].kind = "episode.end" => k = l
               /\ c.truth[k].kind = "intervention" => c.truth[k].cause \in {a, "third_cause"}
               /\ c.truth[k].kind # "intervention" => c.truth[k].cause = "none"
    <3>1. k = 1 \/ k \in 2..l
      BY <2>1
    <3>2. CASE k = 1
      BY <2>3, <3>2
    <3>3. CASE k \in 2..l
      <4>1. k # 1
        BY <2>1, <3>3
      <4> QED BY <2>5, <3>3, <4>1
    <3> QED BY <3>1, <3>2, <3>3
  <2> QED BY <1>3, <2>1, <2>4, <2>6 DEF Recording
<1> QED BY <1>2, <1>4, <1>5 DEF Stage

\* An episode that has an end on record is closed, and its rows are what the reader looks
\* for: one begin, one end, and the interventions between them.
ReadEpisode(a) ==
  LET c == run[a].ctl
      causes == {row.cause : row \in Of(a, "intervention")}
  IN  /\ Of(a, "episode.begin") = {Rows(a)[1]} /\ Rows(a)[1].at = c.targetContactStart
      /\ Of(a, "episode.end") = {Rows(a)[Len(Rows(a))]}
      /\ Rows(a)[Len(Rows(a))].at = c.episodeEndTime
      /\ InsideWindow(a, Rows(a)[1], Rows(a)[Len(Rows(a))])
      /\ causes \subseteq {a, "third_cause"}
      /\ a \in Caused(c) => a \in causes
      /\ "third_cause" \in Caused(c) <=> "third_cause" \in causes

LEMMA ClosedIsRead ==
  ASSUME PairInv, NEW a \in Arm, Closed(a, run[a].ctl, now), Episode(a, run[a].ctl, now, sent)
  PROVE  ReadEpisode(a)
<1> DEFINE c == run[a].ctl
           rows == Rows(a)
           l == Len(rows)
           causes == {row.cause : row \in Of(a, "intervention")}
<1>1. Recording(a)
  BY RecordingOfArm
<1>2. rows = c.truth /\ rows \in Seq(RowSet)
  BY <1>1 DEF Rows, Recording
<1>3. l \in Nat /\ l >= 2 /\ DOMAIN rows = 1..l
  BY <1>2 DEF Closed
<1>4. c \in Controller
  BY DEF PairInv, Run
<1>5. rows[1].kind = "episode.begin" /\ rows[1].at = c.targetContactStart
  BY <1>2 DEF Episode, Begun
<1>6. rows[l].kind = "episode.end" /\ rows[l].at = c.episodeEndTime
  BY <1>2 DEF Closed
<1>7. \A k \in DOMAIN rows : /\ rows[k].kind = "episode.begin" => k = 1
                             /\ rows[k].kind = "episode.end" => k = l
                             /\ rows[k].kind = "intervention" => rows[k].cause \in {a, "third_cause"}
                             /\ rows[k].kind # "intervention" => rows[k].cause = "none"
  BY <1>1 DEF Recording
<1>8. \A kind : Of(a, kind) = {rows[k] : k \in {j \in DOMAIN rows : rows[j].kind = kind}}
  BY DEF Of
<1>9. ASSUME NEW k \in DOMAIN rows, rows[k].kind = "intervention"
      PROVE  rows[1].at <= rows[k].at /\ rows[k].at <= rows[l].at
  <2>1. k \in 2..(l - 1)
    <3>1. k # 1 /\ k # l
      BY <1>5, <1>6, <1>9
    <3> QED BY <1>3, <3>1
  <2>2. c.targetSendTime <= rows[k].at /\ rows[k].at <= c.plannedEnd
    BY <1>2, <2>1 DEF Closed, Intervened
  <2>3. c.targetContactStart < c.targetSendTime /\ c.plannedEnd <= c.episodeEndTime
    BY DEF Episode, Chosen, Closed
  <2>4. /\ c.targetContactStart \in Int /\ c.targetSendTime \in Int /\ c.plannedEnd \in Int
        /\ c.episodeEndTime \in Int
    BY <1>4 DEF Controller
  <2>5. rows[k] \in RowSet
    BY <1>2
  <2>6. rows[k].at \in Int
    BY <2>5 DEF RowSet
  <2> QED BY <1>5, <1>6, <2>2, <2>3, <2>4, <2>6
<1>10. Caused(c) = {rows[k].cause : k \in DOMAIN rows}
  BY <1>2 DEF Caused
<1> HIDE DEF rows, l, c
<1>11. 1 \in DOMAIN rows /\ l \in DOMAIN rows
  BY <1>3
<1>12. Of(a, "episode.begin") = {rows[1]}
  BY <1>5, <1>7, <1>8, <1>11
<1>13. Of(a, "episode.end") = {rows[l]}
  BY <1>6, <1>7, <1>8, <1>11
<1>14. InsideWindow(a, rows[1], rows[l])
  BY <1>8, <1>9 DEF InsideWindow
<1>15. causes = {rows[k].cause : k \in {j \in DOMAIN rows : rows[j].kind = "intervention"}}
  BY <1>8
<1> HIDE DEF causes
<1>16. causes \subseteq {a, "third_cause"}
  BY <1>7, <1>15
<1>17. \A x \in Caused(c) : x = "none" \/ x \in causes
  BY <1>7, <1>10, <1>15
<1>18. \A x \in causes : x \in Caused(c)
  BY <1>10, <1>15
<1>19. a # "none"
  BY DEF Arm
<1> QED BY <1>5, <1>6, <1>12, <1>13, <1>14, <1>16, <1>17, <1>18, <1>19 DEF ReadEpisode, rows, l, c, causes

\* A valid run was brought to its end, with the cause of the arm in a closed episode.
LEMMA ValidRun ==
  ASSUME PairInv, NEW a \in Arm, Valid(a)
  PROVE  /\ ~run[a].ctl.thrown /\ a \in Caused(run[a].ctl)
         /\ Episode(a, run[a].ctl, now, sent) /\ Closed(a, run[a].ctl, now)
         /\ Ended(run[a], now, sent)
<1> DEFINE c == run[a].ctl
<1>1. ArmInv(a, run[a], now, sent) /\ Recording(a)
  BY RecordingOfArm DEF PairInv
<1>2. Ended(run[a], now, sent)
  BY <1>1 DEF ArmInv, Valid
<1>3. Outcome(c) = "ok"
  BY <1>2 DEF Ended, Valid
<1>4. ~c.thrown /\ InterventionEmitted(c) /\ ~c.episodeOpen
  BY <1>3 DEF Outcome
<1>5. Rows(a) = c.truth
  BY DEF Rows
<1>6. Stage(a, c, now, sent)
  BY <1>1 DEF ArmInv
<1> HIDE DEF c
<1>7. PICK k \in DOMAIN c.truth : c.truth[k].cause \in {"attack", "fault"}
  BY <1>4 DEF InterventionEmitted, Caused
<1>8. c.truth[k].cause = a
  <2>1. c.truth[k].cause \in {a, "third_cause"} \/ c.truth[k].cause = "none"
    BY <1>1, <1>5, <1>7 DEF Recording
  <2> QED BY <1>7, <2>1
<1>9. ~Waiting(c)
  BY <1>7 DEF Waiting
<1>10. Episode(a, c, now, sent) /\ Closed(a, c, now)
  BY <1>4, <1>6, <1>9 DEF Stage, Episode, Open
<1> QED BY <1>2, <1>4, <1>7, <1>8, <1>10 DEF Caused, c

\* Where the rows of a closed episode are found.
LEMMA RowsOfEpisode ==
  ASSUME PairInv, NEW a \in Arm, Closed(a, run[a].ctl, now), Episode(a, run[a].ctl, now, sent)
  PROVE  /\ RowAt(a, "episode.begin") = run[a].ctl.targetContactStart
         /\ RowAt(a, "episode.end") = run[a].ctl.episodeEndTime
<1> DEFINE c == run[a].ctl
           rows == Rows(a)
           l == Len(rows)
<1>1. Recording(a)
  BY RecordingOfArm
<1>2. rows = c.truth /\ rows \in Seq(RowSet)
  BY <1>1 DEF Rows, Recording
<1>3. rows[1].at = c.targetContactStart /\ rows[1].kind = "episode.begin"
  BY <1>2 DEF Episode, Begun
<1>4. rows[l].at = c.episodeEndTime /\ rows[l].kind = "episode.end" /\ l >= 2
  BY <1>2 DEF Closed
<1>5. 1 \in DOMAIN rows /\ l \in DOMAIN rows
  BY <1>2, <1>4
<1>6. \A k \in DOMAIN rows : rows[k].kind = "episode.begin" => k = 1
  BY <1>1 DEF Recording
<1>7. \A k \in DOMAIN rows : rows[k].kind = "episode.end" => k = l
  BY <1>1 DEF Recording
<1> HIDE DEF l
<1>8. (CHOOSE k \in DOMAIN rows : rows[k].kind = "episode.begin") = 1
  BY <1>3, <1>5, <1>6
<1>9. (CHOOSE k \in DOMAIN rows : rows[k].kind = "episode.end") = l
  BY <1>4, <1>5, <1>7
<1> QED BY <1>3, <1>4, <1>8, <1>9 DEF RowAt

\* What is still in the air at the end of the run is due after the episode, so that a
\* target that the link got was delivered.
LEMMA DeliveredInTime ==
  ASSUME PairInv, NEW a \in Arm, Valid(a), Crosses(a)
  PROVE  \E t \in DeliveredAt(a, Target(a)) :
            RowAt(a, "episode.begin") <= t /\ t <= RowAt(a, "episode.end")
<1> DEFINE c == run[a].ctl
           g == run[a].ground
<1>1. /\ ~c.thrown /\ Episode(a, c, now, sent) /\ Closed(a, c, now) /\ Ended(run[a], now, sent)
  BY ValidRun
<1>2. ArmInv(a, run[a], now, sent) /\ run[a] \in Run
  BY DEF PairInv
<1>3. c \in Controller
  BY <1>2 DEF Run
<1>4. /\ c.targetSeq >= 0 /\ c.targetContactStart < c.targetSendTime
      /\ c.targetSendTime + Span <= c.episodeEndTime /\ c.episodeEndTime <= now
  <2>1. c.targetSeq \in Int
    BY <1>3 DEF Controller
  <2>2. c.targetSeq >= 1 /\ c.targetContactStart < c.targetSendTime
    BY <1>1, <2>1 DEF Episode, Chosen
  <2>3. c.plannedEnd = c.targetSendTime + Span
    BY <1>1 DEF Episode, Begun
  <2>4. c.plannedEnd <= c.episodeEndTime /\ c.episodeEndTime <= now
    BY <1>1 DEF Closed
  <2> HIDE DEF c
  <2> QED BY <2>1, <2>2, <2>3, <2>4
<1>5. Reaching(run[a])
  BY <1>1, <1>2, <1>4 DEF ArmInv, Crosses
<1>6. c.targetSendTime + Span \in Int
  BY <1>1, <1>3 DEF Episode, Begun, Controller
<1>7. ASSUME NEW i \in run[a].air
      PROVE  ~(i.at <= c.targetSendTime + Span)
  <2>1. now < i.at
    BY <1>1 DEF Ended
  <2>2. i.at \in Int
    BY <1>2 DEF Run, Item
  <2>3. now \in Int /\ c.episodeEndTime \in Int
    BY <1>3 DEF PairInv, Controller
  <2> HIDE DEF c
  <2> QED BY <1>4, <1>6, <2>1, <2>2, <2>3
<1>8. PICK k \in DOMAIN g : /\ g[k].seq = c.targetSeq /\ c.targetSendTime <= g[k].at
                            /\ g[k].at <= c.targetSendTime + Span
  BY <1>5, <1>7 DEF Reaching
<1>9. g[k].at \in DeliveredAt(a, Target(a))
  BY <1>8 DEF DeliveredAt, Deliveries, Target
<1>10. g \in Seq(Delivery)
  BY <1>2 DEF Run
<1>11. g[k].at \in Int
  <2> HIDE DEF g
  <2>1. g[k] \in Delivery
    BY <1>8, <1>10
  <2> QED BY <2>1 DEF Delivery
<1>12. /\ RowAt(a, "episode.begin") = c.targetContactStart
       /\ RowAt(a, "episode.end") = c.episodeEndTime
  BY <1>1, RowsOfEpisode
<1>13. c.targetContactStart \in Int /\ c.targetSendTime \in Int /\ c.episodeEndTime \in Int
  BY <1>3 DEF Controller
<1> HIDE DEF c, g
<1>14. c.targetContactStart <= g[k].at /\ g[k].at <= c.episodeEndTime
  BY <1>4, <1>6, <1>8, <1>11, <1>13
<1> QED BY <1>9, <1>12, <1>14
LEMMA OnceOnRecord ==
  ASSUME PairInv, NEW a \in Arm, Valid(a)
  PROVE  Cardinality({k \in DOMAIN Rows(a) : Rows(a)[k].cause = a}) = 1
<1> DEFINE c == run[a].ctl
           K == {k \in DOMAIN Rows(a) : Rows(a)[k].cause = a}
<1>1. a \in Caused(c) /\ Begun(a, c, now)
  BY ValidRun DEF Episode
<1>2. Rows(a) = c.truth
  BY DEF Rows
<1>3. PICK k \in DOMAIN c.truth : c.truth[k].cause = a
  BY <1>1 DEF Caused
<1>4. \A j \in DOMAIN c.truth : c.truth[j].cause = a => j = k
  BY <1>1, <1>3 DEF Begun
<1> HIDE DEF c
<1>5. K = {k}
  BY <1>2, <1>3, <1>4
<1> HIDE DEF K
<1>6. Cardinality(K) = 1
  BY <1>5, FS_Singleton
<1> QED BY <1>6 DEF K

\* The causes that the reader finds, and the one record it makes of a closed episode.
CausesRead(a) == {row.cause : row \in Of(a, "intervention")}

EpisodeRead(a, t) ==
  [begin |-> run[a].ctl.targetContactStart, end |-> run[a].ctl.episodeEndTime, cutoff |-> t,
   cause |-> derive_truth_cause(CausesRead(a))]

\* What the reader makes of one begin row and one end row.
ReadBetween(a, b, e) ==
  {[begin |-> b.at, end |-> e.at, cutoff |-> t, cause |-> derive_truth_cause(CausesRead(a))] :
     t \in analysis_cutoff(e.at)}

LEMMA ReadOfClosed ==
  ASSUME PairInv, NEW a \in Arm, Closed(a, run[a].ctl, now), Episode(a, run[a].ctl, now, sent),
         CausesRead(a) # {}
  PROVE  build_episode(a) =
           {EpisodeRead(a, t) : t \in analysis_cutoff(run[a].ctl.episodeEndTime)}
<1> DEFINE rows == Rows(a)
           b == rows[1]
           e == rows[Len(rows)]
           B == Of(a, "episode.begin")
           E == Of(a, "episode.end")
           F == {x \in E : \A y \in B : InsideWindow(a, y, x)}
<1>1. ReadEpisode(a)
  BY ClosedIsRead
<1>2. /\ B = {b} /\ b.at = run[a].ctl.targetContactStart
      /\ E = {e} /\ e.at = run[a].ctl.episodeEndTime /\ InsideWindow(a, b, e)
  BY <1>1 DEF ReadEpisode
<1> HIDE DEF b, e, rows
<1>3. Cardinality(B) = 1 /\ Cardinality(E) = 1
  BY <1>2, FS_Singleton
<1>4. F = {e}
  BY <1>2
<1>5. build_episode(a) = IF Cardinality(B) # 1 \/ Cardinality(E) # 1 \/ CausesRead(a) = {} THEN {}
                         ELSE UNION {ReadBetween(a, x, y) : x \in B, y \in F}
  BY DEF build_episode, ReadBetween, CausesRead
<1>6. ReadBetween(a, b, e) =
        {EpisodeRead(a, t) : t \in analysis_cutoff(run[a].ctl.episodeEndTime)}
  BY <1>2 DEF ReadBetween, EpisodeRead
<1> HIDE DEF B, E, F
<1> DEFINE U == {ReadBetween(a, x, y) : x \in B, y \in F}
<1>7. build_episode(a) = UNION U
  BY <1>3, <1>5
<1>8. U = {ReadBetween(a, b, e)}
  BY <1>2, <1>4
<1> HIDE DEF U
<1>9. build_episode(a) = ReadBetween(a, b, e)
  BY <1>7, <1>8
<1> QED BY <1>6, <1>9

\* The reader takes no run whose episode is not closed.
LEMMA ReadIsClosed ==
  ASSUME PairInv, NEW a \in Arm, build_episode(a) # {}
  PROVE  /\ Closed(a, run[a].ctl, now) /\ Episode(a, run[a].ctl, now, sent)
         /\ CausesRead(a) # {}
<1> DEFINE c == run[a].ctl
           B == Of(a, "episode.begin")
           E == Of(a, "episode.end")
           F == {x \in E : \A y \in B : InsideWindow(a, y, x)}
<1>1. build_episode(a) = IF Cardinality(B) # 1 \/ Cardinality(E) # 1 \/ CausesRead(a) = {} THEN {}
                         ELSE UNION {ReadBetween(a, x, y) : x \in B, y \in F}
  BY DEF build_episode, ReadBetween, CausesRead
<1>2. CausesRead(a) # {} /\ F # {}
  <2> HIDE DEF B, E, F
  <2> QED BY <1>1
<1>3. Recording(a) /\ Rows(a) = c.truth
  BY RecordingOfArm DEF Rows
<1>4. PICK k \in DOMAIN c.truth : c.truth[k].kind = "episode.end"
  BY <1>2, <1>3 DEF Of
<1>5. k = Len(c.truth)
  BY <1>3, <1>4 DEF Recording
<1>6. Stage(a, c, now, sent)
  BY DEF PairInv, ArmInv
<1>7. ~Waiting(c)
  BY <1>4 DEF Waiting
<1>8. Episode(a, c, now, sent)
  BY <1>6, <1>7 DEF Stage
<1>9. c.truth[1].kind = "episode.begin"
  BY <1>8 DEF Episode, Begun
<1>10. c.truth \in Seq(RowSet)
  BY <1>3 DEF Recording
<1>11. ~Open(a, c)
  <2> SUFFICES ASSUME Open(a, c) PROVE FALSE
    OBVIOUS
  <2>1. k # 1
    BY <1>4, <1>9
  <2> HIDE DEF c
  <2>2. k \in 2..Len(c.truth)
    BY <1>4, <1>10, <2>1
  <2> QED BY <1>4, <2>2 DEF Open, Intervened
<1> QED BY <1>2, <1>8, <1>11 DEF Episode

\* The reader finds the cause of the arm, or the third one where the robustness arm puts it
\* beside the other.
LEMMA CauseOfEpisode ==
  ASSUME PairInv, NEW a \in Arm, NEW e \in build_episode(a)
  PROVE  IF robustness = "RB-third-cause" THEN e.cause = "third_cause"
         ELSE e.cause = a /\ (run[a].outcome = "failed" => run[a].ctl.thrown)
<1> DEFINE c == run[a].ctl
<1>1. Closed(a, c, now) /\ Episode(a, c, now, sent) /\ CausesRead(a) # {}
  BY ReadIsClosed
<1>2. e.cause = derive_truth_cause(CausesRead(a))
  BY <1>1, ReadOfClosed DEF EpisodeRead
<1>3. /\ CausesRead(a) \subseteq {a, "third_cause"}
      /\ "third_cause" \in Caused(c) <=> "third_cause" \in CausesRead(a)
  BY <1>1, ClosedIsRead DEF ReadEpisode, CausesRead
<1>4. ThirdOnRecord(c) /\ ~c.episodeOpen
  BY <1>1 DEF Episode, Closed
<1>5. pair # "SP6" /\ a \in {"attack", "fault"}
  BY DEF PairInv, Fixed, Arm
<1>6. CASE robustness = "RB-third-cause"
  BY <1>2, <1>3, <1>4, <1>5, <1>6 DEF ThirdOnRecord, derive_truth_cause
<1>7. CASE robustness # "RB-third-cause"
  <2>1. CausesRead(a) = {a}
    BY <1>1, <1>3, <1>4, <1>7 DEF ThirdOnRecord
  <2>2. e.cause = a
    BY <1>2, <1>5, <2>1 DEF derive_truth_cause
  <2>3. a \in Caused(c)
    <3>1. \A x \in CausesRead(a) : x \in Caused(c)
      BY DEF CausesRead, Of, Caused, Rows
    <3> QED BY <2>1, <3>1
  <2>4. InterventionEmitted(c)
    BY <1>5, <2>3 DEF InterventionEmitted
  <2>5. run[a].outcome = "failed" => run[a].outcome = Outcome(c)
    BY DEF PairInv, ArmInv, Ended
  <2> QED BY <1>4, <1>7, <2>2, <2>4, <2>5 DEF Outcome
<1> QED BY <1>6, <1>7

-----------------------------------------------------------------------------
(* The promises of a pair                                                  *)

LEMMA OneEpisodeOfArms ==
  ASSUME PairInv, \A a \in Arm : Valid(a) /\ ~Crosses(a) => Deliveries(a, Target(a)) = {}
  PROVE  OneEpisode
<1> SUFFICES ASSUME NEW a \in Arm
             PROVE  /\ \A k \in DOMAIN Rows(a) :
                         /\ (Rows(a)[k].kind = "episode.begin") <=> (k = 1)
                         /\ Rows(a)[k].kind = "episode.end" => k = Len(Rows(a))
                         /\ k > 1 => Rows(a)[k - 1].at <= Rows(a)[k].at
                    /\ Valid(a) =>
                         /\ Cardinality({k \in DOMAIN Rows(a) : Rows(a)[k].cause = a}) = 1
                         /\ IF Crosses(a)
                            THEN \E t \in DeliveredAt(a, Target(a)) :
                                    RowAt(a, "episode.begin") <= t /\ t <= RowAt(a, "episode.end")
                            ELSE Deliveries(a, Target(a)) = {}
                         /\ analysis_cutoff(RowAt(a, "episode.end")) # {} => build_episode(a) # {}
                    /\ \A e \in build_episode(a) :
                         IF robustness = "RB-third-cause" THEN e.cause = "third_cause"
                         ELSE e.cause = a /\ (run[a].outcome = "failed" => run[a].ctl.thrown)
  BY DEF OneEpisode
<1>1. \A k \in DOMAIN Rows(a) : /\ (Rows(a)[k].kind = "episode.begin") <=> (k = 1)
                                /\ Rows(a)[k].kind = "episode.end" => k = Len(Rows(a))
                                /\ k > 1 => Rows(a)[k - 1].at <= Rows(a)[k].at
  BY RecordingOfArm DEF Recording
<1>2. ASSUME Valid(a), analysis_cutoff(RowAt(a, "episode.end")) # {} PROVE build_episode(a) # {}
  <2>1. /\ Closed(a, run[a].ctl, now) /\ Episode(a, run[a].ctl, now, sent)
        /\ a \in Caused(run[a].ctl)
    BY <1>2, ValidRun
  <2>2. CausesRead(a) # {}
    BY <2>1, ClosedIsRead DEF ReadEpisode, CausesRead
  <2>3. build_episode(a) = {EpisodeRead(a, t) : t \in analysis_cutoff(run[a].ctl.episodeEndTime)}
    BY <2>1, <2>2, ReadOfClosed
  <2>4. RowAt(a, "episode.end") = run[a].ctl.episodeEndTime
    BY <2>1, RowsOfEpisode
  <2> QED BY <1>2, <2>3, <2>4
<1> QED BY <1>1, <1>2, OnceOnRecord, DeliveredInTime, CauseOfEpisode

LEMMA UnlabelledOfValid ==
  ASSUME PairInv, NEW a \in Arm, Valid(a)
  PROVE  Unlabelled(a) =
           {[begin |-> run[a].ctl.targetContactStart, end |-> run[a].ctl.episodeEndTime,
             cutoff |-> t, cause |-> "either"] : t \in analysis_cutoff(run[a].ctl.episodeEndTime)}
<1>1. /\ Closed(a, run[a].ctl, now) /\ Episode(a, run[a].ctl, now, sent)
      /\ a \in Caused(run[a].ctl)
  BY ValidRun
<1>2. CausesRead(a) # {}
  BY <1>1, ClosedIsRead DEF ReadEpisode, CausesRead
<1>3. build_episode(a) = {EpisodeRead(a, t) : t \in analysis_cutoff(run[a].ctl.episodeEndTime)}
  BY <1>1, <1>2, ReadOfClosed
<1> DEFINE T == analysis_cutoff(run[a].ctl.episodeEndTime)
           Plain(e) == [e EXCEPT !.cause = "either"]
           X(t) == [begin |-> run[a].ctl.targetContactStart, end |-> run[a].ctl.episodeEndTime,
                    cutoff |-> t, cause |-> "either"]
<1>4. \A t : Plain(EpisodeRead(a, t)) = X(t)
  BY DEF EpisodeRead
<1>5. Unlabelled(a) = {Plain(e) : e \in build_episode(a)}
  BY DEF Unlabelled
<1> HIDE DEF T, Plain
<1>6. Unlabelled(a) = {Plain(EpisodeRead(a, t)) : t \in T}
  BY <1>3, <1>5 DEF T
<1>7. Unlabelled(a) = {X(t) : t \in T}
  BY <1>4, <1>6
<1> QED BY <1>7 DEF T

LEMMA TargetOfArms == ASSUME PairInv PROVE ArmsShareTarget
<1> DEFINE c == run["attack"].ctl
           d == run["fault"].ctl
<1>1. "attack" \in Arm /\ "fault" \in Arm
  BY DEF Arm
<1>2. SameClock(c, d) /\ (~c.thrown /\ ~d.thrown => SameEpisode(c, d))
  BY DEF PairInv, Shared
<1>3. Target("attack") = Target("fault") /\ c.targetContactStart = d.targetContactStart
  BY <1>2 DEF SameClock, Target
<1>4. ASSUME ValidPair
      PROVE  /\ \A kind \in {"episode.begin", "episode.end"} : RowAt("attack", kind) = RowAt("fault", kind)
             /\ Unlabelled("attack") = Unlabelled("fault")
  <2>1. Valid("attack") /\ Valid("fault")
    BY <1>1, <1>4 DEF ValidPair
  <2>2. /\ ~c.thrown /\ Closed("attack", c, now) /\ Episode("attack", c, now, sent)
        /\ ~d.thrown /\ Closed("fault", d, now) /\ Episode("fault", d, now, sent)
    BY <1>1, <2>1, ValidRun
  <2>3. c.episodeEndTime = d.episodeEndTime
    BY <1>2, <2>2 DEF SameEpisode
  <2>4. /\ RowAt("attack", "episode.begin") = c.targetContactStart
        /\ RowAt("attack", "episode.end") = c.episodeEndTime
        /\ RowAt("fault", "episode.begin") = d.targetContactStart
        /\ RowAt("fault", "episode.end") = d.episodeEndTime
    BY <1>1, <2>2, RowsOfEpisode
  <2>5. Unlabelled("attack") = Unlabelled("fault")
    BY <1>1, <1>3, <2>1, <2>3, UnlabelledOfValid
  <2> QED BY <1>3, <2>3, <2>4, <2>5
<1> QED BY <1>3, <1>4 DEF ArmsShareTarget

-----------------------------------------------------------------------------
(* The theorems about the record                                           *)

LEMMA PairStays == [Next]_vars => pair' = pair
  BY DEF Next, Telemetry, Tick, ArriveAtAttacker, ArriveAtGround, ArriveAtSatellite, Finish,
         vars, fixedVars, scheduleVars

\* In every pair but SP-6 both arms stay in their episode, and share its clock: what is on
\* record, what is in the air and what has arrived always fits the target chosen.
THEOREM PairInvariance == NearEarth => (Spec => [](pair # "SP6" => PairInv))
<1> SUFFICES ASSUME NearEarth PROVE Spec => [](pair # "SP6" => PairInv)
  OBVIOUS
<1>1. Init => (pair # "SP6" => PairInv)
  BY InitPair
<1>2. (pair # "SP6" => PairInv) /\ [Next]_vars => (pair # "SP6" => PairInv)'
  BY PairStays, NextKeepsPair
<1> QED BY <1>1, <1>2, PTL DEF Spec

\* Both arms act on the same observation of the same contact, and a valid pair shows the
\* same window and the same cutoff of the evidence in both.
THEOREM MatchedTarget == NearEarth => (Spec => [](pair # "SP6" => ArmsShareTarget))
  BY PairInvariance, TargetOfArms, PTL

-----------------------------------------------------------------------------
(***************************************************************************)
(* What the ground sees of a pair: when each frame arrives, the hold of    *)
(* SP-4, and the odd observations of SP-1, SP-2 and SP-5.                  *)
(***************************************************************************)

\* The hold of SP-4 covers whole intervals of telemetry, or ends so long before the next
\* frame is sent that this frame cannot overtake the target.
HoldEnds == \A d, e \in Transits : (DelayTarget % Interval) + d < Interval + e

\* What an attacker answers to a frame reaches the satellite before the next frame is sent.
ShortWay == \A d, e \in Transits : d + e < Interval

-----------------------------------------------------------------------------
(* When frames are sent and arrive                                         *)

TransitOf(seq) == transit[seq % 2]
Transited(seq) == Interval * seq + TransitOf(seq)

\* The ground has a frame one transit after it was sent, and the target of SP-4 later by
\* the hold, which the attacker or the link adds.
GroundTime(target, seq) ==
  IF pair = "SP4" /\ seq = target THEN Transited(seq) + DelayTarget ELSE Transited(seq)

OnTheBeat == Interval * sent <= now /\ now <= Interval * (sent + 1)

TimedItem(a, target, i, s) ==
  /\ i.what = "hostile" => a = "attack" /\ pair \in {"SP2", "SP3"} /\ ~i.odd
  /\ i.what # "hostile" =>
       /\ 1 <= i.seq /\ i.seq <= s
       /\ i.what = "late" => a = "attack" /\ pair = "SP4" /\ i.seq = target
       /\ i.at = IF a = "attack" /\ i.what = "frame" THEN Transited(i.seq)
                 ELSE GroundTime(target, i.seq)

TimedDelivery(target, m, s) ==
  1 <= m.seq /\ m.seq <= s /\ m.at = GroundTime(target, m.seq) /\ m.at <= now

\* Of a target that the link dropped nothing is under way and nothing arrived.
Absent(r, target) ==
  /\ \A i \in r.air : i.what # "hostile" => i.seq # target
  /\ \A k \in DOMAIN r.ground : r.ground[k].seq # target

DroppedArm(r) ==
  r.ctl.targetSeq >= 0 /\ ~InView(r.ctl.targetSendTime) => Absent(r, r.ctl.targetSeq)

TimedArm(a, r, s) ==
  LET target == r.ctl.targetSeq IN
  /\ target >= 0 => r.ctl.targetSendTime = Interval * target
  /\ \A i \in r.air : TimedItem(a, target, i, s)
  /\ \A k \in DOMAIN r.ground : TimedDelivery(target, r.ground[k], s)

\* What was sent of a run and not lost.
Frames(r) ==
  {i.seq : i \in {j \in r.air : j.what = "frame"}} \cup {r.ground[k].seq : k \in DOMAIN r.ground}

\* Where nothing is held, the same frames were sent in two arms, and lost.
SameFrames(r, k) ==
  pair # "SP4" /\ ~r.ctl.thrown /\ ~k.ctl.thrown => Frames(r) = Frames(k)

-----------------------------------------------------------------------------
(* SP-4: the outage of the fault arm                                       *)

\* What is sent after the target is sent after the outage, and arrives after the target.
HeldArm(r) ==
  LET target == r.ctl.targetSeq IN
  target >= 0 /\ InView(r.ctl.targetSendTime) =>
    /\ ~r.ctl.thrown => r.gapEnd = Interval * target + DelayTarget
    /\ \A i \in r.air : i.seq > target => Interval * i.seq > Interval * target + DelayTarget
    /\ \A k \in DOMAIN r.ground : r.ground[k].seq > target =>
         \E j \in DOMAIN r.ground : j < k /\ r.ground[j].seq = target

-----------------------------------------------------------------------------
(* SP-1 and SP-5: the target is the first odd observation                  *)

Shows(target, m) == m.odd => target >= 0 /\ target <= m.seq

\* Only the counter that SP-5's fault moved stays odd after the target.
OnlyTarget(a, target, m) == m.odd /\ (a = "attack" \/ pair = "SP1") => m.seq = target

OddArm(a, r) ==
  LET target == r.ctl.targetSeq IN
  /\ \A i \in r.air : Shows(target, i) /\ OnlyTarget(a, target, i)
  /\ \A k \in DOMAIN r.ground :
       Shows(target, r.ground[k]) /\ OnlyTarget(a, target, r.ground[k])
  /\ r.shifted => a = "fault" /\ pair = "SP5" /\ target >= 0
  /\ target >= 0 =>
       /\ a = "fault" => (pair = "SP5" /\ ~r.ctl.thrown => r.shifted)
                         /\ \A i \in r.air : i.seq = target => i.odd
       /\ \A k \in DOMAIN r.ground : r.ground[k].seq = target => r.ground[k].odd

-----------------------------------------------------------------------------
(* SP-2: exactly the observations after the target are odd                 *)

EclipseArm(a, r) ==
  LET target == r.ctl.targetSeq IN
  /\ r.shifted \/ a \in Caused(r.ctl) => target >= 0 /\ r.shifted
  /\ \A i \in r.air :
       /\ i.odd => r.shifted /\ target < i.seq
       /\ i.what = "frame" /\ r.shifted /\ target < i.seq => i.odd
       /\ i.what = "hostile" => i.at < Interval * (target + 1)
  /\ \A k \in DOMAIN r.ground : r.ground[k].odd <=> r.shifted /\ target < r.ground[k].seq

-----------------------------------------------------------------------------
(* The two arms together                                                   *)

ShownArm(a, r, s) ==
  /\ TimedArm(a, r, s)
  /\ DroppedArm(r)
  /\ HoldEnds /\ pair = "SP4" /\ a = "fault" => HeldArm(r)
  /\ pair \in {"SP1", "SP5"} => OddArm(a, r)
  /\ ShortWay /\ pair = "SP2" => EclipseArm(a, r)

ShownInv ==
  /\ OnTheBeat
  /\ \A a \in Arm : ShownArm(a, run[a], sent)
  /\ SameFrames(run["attack"], run["fault"])

\* In a valid pair in which nothing is held or lost, the ground gets the same frames in
\* both arms, each at the same instant.
GroundSeesAlike ==
  ValidPair /\ pair \notin {"SP4", "SP6"} =>
     \A seq \in 0..sent : DeliveredAt("attack", seq) = DeliveredAt("fault", seq)

\* In a valid pair of SP-2 the same observations are odd in both arms: those after the target.
EclipseShowsAlike ==
  ValidPair /\ pair = "SP2" =>
     /\ OddSeqs("attack") = OddSeqs("fault")
     /\ \A a \in Arm : \A k \in DOMAIN run[a].ground :
          run[a].ground[k].odd <=> Target(a) < run[a].ground[k].seq

-----------------------------------------------------------------------------
(* Arithmetic                                                              *)

\* What the provers know of a quotient and a remainder, named for its uses.
LEMMA DivMod ==
  ASSUME NEW n \in Nat, NEW w \in Nat \ {0}
  PROVE  n \div w \in Nat /\ n = w * (n \div w) + (n % w) /\ n % w \in 0..(w - 1)
OBVIOUS

LEMMA Multiples ==
  ASSUME NEW j \in Int, NEW k \in Int, NEW w \in Nat \ {0}
  PROVE  /\ w * (j + 1) = w * j + w /\ w * (j + k) = w * j + w * k
         /\ w * j \in Int
         /\ j <= k => w * j <= w * k
         /\ j < k => w * j < w * k
OBVIOUS

LEMMA Constants ==
  /\ Interval \in Nat \ {0} /\ DelayTarget \in Nat /\ Horizon \in Nat
  /\ \A d \in Transits : d \in Nat \ {0}
BY ScenarioAssumption, PairAssumption

\* What is sent after the outage arrives after the target that was held for it.
LEMMA AfterHold ==
  ASSUME HoldEnds, NEW t \in Nat, NEW s \in Nat, Interval * s > Interval * t + DelayTarget,
         NEW d \in Transits, NEW e \in Transits
  PROVE  Interval * s + e > Interval * t + d + DelayTarget
<1> DEFINE n == DelayTarget \div Interval
           m == DelayTarget % Interval
<1>1. n \in Nat /\ DelayTarget = Interval * n + m /\ m \in 0..(Interval - 1)
  BY Constants, DivMod
<1>2. m + d < Interval + e /\ d \in Nat /\ e \in Nat
  BY Constants DEF HoldEnds
<1> HIDE DEF n, m
<1>3. Interval * (t + n) = Interval * t + Interval * n
  BY <1>1, Constants, Multiples
<1>4. t + n < s
  <2>1. s <= t + n => Interval * s <= Interval * (t + n)
    BY <1>1, Constants, Multiples
  <2>2. Interval * s \in Int /\ Interval * (t + n) \in Int /\ Interval * t \in Int /\ Interval * n \in Int
    BY <1>1, Constants
  <2>3. ~(Interval * s <= Interval * (t + n))
    BY <1>1, <1>3, <2>2
  <2> QED BY <1>1, <2>1, <2>3
<1>5. Interval * (t + n + 1) <= Interval * s /\ Interval * (t + n + 1) = Interval * (t + n) + Interval
  <2>1. t + n + 1 <= s /\ t + n + 1 \in Int /\ t + n \in Int
    BY <1>1, <1>4
  <2> QED BY <2>1, Constants, Multiples
<1>6. Interval * s \in Int /\ Interval * t \in Int /\ Interval * n \in Int
  BY <1>1, Constants
<1> QED BY <1>1, <1>2, <1>3, <1>5, <1>6, Constants

-----------------------------------------------------------------------------
(* The beat                                                                *)

LEMMA TransitTyped ==
  ASSUME Fixed, NEW seq \in Nat
  PROVE  TransitOf(seq) \in Transits /\ TransitOf(seq) \in Nat \ {0} /\ Transited(seq) \in Int
<1>1. seq % 2 \in {0, 1}
  OBVIOUS
<1>2. TransitOf(seq) \in Transits
  BY <1>1 DEF Fixed, TransitOf
<1>3. TransitOf(seq) \in Nat \ {0}
  BY <1>2, Constants
<1> QED BY <1>2, <1>3, Constants DEF Transited

LEMMA SentOnTheBeat ==
  ASSUME Fixed, now \in Nat, sent \in Nat, OnTheBeat, Telemetry
  PROVE  now = Interval * (sent + 1) /\ Delay = TransitOf(sent + 1)
<1> DEFINE k == now \div Interval
<1>1. now % Interval = 0 /\ sent < k
  BY DEF Telemetry
<1>2. k \in Nat /\ now = Interval * k
  <2>1. k \in Nat /\ now = Interval * k + (now % Interval)
    BY Constants, DivMod
  <2> QED BY <1>1, <2>1, Constants
<1>3. Delay = transit[k % 2]
  BY DEF Delay
<1> HIDE DEF k
<1>4. k = sent + 1
  <2>1. now <= Interval * (sent + 1)
    BY DEF OnTheBeat
  <2>2. sent + 1 < k => Interval * (sent + 1) < Interval * k
    BY <1>2, Constants, Multiples
  <2>3. Interval * (sent + 1) \in Int
    BY Constants
  <2> QED BY <1>1, <1>2, <2>1, <2>2, <2>3
<1> QED BY <1>2, <1>3, <1>4 DEF TransitOf

LEMMA BeatKept ==
  ASSUME Fixed, now \in Nat, sent \in Nat, OnTheBeat, [Next]_vars
  PROVE  OnTheBeat'
<1>1. CASE Telemetry
  <2>1. now = Interval * (sent + 1) /\ now' = now /\ sent' = sent + 1
    BY <1>1, SentOnTheBeat DEF Telemetry
  <2>2. Interval * (sent + 1) <= Interval * (sent + 1 + 1)
    BY Constants, Multiples
  <2> QED BY <2>1, <2>2 DEF OnTheBeat
<1>2. CASE Tick
  <2> DEFINE k == now \div Interval
  <2>1. now' = now + 1 /\ sent' = sent /\ sent = k
    BY <1>2 DEF Tick, TelemetryDone
  <2>2. now = Interval * k + (now % Interval) /\ now % Interval \in 0..(Interval - 1)
    BY Constants, DivMod
  <2> HIDE DEF k
  <2>3. Interval * (sent + 1) = Interval * sent + Interval /\ Interval * sent \in Int
    BY Constants, Multiples
  <2> QED BY <2>1, <2>2, <2>3, Constants DEF OnTheBeat
<1>3. CASE UNCHANGED <<now, sent>>
  BY <1>3 DEF OnTheBeat
<1>4. ASSUME NEW a \in Arm,
             ArriveAtAttacker(a) \/ ArriveAtGround(a) \/ ArriveAtSatellite(a) \/ Finish(a)
      PROVE  UNCHANGED <<now, sent>>
  BY <1>4 DEF ArriveAtAttacker, ArriveAtGround, ArriveAtSatellite, Finish
<1>5. CASE UNCHANGED vars
  BY <1>3, <1>5 DEF vars
<1> QED BY <1>1, <1>2, <1>3, <1>4, <1>5 DEF Next

-----------------------------------------------------------------------------
(* What a telemetry tick does to one arm                                   *)

\* All but the air, and the outage of the link.
SameButAir(r, q) ==
  /\ q.ctl = r.ctl /\ q.ground = r.ground /\ q.shifted = r.shifted /\ q.outcome = r.outcome

FrameItem(f, at) == [what |-> "frame", seq |-> f.seq, odd |-> f.odd, at |-> at]

LEMMA ForwardExact ==
  ASSUME NEW r \in Run, now \in Nat, NEW f \in Frame, NEW w \in Nat, NEW q, q = Forward(r, f, w)
  PROVE  /\ q \in Run /\ SameButAir(r, q) /\ q.gapEnd = r.gapEnd
         /\ q.air = r.air \cup {FrameItem(f, now + w)}
<1> DEFINE i == FrameItem(f, now + w)
           air == r.air \cup {i}
<1>1. i \in Item
  <2>1. f.seq \in Nat /\ f.odd \in BOOLEAN /\ now + w \in Int
    BY DEF Frame
  <2> QED BY <2>1 DEF FrameItem, Item
<1>2. q = [r EXCEPT !.air = air]
  BY DEF Forward, Fly, FrameItem
<1> HIDE DEF i
<1>3. air \in SUBSET Item
  BY <1>1 DEF Run
<1>4. air = r.air \cup {i}
  OBVIOUS
<1> HIDE DEF air
<1>5. q \in Run
  BY <1>2, <1>3 DEF Run
<1>6. SameButAir(r, q) /\ q.gapEnd = r.gapEnd /\ q.air = air
  BY <1>2 DEF Run, SameButAir
<1> QED BY <1>4, <1>5, <1>6 DEF i

\* The link loses a frame, or sends it on after its transit, and holds the target of
\* SP-4 in the fault arm.
Holds(a, r, f) == a = "fault" /\ pair = "SP4" /\ IsTarget(r, f.seq)

Lost(a, r) == ~Linked(now) \/ (a = "fault" /\ pair = "SP4" /\ GapOpen(r))

LEMMA LinkExact ==
  ASSUME Fixed, NEW a \in Arm, NEW r \in Run, now \in Nat, NEW f \in Frame, NEW d \in Nat,
         NEW q, q = SentDown(a, r, f, d)
  PROVE  /\ q \in Run /\ SameButAir(r, q)
         /\ Lost(a, r) => q.air = r.air /\ q.gapEnd = r.gapEnd
         /\ ~Lost(a, r) /\ ~Holds(a, r, f) =>
              q.gapEnd = r.gapEnd /\ q.air = r.air \cup {FrameItem(f, now + d)}
         /\ ~Lost(a, r) /\ Holds(a, r, f) =>
              /\ q.gapEnd = now + DelayTarget
              /\ q.air = r.air \cup {FrameItem(f, now + d + DelayTarget)}
<1>1. pair # "SP6" /\ DelayTarget \in Nat
  BY Constants DEF Fixed
<1>2. CASE Lost(a, r)
  <2>1. q = r
    BY <1>1, <1>2 DEF Lost, Linked, SentDown, LinkDown, CausalCoverageGap
  <2> QED BY <1>2, <2>1 DEF SameButAir
<1>3. CASE ~Lost(a, r) /\ ~Holds(a, r, f)
  <2>1. q = Forward(r, f, d)
    BY <1>1, <1>3 DEF Lost, Linked, Holds, SentDown, LinkDown, CausalCoverageGap
  <2> QED BY <1>3, <2>1, ForwardExact
<1>4. CASE ~Lost(a, r) /\ Holds(a, r, f)
  <2> DEFINE w == d + DelayTarget
             p == Forward(r, f, w)
             gap == now + DelayTarget
  <2>1. q = [p EXCEPT !.gapEnd = gap]
    BY <1>1, <1>4 DEF Lost, Linked, Holds, SentDown, LinkDown, CausalCoverageGap
  <2>2. w \in Nat /\ p = Forward(r, f, w) /\ gap \in Int /\ now + w = now + d + DelayTarget
    BY <1>1
  <2> HIDE DEF w, p, gap
  <2>3. p \in Run /\ SameButAir(r, p) /\ p.air = r.air \cup {FrameItem(f, now + w)}
    BY <2>2, ForwardExact
  <2>4. q \in Run
    BY <2>1, <2>2, <2>3 DEF Run
  <2>5. q.gapEnd = gap /\ q.air = p.air /\ SameButAir(p, q)
    BY <2>1, <2>3 DEF Run, SameButAir
  <2>6. SameButAir(r, q)
    BY <2>3, <2>5 DEF SameButAir
  <2> QED BY <1>4, <2>2, <2>3, <2>4, <2>5, <2>6 DEF gap
<1> QED BY <1>2, <1>3, <1>4

\* What the satellite makes of the tick, and how the target stands after it: there is
\* none, it is an earlier one, or it is the frame of this tick.
Offered(a, r, k, s) ==
  /\ k \in Run /\ SameOutside(r, k)
  /\ \/ r.ctl.targetSeq < 0 /\ k.ctl.targetSeq < 0 /\ ~k.ctl.thrown /\ Waiting(k.ctl)
        /\ k.shifted = r.shifted
     \/ k = r /\ 1 <= r.ctl.targetSeq /\ r.ctl.targetSeq < s
     \/ /\ r.ctl.targetSeq < 0 /\ k.ctl.targetSeq = s /\ k.ctl.targetSendTime = now
        /\ Visible(now) /\ Shifting(a, r, k)

LEMMA OfferedAtTick ==
  ASSUME Fixed, NEW a \in Arm, NEW r, now \in Nat, sent \in Nat, ArmInv(a, r, now, sent),
         NEW k, k = Consider(a, r, sent + 1)
  PROVE  Offered(a, r, k, sent + 1)
<1> DEFINE s == sent + 1
<1>1. r \in Run /\ Stage(a, r.ctl, now, sent)
  BY DEF ArmInv
<1>2. s \in Nat /\ s >= 1 /\ sent <= s /\ sent < s /\ k = Consider(a, r, s)
  OBVIOUS
<1> HIDE DEF s
<1>3. r.ctl \in Controller
  BY <1>1 DEF Run
<1>4. Waiting(r.ctl) \/ Episode(a, r.ctl, now, s)
  <2>1. now <= now
    OBVIOUS
  <2>2. Episode(a, r.ctl, now, sent) => Episode(a, r.ctl, now, s)
    BY <1>2, <1>3, <2>1, EpisodeLater
  <2> QED BY <1>1, <2>2 DEF Stage
<1>5. /\ k \in Run /\ SameOutside(r, k) /\ Continues(a, r, k, now, s)
      /\ IF Waiting(r.ctl) /\ ~Waiting(k.ctl) THEN Shifting(a, r, k) ELSE k.shifted = r.shifted
  BY <1>1, <1>2, <1>4, ConsiderEffect
<1>6. k.ctl \in Controller
  BY <1>5 DEF Run
<1>7. CASE Waiting(k.ctl) /\ Waiting(r.ctl)
  <2>1. r.ctl.targetSeq < 0 /\ k.ctl.targetSeq < 0 /\ ~k.ctl.thrown
    BY <1>7 DEF Waiting
  <2> QED BY <1>5, <1>7, <2>1 DEF Offered, s
<1>8. CASE k = r /\ Episode(a, k.ctl, now, s)
  <2>1. 1 <= r.ctl.targetSeq /\ r.ctl.targetSeq \in Int
    BY <1>3, <1>8 DEF Episode, Chosen, Controller
  <2>2. r.ctl.targetSeq < 0 \/ r.ctl.targetSeq <= sent
    BY <1>1, <1>3, StageTyped DEF Stage
  <2>3. r.ctl.targetSeq < s
    BY <1>2, <2>1, <2>2
  <2> QED BY <1>5, <1>8, <2>1, <2>3 DEF Offered, s
<1>9. CASE Waiting(r.ctl) /\ Visible(now) /\ k.ctl.targetSeq = s /\ k.ctl.targetSendTime = now
  <2>1. ~Waiting(k.ctl) /\ r.ctl.targetSeq < 0
    BY <1>2, <1>9 DEF Waiting
  <2> QED BY <1>5, <1>9, <2>1 DEF Offered, s
<1> QED BY <1>5, <1>7, <1>8, <1>9 DEF Continues

\* The clock of the episode leaves the target and the cause of the arm alone.
LEMMA TickedCause ==
  ASSUME NEW a \in Arm, NEW c \in Controller, NEW t \in Int,
         EpisodeStart(c, CurrentPassStart(t)) \in Int,
         NEW e, e = TickEpisode(c, t), a \in Caused(e)
  PROVE  a \in Caused(c)
<1> DEFINE start == EpisodeStart(c, CurrentPassStart(t))
           end == DeclaredEnd(c, t)
           b == [c EXCEPT !.plannedEnd = end, !.episodeOpen = TRUE]
           x == [c EXCEPT !.episodeOpen = FALSE, !.episodeEndTime = t]
<1>1. e = c \/ e = Row(b, "episode.begin", "none", start) \/ e = Row(x, "episode.end", "none", t)
  BY DEF TickEpisode, TickIn
<1>2. b.truth = c.truth /\ x.truth = c.truth /\ c.truth \in Seq(RowSet)
  BY DEF Controller
<1> HIDE DEF start, end
<1>3. ASSUME NEW y, y.truth = c.truth, y = b \/ y = x, NEW kind, NEW u,
             e = Row(y, kind, "none", u)
      PROVE  a \in Caused(c)
  <2> DEFINE row == [kind |-> kind, cause |-> "none", at |-> u]
             longer == Append(c.truth, row)
  <2>1. row.cause = "none"
    OBVIOUS
  <2>2. "truth" \in DOMAIN y
    BY <1>3 DEF Controller
  <2>3. e = [y EXCEPT !.truth = longer]
    BY <1>3 DEF Row
  <2> HIDE DEF row, b, x
  <2>4. e.truth = longer
    BY <2>2, <2>3
  <2>5. /\ DOMAIN longer = 1..(Len(c.truth) + 1) /\ DOMAIN c.truth = 1..Len(c.truth)
        /\ longer[Len(c.truth) + 1] = row /\ Len(c.truth) \in Nat
        /\ \A k \in DOMAIN c.truth : longer[k] = c.truth[k]
    BY <1>2
  <2> HIDE DEF longer
  <2>6. PICK k \in DOMAIN longer : longer[k].cause = a
    BY <2>4 DEF Caused
  <2>7. k # Len(c.truth) + 1
    BY <2>1, <2>5, <2>6 DEF Arm
  <2>8. k \in DOMAIN c.truth
    BY <2>5, <2>6, <2>7
  <2> QED BY <2>5, <2>6, <2>8 DEF Caused
<1>4. CASE e = c
  BY <1>4
<1>5. CASE e = Row(b, "episode.begin", "none", start)
  BY <1>2, <1>3, <1>5
<1>6. CASE e = Row(x, "episode.end", "none", t)
  BY <1>2, <1>3, <1>6
<1> QED BY <1>1, <1>4, <1>5, <1>6

Ticked(a, k, p) ==
  /\ p \in Run /\ SameOutside(k, p) /\ p.shifted = k.shifted
  /\ SameClock(k.ctl, p.ctl) /\ ~p.ctl.thrown
  /\ a \in Caused(p.ctl) => a \in Caused(k.ctl)

LEMMA TickedArm ==
  ASSUME Fixed, NEW a \in Arm, NEW k \in Run, now \in Nat, NEW s \in Nat,
         Stage(a, k.ctl, now, s), ~k.ctl.thrown,
         NEW p, p = [k EXCEPT !.ctl = TickEpisode(@, now)]
  PROVE  Ticked(a, k, p)
<1> DEFINE e == TickEpisode(k.ctl, now)
<1>1. k.ctl \in Controller /\ now \in Int
  BY DEF Run
<1>2. e \in Controller /\ SameClock(k.ctl, e) /\ ~e.thrown
  <2>1. CASE Waiting(k.ctl)
    <3>1. e = k.ctl
      BY <1>1, <2>1, TickOfWaiting
    <3> QED BY <1>1, <3>1 DEF SameClock
  <2>2. CASE Episode(a, k.ctl, now, s)
    BY <1>1, <2>2, TickOfEpisode
  <2> QED BY <2>1, <2>2 DEF Stage
<1>3. EpisodeStart(k.ctl, CurrentPassStart(now)) \in Int
  <2>1. CurrentPassStart(now) \in Int
    BY StartOfPass
  <2> QED BY <1>1, <2>1 DEF EpisodeStart, Controller
<1>4. a \in Caused(e) => a \in Caused(k.ctl)
  BY <1>1, <1>3, TickedCause
<1>5. p = [k EXCEPT !.ctl = e]
  OBVIOUS
<1> HIDE DEF e
<1>6. p \in Run /\ p.ctl = e /\ p.shifted = k.shifted /\ SameOutside(k, p)
  BY <1>2, <1>5, WithController
<1> QED BY <1>2, <1>4, <1>6 DEF Ticked

FrameOf(a, r, k, s) == [seq |-> s, odd |-> FrameOdd(a, r, k, s)]

HeldBack(a, k, s) == a = "fault" /\ pair = "SP4" /\ k.ctl.targetSeq = s

\* The tick of one arm, in which the satellite makes k of r: an error ends the arm, or
\* the frame is lost, or it is in the air.
TickOf(a, r, k, q, s, d) ==
  /\ Offered(a, r, k, s) /\ q \in Run /\ q.ground = r.ground /\ q.shifted = k.shifted
  /\ q.ctl.targetSeq = k.ctl.targetSeq /\ q.ctl.targetSendTime = k.ctl.targetSendTime
  /\ a \in Caused(q.ctl) => a \in Caused(k.ctl)
  /\ r.ctl.thrown \/ k.ctl.thrown => q.ctl.thrown
  /\ q.ctl.thrown \/ Lost(a, r) => q.air = r.air /\ q.gapEnd = r.gapEnd
  /\ ~q.ctl.thrown /\ ~Lost(a, r) /\ ~HeldBack(a, k, s) =>
       q.gapEnd = r.gapEnd /\ q.air = r.air \cup {FrameItem(FrameOf(a, r, k, s), now + d)}
  /\ ~q.ctl.thrown /\ ~Lost(a, r) /\ HeldBack(a, k, s) =>
       /\ q.gapEnd = now + DelayTarget
       /\ q.air = r.air \cup {FrameItem(FrameOf(a, r, k, s), now + d + DelayTarget)}

LEMMA TelemetryExact ==
  ASSUME Fixed, NEW a \in Arm, NEW r, now \in Nat, sent \in Nat, ArmInv(a, r, now, sent),
         r.outcome = "running", NEW d \in Nat, NEW q, q = TelemetryOf(a, r, sent + 1, d)
  PROVE  \E k : TickOf(a, r, k, q, sent + 1, d)
<1> DEFINE s == sent + 1
           k == Consider(a, r, s)
<1>1. Offered(a, r, k, s)
  BY OfferedAtTick
<1>2. r \in Run /\ r.ctl \in Controller /\ k \in Run /\ SameOutside(r, k)
  BY <1>1 DEF ArmInv, Offered, Run
<1>3. s \in Nat
  OBVIOUS
<1>4. CASE r.ctl.thrown
  <2>1. q = r
    BY <1>4 DEF TelemetryOf, Going
  <2>2. ~Waiting(r.ctl) /\ r.ctl.targetSeq >= 0
    <3>1. Waiting(r.ctl) => ~r.ctl.thrown
      BY DEF Waiting
    <3> QED BY <1>2, <1>4, <3>1, StageTyped DEF ArmInv, Stage
  <2>3. k = r
    <3>1. r.ctl.targetSeq \in Int
      BY <1>2 DEF Controller
    <3>2. ~(r.ctl.targetSeq < 0)
      BY <2>2, <3>1
    <3> QED BY <1>1, <3>2 DEF Offered
  <2> HIDE DEF k, s
  <2>4. TickOf(a, r, k, q, s, d)
    BY <1>1, <1>2, <1>4, <2>1, <2>3 DEF TickOf
  <2> QED BY <2>4 DEF s
<1>5. CASE ~r.ctl.thrown /\ k.ctl.thrown
  <2>1. q = k
    BY <1>5 DEF TelemetryOf, Going
  <2> HIDE DEF k, s
  <2>4. TickOf(a, r, k, q, s, d)
    BY <1>1, <1>2, <1>5, <2>1 DEF TickOf, SameOutside
  <2> QED BY <2>4 DEF s
<1>6. CASE ~r.ctl.thrown /\ ~k.ctl.thrown
  <2> DEFINE p == [k EXCEPT !.ctl = TickEpisode(@, now)]
             f == FrameOf(a, r, k, s)
  <2>2. Stage(a, k.ctl, now, s)
    <3>1. sent <= s /\ now <= now
      OBVIOUS
    <3>2. Episode(a, r.ctl, now, sent) => Episode(a, r.ctl, now, s)
      BY <1>2, <1>3, <3>1, EpisodeLater
    <3>3. Waiting(r.ctl) \/ Episode(a, r.ctl, now, s)
      BY <3>2 DEF ArmInv, Stage
    <3>4. s >= 1
      OBVIOUS
    <3>5. Continues(a, r, k, now, s)
      BY <1>2, <1>3, <3>3, <3>4, ConsiderEffect
    <3> QED BY <3>5 DEF Continues, Stage
  <2>1. q = SentDown(a, p, f, d)
    BY <1>2, <1>3, <1>6, <2>2, TelemetryForm DEF FrameOf, s
  <2>3. f \in Frame /\ f.seq = s
    <3>1. FrameOdd(a, r, k, s) \in BOOLEAN
      BY <1>2, FrameIsOdd
    <3> QED BY <1>3, <3>1 DEF FrameOf, Frame
  <2>4. p = [k EXCEPT !.ctl = TickEpisode(@, now)] /\ f = FrameOf(a, r, k, s)
    OBVIOUS
  <2> HIDE DEF k, s, f, p
  <2>5. Ticked(a, k, p)
    BY <1>2, <1>3, <1>6, <2>2, <2>4, TickedArm
  <2>6. p \in Run
    BY <2>5 DEF Ticked
  <2>7. /\ q \in Run /\ SameButAir(p, q)
        /\ Lost(a, p) => q.air = p.air /\ q.gapEnd = p.gapEnd
        /\ ~Lost(a, p) /\ ~Holds(a, p, f) =>
             q.gapEnd = p.gapEnd /\ q.air = p.air \cup {FrameItem(f, now + d)}
        /\ ~Lost(a, p) /\ Holds(a, p, f) =>
             /\ q.gapEnd = now + DelayTarget
             /\ q.air = p.air \cup {FrameItem(f, now + d + DelayTarget)}
    BY <2>1, <2>3, <2>6, LinkExact
  <2>8. /\ p.air = r.air /\ p.ground = r.ground /\ p.gapEnd = r.gapEnd /\ p.shifted = k.shifted
        /\ SameClock(k.ctl, p.ctl) /\ ~p.ctl.thrown
        /\ a \in Caused(p.ctl) => a \in Caused(k.ctl)
    BY <1>2, <2>5 DEF Ticked, SameOutside
  <2>9. Lost(a, p) = Lost(a, r)
    BY <2>8 DEF Lost, GapOpen
  <2>10. Holds(a, p, f) = HeldBack(a, k, s)
    BY <2>3, <2>8 DEF Holds, HeldBack, IsTarget, SameClock
  <2>11. q.ctl = p.ctl /\ q.ground = p.ground /\ q.shifted = p.shifted
    BY <2>7 DEF SameButAir
  <2>12. TickOf(a, r, k, q, s, d)
    BY <1>1, <1>6, <2>4, <2>7, <2>8, <2>9, <2>10, <2>11 DEF TickOf, SameClock
  <2> QED BY <2>12 DEF s
<1> QED BY <1>4, <1>5, <1>6

-----------------------------------------------------------------------------
(* What an arrival does to one arm                                         *)

\* One more delivery, the last.
LastDelivery(g, h, m) ==
  /\ DOMAIN g = 1..Len(g) /\ DOMAIN h = 1..(Len(g) + 1) /\ Len(g) \in Nat
  /\ h[Len(g) + 1] = m
  /\ \A k \in DOMAIN g : h[k] = g[k]

DeliveryOf(i, odd) == [seq |-> i.seq, odd |-> odd, at |-> now]

LEMMA DeliverExact ==
  ASSUME NEW r \in Run, now \in Nat, NEW i \in Item, NEW odd \in BOOLEAN,
         NEW q, q = Deliver(r, i.seq, odd)
  PROVE  /\ q \in Run /\ q.air = r.air /\ Beside(r, q) /\ q.shifted = r.shifted
         /\ LastDelivery(r.ground, q.ground, DeliveryOf(i, odd))
<1> DEFINE m == DeliveryOf(i, odd)
           ground == Append(r.ground, m)
<1>1. m \in Delivery
  <2>1. i.seq \in Int
    BY DEF Item
  <2> QED BY <2>1 DEF DeliveryOf, Delivery
<1>2. q = [r EXCEPT !.ground = ground]
  BY DEF Deliver, DeliveryOf
<1>3. r.ground \in Seq(Delivery)
  BY DEF Run
<1> HIDE DEF m
<1>4. /\ ground \in Seq(Delivery) /\ ground[Len(r.ground) + 1] = m
      /\ DOMAIN ground = 1..(Len(r.ground) + 1) /\ DOMAIN r.ground = 1..Len(r.ground)
      /\ Len(r.ground) \in Nat
      /\ \A k \in DOMAIN r.ground : ground[k] = r.ground[k]
  BY <1>1, <1>3
<1> HIDE DEF ground
<1>5. q \in Run
  BY <1>2, <1>4 DEF Run
<1>6. q.ground = ground /\ q.air = r.air /\ Beside(r, q) /\ q.shifted = r.shifted
  BY <1>2 DEF Run, Beside
<1> QED BY <1>4, <1>5, <1>6 DEF LastDelivery, m

LEMMA RemoveExact ==
  ASSUME NEW r \in Run, NEW i, NEW q, q = Landed(r, i)
  PROVE  /\ q \in Run /\ q.air = r.air \ {i} /\ q.ground = r.ground /\ Beside(r, q)
         /\ q.shifted = r.shifted
<1> DEFINE air == r.air \ {i}
<1>1. q = [r EXCEPT !.air = air]
  BY DEF Landed
<1>2. q.shifted = r.shifted
  BY <1>1 DEF Run
<1> QED BY <1>2, RemoveEffect

LEMMA FlyExact ==
  ASSUME NEW r \in Run, NEW what \in {"frame", "late", "hostile"}, NEW seq \in Nat,
         NEW odd \in BOOLEAN, NEW at \in Int, NEW q, q = Fly(r, what, seq, odd, at),
         NEW i, i = [what |-> what, seq |-> seq, odd |-> odd, at |-> at]
  PROVE  /\ q \in Run /\ Beside(r, q) /\ q.ground = r.ground /\ q.shifted = r.shifted
         /\ q.air = r.air \cup {i}
<1> DEFINE air == r.air \cup {i}
<1>1. i \in Item
  BY DEF Item
<1>2. q = [r EXCEPT !.air = air]
  BY DEF Fly
<1>3. air \in SUBSET Item
  BY <1>1 DEF Run
<1>4. air = r.air \cup {i}
  OBVIOUS
<1> HIDE DEF air
<1>5. q \in Run
  BY <1>2, <1>3 DEF Run
<1>6. Beside(r, q) /\ q.ground = r.ground /\ q.shifted = r.shifted /\ q.air = air
  BY <1>2 DEF Run, Beside
<1> QED BY <1>4, <1>5, <1>6

\* The attacker keeps the target of SP-4 back for the hold.
HeldByAttacker(a, r, i) ==
  a = "attack" /\ pair = "SP4" /\ i.what = "frame" /\ i.seq = r.ctl.targetSeq

LateItem(i) == [what |-> "late", seq |-> i.seq, odd |-> i.odd, at |-> now + DelayTarget]
HostileItem(d) == [what |-> "hostile", seq |-> 0, odd |-> FALSE, at |-> now + d]

\* What the attacker makes odd on the way.
OddAtGround(a, r, i) ==
  i.odd \/ (a = "attack" /\ pair \in {"SP1", "SP5"} /\ i.what = "frame" /\ i.seq = r.ctl.targetSeq)

\* An arrival at the attacker, or at the ground.
ArrivalOf(a, r, q, i, d) ==
  /\ q \in Run /\ q.ctl = r.ctl /\ q.gapEnd = r.gapEnd /\ q.outcome = r.outcome
  /\ q.shifted = r.shifted
  /\ HeldByAttacker(a, r, i) => q.ground = r.ground /\ q.air = (r.air \ {i}) \cup {LateItem(i)}
  /\ ~HeldByAttacker(a, r, i) =>
       /\ LastDelivery(r.ground, q.ground, DeliveryOf(i, OddAtGround(a, r, i)))
       /\ \/ q.air = r.air \ {i}
          \/ /\ a = "attack" /\ pair \in {"SP2", "SP3"} /\ i.seq = r.ctl.targetSeq
             /\ q.air = (r.air \ {i}) \cup {HostileItem(d)}

LEMMA GroundExact ==
  ASSUME NEW a, NEW r \in Run, now \in Nat, NEW i \in r.air, i.what = "late", NEW d,
         NEW q, q = Deliver(Landed(r, i), i.seq, i.odd)
  PROVE  ArrivalOf(a, r, q, i, d)
<1> DEFINE p == Landed(r, i)
           odd == i.odd
<1>1. i \in Item /\ odd \in BOOLEAN
  BY DEF Run, Item
<1>2. p = Landed(r, i) /\ q = Deliver(p, i.seq, odd)
  OBVIOUS
<1>3. OddAtGround(a, r, i) = odd /\ ~HeldByAttacker(a, r, i)
  BY <1>1 DEF OddAtGround, HeldByAttacker
<1> HIDE DEF p, odd
<1>4. /\ p \in Run /\ p.air = r.air \ {i} /\ p.ground = r.ground /\ Beside(r, p)
      /\ p.shifted = r.shifted
  BY <1>2, RemoveExact
<1>5. /\ q \in Run /\ q.air = p.air /\ Beside(p, q) /\ q.shifted = p.shifted
      /\ LastDelivery(p.ground, q.ground, DeliveryOf(i, odd))
  BY <1>1, <1>2, <1>4, DeliverExact
<1> QED BY <1>3, <1>4, <1>5 DEF ArrivalOf, Beside

LEMMA AttackerExact ==
  ASSUME Fixed, NEW a \in Arm, NEW r \in Run, now \in Nat, NEW i \in r.air, i.what = "frame",
         NEW d \in Nat, NEW q, q = OnPath(a, Landed(r, i), i, d)
  PROVE  ArrivalOf(a, r, q, i, d)
<1> DEFINE p == Landed(r, i)
           odd == i.odd
           either == OddAtGround(a, r, i)
           seq == i.seq
<1>1. i \in Item /\ odd \in BOOLEAN /\ either \in BOOLEAN /\ seq \in Nat
  BY DEF Run, Item, OddAtGround
<1>2. p = Landed(r, i)
  OBVIOUS
<1> HIDE DEF p
<1>3. /\ p \in Run /\ p.air = r.air \ {i} /\ p.ground = r.ground /\ Beside(r, p)
      /\ p.shifted = r.shifted
  BY <1>2, RemoveExact
<1>4. p.ctl = r.ctl
  BY <1>3 DEF Beside
<1>5. \/ q = Deliver(p, seq, either) /\ ~HeldByAttacker(a, r, i)
      \/ HeldByAttacker(a, r, i) /\ q = Fly(p, "late", seq, odd, now + DelayTarget)
      \/ /\ a = "attack" /\ pair \in {"SP2", "SP3"} /\ seq = r.ctl.targetSeq
         /\ q = Deliver(LinkUp([p EXCEPT !.hostileSent = TRUE], d), seq, odd)
  <2>1. pair \in {"SP1", "SP2", "SP3", "SP4", "SP5"}
    BY DEF Fixed, Pair
  <2>2. q = OnPath(a, p, i, d) /\ a \in {"attack", "fault"}
    BY <1>2 DEF Arm
  <2> QED BY <1>1, <1>4, <2>1, <2>2 DEF OnPath, OddAtGround, HeldByAttacker, IsTarget
<1>6. CASE q = Deliver(p, seq, either) /\ ~HeldByAttacker(a, r, i)
  <2> HIDE DEF either
  <2>1. /\ q \in Run /\ q.air = p.air /\ Beside(p, q) /\ q.shifted = p.shifted
        /\ LastDelivery(p.ground, q.ground, DeliveryOf(i, either))
    BY <1>1, <1>3, <1>6, DeliverExact
  <2> QED BY <1>3, <1>6, <2>1 DEF ArrivalOf, Beside, either
<1>7. CASE HeldByAttacker(a, r, i) /\ q = Fly(p, "late", seq, odd, now + DelayTarget)
  <2> DEFINE at == now + DelayTarget
  <2>1. at \in Int /\ LateItem(i) = [what |-> "late", seq |-> seq, odd |-> odd, at |-> at]
    BY Constants DEF LateItem
  <2>2. q = Fly(p, "late", seq, odd, at)
    BY <1>7
  <2> HIDE DEF at, seq, odd
  <2>3. /\ q \in Run /\ Beside(p, q) /\ q.ground = p.ground /\ q.shifted = p.shifted
        /\ q.air = p.air \cup {LateItem(i)}
    BY <1>1, <1>3, <2>1, <2>2, FlyExact
  <2>4. q.air = (r.air \ {i}) \cup {LateItem(i)}
    BY <1>3, <2>3
  <2> QED BY <1>3, <1>7, <2>3, <2>4 DEF ArrivalOf, Beside
<1>8. CASE /\ a = "attack" /\ pair \in {"SP2", "SP3"} /\ seq = r.ctl.targetSeq
           /\ q = Deliver(LinkUp([p EXCEPT !.hostileSent = TRUE], d), seq, odd)
  <2> DEFINE g == [p EXCEPT !.hostileSent = TRUE]
             h == LinkUp(g, d)
             at == now + d
  <2>1. g \in Run /\ g.air = p.air /\ g.ground = p.ground /\ Beside(p, g) /\ g.shifted = p.shifted
    <3>1. g \in Run
      BY <1>3 DEF Run
    <3>2. g.air = p.air /\ g.ground = p.ground /\ Beside(p, g) /\ g.shifted = p.shifted
      BY <1>3 DEF Run, Beside
    <3> QED BY <3>1, <3>2
  <2>2. h = g \/ h = Fly(g, "hostile", 0, FALSE, at)
    BY DEF LinkUp
  <2>3. q = Deliver(h, i.seq, odd) /\ at \in Int
    BY <1>8
  <2>4. HostileItem(d) = [what |-> "hostile", seq |-> 0, odd |-> FALSE, at |-> at]
    BY DEF HostileItem
  <2> HIDE DEF g, h, at
  <2>5. /\ h \in Run /\ Beside(g, h) /\ h.ground = g.ground /\ h.shifted = g.shifted
        /\ h.air = g.air \/ h.air = g.air \cup {HostileItem(d)}
    <3>1. CASE h = g
      BY <2>1, <3>1 DEF Beside
    <3>2. CASE h = Fly(g, "hostile", 0, FALSE, at)
      <4> DEFINE none == 0
                 quiet == FALSE
      <4>1. none \in Nat /\ quiet \in BOOLEAN /\ h = Fly(g, "hostile", none, quiet, at)
        BY <3>2
      <4>2. HostileItem(d) = [what |-> "hostile", seq |-> none, odd |-> quiet, at |-> at]
        BY <2>4
      <4> HIDE DEF none, quiet
      <4>3. /\ h \in Run /\ Beside(g, h) /\ h.ground = g.ground /\ h.shifted = g.shifted
            /\ h.air = g.air \cup {HostileItem(d)}
        BY <2>1, <2>3, <4>1, <4>2, FlyExact
      <4> QED BY <4>3
    <3> QED BY <2>2, <3>1, <3>2
  <2>6. /\ q \in Run /\ q.air = h.air /\ Beside(h, q) /\ q.shifted = h.shifted
        /\ LastDelivery(h.ground, q.ground, DeliveryOf(i, odd))
    BY <1>1, <2>3, <2>5, DeliverExact
  <2>7. OddAtGround(a, r, i) = odd /\ ~HeldByAttacker(a, r, i)
    BY <1>1, <1>8 DEF OddAtGround, HeldByAttacker
  <2>8. q.ctl = r.ctl /\ q.gapEnd = r.gapEnd /\ q.outcome = r.outcome /\ q.shifted = r.shifted
    BY <1>3, <2>1, <2>5, <2>6 DEF Beside
  <2>9. q.air = r.air \ {i} \/ q.air = (r.air \ {i}) \cup {HostileItem(d)}
    BY <1>3, <2>1, <2>5, <2>6
  <2>10. LastDelivery(r.ground, q.ground, DeliveryOf(i, OddAtGround(a, r, i)))
    BY <1>3, <2>1, <2>5, <2>6, <2>7
  <2> HIDE DEF odd, either
  <2> QED BY <1>8, <2>6, <2>7, <2>8, <2>9, <2>10 DEF ArrivalOf
<1> QED BY <1>5, <1>6, <1>7, <1>8

\* The hostile command at the satellite.
HostileOf(r, q, i) ==
  /\ q \in Run /\ q.air = r.air \ {i} /\ q.ground = r.ground /\ q.gapEnd = r.gapEnd
  /\ q.ctl.targetSeq = r.ctl.targetSeq /\ q.ctl.targetSendTime = r.ctl.targetSendTime
  /\ pair = "SP2" => q.shifted

LEMMA HostileExact ==
  ASSUME Fixed, NEW a \in Arm, NEW r, now \in Nat, sent \in Nat, ArmInv(a, r, now, sent),
         Going(r), NEW i \in r.air, i.at <= now, i.what = "hostile",
         NEW q, q = AcceptHostile(Landed(r, i))
  PROVE  HostileOf(r, q, i)
<1> DEFINE p == Landed(r, i)
           u == Shift(p)
           c == RecordIntervention(u.ctl, "attack", now)
<1>1. r \in Run /\ p = Landed(r, i)
  BY DEF ArmInv
<1>2. ArmInv(a, q, now, sent) /\ SameClock(r.ctl, q.ctl)
  BY HostileKeeps
<1>3. (q = p /\ pair # "SP2") \/ q = [u EXCEPT !.ctl = c]
  BY DEF AcceptHostile, CommandAuth, WithRow
<1> HIDE DEF p
<1>4. p \in Run /\ p.air = r.air \ {i} /\ p.ground = r.ground /\ p.gapEnd = r.gapEnd
  BY <1>1, RemoveExact DEF Beside
<1>5. /\ u \in Run /\ u.shifted /\ u.air = p.air /\ u.ground = p.ground /\ u.gapEnd = p.gapEnd
  BY <1>4, ShiftEffect DEF SameOutside
<1> HIDE DEF u, c
<1>6. /\ q.air = p.air /\ q.ground = p.ground /\ q.gapEnd = p.gapEnd
      /\ pair = "SP2" => q.shifted
  BY <1>3, <1>5 DEF Run
<1> QED BY <1>2, <1>4, <1>6 DEF HostileOf, ArmInv, SameClock

-----------------------------------------------------------------------------
(* The times of one arm                                                    *)

LEMMA ItemTyped ==
  ASSUME NEW r \in Run
  PROVE  /\ r.ctl \in Controller /\ r.ctl.targetSeq \in Int
         /\ \A i \in r.air : i \in Item /\ i.seq \in Nat /\ i.at \in Int /\ i.odd \in BOOLEAN
                             /\ i.what \in {"frame", "late", "hostile"}
         /\ \A k \in DOMAIN r.ground : /\ r.ground[k].seq \in Int /\ r.ground[k].at \in Int
                                       /\ r.ground[k].odd \in BOOLEAN
<1>1. r.ctl \in Controller /\ r.air \subseteq Item /\ r.ground \in Seq(Delivery)
  BY DEF Run
<1>2. r.ctl.targetSeq \in Int
  BY <1>1 DEF Controller
<1>3. ASSUME NEW k \in DOMAIN r.ground
      PROVE  r.ground[k].seq \in Int /\ r.ground[k].at \in Int /\ r.ground[k].odd \in BOOLEAN
  <2>1. r.ground[k] \in Delivery
    BY <1>1
  <2> QED BY <2>1 DEF Delivery
<1> QED BY <1>1, <1>2, <1>3 DEF Item

LEMMA TimedTick ==
  ASSUME Fixed, NEW a \in Arm, NEW r \in Run, now \in Nat, NEW n \in Nat, NEW s \in Nat, s = n + 1,
         now = Interval * s, NEW k, NEW q, TickOf(a, r, k, q, s, TransitOf(s)), TimedArm(a, r, n)
  PROVE  TimedArm(a, q, s)
<1> DEFINE t == r.ctl.targetSeq
           u == q.ctl.targetSeq
           d == TransitOf(s)
           x == FrameItem(FrameOf(a, r, k, s), now + d)
           y == FrameItem(FrameOf(a, r, k, s), now + d + DelayTarget)
<1>1. /\ q.ground = r.ground /\ u = k.ctl.targetSeq
      /\ q.ctl.targetSendTime = k.ctl.targetSendTime
      /\ \/ t < 0 /\ u < 0
         \/ k = r /\ u = t /\ 1 <= t /\ t < s
         \/ t < 0 /\ u = s /\ k.ctl.targetSendTime = now
  BY DEF TickOf, Offered
<1>2. \/ q.air = r.air
      \/ ~HeldBack(a, k, s) /\ q.air = r.air \cup {x}
      \/ HeldBack(a, k, s) /\ q.air = r.air \cup {y}
  BY DEF TickOf
<1>3. /\ t >= 0 => r.ctl.targetSendTime = Interval * t
      /\ \A i \in r.air : TimedItem(a, t, i, n)
      /\ \A j \in DOMAIN r.ground : TimedDelivery(t, r.ground[j], n)
  BY DEF TimedArm
<1>4. t \in Int /\ \A i \in r.air : i.seq \in Nat
  BY ItemTyped
<1>5. HeldBack(a, k, s) <=> a = "fault" /\ pair = "SP4" /\ u = s
  BY <1>1 DEF HeldBack
<1>6. /\ x.what = "frame" /\ x.seq = s /\ x.at = Transited(s)
      /\ y.what = "frame" /\ y.seq = s /\ y.at = Transited(s) + DelayTarget
  BY DEF FrameItem, FrameOf, Transited
<1> HIDE DEF d, x, y
<1>7. u >= 0 => q.ctl.targetSendTime = Interval * u
  <2>1. u \in Int
    BY ItemTyped DEF TickOf
  <2> QED BY <1>1, <1>3, <1>4, <2>1
<1> HIDE DEF t, u
<1>8. ASSUME NEW seq \in Int, 1 <= seq, seq <= n
      PROVE  (seq = t <=> seq = u) /\ GroundTime(t, seq) = GroundTime(u, seq) /\ seq <= s
  <2>1. seq = t <=> seq = u
    BY <1>1, <1>4, <1>8
  <2> QED BY <1>8, <2>1 DEF GroundTime
<1>9. ASSUME NEW i \in r.air
      PROVE  TimedItem(a, u, i, s)
  <2>1. TimedItem(a, t, i, n) /\ i.seq \in Int
    BY <1>3, <1>4
  <2> QED BY <1>8, <2>1 DEF TimedItem
<1>10. q.air = r.air \cup {x} /\ ~HeldBack(a, k, s) => TimedItem(a, u, x, s)
  BY <1>5, <1>6 DEF TimedItem, GroundTime, Arm
<1>11. q.air = r.air \cup {y} /\ HeldBack(a, k, s) => TimedItem(a, u, y, s)
  BY <1>5, <1>6 DEF TimedItem, GroundTime
<1>12. \A i \in q.air : TimedItem(a, u, i, s)
  BY <1>2, <1>9, <1>10, <1>11
<1>13. \A j \in DOMAIN q.ground : TimedDelivery(u, q.ground[j], s)
  <2>1. ASSUME NEW j \in DOMAIN r.ground PROVE TimedDelivery(u, r.ground[j], s)
    <3>1. TimedDelivery(t, r.ground[j], n) /\ r.ground[j].seq \in Int
      BY <1>3, ItemTyped
    <3> QED BY <1>8, <3>1 DEF TimedDelivery
  <2> QED BY <1>1, <2>1
<1> QED BY <1>7, <1>12, <1>13 DEF TimedArm, u

\* An item lands at the instant that its number gives.
LEMMA LandsOnTime ==
  ASSUME NEW a, NEW r, now \in Nat, NEW n, ArmInv(a, r, now, n), ~r.ctl.thrown,
         NEW i \in r.air, i.at <= now
  PROVE  i.at = now
<1>1. r \in Run /\ now <= i.at
  BY DEF ArmInv, InTheAir
<1>2. i.at \in Int
  BY <1>1, ItemTyped
<1> QED BY <1>1, <1>2

LEMMA TimedArrival ==
  ASSUME Fixed, NEW a \in Arm, NEW r \in Run, now \in Nat, NEW n \in Nat,
         NEW i \in r.air, i.at = now, i.what # "hostile", NEW d, NEW q, ArrivalOf(a, r, q, i, d),
         TimedArm(a, r, n)
  PROVE  TimedArm(a, q, n)
<1> DEFINE t == r.ctl.targetSeq
           m == DeliveryOf(i, OddAtGround(a, r, i))
<1>1. q.ctl = r.ctl
  BY DEF ArrivalOf
<1>2. /\ t >= 0 => r.ctl.targetSendTime = Interval * t
      /\ \A j \in r.air : TimedItem(a, t, j, n)
      /\ \A j \in DOMAIN r.ground : TimedDelivery(t, r.ground[j], n)
  BY DEF TimedArm
<1>3. /\ 1 <= i.seq /\ i.seq <= n
      /\ now = IF a = "attack" /\ i.what = "frame" THEN Transited(i.seq) ELSE GroundTime(t, i.seq)
      /\ i.what = "late" => a = "attack" /\ pair = "SP4" /\ i.seq = t
  BY <1>2 DEF TimedItem
<1>4. i.what \in {"frame", "late"} /\ a \in {"attack", "fault"}
  BY ItemTyped DEF Arm
<1>5. HeldByAttacker(a, r, i) => TimedItem(a, t, LateItem(i), n)
  BY <1>3 DEF HeldByAttacker, TimedItem, LateItem, GroundTime
<1>6. a = "attack" /\ pair \in {"SP2", "SP3"} => TimedItem(a, t, HostileItem(d), n)
  BY DEF TimedItem, HostileItem
<1>7. ~HeldByAttacker(a, r, i) => TimedDelivery(t, m, n)
  BY <1>3, <1>4 DEF HeldByAttacker, TimedDelivery, DeliveryOf, GroundTime
<1> HIDE DEF m
<1>8. \A j \in q.air : TimedItem(a, t, j, n)
  BY <1>2, <1>5, <1>6 DEF ArrivalOf
<1>9. \A j \in DOMAIN q.ground : TimedDelivery(t, q.ground[j], n)
  <2>1. CASE HeldByAttacker(a, r, i)
    BY <1>2, <2>1 DEF ArrivalOf
  <2>2. CASE ~HeldByAttacker(a, r, i)
    <3>1. LastDelivery(r.ground, q.ground, m)
      BY <2>2 DEF ArrivalOf, m
    <3> QED BY <1>2, <1>7, <2>2, <3>1 DEF LastDelivery
  <2> QED BY <2>1, <2>2
<1> QED BY <1>1, <1>2, <1>8, <1>9 DEF TimedArm

LEMMA TimedHostile ==
  ASSUME NEW a, NEW r, NEW n, NEW i, NEW q, HostileOf(r, q, i), TimedArm(a, r, n)
  PROVE  TimedArm(a, q, n)
BY DEF TimedArm, HostileOf

-----------------------------------------------------------------------------
(* The target of a contact's last instant                                  *)

LEMMA DroppedTick ==
  ASSUME NEW a, NEW r \in Run, NEW n \in Nat, NEW s \in Nat, s = n + 1, NEW d, NEW k, NEW q,
         TickOf(a, r, k, q, s, d), TimedArm(a, r, n), DroppedArm(r)
  PROVE  DroppedArm(q)
<1> DEFINE t == r.ctl.targetSeq
           u == q.ctl.targetSeq
           f == FrameOf(a, r, k, s)
<1>1. SUFFICES ASSUME u >= 0, ~InView(q.ctl.targetSendTime) PROVE Absent(q, u)
  BY DEF DroppedArm
<1>2. /\ q.ground = r.ground
      /\ \/ t < 0 /\ u < 0
         \/ u = t /\ 1 <= t /\ t < s /\ q.ctl.targetSendTime = r.ctl.targetSendTime
         \/ u = s /\ q.ctl.targetSendTime = now
  BY DEF TickOf, Offered
<1>3. /\ \A i \in r.air : i.what # "hostile" => i.seq <= n
      /\ \A j \in DOMAIN r.ground : r.ground[j].seq <= n
  BY DEF TimedArm, TimedItem, TimedDelivery
<1>4. /\ t \in Int /\ u \in Int /\ (\A i \in r.air : i.seq \in Nat)
      /\ \A j \in DOMAIN r.ground : r.ground[j].seq \in Int
  BY ItemTyped DEF TickOf
<1>5. \A i \in q.air : i \in r.air \/ (i.seq = s /\ ~Lost(a, r))
  BY DEF TickOf, FrameItem, FrameOf
<1> HIDE DEF t, u
<1>6. CASE u = t /\ 1 <= t /\ t < s /\ q.ctl.targetSendTime = r.ctl.targetSendTime
  <2>1. Absent(r, t)
    BY <1>1, <1>4, <1>6 DEF DroppedArm, t
  <2> QED BY <1>2, <1>4, <1>5, <1>6, <2>1 DEF Absent
<1>7. CASE u = s /\ q.ctl.targetSendTime = now
  <2>1. Lost(a, r)
    BY <1>1, <1>7 DEF Lost, Linked
  <2> QED BY <1>2, <1>3, <1>4, <1>5, <1>7, <2>1 DEF Absent
<1> QED BY <1>1, <1>2, <1>4, <1>6, <1>7

LEMMA DroppedArrival ==
  ASSUME NEW a, NEW r \in Run, NEW i \in r.air, i.what # "hostile", NEW d, NEW q,
         ArrivalOf(a, r, q, i, d), DroppedArm(r)
  PROVE  DroppedArm(q)
<1> DEFINE t == r.ctl.targetSeq
           m == DeliveryOf(i, OddAtGround(a, r, i))
<1>1. SUFFICES ASSUME t >= 0, ~InView(r.ctl.targetSendTime) PROVE Absent(q, t)
  BY DEF DroppedArm, ArrivalOf
<1>2. Absent(r, t) /\ i.seq # t
  BY <1>1 DEF DroppedArm, Absent
<1>3. /\ LastDelivery(r.ground, q.ground, m) /\ m.seq = i.seq
      /\ \A j \in q.air : j \in r.air \/ j.what = "hostile"
  BY <1>2 DEF ArrivalOf, HeldByAttacker, DeliveryOf, HostileItem
<1> HIDE DEF m, t
<1>4. ASSUME NEW j \in DOMAIN q.ground PROVE q.ground[j].seq # t
  BY <1>2, <1>3 DEF Absent, LastDelivery
<1> QED BY <1>2, <1>3, <1>4 DEF Absent

LEMMA DroppedHostile ==
  ASSUME NEW r, NEW q, NEW i, HostileOf(r, q, i), DroppedArm(r)
  PROVE  DroppedArm(q)
BY DEF HostileOf, DroppedArm, Absent

-----------------------------------------------------------------------------
(* The outage of SP-4                                                      *)

LEMMA HeldTick ==
  ASSUME Fixed, pair = "SP4", NEW r \in Run, now \in Nat, NEW n \in Nat, NEW s \in Nat, s = n + 1,
         now = Interval * s, NEW d, NEW k, NEW q, TickOf("fault", r, k, q, s, d),
         r.gapEnd >= 0 => r.ctl.targetSeq >= 0, TimedArm("fault", r, n), HeldArm(r),
         InView(q.ctl.targetSendTime)
  PROVE  HeldArm(q)
<1> DEFINE t == r.ctl.targetSeq
           u == q.ctl.targetSeq
           x == FrameItem(FrameOf("fault", r, k, s), now + d)
           y == FrameItem(FrameOf("fault", r, k, s), now + d + DelayTarget)
<1>1. /\ q.ground = r.ground /\ u = k.ctl.targetSeq /\ (r.ctl.thrown => q.ctl.thrown)
      /\ \/ t < 0 /\ u < 0
         \/ u = t /\ 1 <= t /\ t < s /\ q.ctl.targetSendTime = r.ctl.targetSendTime
         \/ t < 0 /\ u = s /\ Linked(now)
  BY DEF TickOf, Offered, Linked
<1>2. /\ q.ctl.thrown \/ Lost("fault", r) => q.air = r.air /\ q.gapEnd = r.gapEnd
      /\ ~q.ctl.thrown /\ ~Lost("fault", r) /\ u # s =>
           q.gapEnd = r.gapEnd /\ q.air = r.air \cup {x}
      /\ ~q.ctl.thrown /\ ~Lost("fault", r) /\ u = s =>
           q.gapEnd = now + DelayTarget /\ q.air = r.air \cup {y}
  BY <1>1 DEF TickOf, HeldBack
<1>3. /\ \A i \in r.air : i.what # "hostile" => i.seq <= n
      /\ \A i \in r.air : i.what # "hostile"
      /\ \A j \in DOMAIN r.ground : r.ground[j].seq <= n
  BY DEF TimedArm, TimedItem, TimedDelivery
<1>4. /\ t \in Int /\ u \in Int /\ (\A i \in r.air : i.seq \in Nat)
      /\ \A j \in DOMAIN r.ground : r.ground[j].seq \in Int
  BY ItemTyped DEF TickOf
<1>5. r.gapEnd \in Int
  BY DEF Run
<1>6. x.seq = s /\ y.seq = s
  BY DEF FrameItem, FrameOf
<1>7. t >= 0 /\ InView(r.ctl.targetSendTime) =>
        /\ ~r.ctl.thrown => r.gapEnd = Interval * t + DelayTarget
        /\ \A i \in r.air : i.seq > t => Interval * i.seq > Interval * t + DelayTarget
        /\ \A j \in DOMAIN r.ground : r.ground[j].seq > t =>
             \E l \in DOMAIN r.ground : l < j /\ r.ground[l].seq = t
  BY DEF HeldArm
<1>8. Lost("fault", r) <=> ~Linked(now) \/ (r.gapEnd >= 0 /\ now <= r.gapEnd)
  BY DEF Lost, GapOpen
<1> HIDE DEF x, y, t, u
<1>9. CASE u < 0
  BY <1>4, <1>9 DEF HeldArm, u
<1>10. CASE u = t /\ 1 <= t /\ t < s /\ q.ctl.targetSendTime = r.ctl.targetSendTime
  <2>1. t >= 0 /\ u # s /\ InView(r.ctl.targetSendTime)
    BY <1>4, <1>10
  <2>2. ~q.ctl.thrown => q.gapEnd = Interval * u + DelayTarget
    BY <1>1, <1>2, <1>7, <1>10, <2>1
  <2>3. ASSUME NEW i \in q.air, i.seq > u PROVE Interval * i.seq > Interval * u + DelayTarget
    <3>1. CASE i \in r.air
      BY <1>7, <1>10, <2>1, <2>3, <3>1
    <3>2. CASE i \notin r.air
      <4>1. i = x /\ ~q.ctl.thrown /\ ~Lost("fault", r)
        BY <1>2, <2>1, <3>2
      <4>2. r.gapEnd = Interval * t + DelayTarget /\ ~(r.gapEnd >= 0 /\ now <= r.gapEnd)
        BY <1>1, <1>7, <1>8, <2>1, <4>1
      <4>3. Interval * t + DelayTarget >= 0
        BY <1>4, <2>1, Constants
      <4>4. ~(now <= Interval * t + DelayTarget)
        BY <4>2, <4>3
      <4> QED BY <1>4, <1>5, <1>6, <1>10, <4>1, <4>2, <4>4
    <3> QED BY <3>1, <3>2
  <2> QED BY <1>1, <1>7, <1>10, <2>1, <2>2, <2>3 DEF HeldArm, u
<1>11. CASE t < 0 /\ u = s /\ Linked(now)
  <2>1. ~(r.gapEnd >= 0)
    BY <1>4, <1>11 DEF t
  <2>2. ~Lost("fault", r)
    BY <1>8, <1>11, <2>1
  <2>3. ~q.ctl.thrown => q.gapEnd = Interval * u + DelayTarget
    BY <1>2, <1>11, <2>2
  <2>4. \A i \in q.air : ~(i.seq > u)
    BY <1>2, <1>3, <1>4, <1>6, <1>11
  <2>5. \A j \in DOMAIN q.ground : ~(q.ground[j].seq > u)
    BY <1>1, <1>3, <1>4, <1>11
  <2> QED BY <2>3, <2>4, <2>5 DEF HeldArm, u
<1> QED BY <1>1, <1>9, <1>10, <1>11

\* Whatever arrives from after the target finds the target at the ground.
LEMMA TargetCameFirst ==
  ASSUME HoldEnds, Fixed, pair = "SP4", NEW r, now \in Nat, NEW n \in Nat,
         ArmInv("fault", r, now, n), ~r.ctl.thrown, r.ctl.targetSeq >= 0,
         InView(r.ctl.targetSendTime), TimedArm("fault", r, n), HeldArm(r),
         NEW i \in r.air, i.at = now, i.seq > r.ctl.targetSeq
  PROVE  \E l \in DOMAIN r.ground : r.ground[l].seq = r.ctl.targetSeq
<1> DEFINE t == r.ctl.targetSeq
<1>1. r \in Run /\ InTheAir("fault", r, now, n) /\ Reaching(r)
  BY DEF ArmInv
<1>2. t \in Nat /\ i.seq \in Nat /\ \A x \in r.air : x.at \in Int
  BY <1>1, ItemTyped
<1>3. \A x \in r.air : x.what # "hostile" /\ x.at = GroundTime(t, x.seq)
  BY DEF TimedArm, TimedItem
<1>4. Interval * i.seq > Interval * t + DelayTarget
  BY DEF HeldArm
<1>5. SUFFICES ASSUME NEW x \in r.air, x.seq = t PROVE FALSE
  BY <1>1 DEF Reaching
<1>6. now <= x.at
  BY <1>1 DEF InTheAir
<1>7. now = Transited(i.seq) /\ x.at = Transited(t) + DelayTarget
  BY <1>2, <1>3, <1>5 DEF GroundTime
<1> HIDE DEF t
<1>8. TransitOf(i.seq) \in Transits /\ TransitOf(t) \in Transits
  BY <1>2, TransitTyped
<1> DEFINE d == TransitOf(t)
           e == TransitOf(i.seq)
<1>9. Transited(i.seq) = Interval * i.seq + e /\ Transited(t) = Interval * t + d
  BY DEF Transited
<1>10. d \in Nat /\ e \in Nat /\ d \in Transits /\ e \in Transits
  BY <1>8, Constants
<1> HIDE DEF d, e
<1>11. Interval * i.seq + e > Interval * t + d + DelayTarget
  BY <1>2, <1>4, <1>10, AfterHold
<1>12. Interval * i.seq \in Int /\ Interval * t \in Int /\ DelayTarget \in Int
  BY <1>2, Constants
<1> QED BY <1>6, <1>7, <1>9, <1>10, <1>11, <1>12

LEMMA HeldArrival ==
  ASSUME HoldEnds, Fixed, pair = "SP4", NEW r, now \in Nat, NEW n \in Nat,
         ArmInv("fault", r, now, n), ~r.ctl.thrown, TimedArm("fault", r, n), HeldArm(r),
         NEW i \in r.air, i.at = now, NEW d, NEW q, ArrivalOf("fault", r, q, i, d)
  PROVE  HeldArm(q)
<1> DEFINE t == r.ctl.targetSeq
           m == DeliveryOf(i, OddAtGround("fault", r, i))
<1>1. /\ q.ctl = r.ctl /\ q.gapEnd = r.gapEnd /\ q.air = r.air \ {i}
      /\ LastDelivery(r.ground, q.ground, m)
  BY DEF ArrivalOf, HeldByAttacker
<1>2. m.seq = i.seq
  BY DEF DeliveryOf
<1> HIDE DEF m
<1>3. SUFFICES ASSUME t >= 0, InView(r.ctl.targetSendTime) PROVE HeldArm(q)
  BY <1>1 DEF HeldArm
<1>4. /\ r.gapEnd = Interval * t + DelayTarget
      /\ \A j \in r.air : j.seq > t => Interval * j.seq > Interval * t + DelayTarget
      /\ \A j \in DOMAIN r.ground : r.ground[j].seq > t =>
           \E l \in DOMAIN r.ground : l < j /\ r.ground[l].seq = t
  BY <1>3 DEF HeldArm
<1>5. i.seq > t => \E l \in DOMAIN r.ground : r.ground[l].seq = t
  BY <1>3, TargetCameFirst
<1>6. ASSUME NEW j \in DOMAIN q.ground, q.ground[j].seq > t
      PROVE  \E l \in DOMAIN q.ground : l < j /\ q.ground[l].seq = t
  <2>1. CASE j \in DOMAIN r.ground
    <3>1. PICK l \in DOMAIN r.ground : l < j /\ r.ground[l].seq = t
      BY <1>1, <1>4, <1>6, <2>1 DEF LastDelivery
    <3>2. l \in DOMAIN q.ground /\ q.ground[l] = r.ground[l]
      BY <1>1 DEF LastDelivery
    <3> QED BY <3>1, <3>2
  <2>2. CASE j \notin DOMAIN r.ground
    <3>1. j = Len(r.ground) + 1 /\ q.ground[j] = m
      BY <1>1, <2>2 DEF LastDelivery
    <3>2. PICK l \in DOMAIN r.ground : r.ground[l].seq = t
      BY <1>2, <1>5, <1>6, <3>1
    <3>3. l \in DOMAIN q.ground /\ q.ground[l] = r.ground[l] /\ l < j
      BY <1>1, <3>1 DEF LastDelivery
    <3> QED BY <3>2, <3>3
  <2> QED BY <2>1, <2>2
<1> QED BY <1>1, <1>4, <1>6 DEF HeldArm

-----------------------------------------------------------------------------
(* The odd observations of SP-1 and SP-5                                   *)

LEMMA OddTick ==
  ASSUME Fixed, pair \in {"SP1", "SP5"}, NEW a \in Arm, NEW r \in Run, NEW n \in Nat,
         NEW s \in Nat, s = n + 1, NEW d, NEW k, NEW q, TickOf(a, r, k, q, s, d),
         TimedArm(a, r, n), OddArm(a, r)
  PROVE  OddArm(a, q)
<1> DEFINE t == r.ctl.targetSeq
           u == q.ctl.targetSeq
           f == FrameOf(a, r, k, s)
           x == FrameItem(f, now + d)
           alone == a = "attack" \/ pair = "SP1"
<1>1. /\ q.ground = r.ground /\ q.shifted = k.shifted /\ u = k.ctl.targetSeq
      /\ k.ctl.thrown => q.ctl.thrown
      /\ \/ t < 0 /\ u < 0 /\ k.shifted = r.shifted
         \/ k = r /\ u = t /\ 1 <= t /\ t < s
         \/ t < 0 /\ u = s /\ Shifting(a, r, k)
  BY DEF TickOf, Offered
<1>2. q.air = r.air \/ (~q.ctl.thrown /\ q.air = r.air \cup {x})
  BY DEF TickOf, HeldBack
<1>3. /\ \A i \in r.air : i.seq <= n
      /\ \A j \in DOMAIN r.ground : r.ground[j].seq <= n
  BY DEF TimedArm, TimedItem, TimedDelivery
<1>4. /\ t \in Int /\ u \in Int /\ (\A i \in r.air : i.seq \in Nat /\ i.odd \in BOOLEAN)
      /\ \A j \in DOMAIN r.ground : r.ground[j].seq \in Int /\ r.ground[j].odd \in BOOLEAN
  BY ItemTyped DEF TickOf
<1>5. /\ \A i \in r.air : i.odd => t >= 0 /\ t <= i.seq
      /\ \A j \in DOMAIN r.ground : r.ground[j].odd => t >= 0 /\ t <= r.ground[j].seq
      /\ r.shifted => a = "fault" /\ pair = "SP5" /\ t >= 0
      /\ t >= 0 =>
           /\ a = "fault" => (pair = "SP5" /\ ~r.ctl.thrown => r.shifted)
                             /\ \A i \in r.air : i.seq = t => i.odd
           /\ \A j \in DOMAIN r.ground : r.ground[j].seq = t => r.ground[j].odd
      /\ alone => /\ \A i \in r.air : i.odd => i.seq = t
                  /\ \A j \in DOMAIN r.ground : r.ground[j].odd => r.ground[j].seq = t
  BY DEF OddArm, Shows, OnlyTarget
<1>6. /\ x.seq = s /\ x.odd = FrameOdd(a, r, k, s)
      /\ pair = "SP1" => FrameOdd(a, r, k, s) = (a = "fault" /\ u = s)
      /\ pair = "SP5" => FrameOdd(a, r, k, s) = k.shifted
  BY <1>1 DEF FrameItem, FrameOf, FrameOdd, IsTarget
<1>7. r.shifted \in BOOLEAN /\ k.shifted \in BOOLEAN
  BY DEF TickOf, Offered, Run
<1> HIDE DEF t, u, f, x, alone
<1>8. CASE t < 0 /\ u < 0 /\ k.shifted = r.shifted
  <2>1. ~(t >= 0) /\ ~(u >= 0) /\ u # s
    BY <1>4, <1>8
  <2>2. ~q.shifted /\ ~x.odd
    BY <1>1, <1>5, <1>6, <1>8, <2>1
  <2>3. \A i \in q.air : ~i.odd
    BY <1>2, <1>5, <2>1, <2>2
  <2>4. \A j \in DOMAIN q.ground : ~q.ground[j].odd
    BY <1>1, <1>5, <2>1
  <2> QED BY <2>1, <2>2, <2>3, <2>4 DEF OddArm, Shows, OnlyTarget, u
<1>9. CASE k = r /\ u = t /\ 1 <= t /\ t < s
  <2>1. t >= 0 /\ u # s /\ t <= s /\ s # u
    BY <1>4, <1>9
  <2>2. x.odd => r.shifted
    BY <1>6, <1>9, <2>1
  <2>3. \A i \in q.air : (i.odd => t >= 0 /\ t <= i.seq) /\ (a = "fault" /\ i.seq = t => i.odd)
    BY <1>2, <1>5, <1>6, <1>9, <2>1
  <2>4. alone => ~x.odd
    BY <1>5, <1>6, <1>9, <2>1 DEF alone
  <2>5. alone => \A i \in q.air : i.odd => i.seq = u
    BY <1>2, <1>5, <1>9, <2>4
  <2>6. /\ \A i \in q.air : Shows(u, i) /\ OnlyTarget(a, u, i)
        /\ \A j \in DOMAIN q.ground : Shows(u, q.ground[j]) /\ OnlyTarget(a, u, q.ground[j])
    BY <1>1, <1>5, <1>9, <2>3, <2>5 DEF Shows, OnlyTarget, alone
  <2> QED BY <1>1, <1>5, <1>9, <2>1, <2>3, <2>6 DEF OddArm, u
<1>10. CASE t < 0 /\ u = s /\ Shifting(a, r, k)
  <2>1. ~(t >= 0) /\ u >= 0
    BY <1>4, <1>10
  <2>2. ~r.shifted
    BY <1>5, <2>1
  <2>3. /\ k.shifted => a = "fault" /\ pair = "SP5"
        /\ pair = "SP5" /\ a = "fault" => k.shifted \/ q.ctl.thrown
    BY <1>1, <1>7, <1>10, <2>2 DEF Shifting
  <2>4. \A i \in q.air : (i.odd => i.seq = u) /\ (a = "fault" /\ i.seq = u => i.odd)
    <3>1. ASSUME NEW i \in r.air PROVE ~i.odd /\ i.seq # u
      BY <1>3, <1>4, <1>5, <1>10, <2>1
    <3>2. ~q.ctl.thrown /\ a = "fault" => x.odd
      BY <1>6, <1>10, <2>3
    <3> QED BY <1>2, <1>4, <1>6, <1>10, <3>1, <3>2
  <2>5. \A j \in DOMAIN q.ground : ~q.ground[j].odd /\ q.ground[j].seq # u
    BY <1>1, <1>3, <1>4, <1>5, <1>10, <2>1
  <2>6. /\ \A i \in q.air : Shows(u, i) /\ OnlyTarget(a, u, i)
        /\ \A j \in DOMAIN q.ground : Shows(u, q.ground[j]) /\ OnlyTarget(a, u, q.ground[j])
    BY <1>4, <2>1, <2>4, <2>5 DEF Shows, OnlyTarget
  <2> QED BY <1>1, <2>1, <2>3, <2>4, <2>5, <2>6 DEF OddArm, u
<1> QED BY <1>1, <1>8, <1>9, <1>10

LEMMA OddArrival ==
  ASSUME Fixed, pair \in {"SP1", "SP5"}, NEW a \in Arm, NEW r \in Run, NEW n \in Nat,
         NEW i \in r.air, NEW d, NEW q, ArrivalOf(a, r, q, i, d),
         TimedArm(a, r, n), OddArm(a, r)
  PROVE  OddArm(a, q)
<1> DEFINE t == r.ctl.targetSeq
           m == DeliveryOf(i, OddAtGround(a, r, i))
           alone == a = "attack" \/ pair = "SP1"
<1>1. /\ q.ctl = r.ctl /\ q.shifted = r.shifted /\ q.air = r.air \ {i}
      /\ LastDelivery(r.ground, q.ground, m)
  BY DEF ArrivalOf, HeldByAttacker
<1>2. /\ \A j \in r.air : j.odd => t >= 0 /\ t <= j.seq
      /\ \A j \in DOMAIN r.ground : r.ground[j].odd => t >= 0 /\ t <= r.ground[j].seq
      /\ r.shifted => a = "fault" /\ pair = "SP5" /\ t >= 0
      /\ t >= 0 =>
           /\ a = "fault" => (pair = "SP5" /\ ~r.ctl.thrown => r.shifted)
                             /\ \A j \in r.air : j.seq = t => j.odd
           /\ \A j \in DOMAIN r.ground : r.ground[j].seq = t => r.ground[j].odd
      /\ alone => /\ \A j \in r.air : j.odd => j.seq = t
                  /\ \A j \in DOMAIN r.ground : r.ground[j].odd => r.ground[j].seq = t
  BY DEF OddArm, Shows, OnlyTarget
<1>3. i.what = "frame"
  <2>1. i.what \in {"frame", "late", "hostile"}
    BY ItemTyped
  <2> QED BY <2>1 DEF TimedArm, TimedItem
<1>4. i.seq \in Nat /\ i.odd \in BOOLEAN /\ t \in Int /\ a \in {"attack", "fault"}
  BY ItemTyped DEF Arm
<1>5. m.seq = i.seq /\ (m.odd <=> i.odd \/ (a = "attack" /\ i.seq = t))
  BY <1>3 DEF DeliveryOf, OddAtGround
<1>6. (i.odd => t >= 0 /\ t <= i.seq) /\ (t >= 0 /\ a = "fault" /\ i.seq = t => i.odd)
  BY <1>2
<1>7. /\ (m.odd => t >= 0 /\ t <= m.seq) /\ (t >= 0 /\ m.seq = t => m.odd)
      /\ alone /\ m.odd => m.seq = t
  <2> HIDE DEF m, t, alone
  <2>1. i.seq = t => t >= 0
    BY <1>4
  <2> QED BY <1>2, <1>4, <1>5, <1>6, <2>1
<1> HIDE DEF m, t, alone
<1>8. \A j \in DOMAIN q.ground :
        /\ q.ground[j].odd => t >= 0 /\ t <= q.ground[j].seq
        /\ t >= 0 /\ q.ground[j].seq = t => q.ground[j].odd
        /\ alone /\ q.ground[j].odd => q.ground[j].seq = t
  BY <1>1, <1>2, <1>7 DEF LastDelivery
<1>9. /\ \A j \in q.air : Shows(t, j) /\ OnlyTarget(a, t, j)
      /\ \A j \in DOMAIN q.ground : Shows(t, q.ground[j]) /\ OnlyTarget(a, t, q.ground[j])
  BY <1>1, <1>2, <1>8 DEF Shows, OnlyTarget, alone
<1> QED BY <1>1, <1>2, <1>8, <1>9 DEF OddArm, t

-----------------------------------------------------------------------------
(* The odd observations of SP-2                                            *)

LEMMA EclipseTick ==
  ASSUME Fixed, pair = "SP2", NEW a \in Arm, NEW r \in Run, NEW n \in Nat, NEW s \in Nat, s = n + 1,
         NEW d, NEW k, NEW q, TickOf(a, r, k, q, s, d),
         \A i \in r.air : i.what = "hostile" => r.ctl.targetSeq >= 0,
         TimedArm(a, r, n), EclipseArm(a, r)
  PROVE  EclipseArm(a, q)
<1> DEFINE t == r.ctl.targetSeq
           u == q.ctl.targetSeq
           f == FrameOf(a, r, k, s)
           x == FrameItem(f, now + d)
<1>1. /\ q.ground = r.ground /\ q.shifted = k.shifted /\ u = k.ctl.targetSeq
      /\ a \in Caused(q.ctl) => a \in Caused(k.ctl)
      /\ \/ t < 0 /\ u < 0 /\ k.shifted = r.shifted /\ Waiting(k.ctl)
         \/ k = r /\ u = t /\ 1 <= t /\ t < s
         \/ t < 0 /\ u = s /\ Shifting(a, r, k)
  BY DEF TickOf, Offered
<1>2. q.air = r.air \/ q.air = r.air \cup {x}
  BY DEF TickOf, HeldBack
<1>3. /\ \A i \in r.air : i.what = "frame" => i.seq <= n
      /\ \A j \in DOMAIN r.ground : r.ground[j].seq <= n
  BY DEF TimedArm, TimedItem, TimedDelivery
<1>4. /\ t \in Int /\ u \in Int /\ (\A i \in r.air : i.seq \in Nat /\ i.odd \in BOOLEAN)
      /\ \A j \in DOMAIN r.ground : r.ground[j].seq \in Int /\ r.ground[j].odd \in BOOLEAN
  BY ItemTyped DEF TickOf
<1>5. /\ r.shifted \/ a \in Caused(r.ctl) => t >= 0 /\ r.shifted
      /\ \A i \in r.air :
           /\ i.odd => r.shifted /\ t < i.seq
           /\ i.what = "frame" /\ r.shifted /\ t < i.seq => i.odd
           /\ i.what = "hostile" => i.at < Interval * (t + 1)
      /\ \A j \in DOMAIN r.ground : r.ground[j].odd <=> r.shifted /\ t < r.ground[j].seq
  BY DEF EclipseArm
<1>6. x.seq = s /\ x.odd = r.shifted /\ x.what = "frame"
  BY DEF FrameItem, FrameOf, FrameOdd
<1>7. \A i \in r.air : i.what = "hostile" => t >= 0
  OBVIOUS
<1> HIDE DEF t, u, f, x
<1>8. CASE t < 0 /\ u < 0 /\ k.shifted = r.shifted /\ Waiting(k.ctl)
  <2>1. ~(t >= 0)
    BY <1>4, <1>8
  <2>2. ~r.shifted /\ ~q.shifted
    BY <1>1, <1>5, <1>8, <2>1
  <2>3. a \notin Caused(q.ctl)
    <3>1. Caused(k.ctl) = {}
      BY <1>8 DEF Waiting, Caused
    <3> QED BY <1>1, <3>1
  <2>4. \A i \in q.air : ~i.odd /\ i.what # "hostile"
    BY <1>2, <1>5, <1>6, <1>7, <2>1, <2>2
  <2>5. \A j \in DOMAIN q.ground : ~q.ground[j].odd
    BY <1>1, <1>5, <2>2
  <2> QED BY <1>1, <1>4, <2>2, <2>3, <2>4, <2>5 DEF EclipseArm
<1>9. CASE k = r /\ u = t /\ 1 <= t /\ t < s
  <2>1. \A i \in q.air :
          /\ i.odd => r.shifted /\ t < i.seq
          /\ i.what = "frame" /\ r.shifted /\ t < i.seq => i.odd
          /\ i.what = "hostile" => i.at < Interval * (t + 1)
    BY <1>2, <1>5, <1>6, <1>9
  <2> QED BY <1>1, <1>5, <1>9, <2>1 DEF EclipseArm, u
<1>10. CASE t < 0 /\ u = s /\ Shifting(a, r, k)
  <2>1. ~(t >= 0) /\ u >= 0
    BY <1>4, <1>10
  <2>2. ~r.shifted
    BY <1>5, <2>1
  <2>3. a \in Caused(q.ctl) => q.shifted
    BY <1>1, <1>10 DEF Shifting
  <2>4. \A i \in q.air : ~i.odd /\ i.what # "hostile"
    BY <1>2, <1>5, <1>6, <1>7, <2>1, <2>2
  <2>5. \A i \in q.air : i.what = "frame" => ~(u < i.seq)
    BY <1>2, <1>3, <1>4, <1>6, <1>10
  <2>6. \A j \in DOMAIN q.ground : ~q.ground[j].odd /\ ~(u < q.ground[j].seq)
    BY <1>1, <1>3, <1>4, <1>5, <1>10, <2>2
  <2> QED BY <2>1, <2>3, <2>4, <2>5, <2>6 DEF EclipseArm, u
<1> QED BY <1>1, <1>8, <1>9, <1>10

LEMMA EclipseArrival ==
  ASSUME ShortWay, Fixed, pair = "SP2", NEW a \in Arm, NEW r \in Run, now \in Nat, NEW n \in Nat,
         NEW i \in r.air, i.at = now, i.what # "hostile", NEW d \in Transits,
         NEW q, ArrivalOf(a, r, q, i, d), TimedArm(a, r, n), EclipseArm(a, r)
  PROVE  EclipseArm(a, q)
<1> DEFINE t == r.ctl.targetSeq
           m == DeliveryOf(i, OddAtGround(a, r, i))
           x == HostileItem(d)
<1>1. /\ q.ctl = r.ctl /\ q.shifted = r.shifted
      /\ LastDelivery(r.ground, q.ground, m)
      /\ q.air = r.air \ {i} \/ (a = "attack" /\ i.seq = t /\ q.air = (r.air \ {i}) \cup {x})
  BY DEF ArrivalOf, HeldByAttacker
<1>2. /\ r.shifted \/ a \in Caused(r.ctl) => t >= 0 /\ r.shifted
      /\ \A j \in r.air :
           /\ j.odd => r.shifted /\ t < j.seq
           /\ j.what = "frame" /\ r.shifted /\ t < j.seq => j.odd
           /\ j.what = "hostile" => j.at < Interval * (t + 1)
      /\ \A j \in DOMAIN r.ground : r.ground[j].odd <=> r.shifted /\ t < r.ground[j].seq
  BY DEF EclipseArm
<1>3. i.what = "frame" /\ (a = "attack" => now = Transited(i.seq))
  <2>1. i.what \in {"frame", "late", "hostile"}
    BY ItemTyped
  <2> QED BY <2>1 DEF TimedArm, TimedItem
<1>4. i.seq \in Nat /\ i.odd \in BOOLEAN
  BY ItemTyped
<1>5. m.seq = i.seq /\ m.odd = i.odd
  BY <1>4 DEF DeliveryOf, OddAtGround
<1>6. x.what = "hostile" /\ x.odd = FALSE /\ x.at = now + d
  BY DEF HostileItem
<1> HIDE DEF m, x
<1>7. a = "attack" /\ i.seq = t => x.at < Interval * (t + 1)
  <2> SUFFICES ASSUME a = "attack", i.seq = t PROVE x.at < Interval * (t + 1)
    OBVIOUS
  <2>1. t \in Nat /\ now = Interval * t + TransitOf(t)
    BY <1>3, <1>4 DEF Transited
  <2> HIDE DEF t
  <2> DEFINE e == TransitOf(t)
  <2>2. e \in Transits /\ e \in Nat /\ d \in Nat
    BY <2>1, TransitTyped, Constants
  <2>3. now = Interval * t + e
    BY <2>1
  <2> HIDE DEF e
  <2>4. e + d < Interval
    BY <2>2 DEF ShortWay
  <2>5. Interval * (t + 1) = Interval * t + Interval /\ Interval * t \in Int
    BY <2>1, Constants, Multiples
  <2> QED BY <1>6, <2>2, <2>3, <2>4, <2>5, Constants
<1> HIDE DEF t
<1>8. \A j \in q.air :
        /\ j.odd => r.shifted /\ t < j.seq
        /\ j.what = "frame" /\ r.shifted /\ t < j.seq => j.odd
        /\ j.what = "hostile" => j.at < Interval * (t + 1)
  BY <1>1, <1>2, <1>6, <1>7
<1>9. m.odd <=> r.shifted /\ t < m.seq
  BY <1>2, <1>3, <1>5
<1>10. \A j \in DOMAIN q.ground : q.ground[j].odd <=> r.shifted /\ t < q.ground[j].seq
  BY <1>1, <1>2, <1>9 DEF LastDelivery
<1> QED BY <1>1, <1>2, <1>8, <1>10 DEF EclipseArm, t

LEMMA EclipseHostile ==
  ASSUME Fixed, pair = "SP2", NEW a \in Arm, NEW r \in Run, now \in Nat, NEW n \in Nat,
         Interval * n <= now, NEW i \in r.air, i.at = now, i.what = "hostile",
         r.ctl.targetSeq >= 0, NEW q, HostileOf(r, q, i), TimedArm(a, r, n), EclipseArm(a, r)
  PROVE  EclipseArm(a, q)
<1> DEFINE t == r.ctl.targetSeq
<1>1. /\ q.air = r.air \ {i} /\ q.ground = r.ground /\ q.ctl.targetSeq = t /\ q.shifted
  BY DEF HostileOf
<1>2. /\ \A j \in r.air :
           /\ j.odd => r.shifted /\ t < j.seq
           /\ j.what = "hostile" => j.at < Interval * (t + 1)
      /\ \A j \in DOMAIN r.ground : r.ground[j].odd <=> r.shifted /\ t < r.ground[j].seq
  BY DEF EclipseArm
<1>3. /\ \A j \in r.air : j.what = "frame" => j.seq <= n
      /\ \A j \in DOMAIN r.ground : r.ground[j].seq <= n
  BY DEF TimedArm, TimedItem, TimedDelivery
<1>4. /\ t \in Nat /\ (\A j \in r.air : j.seq \in Nat)
      /\ \A j \in DOMAIN r.ground : r.ground[j].seq \in Int /\ r.ground[j].odd \in BOOLEAN
  BY ItemTyped
<1>5. n <= t
  <2>1. Interval * n < Interval * (t + 1)
    <3>1. now < Interval * (t + 1)
      BY <1>2
    <3>2. Interval * n \in Int /\ Interval * (t + 1) \in Int
      BY <1>4, Constants
    <3> QED BY <3>1, <3>2
  <2>2. t + 1 <= n => Interval * (t + 1) <= Interval * n
    BY <1>4, Constants, Multiples
  <2>3. Interval * n \in Int /\ Interval * (t + 1) \in Int
    BY <1>4, Constants
  <2> QED BY <1>4, <2>1, <2>2, <2>3
<1> HIDE DEF t
<1>6. \A j \in r.air : j.what = "frame" => ~(t < j.seq)
  BY <1>3, <1>4, <1>5
<1>7. \A j \in DOMAIN r.ground : ~(t < r.ground[j].seq) /\ ~r.ground[j].odd
  BY <1>2, <1>3, <1>4, <1>5
<1>8. t >= 0
  BY <1>4
<1> QED BY <1>1, <1>2, <1>6, <1>7, <1>8 DEF EclipseArm

-----------------------------------------------------------------------------
(* The frames of both arms                                                 *)

LEMMA FrameIn ==
  ASSUME NEW r, NEW x
  PROVE  x \in Frames(r) <=> \/ \E i \in r.air : i.what = "frame" /\ i.seq = x
                             \/ \E k \in DOMAIN r.ground : r.ground[k].seq = x
BY DEF Frames

\* A tick adds its frame in both arms, or in neither.
LEMMA FramesTick ==
  ASSUME pair # "SP4", NEW a, NEW r, NEW k, NEW q, NEW s, NEW d, TickOf(a, r, k, q, s, d),
         ~q.ctl.thrown
  PROVE  /\ ~r.ctl.thrown
         /\ \A x : x \in Frames(q) <=> x \in Frames(r) \/ (Linked(now) /\ x = s)
<1> DEFINE i == FrameItem(FrameOf(a, r, k, s), now + d)
<1>1. /\ q.ground = r.ground /\ ~r.ctl.thrown
      /\ ~Linked(now) => q.air = r.air
      /\ Linked(now) => q.air = r.air \cup {i}
  BY DEF TickOf, Lost, HeldBack
<1>2. i.what = "frame" /\ i.seq = s
  BY DEF FrameItem, FrameOf
<1> HIDE DEF i
<1>3. ASSUME NEW x
      PROVE  x \in Frames(q) <=> x \in Frames(r) \/ (Linked(now) /\ x = s)
  <2>1. /\ x \in Frames(q) <=> \/ \E j \in q.air : j.what = "frame" /\ j.seq = x
                               \/ \E l \in DOMAIN q.ground : q.ground[l].seq = x
        /\ x \in Frames(r) <=> \/ \E j \in r.air : j.what = "frame" /\ j.seq = x
                               \/ \E l \in DOMAIN r.ground : r.ground[l].seq = x
    BY FrameIn
  <2> QED BY <1>1, <1>2, <2>1
<1> QED BY <1>1, <1>3

\* An arrival takes a frame from the air to the ground.
LEMMA FramesArrival ==
  ASSUME pair # "SP4", NEW a, NEW r \in Run, NEW n, NEW i \in r.air, i.what # "hostile", NEW d,
         NEW q, ArrivalOf(a, r, q, i, d), TimedArm(a, r, n)
  PROVE  Frames(q) = Frames(r)
<1> DEFINE m == DeliveryOf(i, OddAtGround(a, r, i))
<1>1. i.what = "frame"
  <2>1. i.what \in {"frame", "late", "hostile"}
    BY ItemTyped
  <2> QED BY <2>1 DEF TimedArm, TimedItem
<1>2. /\ LastDelivery(r.ground, q.ground, m)
      /\ q.air = r.air \ {i} \/ q.air = (r.air \ {i}) \cup {HostileItem(d)}
  BY DEF ArrivalOf, HeldByAttacker
<1>3. m.seq = i.seq /\ HostileItem(d).what = "hostile"
  BY DEF DeliveryOf, HostileItem
<1> HIDE DEF m
<1>4. ASSUME NEW x PROVE x \in Frames(q) <=> x \in Frames(r)
  <2>1. /\ x \in Frames(q) <=> \/ \E j \in q.air : j.what = "frame" /\ j.seq = x
                               \/ \E l \in DOMAIN q.ground : q.ground[l].seq = x
        /\ x \in Frames(r) <=> \/ \E j \in r.air : j.what = "frame" /\ j.seq = x
                               \/ \E l \in DOMAIN r.ground : r.ground[l].seq = x
    BY FrameIn
  <2>2. (\E l \in DOMAIN q.ground : q.ground[l].seq = x) <=>
           (\E l \in DOMAIN r.ground : r.ground[l].seq = x) \/ i.seq = x
    BY <1>2, <1>3 DEF LastDelivery
  <2>3. (\E j \in r.air : j.what = "frame" /\ j.seq = x) <=>
           (\E j \in r.air \ {i} : j.what = "frame" /\ j.seq = x) \/ i.seq = x
    BY <1>1
  <2>4. (\E j \in q.air : j.what = "frame" /\ j.seq = x) <=>
           (\E j \in r.air \ {i} : j.what = "frame" /\ j.seq = x)
    BY <1>2, <1>3
  <2> QED BY <2>1, <2>2, <2>3, <2>4
<1> QED BY <1>4

LEMMA FramesHostile ==
  ASSUME NEW r, NEW i, i.what = "hostile", NEW q, HostileOf(r, q, i)
  PROVE  Frames(q) = Frames(r)
<1>1. q.air = r.air \ {i} /\ q.ground = r.ground
  BY DEF HostileOf
<1>2. ASSUME NEW x PROVE x \in Frames(q) <=> x \in Frames(r)
  BY <1>1, FrameIn
<1> QED BY <1>2

-----------------------------------------------------------------------------
(* One arm, one step                                                       *)

LEMMA ShownTick ==
  ASSUME Fixed, NEW a \in Arm, NEW r, now \in Nat, NEW n \in Nat, NEW s \in Nat, s = n + 1,
         ArmInv(a, r, now, n), now = Interval * s, ShownArm(a, r, n),
         NEW k, NEW q, TickOf(a, r, k, q, s, TransitOf(s))
  PROVE  ShownArm(a, q, s)
<1> DEFINE d == TransitOf(s)
<1>1. /\ r \in Run /\ (r.gapEnd >= 0 => r.ctl.targetSeq >= 0)
      /\ \A i \in r.air : i.what = "hostile" => r.ctl.targetSeq >= 0
  BY DEF ArmInv, InTheAir
<1>2. TimedArm(a, r, n)
  BY DEF ShownArm
<1>3. TimedArm(a, q, s)
  BY <1>1, <1>2, TimedTick
<1>4. TickOf(a, r, k, q, s, d)
  OBVIOUS
<1> HIDE DEF d
<1>5. ASSUME pair = "SP4", a = "fault", HeldArm(r) PROVE HeldArm(q)
  <2>1. CASE InView(q.ctl.targetSendTime)
    BY <1>1, <1>2, <1>4, <1>5, <2>1, HeldTick
  <2>2. CASE ~InView(q.ctl.targetSendTime)
    BY <2>2 DEF HeldArm
  <2> QED BY <2>1, <2>2
<1>6. pair \in {"SP1", "SP5"} /\ OddArm(a, r) => OddArm(a, q)
  BY <1>1, <1>2, <1>4, OddTick
<1>7. pair = "SP2" /\ EclipseArm(a, r) => EclipseArm(a, q)
  BY <1>1, <1>2, <1>4, EclipseTick
<1>8. DroppedArm(q)
  BY <1>1, <1>2, <1>4, DroppedTick DEF ShownArm
<1> QED BY <1>3, <1>5, <1>6, <1>7, <1>8 DEF ShownArm

LEMMA ShownArrival ==
  ASSUME Fixed, NEW a \in Arm, NEW r, now \in Nat, NEW n \in Nat, ArmInv(a, r, now, n),
         ~r.ctl.thrown, ShownArm(a, r, n), NEW i \in r.air, i.at <= now, i.what # "hostile",
         NEW d \in Transits, NEW q, ArrivalOf(a, r, q, i, d)
  PROVE  ShownArm(a, q, n)
<1>1. r \in Run /\ TimedArm(a, r, n)
  BY DEF ArmInv, ShownArm
<1>2. i.at = now
  BY LandsOnTime
<1>3. TimedArm(a, q, n)
  BY <1>1, <1>2, TimedArrival
<1>4. HoldEnds /\ pair = "SP4" /\ a = "fault" /\ HeldArm(r) => HeldArm(q)
  BY <1>1, <1>2, HeldArrival
<1>5. pair \in {"SP1", "SP5"} /\ OddArm(a, r) => OddArm(a, q)
  BY <1>1, OddArrival
<1>6. ShortWay /\ pair = "SP2" /\ EclipseArm(a, r) => EclipseArm(a, q)
  BY <1>1, <1>2, EclipseArrival
<1>7. DroppedArm(q)
  BY <1>1, DroppedArrival DEF ShownArm
<1> QED BY <1>3, <1>4, <1>5, <1>6, <1>7 DEF ShownArm

\* A hostile command is under way in SP-2 and SP-3 alone.
LEMMA ShownHostile ==
  ASSUME Fixed, NEW a \in Arm, NEW r, now \in Nat, NEW n \in Nat, ArmInv(a, r, now, n),
         ~r.ctl.thrown, ShownArm(a, r, n), Interval * n <= now,
         NEW i \in r.air, i.at <= now, i.what = "hostile", NEW q, HostileOf(r, q, i)
  PROVE  ShownArm(a, q, n)
<1>1. r \in Run /\ TimedArm(a, r, n) /\ r.ctl.targetSeq >= 0
  BY DEF ArmInv, ShownArm, InTheAir
<1>2. i.at = now
  BY LandsOnTime
<1>3. pair \in {"SP2", "SP3"}
  BY <1>1 DEF TimedArm, TimedItem
<1>4. TimedArm(a, q, n)
  BY <1>1, TimedHostile
<1>5. pair = "SP2" /\ EclipseArm(a, r) => EclipseArm(a, q)
  BY <1>1, <1>2, EclipseHostile
<1>6. DroppedArm(q)
  BY DroppedHostile DEF ShownArm
<1> QED BY <1>3, <1>4, <1>5, <1>6 DEF ShownArm

LEMMA ShownBeside ==
  ASSUME NEW a, NEW r, NEW s, ShownArm(a, r, s), NEW q, q.ctl = r.ctl, q.air = r.air,
         q.ground = r.ground, q.gapEnd = r.gapEnd, q.shifted = r.shifted
  PROVE  ShownArm(a, q, s) /\ Frames(q) = Frames(r)
BY DEF ShownArm, TimedArm, DroppedArm, Absent, HeldArm, OddArm, EclipseArm, Frames

-----------------------------------------------------------------------------
(* What no step changes                                                    *)

LEMMA ShownArmKept ==
  ASSUME UNCHANGED fixedVars, now \in Nat, now' \in Nat, now <= now',
         NEW a, NEW r \in Run, NEW s, ShownArm(a, r, s)
  PROVE  ShownArm(a, r, s)'
<1>1. pair' = pair /\ transit' = transit /\ passes' = passes
  BY DEF fixedVars, scheduleVars
<1>2. \A seq : Transited(seq)' = Transited(seq)
  BY <1>1 DEF Transited, TransitOf
<1>3. ASSUME NEW target, NEW seq PROVE GroundTime(target, seq)' = GroundTime(target, seq)
  BY <1>1, <1>2 DEF GroundTime
<1>4. ASSUME NEW target, NEW i, TimedItem(a, target, i, s) PROVE TimedItem(a, target, i, s)'
  BY <1>1, <1>2, <1>3, <1>4 DEF TimedItem
<1>5. ASSUME NEW target, NEW k \in DOMAIN r.ground, TimedDelivery(target, r.ground[k], s)
      PROVE  TimedDelivery(target, r.ground[k], s)'
  <2>1. r.ground[k].at \in Int
    BY ItemTyped
  <2> QED BY <1>3, <1>5, <2>1 DEF TimedDelivery
<1>6. TimedArm(a, r, s)'
  BY <1>4, <1>5 DEF ShownArm, TimedArm
<1>7. \A t : InView(t)' = InView(t)
  BY <1>1 DEF InView
<1>8. DroppedArm(r)'
  BY <1>7 DEF ShownArm, DroppedArm, Absent
<1>9. HeldArm(r) => HeldArm(r)'
  BY <1>7 DEF HeldArm
<1>10. OddArm(a, r) => OddArm(a, r)'
  BY <1>1 DEF OddArm, Shows, OnlyTarget
<1>11. EclipseArm(a, r) => EclipseArm(a, r)'
  BY DEF EclipseArm, Caused
<1> QED BY <1>1, <1>6, <1>8, <1>9, <1>10, <1>11 DEF ShownArm, HoldEnds, ShortWay

LEMMA ShownInvKept ==
  ASSUME UNCHANGED fixedVars, now \in Nat, now' \in Nat, now <= now', OnTheBeat',
         run' \in [Arm -> Run], \A a \in Arm : ShownArm(a, run'[a], sent'),
         SameFrames(run'["attack"], run'["fault"])
  PROVE  ShownInv'
<1>1. \A a \in Arm : ShownArm(a, run[a], sent)'
  BY ShownArmKept
<1>2. pair' = pair
  BY DEF fixedVars, scheduleVars
<1>3. SameFrames(run["attack"], run["fault"])'
  BY <1>2 DEF SameFrames, Frames
<1> QED BY <1>1, <1>3 DEF ShownInv

-----------------------------------------------------------------------------
(* The steps of a pair                                                     *)

LEMMA InitShown == Init => ShownInv
<1> SUFFICES ASSUME Init PROVE ShownInv
  OBVIOUS
<1>1. OnTheBeat
  BY Constants DEF Init, OnTheBeat
<1>2. /\ StartOfRun.air = {} /\ StartOfRun.ground = << >> /\ StartOfRun.shifted = FALSE
      /\ StartOfRun.ctl.targetSeq = -1 /\ StartOfRun.ctl.truth = << >>
  BY DEF StartOfRun, Fresh
<1>3. "attack" \in Arm /\ "fault" \in Arm /\ \A a \in Arm : run[a] = StartOfRun
  BY DEF Init, Arm
<1> HIDE DEF StartOfRun
<1>4. ~(StartOfRun.ctl.targetSeq >= 0) /\ DOMAIN StartOfRun.ground = {}
  BY <1>2
<1>5. Caused(StartOfRun.ctl) = {}
  BY <1>2 DEF Caused
<1>6. ASSUME NEW a PROVE ShownArm(a, StartOfRun, sent)
  BY <1>2, <1>4, <1>5 DEF ShownArm, TimedArm, DroppedArm, HeldArm, OddArm, EclipseArm
<1>7. SameFrames(run["attack"], run["fault"])
  BY <1>3 DEF SameFrames
<1> QED BY <1>1, <1>3, <1>6, <1>7 DEF ShownInv

LEMMA TelemetryKeepsShown == PairInv /\ ShownInv /\ Telemetry => ShownInv'
<1> SUFFICES ASSUME PairInv, ShownInv, Telemetry PROVE ShownInv'
  OBVIOUS
<1> DEFINE s == sent + 1
           d == TransitOf(s)
           q == [a \in Arm |-> TelemetryOf(a, run[a], s, d)]
<1>1. Fixed /\ now \in Nat /\ sent \in Nat /\ run \in [Arm -> Run] /\ OnTheBeat
  BY DEF PairInv, ShownInv
<1>2. now = Interval * s /\ Delay = d
  BY <1>1, SentOnTheBeat
<1>3. /\ sent < now \div Interval /\ sent' = s /\ now' = now /\ UNCHANGED fixedVars
      /\ run' = q
  BY <1>2 DEF Telemetry
<1>4. s \in Nat /\ s = sent + 1 /\ d \in Nat
  BY <1>1, TransitTyped
<1>5. \A a \in Arm : q[a] = TelemetryOf(a, run[a], sent + 1, d)
  OBVIOUS
<1> HIDE DEF q
<1>6. ASSUME NEW a \in Arm
      PROVE  /\ ArmInv(a, run[a], now, sent) /\ ShownArm(a, run[a], sent)
             /\ \E k : TickOf(a, run[a], k, q[a], s, d)
  <2>1. ArmInv(a, run[a], now, sent) /\ ShownArm(a, run[a], sent)
    BY DEF PairInv, ShownInv
  <2>2. run[a].outcome = "running"
    <3>1. now \div Interval \in Nat
      BY <1>1, Constants
    <3> QED BY <1>1, <1>3, <2>1, <3>1 DEF ArmInv, Ended
  <2>3. q[a] = TelemetryOf(a, run[a], sent + 1, d)
    BY <1>5
  <2> HIDE DEF d
  <2>4. \E k : TickOf(a, run[a], k, q[a], sent + 1, d)
    BY <1>1, <1>4, <2>1, <2>2, <2>3, TelemetryExact
  <2> QED BY <2>1, <2>4
<1>7. ASSUME NEW a \in Arm
      PROVE  ShownArm(a, q[a], s) /\ q[a] \in Run
  <2>1. PICK k : TickOf(a, run[a], k, q[a], s, d)
    BY <1>6
  <2>2. q[a] \in Run
    BY <2>1 DEF TickOf
  <2>3. ArmInv(a, run[a], now, sent) /\ ShownArm(a, run[a], sent)
    BY <1>6
  <2> HIDE DEF s
  <2> QED BY <1>1, <1>2, <1>4, <2>1, <2>2, <2>3, ShownTick DEF d
<1>8. ASSUME NEW a \in Arm, pair # "SP4", ~q[a].ctl.thrown
      PROVE  /\ ~run[a].ctl.thrown
             /\ \A x : x \in Frames(q[a]) <=> x \in Frames(run[a]) \/ (Linked(now) /\ x = s)
  <2>1. PICK k : TickOf(a, run[a], k, q[a], s, d)
    BY <1>6
  <2> HIDE DEF s, d
  <2> QED BY <1>8, <2>1, FramesTick
<1>9. "attack" \in Arm /\ "fault" \in Arm
  BY DEF Arm
<1>10. SameFrames(q["attack"], q["fault"])
  <2> SUFFICES ASSUME pair # "SP4", ~q["attack"].ctl.thrown, ~q["fault"].ctl.thrown
               PROVE  Frames(q["attack"]) = Frames(q["fault"])
    BY DEF SameFrames
  <2>1. ~run["attack"].ctl.thrown /\ ~run["fault"].ctl.thrown
    BY <1>8, <1>9
  <2>2. Frames(run["attack"]) = Frames(run["fault"])
    BY <2>1 DEF ShownInv, SameFrames
  <2> HIDE DEF s
  <2>3. /\ \A x : x \in Frames(q["attack"]) <=> x \in Frames(run["attack"]) \/ (Linked(now) /\ x = s)
        /\ \A x : x \in Frames(q["fault"]) <=> x \in Frames(run["fault"]) \/ (Linked(now) /\ x = s)
    BY <1>8, <1>9
  <2> QED BY <2>2, <2>3
<1>11. run' \in [Arm -> Run]
  <2>1. q = [a \in Arm |-> q[a]]
    BY DEF q
  <2> QED BY <1>3, <1>7, <2>1
<1>12. OnTheBeat'
  BY <1>1, BeatKept DEF Next
<1>13. \A a \in Arm : ShownArm(a, run'[a], sent')
  BY <1>3, <1>7
<1> HIDE DEF s, d
<1> QED BY <1>1, <1>3, <1>10, <1>11, <1>12, <1>13, ShownInvKept

\* A step of one arm that keeps its frames.
LEMMA OneShown ==
  ASSUME PairInv, ShownInv, NEW a \in Arm, NEW q \in Run, ShownArm(a, q, sent),
         Frames(q) = Frames(run[a]), ~q.ctl.thrown => ~run[a].ctl.thrown,
         run' = [run EXCEPT ![a] = q], UNCHANGED <<fixedVars, now, sent>>
  PROVE  ShownInv'
<1>1. now \in Nat /\ run \in [Arm -> Run] /\ now' = now /\ sent' = sent /\ UNCHANGED fixedVars
  BY DEF PairInv
<1>2. run' \in [Arm -> Run] /\ run'[a] = q /\ \A b \in Arm : b # a => run'[b] = run[b]
  BY <1>1
<1>3. \A b \in Arm : ShownArm(b, run'[b], sent')
  <2>1. TAKE b \in Arm
  <2>2. ShownArm(b, run[b], sent)
    BY DEF ShownInv
  <2> QED BY <1>1, <1>2, <2>2
<1>4. SameFrames(run'["attack"], run'["fault"])
  <2>1. /\ "attack" \in Arm /\ "fault" \in Arm
        /\ pair # "SP4" /\ ~run["attack"].ctl.thrown /\ ~run["fault"].ctl.thrown =>
             Frames(run["attack"]) = Frames(run["fault"])
    BY DEF ShownInv, SameFrames, Arm
  <2>2. \A b \in Arm : /\ Frames(run'[b]) = Frames(run[b])
                       /\ ~run'[b].ctl.thrown => ~run[b].ctl.thrown
    BY <1>2
  <2> QED BY <2>1, <2>2 DEF SameFrames
<1>5. OnTheBeat'
  BY <1>1 DEF ShownInv, OnTheBeat
<1> QED BY <1>1, <1>2, <1>3, <1>4, <1>5, ShownInvKept

LEMMA ArrivalKeepsShown ==
  ASSUME NearEarth, PairInv, ShownInv, NEW a \in Arm,
         ArriveAtAttacker(a) \/ ArriveAtGround(a) \/ ArriveAtSatellite(a)
  PROVE  ShownInv'
<1> DEFINE r == run[a]
           d == Delay
<1>1. /\ Fixed /\ now \in Nat /\ sent \in Nat /\ run \in [Arm -> Run] /\ ArmInv(a, r, now, sent)
      /\ ShownArm(a, r, sent) /\ Interval * sent <= now
      /\ SameFrames(run["attack"], run["fault"])
  BY DEF PairInv, ShownInv, OnTheBeat
<1>2. d \in Transits /\ d \in Nat
  BY <1>1, DelayIsTransit, Constants
<1>3. r \in Run /\ TimedArm(a, r, sent)
  BY <1>1 DEF ShownArm
<1>4. d = Delay
  OBVIOUS
<1> HIDE DEF d
<1>5. ASSUME NEW i \in Due(a), Going(r), i.what # "hostile", NEW q, ArrivalOf(a, r, q, i, d),
             run' = [run EXCEPT ![a] = q], UNCHANGED <<fixedVars, now, sent>>
      PROVE  ShownInv'
  <2>1. i \in r.air /\ i.at <= now /\ ~r.ctl.thrown
    BY <1>5 DEF Due, Going
  <2>2. q \in Run /\ q.ctl = r.ctl
    BY <1>5 DEF ArrivalOf
  <2>3. ShownArm(a, q, sent)
    BY <1>1, <1>2, <1>5, <2>1, ShownArrival
  <2>4. pair # "SP4" => Frames(q) = Frames(r)
    BY <1>3, <1>5, <2>1, FramesArrival
  <2>5. CASE pair # "SP4"
    BY <1>5, <2>2, <2>3, <2>4, <2>5, OneShown
  <2>6. CASE pair = "SP4"
    <3>1. run' \in [Arm -> Run] /\ run'[a] = q /\ \A b \in Arm : b # a => run'[b] = run[b]
      BY <1>1, <1>5, <2>2
    <3>2. \A b \in Arm : ShownArm(b, run'[b], sent')
      BY <1>5, <2>3, <3>1 DEF ShownInv
    <3>3. SameFrames(run'["attack"], run'["fault"])
      BY <2>6 DEF SameFrames
    <3>4. OnTheBeat' /\ now' = now /\ UNCHANGED fixedVars
      BY <1>5 DEF ShownInv, OnTheBeat
    <3> QED BY <1>1, <3>1, <3>2, <3>3, <3>4, ShownInvKept
  <2> QED BY <2>5, <2>6
<1>6. CASE ArriveAtAttacker(a)
  <2>1. PICK i \in Due(a) :
          /\ Going(run[a]) /\ i.what = "frame"
          /\ run' = [run EXCEPT ![a] = OnPath(a, Landed(@, i), i, Delay)]
          /\ UNCHANGED <<fixedVars, now, sent>>
    BY <1>6 DEF ArriveAtAttacker
  <2> DEFINE q == OnPath(a, Landed(r, i), i, d)
  <2>2. run' = [run EXCEPT ![a] = q]
    BY <1>4, <2>1
  <2>3. i \in r.air
    BY DEF Due
  <2>4. ArrivalOf(a, r, q, i, d)
    BY <1>1, <1>2, <1>3, <2>1, <2>3, AttackerExact
  <2> HIDE DEF q
  <2> QED BY <1>5, <2>1, <2>2, <2>4
<1>7. CASE ArriveAtGround(a)
  <2>1. PICK i \in Due(a) :
          /\ Going(run[a]) /\ i.what = "late"
          /\ run' = [run EXCEPT ![a] = Deliver(Landed(@, i), i.seq, i.odd)]
          /\ UNCHANGED <<fixedVars, now, sent>>
    BY <1>7 DEF ArriveAtGround
  <2> DEFINE q == Deliver(Landed(r, i), i.seq, i.odd)
  <2>2. run' = [run EXCEPT ![a] = q]
    BY <2>1
  <2>3. i \in r.air
    BY DEF Due
  <2>4. ArrivalOf(a, r, q, i, d)
    BY <1>1, <1>3, <2>1, <2>3, GroundExact
  <2> HIDE DEF q
  <2> QED BY <1>5, <2>1, <2>2, <2>4
<1>8. CASE ArriveAtSatellite(a)
  <2>1. PICK i \in Due(a) :
          /\ Going(run[a]) /\ i.what = "hostile"
          /\ run' = [run EXCEPT ![a] = AcceptHostile(Landed(@, i))]
          /\ UNCHANGED <<fixedVars, now, sent>>
    BY <1>8 DEF ArriveAtSatellite
  <2> DEFINE q == AcceptHostile(Landed(r, i))
  <2>2. run' = [run EXCEPT ![a] = q]
    BY <2>1
  <2>3. i \in r.air /\ i.at <= now /\ ~r.ctl.thrown
    BY <2>1 DEF Due, Going
  <2>4. HostileOf(r, q, i)
    BY <1>1, <2>1, <2>3, HostileExact
  <2> HIDE DEF q
  <2>5. q \in Run
    BY <2>4 DEF HostileOf
  <2>6. ShownArm(a, q, sent)
    BY <1>1, <2>1, <2>3, <2>4, ShownHostile
  <2>7. Frames(q) = Frames(r)
    BY <2>1, <2>4, FramesHostile
  <2> QED BY <2>1, <2>2, <2>3, <2>5, <2>6, <2>7, OneShown
<1> QED BY <1>6, <1>7, <1>8

LEMMA FinishKeepsShown == ASSUME PairInv, ShownInv, NEW a \in Arm, Finish(a) PROVE ShownInv'
<1> DEFINE r == run[a]
           out == Outcome(r.ctl)
           q == [r EXCEPT !.outcome = out]
<1>1. run' = [run EXCEPT ![a].outcome = Outcome(run[a].ctl)] /\ UNCHANGED <<fixedVars, now, sent>>
  BY DEF Finish
<1>2. r \in Run /\ ShownArm(a, r, sent)
  BY DEF PairInv, ShownInv
<1>3. out \in {"running", "ok", "failed"}
  BY DEF Outcome
<1>4. run' = [run EXCEPT ![a] = q]
  BY <1>1
<1>5. q = [r EXCEPT !.outcome = out]
  OBVIOUS
<1> HIDE DEF q, out
<1>6. q \in Run
  BY <1>2, <1>3, <1>5 DEF Run
<1>7. /\ q.ctl = r.ctl /\ q.air = r.air /\ q.ground = r.ground /\ q.gapEnd = r.gapEnd
      /\ q.shifted = r.shifted
  BY <1>2, <1>5 DEF Run
<1> HIDE DEF r
<1>8. ShownArm(a, q, sent) /\ Frames(q) = Frames(r)
  BY <1>2, <1>7, ShownBeside
<1> QED BY <1>1, <1>4, <1>6, <1>7, <1>8, OneShown DEF r

LEMMA TickKeepsShown == PairInv /\ ShownInv /\ Tick => ShownInv'
<1> SUFFICES ASSUME PairInv, ShownInv, Tick PROVE ShownInv'
  OBVIOUS
<1>1. /\ Fixed /\ now \in Nat /\ sent \in Nat /\ run \in [Arm -> Run] /\ OnTheBeat
      /\ \A a \in Arm : ShownArm(a, run[a], sent)
      /\ SameFrames(run["attack"], run["fault"])
  BY DEF PairInv, ShownInv
<1>2. now' = now + 1 /\ sent' = sent /\ run' = run /\ UNCHANGED fixedVars
  BY DEF Tick
<1>3. now' \in Nat /\ now <= now'
  BY <1>1, <1>2
<1>4. OnTheBeat'
  BY <1>1, BeatKept DEF Next
<1> QED BY <1>1, <1>2, <1>3, <1>4, ShownInvKept

LEMMA NextKeepsShown == NearEarth /\ PairInv /\ ShownInv /\ [Next]_vars => ShownInv'
<1> SUFFICES ASSUME NearEarth, PairInv, ShownInv, [Next]_vars PROVE ShownInv'
  OBVIOUS
<1>1. CASE Telemetry
  BY <1>1, TelemetryKeepsShown
<1>2. CASE Tick
  BY <1>2, TickKeepsShown
<1>3. ASSUME NEW a \in Arm,
             ArriveAtAttacker(a) \/ ArriveAtGround(a) \/ ArriveAtSatellite(a) \/ Finish(a)
      PROVE  ShownInv'
  BY <1>3, ArrivalKeepsShown, FinishKeepsShown
<1>4. CASE UNCHANGED vars
  <2>1. UNCHANGED fixedVars /\ now' = now /\ sent' = sent /\ run' = run
    BY <1>4 DEF vars, fixedVars
  <2>2. /\ now \in Nat /\ run \in [Arm -> Run] /\ OnTheBeat
        /\ \A a \in Arm : ShownArm(a, run[a], sent)
        /\ SameFrames(run["attack"], run["fault"])
    BY DEF PairInv, ShownInv
  <2>3. OnTheBeat' /\ now <= now' /\ now' \in Nat
    BY <2>1, <2>2 DEF OnTheBeat
  <2> QED BY <2>1, <2>2, <2>3, ShownInvKept
<1> QED BY <1>1, <1>2, <1>3, <1>4 DEF Next

-----------------------------------------------------------------------------
(* What the ground sees                                                    *)

LEMMA HeldOfArms == ASSUME HoldEnds, PairInv, ShownInv PROVE HeldFramesShowAlike
<1>1. pair # "SP6"
  BY DEF PairInv, Fixed
<1>2. SUFFICES ASSUME pair = "SP4"
      PROVE  /\ \A k \in DOMAIN run["fault"].ground :
                  Target("fault") >= 0 /\ Crosses("fault")
                    /\ run["fault"].ground[k].seq > Target("fault") =>
                     \E j \in Deliveries("fault", Target("fault")) : j < k
             /\ (\A a \in Arm : Target(a) >= 0 /\ Deliveries(a, Target(a)) # {}) =>
                  DeliveredAt("attack", Target("attack")) = DeliveredAt("fault", Target("fault"))
  BY <1>1 DEF HeldFramesShowAlike
<1>3. "attack" \in Arm /\ "fault" \in Arm
  BY DEF Arm
<1>4. HeldArm(run["fault"]) /\ \A a \in Arm : TimedArm(a, run[a], sent)
  BY <1>2, <1>3 DEF ShownInv, ShownArm
<1>5. Target("attack") = Target("fault")
  BY DEF PairInv, Shared, SameClock, Target
<1>6. ASSUME NEW k \in DOMAIN run["fault"].ground, Target("fault") >= 0, Crosses("fault"),
             run["fault"].ground[k].seq > Target("fault")
      PROVE  \E j \in Deliveries("fault", Target("fault")) : j < k
  BY <1>4, <1>6 DEF HeldArm, Target, Deliveries, Crosses
<1>7. ASSUME NEW a \in Arm, Deliveries(a, Target(a)) # {}
      PROVE  DeliveredAt(a, Target(a)) = {GroundTime(Target(a), Target(a))}
  <2>1. \A k \in DOMAIN run[a].ground : TimedDelivery(Target(a), run[a].ground[k], sent)
    BY <1>4 DEF TimedArm, Target
  <2>2. \A k \in Deliveries(a, Target(a)) : run[a].ground[k].at = GroundTime(Target(a), Target(a))
    BY <2>1 DEF Deliveries, TimedDelivery
  <2> QED BY <1>7, <2>2 DEF DeliveredAt
<1> QED BY <1>3, <1>5, <1>6, <1>7

\* The least is the one that is no greater than any.
LEMMA LeastOf ==
  ASSUME NEW S \in SUBSET Int, NEW t \in S, \A x \in S : t <= x
  PROVE  Min(S) = t
<1>1. \E x \in S : \A y \in S : x <= y
  OBVIOUS
<1>2. Min(S) \in S /\ \A y \in S : Min(S) <= y
  BY <1>1 DEF Min
<1> DEFINE m == Min(S)
<1>3. m \in Int /\ t \in Int /\ t <= m /\ m <= t
  BY <1>2
<1> HIDE DEF m
<1>4. m = t
  BY <1>3
<1> QED BY <1>4 DEF m

LEMMA DeliveryIn ==
  ASSUME NEW a, NEW seq, NEW t
  PROVE  t \in DeliveredAt(a, seq) <=>
           \E k \in DOMAIN run[a].ground : run[a].ground[k].seq = seq /\ run[a].ground[k].at = t
BY DEF DeliveredAt, Deliveries

LEMMA OddIn ==
  ASSUME NEW a, NEW x
  PROVE  x \in OddSeqs(a) <=>
           \E k \in DOMAIN run[a].ground : run[a].ground[k].odd /\ run[a].ground[k].seq = x
BY DEF OddSeqs

LEMMA FirstOddOfArm ==
  ASSUME PairInv, ShownInv, pair \in {"SP1", "SP5"}, NEW a \in Arm, Valid(a), Crosses(a)
  PROVE  Target(a) \in OddSeqs(a) /\ Min(OddSeqs(a)) = Target(a)
<1> DEFINE g == run[a].ground
           t == Target(a)
<1>1. run[a] \in Run /\ OddArm(a, run[a])
  BY DEF PairInv, ShownInv, ShownArm
<1>2. t \in Int /\ \A k \in DOMAIN g : g[k].seq \in Int /\ g[k].odd \in BOOLEAN
  BY <1>1, ItemTyped DEF Target
<1>3. t >= 0
  <2>1. Episode(a, run[a].ctl, now, sent)
    BY ValidRun
  <2> QED BY <1>2, <2>1 DEF Episode, Chosen, Target
<1>4. /\ \A k \in DOMAIN g : g[k].odd => t <= g[k].seq
      /\ \A k \in DOMAIN g : g[k].seq = t => g[k].odd
  BY <1>1, <1>3 DEF OddArm, Shows, Target
<1>5. PICK k \in DOMAIN g : g[k].seq = t
  <2>1. PICK at \in DeliveredAt(a, t) : TRUE
    BY DeliveredInTime
  <2> QED BY <2>1, DeliveryIn
<1>6. t \in OddSeqs(a)
  BY <1>4, <1>5, OddIn
<1>7. \A x \in OddSeqs(a) : x \in Int /\ t <= x
  BY <1>2, <1>4, OddIn
<1> HIDE DEF t
<1>8. Min(OddSeqs(a)) = t
  <2> DEFINE S == OddSeqs(a)
  <2>1. S \in SUBSET Int /\ t \in S /\ \A x \in S : t <= x
    BY <1>6, <1>7
  <2> HIDE DEF S
  <2>2. Min(S) = t
    BY <2>1, LeastOf
  <2> QED BY <2>2 DEF S
<1> QED BY <1>6, <1>8 DEF t

\* A valid run has a target, of which nothing arrives unless the link got it.
LEMMA DroppedOfArms ==
  ASSUME PairInv, ShownInv, NEW a \in Arm, Valid(a), ~Crosses(a)
  PROVE  Absent(run[a], Target(a)) /\ Deliveries(a, Target(a)) = {}
<1>1. Target(a) >= 0
  <2>1. Episode(a, run[a].ctl, now, sent) /\ run[a] \in Run
    BY ValidRun DEF PairInv
  <2>2. run[a].ctl.targetSeq \in Int
    BY <2>1, ItemTyped
  <2> QED BY <2>1, <2>2 DEF Episode, Chosen, Target
<1>2. DroppedArm(run[a])
  BY DEF ShownInv, ShownArm
<1>3. Absent(run[a], Target(a))
  BY <1>1, <1>2 DEF DroppedArm, Target, Crosses
<1> QED BY <1>3 DEF Absent, Deliveries

LEMMA NothingOdd ==
  ASSUME PairInv, ShownInv, pair \in {"SP1", "SP5"}, NEW a \in Arm, Valid(a), ~Crosses(a),
         a = "attack" \/ pair = "SP1"
  PROVE  OddSeqs(a) = {}
<1>1. OddArm(a, run[a])
  BY DEF ShownInv, ShownArm
<1>2. \A k \in DOMAIN run[a].ground : run[a].ground[k].odd => run[a].ground[k].seq = Target(a)
  BY <1>1 DEF OddArm, OnlyTarget, Target
<1>3. \A k \in DOMAIN run[a].ground : run[a].ground[k].seq # Target(a)
  BY DroppedOfArms DEF Absent
<1> QED BY <1>2, <1>3 DEF OddSeqs

LEMMA FirstOddOfArms == ASSUME PairInv, ShownInv, pair # "SP2" PROVE FirstOddMatches
<1> SUFFICES ASSUME ValidPair, pair \in {"SP1", "SP5"}
             PROVE  IF Crosses("attack")
                    THEN /\ \A a \in Arm : OddSeqs(a) # {}
                         /\ Min(OddSeqs("attack")) = Min(OddSeqs("fault"))
                    ELSE /\ OddSeqs("attack") = {}
                         /\ pair = "SP1" => OddSeqs("fault") = {}
  BY DEF FirstOddMatches
<1>1. /\ "attack" \in Arm /\ "fault" \in Arm /\ Valid("attack") /\ Valid("fault")
  BY DEF ValidPair, Arm
<1>2. Target("attack") = Target("fault") /\ (Crosses("attack") <=> Crosses("fault"))
  BY DEF PairInv, Shared, SameClock, Target, Crosses
<1>3. CASE Crosses("attack")
  <2>1. \A a \in Arm : Crosses(a)
    BY <1>2, <1>3 DEF Arm
  <2>2. \A a \in Arm : Target(a) \in OddSeqs(a) /\ Min(OddSeqs(a)) = Target(a)
    BY <2>1, FirstOddOfArm DEF ValidPair
  <2> QED BY <1>1, <1>2, <1>3, <2>2
<1>4. CASE ~Crosses("attack")
  <2>1. OddSeqs("attack") = {}
    BY <1>1, <1>4, NothingOdd
  <2>2. pair = "SP1" => OddSeqs("fault") = {}
    BY <1>1, <1>2, <1>4, NothingOdd
  <2> QED BY <1>4, <2>1, <2>2
<1> QED BY <1>3, <1>4

\* At the end of a valid run a frame is at the ground exactly if its transit is over.
LEMMA GroundAtEnd ==
  ASSUME PairInv, ShownInv, pair # "SP4", NEW a \in Arm, Valid(a), NEW seq \in Nat, NEW t
  PROVE  t \in DeliveredAt(a, seq) <=> seq \in Frames(run[a]) /\ t = Transited(seq) /\ t <= now
<1> DEFINE r == run[a]
<1>1. r \in Run /\ TimedArm(a, r, sent) /\ now \in Nat /\ Fixed
  BY DEF PairInv, ShownInv, ShownArm
<1>2. \A i \in r.air : now < i.at
  BY ValidRun DEF Ended
<1>3. \A k \in DOMAIN r.ground : r.ground[k].at = Transited(r.ground[k].seq) /\ r.ground[k].at <= now
  BY <1>1 DEF TimedArm, TimedDelivery, GroundTime
<1>4. \A i \in r.air : i.what = "frame" => i.at = Transited(i.seq) /\ i.at \in Int
  <2>1. \A i \in r.air : i.at \in Int
    BY <1>1, ItemTyped
  <2> QED BY <1>1, <2>1 DEF TimedArm, TimedItem, GroundTime
<1>5. t \in DeliveredAt(a, seq) <=> \E k \in DOMAIN r.ground : r.ground[k].seq = seq /\ r.ground[k].at = t
  BY DeliveryIn
<1>6. seq \in Frames(r) <=> \/ \E i \in r.air : i.what = "frame" /\ i.seq = seq
                            \/ \E k \in DOMAIN r.ground : r.ground[k].seq = seq
  BY FrameIn
<1>7. Transited(seq) \in Int
  BY <1>1, TransitTyped
<1> HIDE DEF r
<1>8. (\E i \in r.air : i.what = "frame" /\ i.seq = seq) => now < Transited(seq)
  BY <1>2, <1>4
<1>9. ~(now < Transited(seq) /\ Transited(seq) <= now)
  BY <1>1, <1>7
<1> QED BY <1>3, <1>5, <1>6, <1>8, <1>9 DEF r

LEMMA GroundOfArms == ASSUME PairInv, ShownInv PROVE GroundSeesAlike
<1> SUFFICES ASSUME ValidPair, pair # "SP4", NEW seq \in 0..sent
             PROVE  DeliveredAt("attack", seq) = DeliveredAt("fault", seq)
  BY DEF GroundSeesAlike
<1>1. /\ "attack" \in Arm /\ "fault" \in Arm
      /\ ~run["attack"].ctl.thrown /\ ~run["fault"].ctl.thrown
      /\ Valid("attack") /\ Valid("fault")
  BY ValidRun DEF ValidPair, Arm
<1>2. Frames(run["attack"]) = Frames(run["fault"])
  BY <1>1 DEF ShownInv, SameFrames
<1>3. seq \in Nat
  BY DEF PairInv
<1>4. ASSUME NEW t PROVE t \in DeliveredAt("attack", seq) <=> t \in DeliveredAt("fault", seq)
  <2>1. \A a \in Arm : Valid(a) => (t \in DeliveredAt(a, seq) <=>
           seq \in Frames(run[a]) /\ t = Transited(seq) /\ t <= now)
    BY <1>3, GroundAtEnd
  <2> QED BY <1>1, <1>2, <2>1
<1> QED BY <1>4

LEMMA EclipseOfArms == ASSUME ShortWay, PairInv, ShownInv PROVE EclipseShowsAlike
<1> SUFFICES ASSUME ValidPair, pair = "SP2"
             PROVE  /\ OddSeqs("attack") = OddSeqs("fault")
                    /\ \A a \in Arm : \A k \in DOMAIN run[a].ground :
                         run[a].ground[k].odd <=> Target(a) < run[a].ground[k].seq
  BY DEF EclipseShowsAlike
<1>1. "attack" \in Arm /\ "fault" \in Arm
  BY DEF Arm
<1>2. Target("attack") = Target("fault")
  BY DEF PairInv, Shared, SameClock, Target
<1>3. ASSUME NEW a \in Arm
      PROVE  \A k \in DOMAIN run[a].ground :
               run[a].ground[k].odd <=> Target(a) < run[a].ground[k].seq
  <2>1. EclipseArm(a, run[a]) /\ a \in Caused(run[a].ctl)
    BY ValidRun DEF ShownInv, ShownArm, ValidPair
  <2> QED BY <2>1 DEF EclipseArm, Target
<1>4. ASSUME NEW a \in Arm, NEW x
      PROVE  x \in OddSeqs(a) <=> DeliveredAt(a, x) # {} /\ Target(a) < x
  <2>1. \A k \in DOMAIN run[a].ground : run[a].ground[k].odd <=> Target(a) < run[a].ground[k].seq
    BY <1>3
  <2>2. DeliveredAt(a, x) # {} <=> \E k \in DOMAIN run[a].ground : run[a].ground[k].seq = x
    BY DEF DeliveredAt, Deliveries
  <2> QED BY <2>1, <2>2, OddIn
<1>5. ASSUME NEW a \in Arm, NEW x, DeliveredAt(a, x) # {} PROVE x \in 0..sent
  <2>1. PICK k \in DOMAIN run[a].ground : run[a].ground[k].seq = x
    BY <1>5 DEF DeliveredAt, Deliveries
  <2>2. run[a] \in Run /\ TimedArm(a, run[a], sent)
    BY DEF PairInv, ShownInv, ShownArm
  <2>3. x \in Int /\ 1 <= x /\ x <= sent
    BY <2>1, <2>2, ItemTyped DEF TimedArm, TimedDelivery
  <2> QED BY <2>3 DEF PairInv
<1>6. \A x \in 0..sent : DeliveredAt("attack", x) = DeliveredAt("fault", x)
  BY GroundOfArms DEF GroundSeesAlike
<1>7. ASSUME NEW x PROVE x \in OddSeqs("attack") <=> x \in OddSeqs("fault")
  BY <1>1, <1>2, <1>4, <1>5, <1>6
<1> QED BY <1>3, <1>7

-----------------------------------------------------------------------------
(* The theorems about what is seen                                         *)

\* In every pair but SP-6 every frame is sent on the beat and is at the ground a transit
\* later, the two arms lose the same frames, and what is odd at the ground follows from
\* the target.
THEOREM ShownInvariance == NearEarth => (Spec => [](pair # "SP6" => PairInv /\ ShownInv))
<1> SUFFICES ASSUME NearEarth PROVE Spec => [](pair # "SP6" => PairInv /\ ShownInv)
  OBVIOUS
<1>1. Init => (pair # "SP6" => PairInv /\ ShownInv)
  BY InitPair, InitShown
<1>2. (pair # "SP6" => PairInv /\ ShownInv) /\ [Next]_vars
        => (pair # "SP6" => PairInv /\ ShownInv)'
  BY PairStays, NextKeepsPair, NextKeepsShown
<1> QED BY <1>1, <1>2, PTL DEF Spec

\* The record of every run is one episode in order; of a valid run it holds the injected
\* cause once, the ground has the target inside the episode, or never where the contact
\* ended at the instant of the target, and the pilot reads that cause from the record.
THEOREM RecordedEpisode == NearEarth => (Spec => [](pair # "SP6" => OneEpisode))
<1> SUFFICES ASSUME NearEarth PROVE Spec => [](pair # "SP6" => OneEpisode)
  OBVIOUS
<1>1. (pair # "SP6" => PairInv /\ ShownInv) => (pair # "SP6" => OneEpisode)
  BY DroppedOfArms, OneEpisodeOfArms
<1>2. Spec => [](pair # "SP6" => PairInv /\ ShownInv)
  BY ShownInvariance
<1> QED BY <1>1, <1>2, PTL

\* SP-4: no later observation overtakes the one that the outage of the link holds, and the
\* ground sees it after the same delay as the one that the attacker holds.
THEOREM HeldShowsAlike ==
  NearEarth /\ HoldEnds => (Spec => [](pair # "SP6" => HeldFramesShowAlike))
<1>1. HoldEnds /\ PairInv /\ ShownInv => HeldFramesShowAlike
  BY HeldOfArms
<1>2. HoldEnds => ((pair # "SP6" => PairInv /\ ShownInv) => (pair # "SP6" => HeldFramesShowAlike))
  BY <1>1
<1> SUFFICES ASSUME NearEarth, HoldEnds PROVE Spec => [](pair # "SP6" => HeldFramesShowAlike)
  OBVIOUS
<1>3. (pair # "SP6" => PairInv /\ ShownInv) => (pair # "SP6" => HeldFramesShowAlike)
  BY <1>2
<1>4. Spec => [](pair # "SP6" => PairInv /\ ShownInv)
  BY ShownInvariance
<1> QED BY <1>3, <1>4, PTL

\* SP-1 and SP-5: the first odd observation of a valid pair is the target in both arms, and
\* where the link dropped the target nothing of the attack is odd, nor of the fault of SP-1.
THEOREM FirstShown == NearEarth => (Spec => [](pair # "SP2" => FirstOddMatches))
<1> SUFFICES ASSUME NearEarth PROVE Spec => [](pair # "SP2" => FirstOddMatches)
  OBVIOUS
<1>1. (pair # "SP6" => PairInv /\ ShownInv) => (pair # "SP2" => FirstOddMatches)
  <2>1. CASE pair = "SP6"
    BY <2>1 DEF FirstOddMatches
  <2>2. CASE pair # "SP6"
    BY <2>2, FirstOddOfArms
  <2> QED BY <2>1, <2>2
<1>2. Spec => [](pair # "SP6" => PairInv /\ ShownInv)
  BY ShownInvariance
<1> QED BY <1>1, <1>2, PTL

\* In a valid pair of SP-1, SP-2, SP-3 or SP-5 the ground gets the same frames at the same
\* instants in both arms.
THEOREM SeenAlike == NearEarth => (Spec => []GroundSeesAlike)
<1> SUFFICES ASSUME NearEarth PROVE Spec => []GroundSeesAlike
  OBVIOUS
<1>1. (pair # "SP6" => PairInv /\ ShownInv) => GroundSeesAlike
  <2>1. CASE pair = "SP6"
    BY <2>1 DEF GroundSeesAlike
  <2>2. CASE pair # "SP6"
    BY <2>2, GroundOfArms
  <2> QED BY <2>1, <2>2
<1>2. Spec => [](pair # "SP6" => PairInv /\ ShownInv)
  BY ShownInvariance
<1> QED BY <1>1, <1>2, PTL

\* In a valid pair of SP-2 exactly the observations after the target are odd, in both arms.
THEOREM EclipseAlike == NearEarth /\ ShortWay => (Spec => []EclipseShowsAlike)
<1> SUFFICES ASSUME NearEarth, ShortWay PROVE Spec => []EclipseShowsAlike
  OBVIOUS
<1>1. (pair # "SP6" => PairInv /\ ShownInv) => EclipseShowsAlike
  <2>1. CASE pair = "SP6"
    BY <2>1 DEF EclipseShowsAlike
  <2>2. CASE pair # "SP6"
    BY <2>2, EclipseOfArms
  <2> QED BY <2>1, <2>2
<1>2. Spec => [](pair # "SP6" => PairInv /\ ShownInv)
  BY ShownInvariance
<1> QED BY <1>1, <1>2, PTL

=============================================================================
