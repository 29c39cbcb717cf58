----------------------------- MODULE CausalPair -----------------------------
(***************************************************************************)
(* A matched pair of causal runs: the attack arm and the fault arm of one  *)
(* pair and one seed, under the same passes, delays and onset.  Each arm   *)
(* composes the controller (CausalScenario) with the three places where an *)
(* intervention acts: the satellite, which also offers the targets, the    *)
(* space link, and the on-path attacker between the link and the ground.   *)
(* The two runs share nothing: they are put side by side so that what must *)
(* not differ between them can be stated.                                  *)
(***************************************************************************)
EXTENDS CausalScenario

CONSTANTS Transits,       \* propagation and transmission, in ticks
          Horizon,        \* the end of the runs
          Pairs,          \* the pairs run
          Skies,          \* when the satellite is in view, as tried
          OnsetOffsets,   \* the onset offsets tried
          RobustnessArms  \* the robustness arms run

ASSUME PairAssumption ==
  /\ Transits \subseteq Nat \ {0}
  /\ Horizon \in Nat /\ Skies \subseteq SUBSET (0..Horizon)
  /\ Pairs \subseteq Pair /\ RobustnessArms \subseteq RobustnessArm
  /\ OnsetOffsets \subseteq Nat

Arm == {"attack", "fault"}

VARIABLES transit, \* the transit of even and of odd telemetry intervals
          ready,   \* SP-2: there is voltage headroom; SP-5: a command was accepted
          now,
          sent,    \* telemetrySeq, the same in both arms
          run      \* the state of each arm

vars == <<scheduleVars, transit, ready, now, sent, run>>
fixedVars == <<scheduleVars, transit, ready>>

NoFrame == [seq |-> 0, odd |-> FALSE]

StartOfRun ==
  [ctl |-> Fresh, air |-> {}, ground |-> << >>, shifted |-> FALSE, gapEnd |-> -1,
   held |-> NoFrame, captured |-> NoFrame, hostileSent |-> FALSE, outcome |-> "running"]

\* inventory.py: every pair is run once as it is and once under each robustness
\* arm, with both arms each time.
Cell == (Pairs \X {"none"}) \cup (Pairs \X RobustnessArms)

\* Both arms of a pair get the same configuration; SP-5 alone needs the freshness
\* check (runcell.py).
CommandAuth == pair = "SP5"

Init ==
  /\ \E cell \in Cell : pair = cell[1] /\ robustness = cell[2]
  /\ \E sky \in Skies : passes = Contacts(sky, Horizon) /\ schedule = PassSchedule(sky, Horizon)
  /\ onsetOffset \in OnsetOffsets
  /\ transit \in [{0, 1} -> Transits] /\ ready \in BOOLEAN
  /\ now = 0 /\ sent = 0
  /\ run = [a \in Arm |-> StartOfRun]

\* Two copies of one item are two frames only when their times differ, which
\* the one millisecond of SP-6 ensures.
Fly(r, what, seq, odd, at) ==
  [r EXCEPT !.air = @ \union {[what |-> what, seq |-> seq, odd |-> odd, at |-> at]}]

IsTarget(r, seq) == r.ctl.targetSeq = seq

-----------------------------------------------------------------------------
(* The satellite: CubeSat.cc                                               *)

Throw(r) == [r EXCEPT !.ctl.thrown = TRUE]
WithRow(a, r) == [r EXCEPT !.ctl = RecordIntervention(@, a, now)]
Shift(r) == [r EXCEPT !.shifted = TRUE]

\* SP-2: the gate on the voltage onboard, before the intervention.
HasVoltageHeadroom == ready

\* SP-5: an already accepted command is delivered again, which the freshness check
\* rejects; without the check or the command the run ends with an error.
LedgerFault(a, r) == IF CommandAuth /\ ready THEN WithRow(a, Shift(r)) ELSE Throw(r)

\* The onboard mechanism of a target that was just selected.
Mechanism(a, r) ==
  CASE pair \in {"SP1", "SP4"} -> WithRow(a, r)
    [] pair = "SP2" -> IF a = "fault" /\ HasVoltageHeadroom THEN WithRow(a, Shift(r)) ELSE r
    [] pair = "SP3" -> IF a = "fault" THEN WithRow(a, Shift(r)) ELSE r
    [] pair = "SP5" -> IF a = "attack" THEN WithRow(a, r) ELSE LedgerFault(a, r)

\* The state jump of a third cause shows in both arms alike, and whether or not the
\* mechanism of the arm was applied; an error comes before it.
ThirdCause(r) ==
  IF r.ctl.thrown THEN r ELSE [r EXCEPT !.ctl = RecordThirdCause(@, now)]

\* Fault: the mechanism acts before the episode is opened.
ConsiderUnopened(a, r, seq) ==
  LET offered == [r EXCEPT !.ctl = OfferTelemetryTarget(@, seq, now)]
  IN  IF ~Visible(now) THEN r
      ELSE IF offered.ctl.targetSeq = r.ctl.targetSeq THEN offered
      ELSE ThirdCause(Mechanism(a, offered))

\* considerCausalTarget, called for a frame that can be sent.
Consider(a, r, seq) ==
  LET offered == [r EXCEPT !.ctl = OfferTelemetryTarget(@, seq, now)]
  IN  IF ~Visible(now) THEN r
      ELSE IF offered.ctl.targetSeq = r.ctl.targetSeq THEN offered
      ELSE ThirdCause(Mechanism(a, [offered EXCEPT !.ctl = TickEpisode(@, now)]))

\* Fault: the power step comes after the telemetry is generated.
FrameOddLateStep(a, before, after, seq) ==
  CASE pair = "SP1" -> a = "fault" /\ IsTarget(after, seq)
    [] pair \in {"SP2", "SP3", "SP5"} -> after.shifted
    [] OTHER -> FALSE

\* What generateTelemetry puts in the frame.  The power step of the tick comes
\* before it, so that a charge rate written at this tick shows one tick later;
\* the mode and the counter are read after the mechanism acted.
FrameOdd(a, before, after, seq) ==
  CASE pair = "SP1" -> a = "fault" /\ IsTarget(after, seq)
    [] pair = "SP2" -> before.shifted
    [] pair \in {"SP3", "SP5"} -> after.shifted
    [] OTHER -> FALSE

\* handleTelecommand for the hostile command, which is not signed: where it is
\* accepted the row is written then.
AcceptHostile(r) == IF CommandAuth THEN r ELSE WithRow("attack", Shift(r))

-----------------------------------------------------------------------------
(* The space link: SpaceLink.cc                                            *)

Forward(r, f, d) == Fly(r, "frame", f.seq, f.odd, now + d)

\* Fault: an outage that is open at its end.
GapOpenHalf(r) == r.gapEnd >= 0 /\ now < r.gapEnd

\* The outage is closed: a frame of its last instant is still inside.
GapOpen(r) == r.gapEnd >= 0 /\ now <= r.gapEnd

\* causalCoverageGap: the target is held for the outage it opens, on top of its
\* own transit, and the frames of the outage are lost.
CausalCoverageGap(r, f, d) ==
  IF GapOpen(r) THEN r
  ELSE IF IsTarget(r, f.seq)
  THEN [Forward(r, f, d + DelayTarget) EXCEPT !.gapEnd = now + DelayTarget]
  ELSE Forward(r, f, d)

\* The third frame goes through, and the held one strictly after it.
Release(r, f, d) ==
  [Fly(Forward(r, f, d), "frame", r.held.seq, r.held.odd, now + d + 1) EXCEPT !.held = NoFrame]

ReorderReleaseAfter == 2

CausalReorder(r, f, d) ==
  LET index == FrameIndex(r.ctl, now)
      counted == [r EXCEPT !.ctl = NoteContactFrame(@, now)]
  IN  IF index = 0
      THEN [counted EXCEPT !.held = [seq |-> f.seq, odd |-> f.odd],
                           !.ctl = RecordIntervention(SetTarget(@, f.seq, now), "fault", now)]
      ELSE IF index = ReorderReleaseAfter /\ r.held # NoFrame THEN Release(counted, f, d)
      ELSE Forward(counted, f, d)

LinkDown(a, r, f, d) ==
  IF ~InView(now) THEN r
  ELSE IF a = "fault" /\ pair = "SP4" THEN CausalCoverageGap(r, f, d)
  ELSE IF a = "fault" /\ pair = "SP6" THEN CausalReorder(r, f, d)
  ELSE Forward(r, f, d)

LinkUp(r, d) == IF InView(now) THEN Fly(r, "hostile", 0, FALSE, now + d) ELSE r

-----------------------------------------------------------------------------
(* The attacker: OnPathAttacker.cc, idle in the fault arm                  *)

Deliver(r, seq, odd) == [r EXCEPT !.ground = Append(@, [seq |-> seq, odd |-> odd, at |-> now])]

\* The captured frame goes out once more, strictly after the second one.
ReplayCapturedTelemetry(r, sentAt) ==
  Fly([r EXCEPT !.ctl = RecordIntervention(SetTarget(@, r.captured.seq, sentAt), "attack", now)],
      "late", r.captured.seq, r.captured.odd, now + 1)

\* Fault: the second frame of the contact is captured.
CaptureIndexOne == 1
CaptureIndex == 0

Capture(r, f) ==
  LET index == FrameIndex(r.ctl, now)
      counted == [r EXCEPT !.ctl = NoteContactFrame(@, now)]
      kept == IF index = CaptureIndex
              THEN [counted EXCEPT !.captured = [seq |-> f.seq, odd |-> f.odd]] ELSE counted
      passed == Deliver(kept, f.seq, f.odd)
  IN  IF index = 1 /\ kept.captured # NoFrame
      THEN ReplayCapturedTelemetry(passed, Interval * kept.captured.seq)
      ELSE passed

OnPath(a, r, f, d) ==
  IF a = "fault" THEN Deliver(r, f.seq, f.odd)
  ELSE CASE pair \in {"SP1", "SP5"} -> Deliver(r, f.seq, f.odd \/ IsTarget(r, f.seq))
         [] pair \in {"SP2", "SP3"} ->
              IF IsTarget(r, f.seq) /\ ~r.hostileSent
              THEN Deliver(LinkUp([r EXCEPT !.hostileSent = TRUE], d), f.seq, f.odd)
              ELSE Deliver(r, f.seq, f.odd)
         [] pair = "SP4" ->
              IF IsTarget(r, f.seq) THEN Fly(r, "late", f.seq, f.odd, now + DelayTarget)
              ELSE Deliver(r, f.seq, f.odd)
         [] pair = "SP6" -> Capture(r, f)

-----------------------------------------------------------------------------
(* One run, one step                                                       *)

\* The slant range changes during a contact, and is the same in both arms.
Delay == transit[(now \div Interval) % 2]

Going(r) == r.outcome = "running" /\ ~r.ctl.thrown

\* A telemetry tick of one arm: the satellite, then the episode clock, which brings
\* the third cause of SP-6, then the link, which is reached by an event of its own at
\* the same instant.  Out of view nothing is sent.
TelemetryOf(a, r, seq, d) ==
  LET considered == Consider(a, r, seq)
      ticked == [considered EXCEPT !.ctl = TickEpisode(@, now)]
      after == IF ticked.ctl.episodeOpen THEN ThirdCause(ticked) ELSE ticked
      frame == [seq |-> seq, odd |-> FrameOdd(a, r, considered, seq)]
  IN  IF ~Going(r) THEN r
      ELSE IF considered.ctl.thrown THEN considered
      ELSE IF ~Visible(now) THEN after
      ELSE LinkDown(a, after, frame, d)

Telemetry ==
  /\ now % Interval = 0 /\ sent < now \div Interval
  /\ sent' = sent + 1
  /\ run' = [a \in Arm |-> TelemetryOf(a, run[a], sent + 1, Delay)]
  /\ UNCHANGED <<fixedVars, now>>

Due(a) == {i \in run[a].air : i.at <= now}

\* An item leaves the air when its event is executed.
Landed(r, i) == [r EXCEPT !.air = @ \ {i}]

ArriveAtAttacker(a) ==
  \E i \in Due(a) :
     /\ Going(run[a]) /\ i.what = "frame"
     /\ run' = [run EXCEPT ![a] = OnPath(a, Landed(@, i), i, Delay)]
     /\ UNCHANGED <<fixedVars, now, sent>>

ArriveAtGround(a) ==
  \E i \in Due(a) :
     /\ Going(run[a]) /\ i.what = "late"
     /\ run' = [run EXCEPT ![a] = Deliver(Landed(@, i), i.seq, i.odd)]
     /\ UNCHANGED <<fixedVars, now, sent>>

ArriveAtSatellite(a) ==
  \E i \in Due(a) :
     /\ Going(run[a]) /\ i.what = "hostile"
     /\ run' = [run EXCEPT ![a] = AcceptHostile(Landed(@, i))]
     /\ UNCHANGED <<fixedVars, now, sent>>

TelemetryDone == sent = now \div Interval
AllDelivered == \A a \in Arm : Going(run[a]) => Due(a) = {}

Tick ==
  /\ now < Horizon /\ TelemetryDone /\ AllDelivered
  /\ now' = now + 1
  /\ UNCHANGED <<fixedVars, sent, run>>

Finish(a) ==
  /\ now = Horizon /\ TelemetryDone /\ AllDelivered
  /\ run[a].outcome = "running"
  /\ run' = [run EXCEPT ![a].outcome = Outcome(run[a].ctl)]
  /\ UNCHANGED <<fixedVars, now, sent>>

Next ==
  \/ Telemetry
  \/ Tick
  \/ \E a \in Arm : ArriveAtAttacker(a) \/ ArriveAtGround(a) \/ ArriveAtSatellite(a) \/ Finish(a)

Spec == Init /\ [][Next]_vars
-----------------------------------------------------------------------------
(* What the pair promises                                                  *)

Rows(a) == run[a].ctl.truth
Target(a) == run[a].ctl.targetSeq
Valid(a) == run[a].outcome = "ok"
ValidPair == \A a \in Arm : Valid(a)

RowAt(a, kind) == Rows(a)[CHOOSE k \in DOMAIN Rows(a) : Rows(a)[k].kind = kind].at
Deliveries(a, seq) == {k \in DOMAIN run[a].ground : run[a].ground[k].seq = seq}
DeliveredAt(a, seq) == {run[a].ground[k].at : k \in Deliveries(a, seq)}
OddSeqs(a) == {run[a].ground[k].seq : k \in {j \in DOMAIN run[a].ground : run[a].ground[j].odd}}

\* The target is chosen before the sample of its instant and sent after it: at the
\* last instant of a contact it is dropped by the link.
Crosses(a) == InView(run[a].ctl.targetSendTime)

-----------------------------------------------------------------------------
(* What the pilot reads of a run: episodes.py                              *)

Of(a, kind) == {Rows(a)[k] : k \in {j \in DOMAIN Rows(a) : Rows(a)[j].kind = kind}}

\* The first pass that ends at or after the end of the episode, if one does.
PassEnds == {p.end : p \in passes}
analysis_cutoff(end) ==
  {t \in PassEnds : end <= t /\ \A u \in PassEnds : end <= u => t <= u}

derive_truth_cause(causes) ==
  IF "third_cause" \in causes THEN "third_cause"
  ELSE IF {"attack", "fault"} \subseteq causes THEN "compound"
  ELSE CHOOSE cause \in causes : TRUE

InsideWindow(a, begin, end) ==
  \A row \in Of(a, "intervention") : begin.at <= row.at /\ row.at <= end.at

\* The record of the episode, or none: the reader stops at anything that is not one
\* begin, one end, an intervention between them and a contact that closes.
build_episode(a) ==
  LET begins == Of(a, "episode.begin")
      ends == Of(a, "episode.end")
      causes == {row.cause : row \in Of(a, "intervention")}
  IN  IF Cardinality(begins) # 1 \/ Cardinality(ends) # 1 \/ causes = {} THEN {}
      ELSE UNION {{[begin |-> b.at, end |-> e.at, cutoff |-> t,
                    cause |-> derive_truth_cause(causes)] :
                     t \in analysis_cutoff(e.at)} :
                    b \in begins, e \in {x \in ends : \A y \in begins : InsideWindow(a, y, x)}}

Unlabelled(a) == {[e EXCEPT !.cause = "either"] : e \in build_episode(a)}

-----------------------------------------------------------------------------

\* The truth of a run is one episode, written in the order a reader needs it:
\* nothing before its begin row, nothing after its end row, times in order.  In a
\* valid run the intervention lies between the two, the ground has the target
\* before the episode ends or, where the contact ended at the instant of the target,
\* never, and the pilot reads the cause that was injected.  With a third cause that
\* is the cause it reads, of a run that ended without its intervention too; without
\* one such a run is read as an episode only after an error.
OneEpisode ==
  \A a \in Arm :
    /\ \A k \in DOMAIN Rows(a) :
         /\ (Rows(a)[k].kind = "episode.begin") <=> (k = 1)
         /\ Rows(a)[k].kind = "episode.end" => k = Len(Rows(a))
         /\ k > 1 => Rows(a)[k - 1].at <= Rows(a)[k].at
    /\ Valid(a) =>
         /\ Cardinality({k \in DOMAIN Rows(a) : Rows(a)[k].cause = a}) = 1
         /\ IF Crosses(a)
            THEN \E t \in DeliveredAt(a, Target(a)) :
                    RowAt(a, "episode.begin") <= t /\ t <= RowAt(a, "episode.end")
            ELSE Deliveries(a, Target(a)) = {}
         /\ analysis_cutoff(RowAt(a, "episode.end")) # {} => build_episode(a) # {}
    /\ \A e \in build_episode(a) :
         IF robustness = "RB-third-cause" THEN e.cause = "third_cause"
         ELSE e.cause = a /\ (run[a].outcome = "failed" => run[a].ctl.thrown)

\* Both arms act on the same observation of the same contact; and in a valid pair
\* the window of the episode, and the cutoff of its evidence, are functions of the
\* schedule and not of the arm.
ArmsShareTarget ==
  /\ (\A a \in Arm : Target(a) >= 0) =>
       /\ Target("attack") = Target("fault")
       /\ run["attack"].ctl.targetContactStart = run["fault"].ctl.targetContactStart
  /\ ValidPair /\ pair # "SP6" =>
       /\ \A kind \in {"episode.begin", "episode.end"} :
            RowAt("attack", kind) = RowAt("fault", kind)
       /\ Unlabelled("attack") = Unlabelled("fault")

\* SP-1, SP-2, SP-5: the first observation that shows the intervention is the
\* same in both arms, though one arm writes it on board and the other on the way.  A
\* target that the link drops shows nothing of the attack, though its run is valid,
\* and nothing of the fault of SP-1; the counter that SP-5's fault moved stays moved.
FirstOddMatches ==
  ValidPair /\ pair \in {"SP1", "SP2", "SP5"} =>
     IF Crosses("attack")
     THEN /\ \A a \in Arm : OddSeqs(a) # {}
          /\ Min(OddSeqs("attack")) = Min(OddSeqs("fault"))
     ELSE /\ OddSeqs("attack") = {}
          /\ pair = "SP1" => OddSeqs("fault") = {}

\* What a hold shows at the ground.  SP-4: in the fault arm no later observation
\* arrives before the one that is held, if the link got it, and the delay the ground
\* sees is the same number in both arms.  SP-6: in both arms the third delivery regresses, because of
\* a frame seen twice in the attack arm and of one never seen before in the other.
HeldFramesShowAlike ==
  /\ pair = "SP4" =>
       /\ \A k \in DOMAIN run["fault"].ground :
            Target("fault") >= 0 /\ Crosses("fault")
              /\ run["fault"].ground[k].seq > Target("fault") =>
               \E j \in Deliveries("fault", Target("fault")) : j < k
       /\ (\A a \in Arm : Target(a) >= 0 /\ Deliveries(a, Target(a)) # {}) =>
            DeliveredAt("attack", Target("attack")) = DeliveredAt("fault", Target("fault"))
  /\ pair = "SP6" =>
       \A a \in Arm : Valid(a) =>
          LET g == run[a].ground
          IN  /\ Len(g) >= 3 /\ g[3].seq < g[2].seq
              /\ (g[3].seq \in {g[1].seq, g[2].seq}) <=> (a = "attack")
=============================================================================
