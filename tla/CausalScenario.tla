--------------------------- MODULE CausalScenario ---------------------------
(***************************************************************************)
(* The controller of one causal run (CausalScenario.cc): which observation *)
(* of the run is the target, when the episode opens and closes, and which  *)
(* truth rows are written.  It keeps no secret from the arms: its state is *)
(* a record, and each of its methods is an operator from the state before  *)
(* to the state after.                                                     *)
(*                                                                         *)
(* Times are integers and -1 stands for "not yet", as in the code.         *)
(***************************************************************************)
EXTENDS Integers, Sequences, FiniteSets, FiniteSetsExt

CONSTANTS Interval,       \* telemetryInterval
          MinContact,     \* sp2MinContactDuration
          DelayTarget,    \* delayTarget, SP-4
          EclipseSteps,   \* eclipseSteps, SP-2
          ModeDuration,   \* the 3600 s of SP-3's end rule
          ReplayWindow    \* replayWindowObservations, SP-6

ASSUME ScenarioAssumption ==
  /\ Interval \in Nat \ {0}
  /\ {MinContact, DelayTarget, EclipseSteps, ModeDuration, ReplayWindow} \subseteq Nat

VARIABLES pair,          \* one of Pair, the same in both arms
          robustness,    \* the robustness arm of the cell, or none
          passes,        \* the contacts of the run, a set of [start, end]
          schedule,      \* the passes computed before it, likewise
          onsetOffset    \* onsetOffsetS of the pair

scheduleVars == <<pair, robustness, passes, schedule, onsetOffset>>

Pair == {"SP1", "SP2", "SP3", "SP4", "SP5", "SP6"}
RobustnessArm == {"RB-model-mismatch", "RB-sensor-error", "RB-third-cause"}
RowKind == {"episode.begin", "intervention", "episode.end"}

\* The sky is the set of sampling instants at which the satellite stands above the
\* elevation mask.
Rises(sky, horizon) == {t \in 0..horizon : t \in sky /\ t - 1 \notin sky}

\* buildPassSchedule: a pass of the schedule ends with the last step in view, or
\* with the horizon.
PassSchedule(sky, horizon) ==
  {[start |-> s, end |-> Min({t \in s..horizon : t + 1 \notin sky \/ t = horizon})] :
     s \in Rises(sky, horizon)}

\* sample: a contact ends with the first sample out of view, one step later.
Contacts(sky, horizon) ==
  {[start |-> s,
    end |-> Min({t \in (s + 1)..(horizon + 1) : t \notin sky \/ t = horizon + 1})] :
     s \in Rises(sky, horizon)}

\* The sample of an instant comes after the telemetry timer of that instant, which
\* was set an interval ago, and before every message that is on its way then.  So the
\* timer does not see the contact that begins now and still sees the one that ends
\* now, and for a message it is the other way round.
InPass(p, t) == p.start < t /\ t <= p.end
Visible(t) == \E p \in passes : InPass(p, t)
CurrentPassStart(t) ==
  IF Visible(t) THEN (CHOOSE p \in passes : InPass(p, t)).start ELSE -1

Sampled(p, t) == p.start <= t /\ t < p.end
InView(t) == \E p \in passes : Sampled(p, t)
PassStartOfMessage(t) ==
  IF InView(t) THEN (CHOOSE p \in passes : Sampled(p, t)).start ELSE -1

Fresh ==
  [firstPassStart |-> -1, onsetTime |-> -1, targetSeq |-> -1, targetSendTime |-> -1,
   anchorSeq |-> -1, targetContactStart |-> -1, contactFrameIndex |-> -1,
   plannedEnd |-> -1, episodeOpen |-> FALSE, episodeEndTime |-> -1,
   truth |-> << >>, thrown |-> FALSE]

Row(c, kind, cause, t) ==
  [c EXCEPT !.truth = Append(@, [kind |-> kind, cause |-> cause, at |-> t])]
Caused(c) == {c.truth[k].cause : k \in DOMAIN c.truth}
InterventionEmitted(c) == Caused(c) \cap {"attack", "fault"} # {}

\* The onset clock starts with the first contact, for SP-2 with the first one of
\* the precomputed schedule that lasts long enough.
Qualifying == {p.start : p \in {q \in schedule : q.end - q.start >= MinContact}}

StartsClock(c, t) ==
  LET start == IF pair = "SP2"
               THEN IF Qualifying = {} THEN -1 ELSE Min(Qualifying)
               ELSE CurrentPassStart(t)
  IN  IF c.firstPassStart >= 0 \/ start < 0 THEN c
      ELSE [c EXCEPT !.firstPassStart = start, !.onsetTime = start + onsetOffset]

\* offerTelemetryTarget: the first observation in view at or past the onset; for
\* SP-5 the one offered after it; SP-6 selects on the downlink.
OfferTelemetryTarget(c, seq, t) ==
  LET d == StartsClock(c, t)
  IN  IF d.firstPassStart < 0 \/ d.targetSeq >= 0 \/ t < d.onsetTime \/ pair = "SP6" THEN d
      ELSE IF pair = "SP5" /\ d.anchorSeq < 0 THEN [d EXCEPT !.anchorSeq = seq]
      ELSE [d EXCEPT !.targetSeq = seq, !.targetSendTime = t,
                     !.targetContactStart = CurrentPassStart(t)]

DeclaredEnd(c, t) ==
  LET anchor == IF c.targetSendTime >= 0 THEN c.targetSendTime ELSE t
  IN  anchor + (CASE pair \in {"SP1", "SP5"} -> Interval
                  [] pair = "SP2" -> Interval * EclipseSteps
                  [] pair = "SP3" -> ModeDuration
                  [] pair = "SP4" -> DelayTarget + Interval
                  [] pair = "SP6" -> Interval * ReplayWindow)

\* tickEpisode: opens the episode at the start of the target's contact, closes
\* it at the planned end.
EpisodeStart(c, start) ==
  IF c.targetContactStart >= 0 THEN c.targetContactStart ELSE start

Scheduled(c) == InterventionEmitted(c) \/ c.targetSeq >= 0 \/ c.targetContactStart >= 0

TickIn(c, t, start) ==
  IF ~c.episodeOpen /\ c.episodeEndTime < 0
  THEN IF Scheduled(c) /\ EpisodeStart(c, start) >= 0
       THEN Row([c EXCEPT !.plannedEnd = DeclaredEnd(c, t), !.episodeOpen = TRUE],
                "episode.begin", "none", EpisodeStart(c, start))
       ELSE c
  ELSE IF c.episodeOpen /\ t >= c.plannedEnd
  THEN Row([c EXCEPT !.episodeOpen = FALSE, !.episodeEndTime = t], "episode.end", "none", t)
  ELSE c

TickEpisode(c, t) == TickIn(c, t, CurrentPassStart(t))

\* noteContactFrame (SP-6): counts the frames of the first contact that delivers
\* one; the index noted is -1 for a frame of another contact.
NoteContactFrame(c, t) ==
  LET start == PassStartOfMessage(t)
      begun == IF c.firstPassStart >= 0 THEN c
               ELSE [c EXCEPT !.firstPassStart = start, !.onsetTime = start + onsetOffset]
      d == IF c.contactFrameIndex < 0
           THEN TickIn([begun EXCEPT !.targetContactStart = start, !.contactFrameIndex = 0],
                       t, start)
           ELSE begun
  IN  IF start = d.targetContactStart THEN [d EXCEPT !.contactFrameIndex = @ + 1] ELSE d

FrameIndex(c, t) ==
  LET d == NoteContactFrame(c, t)
      before == IF c.contactFrameIndex < 0 THEN 0 ELSE c.contactFrameIndex
  IN  IF d.contactFrameIndex = before THEN -1 ELSE before

SetTarget(c, seq, sent) ==
  IF c.targetSeq < 0 THEN [c EXCEPT !.targetSeq = seq, !.targetSendTime = sent] ELSE c

\* recordIntervention: a second one in a run is an error that ends it.
RecordIntervention(c, cause, t) ==
  IF InterventionEmitted(c) THEN [c EXCEPT !.thrown = TRUE]
  ELSE Row(c, "intervention", cause, t)

\* recordThirdCause: beside the intervention of the arm, not instead of it.
RecordThirdCause(c, t) ==
  IF robustness # "RB-third-cause" \/ "third_cause" \in Caused(c) THEN c
  ELSE Row(c, "intervention", "third_cause", t)

\* finish: a run without its intervention, or with its episode open, is a failed
\* run.
Outcome(c) ==
  IF c.thrown \/ ~InterventionEmitted(c) \/ c.episodeOpen THEN "failed" ELSE "ok"

=============================================================================
