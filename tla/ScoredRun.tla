----------------------------- MODULE ScoredRun -----------------------------
(***************************************************************************)
(* One run of an attacked uplink, and the scorer that reads its two files  *)
(* afterwards (analysis/scoring/matching.py, state.py, families.py).  The  *)
(* files are events, in which the satellite records the outcome of every   *)
(* command and the ground every packet of telemetry (here observed), and   *)
(* truth, in which the relay records every hostile action.  A row of       *)
(* events also holds what the scorer cannot see: the action that the       *)
(* command came from, and the value it wrote.                              *)
(***************************************************************************)
EXTENDS Integers, Sequences, FiniteSets, FiniteSetsExt, SequencesExt

CONSTANTS Scenarios,        \* a subset of {"A1", "A2", "A2v", "A3"}
          Levels,           \* the values a ground command may write (5 in the code)
          ParamDelta,       \* what A1 and A2v add to a value
          ForgedBase, ForgedValue,
          CommandInterval, InjectionInterval, TelemetryInterval,
          AddedDelays,      \* A1: the time a tampered command is held
          Transit,          \* from the link to the satellite
          Period,           \* from the start of a contact to that of the next
          PassEnds,         \* from when on the link drops every frame of a contact
          Starts, Spans,    \* start and span of the episode of an attacked contact
          Horizon

ASSUME RunAssumption ==
  /\ Scenarios \subseteq {"A1", "A2", "A2v", "A3"}
  /\ {Levels, CommandInterval, TelemetryInterval, Period} \subseteq Nat \ {0}
  /\ {Transit, Horizon, ForgedBase, ForgedValue, ParamDelta} \subseteq Nat
  /\ InjectionInterval \in Nat /\ Transit < InjectionInterval
  /\ AddedDelays \subseteq Nat
  /\ Starts \subseteq Nat /\ Spans \subseteq Nat /\ PassEnds \subseteq Nat

\* A transit is a real number of its own: no outcome is logged in the very
\* instant of an action or of a sample of telemetry.
ASSUME TransitAssumption ==
  /\ Transit % 2 = 1
  /\ \A t \in AddedDelays \cup Starts \cup {CommandInterval, InjectionInterval,
                                       TelemetryInterval, Period} : t % 2 = 0

\* The ground, which numbers its commands from 1, never gets to the numbers that
\* the relay gives to the commands it makes up.
ASSUME NumbersAssumption == Horizon < ForgedBase * CommandInterval

VARIABLES now,
          setting,    \* scenario, commandAuthEnabled, the contacts and the episodes
          nextCommand, sent, \* the ground's timer and the commands it has sent
          timer,      \* when the relay acts next, -1 when nothing is scheduled
          captured,   \* A3: the captured command, a sequence of at most one
          flight,     \* commands between the relay and the satellite
          lastAccepted, gain,
          nextTelemetry, downlink,  \* the satellite's timer, packets on their way
          observed,   \* tm.recv rows, with the verdict of the twin on each
          events, truth,
          raced       \* a command was replayed while it was itself in flight

ground == <<nextCommand, sent>>
relay == <<timer, captured>>
satellite == <<lastAccepted, gain>>
telemetry == <<nextTelemetry, downlink, observed>>
vars == <<now, setting, ground, relay, flight, satellite, telemetry, events, truth, raced>>

Unset == -1
Never == Horizon + 1

(* state.py: the value law the scorer rebuilds the parameter from *)
written_value(id) == id % Levels

Visible(t) == t % Period < setting.passEnd

Attacked(t) == t \div Period \in setting.attacked
Active == /\ Attacked(now)
          /\ setting.start <= now % Period /\ now % Period < setting.stop

(* What begins and ends an episode does to the injection timer             *)
TimerAt(t) ==
  CASE t % Period = setting.start /\ Attacked(t) /\ setting.scenario \in {"A2", "A3"}
         -> t + InjectionInterval
    [] t % Period = setting.stop -> Unset
    [] OTHER -> timer

Init ==
  /\ now = 0
  /\ setting \in {[scenario |-> s, auth |-> d, attacked |-> c, start |-> b, stop |-> b + n,
                   passEnd |-> p] :
                    s \in Scenarios, d \in BOOLEAN, c \in {{0}, {1}, {0, 1}},
                    b \in Starts, n \in Spans, p \in PassEnds}
  /\ nextCommand = 0 /\ sent = 0
  /\ timer = Unset
  /\ captured = << >>
  /\ flight = {}
  /\ lastAccepted = 0 /\ gain = Unset
  /\ nextTelemetry = TelemetryInterval
  /\ downlink = << >> /\ observed = << >>
  /\ events = << >> /\ truth = << >>
  /\ raced = FALSE

(***************************************************************************)
(* The run.                                                                *)
(***************************************************************************)

(* A command that reaches the link after delay, and that it drops when the *)
(* satellite is out of sight by then                                       *)
Forward(tc, delay) ==
  flight' = IF Visible(now + delay)
            THEN flight \cup {[tc EXCEPT !.due = now + delay + Transit]}
            ELSE flight

rejectedCmdCount == Cardinality({r \in DOMAIN events : ~events[r].accepted})

(* The twin holds the count of the last packet it saw, 0 before the first  *)
expectedRejectedCount == IF observed = << >> THEN 0 ELSE Last(observed).rej

Act(id) == truth' = Append(truth, [t |-> now, id |-> id])

GroundCommand ==
  LET id == sent + 1
  IN [id |-> id, seq |-> id, value |-> written_value(id), signed |-> TRUE,
      act |-> 0, due |-> now]

Tamper(tc, resigned) ==
  [tc EXCEPT !.value = @ + ParamDelta, !.signed = resigned, !.act = Len(truth) + 1]

(* The command timer.  Out of contact nothing is sent; in contact the      *)
(* relay handles the command on its way.                                   *)
SendCommand ==
  LET tc == GroundCommand
      s == setting.scenario
  IN /\ now = nextCommand
     /\ nextCommand' = now + CommandInterval
     /\ IF ~Visible(now)
        THEN UNCHANGED <<sent, flight, captured, truth>>
        ELSE /\ sent' = sent + 1
             /\ \/ /\ Forward(tc, 0)
                   /\ captured' = IF s = "A3" /\ Active /\ captured = << >>
                                  THEN <<tc>> ELSE captured
                   /\ UNCHANGED truth
                \/ /\ Active /\ s \in {"A1", "A2v"}
                   /\ \E delay \in IF s = "A1" THEN AddedDelays ELSE {0} :
                        Forward(Tamper(tc, s = "A2v"), delay)
                   /\ Act(tc.id)
                   /\ UNCHANGED captured
     /\ UNCHANGED <<now, setting, timer, satellite, telemetry, events, raced>>

(* What the relay sends on its own: A2 a command it made up, A3 the one it *)
(* captured, if any                                                        *)
Hostile ==
  LET forged == ForgedBase + Len(truth) + 1
  IN IF setting.scenario = "A3" THEN captured
     ELSE <<[GroundCommand EXCEPT !.id = forged, !.seq = forged,
                                  !.value = ForgedValue, !.signed = FALSE]>>

(* The injection timer, which an episode starts and ends                   *)
Interfere ==
  /\ now = timer
  /\ timer' = now + InjectionInterval
  /\ IF Hostile = << >>
     THEN UNCHANGED <<flight, truth, raced>>
     ELSE /\ Forward([Hostile[1] EXCEPT !.act = Len(truth) + 1], 0)
          /\ Act(Hostile[1].id)
          /\ raced' = (raced \/ \E f \in flight : f.id = Hostile[1].id)
  /\ UNCHANGED <<now, setting, ground, captured, satellite, telemetry, events>>

(* D1: the tag, then the sequence number                                   *)
Accepted(tc) == setting.auth => tc.signed /\ tc.seq > lastAccepted

Arrive ==
  \E tc \in flight :
    /\ tc.due = now
    /\ flight' = flight \ {tc}
    /\ events' = Append(events, [t |-> now, id |-> tc.id, accepted |-> Accepted(tc),
                                 act |-> tc.act, wrote |-> tc.value])
    /\ IF Accepted(tc) THEN lastAccepted' = tc.seq /\ gain' = tc.value
                       ELSE UNCHANGED satellite
    /\ UNCHANGED <<now, setting, ground, relay, telemetry, truth, raced>>

(* A sample of the counter of rejections, which only leaves in contact     *)
SendTelemetry ==
  /\ now = nextTelemetry
  /\ nextTelemetry' = now + TelemetryInterval
  /\ downlink' = IF Visible(now)
                 THEN Append(downlink, [src |-> now, rej |-> rejectedCmdCount,
                                        due |-> now + Transit])
                 ELSE downlink
  /\ UNCHANGED <<now, setting, ground, relay, flight, satellite, observed,
                 events, truth, raced>>

(* The ground logs a packet and shows it to the twin, which raises its     *)
(* security alarm on every change of the count and then expects the new one *)
ReceiveTelemetry ==
  /\ downlink # << >> /\ Head(downlink).due = now
  /\ downlink' = Tail(downlink)
  /\ observed' = LET tm == Head(downlink)
                 IN Append(observed, [src |-> tm.src, recv |-> now, rej |-> tm.rej,
                                      alarm |-> tm.rej # expectedRejectedCount])
  /\ UNCHANGED <<now, setting, ground, relay, flight, satellite, nextTelemetry,
                 events, truth, raced>>

Due == \/ now \in {timer, nextCommand, nextTelemetry}
       \/ \E tc \in flight : tc.due = now
       \/ downlink # << >> /\ Head(downlink).due = now

Tick ==
  /\ now < Horizon /\ ~Due
  /\ now' = now + 1
  /\ timer' = TimerAt(now + 1)
  /\ UNCHANGED <<setting, ground, captured, flight, satellite, telemetry, events, truth,
                 raced>>

Next == SendCommand \/ Interfere \/ Arrive \/ SendTelemetry \/ ReceiveTelemetry \/ Tick
Spec == Init /\ [][Next]_vars

(***************************************************************************)
(* matching.py: the outcome that each action is credited with, 0 for none. *)
(***************************************************************************)

Actions == DOMAIN truth

EXACT == \A a, b \in Actions : truth[a].id = truth[b].id => a = b

(* The first of a set of rows, 0 when there is none                        *)
First(rows) == IF rows = {} THEN 0 ELSE Min(rows)

Outcomes(id) == {r \in DOMAIN events : events[r].id = id}

FromAction(a) == {r \in Outcomes(truth[a].id) : events[r].t >= truth[a].t}

ExactHit(a) ==
  LET rows == Outcomes(truth[a].id)
  IN IF Cardinality(rows) = 1 THEN First(rows) ELSE First(FromAction(a))

BoundUnbounded(a) == Never
(* The next action on the same command                                     *)
Bound(a) ==
  LET later == {truth[b].t : b \in {x \in Actions : truth[x].id = truth[a].id
                                                  /\ truth[x].t > truth[a].t}}
  IN IF later = {} THEN Never ELSE Min(later)

MatchUnclaimed(a) == IF EXACT THEN ExactHit(a) ELSE First(FromAction(a))
match(a) ==
  IF EXACT THEN ExactHit(a)
  ELSE LET hit[b \in Actions] ==
             First({r \in FromAction(b) : /\ events[r].t < Bound(b)
                                          /\ \A c \in 1..(b - 1) : hit[c] # r})
       IN hit[a]

outcome(a) ==
  IF match(a) = 0 THEN "none"
  ELSE IF events[match(a)].accepted THEN "accepted" ELSE "rejected"

(***************************************************************************)
(* state.py: what each hostile acceptance did to the parameter.            *)
(***************************************************************************)

AcceptedRows == {r \in DOMAIN events : events[r].accepted}
HostileRows == {match(a) : a \in {x \in Actions : outcome(x) = "accepted"}}

Value(r) == written_value(events[r].id)

(* The row that wrote before r, 0 for the first                            *)
Previous(r) ==
  LET before == {q \in AcceptedRows : q < r} IN IF before = {} THEN 0 ELSE Max(before)

StateChangedSinceHostile(r) ==
  r \in HostileRows /\ \A q \in HostileRows : q < r => Value(q) # Value(r)
StateChanged(r) ==
  r \in HostileRows /\ (Previous(r) = 0 \/ Value(Previous(r)) # Value(r))

(* The later rows that write another value                                 *)
Closer(r) == {q \in AcceptedRows : q > r /\ Value(q) # Value(r)}

Stop(r) == IF Closer(r) = {} THEN Never ELSE events[Min(Closer(r))].t

effect_windows == {[row |-> r, start |-> events[r].t, stop |-> Stop(r)] :
                     r \in {x \in HostileRows : StateChanged(x)}}

(***************************************************************************)
(* families.py: F1, F2, and F4 in a run with D1 and the twin.              *)
(***************************************************************************)

ActionsWith(result) == {a \in Actions : outcome(a) = result}

prevention ==
  [numerator |-> Cardinality(ActionsWith("rejected")),
   accepted |-> Cardinality(ActionsWith("accepted")),
   denominator |-> Cardinality({a \in Actions : match(a) # 0})]

spacecraft_effect(a) ==
  CASE outcome(a) = "none" -> "not_delivered"
    [] outcome(a) = "rejected" -> "prevented"
    [] OTHER -> IF StateChanged(match(a)) THEN "state_changed" ELSE "idempotent"

state_transition ==
  LET count(effect) == Cardinality({a \in Actions : spacecraft_effect(a) = effect})
  IN [numerator |-> count("state_changed"), idempotent |-> count("idempotent")]

(* F4 needs D1, which rejects, and the twin, which sees the count: in this *)
(* model a run has both or neither                                         *)
f4_applicable == setting.auth

RejectionTimes == {events[match(a)].t : a \in ActionsWith("rejected")}

EligibleByReceipt(t) == {i \in DOMAIN observed : observed[i].recv > t}
(* The observations that can hold a rejection at t, by their source time   *)
Eligible(t) == {i \in DOMAIN observed : observed[i].src > t}

(* The count before the first rejection, of which there is none when no    *)
(* telemetry came before it                                                *)
baseline ==
  LET before == {i \in DOMAIN observed : \A t \in RejectionTimes : observed[i].src < t}
  IN IF before = {} THEN Unset ELSE observed[Max(before)].rej

Preceding(o) ==
  Cardinality({a \in ActionsWith("rejected") : events[match(a)].t < o.src})

(* What became of the evidence of a rejection at t                         *)
secondary_reporting(t) ==
  IF Eligible(t) = {} THEN "no_reporting_opportunity"
  ELSE LET o == observed[Min(Eligible(t))]
       IN IF baseline = Unset \/ o.rej # baseline + Preceding(o) THEN "unresolved"
          ELSE IF o.alarm THEN "reported" ELSE "not_reported"

(***************************************************************************)
(* What the scorer says against what happened.                             *)
(***************************************************************************)

Rows == DOMAIN events

(* The outcome of the action's own command                                 *)
Own(a) == First({r \in Rows : events[r].act = a})

(* No action is credited with an outcome logged before it                  *)
NoEarlyCredit == \A a \in Actions : match(a) # 0 => events[match(a)].t >= truth[a].t

Undisturbed == ~raced /\ NoEarlyCredit

(* matching.py: a command replayed over and over, some of its copies lost  *)
(* at the end of the pass, leaves rows that differ by their times alone.   *)
(* When no copy met the original in flight and no outcome older than its   *)
(* action was credited, each action has the outcome of its own command.    *)
MatchIsTrue == Undisturbed => \A a \in Actions : match(a) = Own(a)

(* families.py: what the families say of the same actions adds up, raced   *)
(* or not: every delivery is of an outcome of its own, and every hostile   *)
(* acceptance that F2 counts as a change opens one effect window.          *)
FamiliesAgree ==
  /\ prevention.denominator = Cardinality({match(a) : a \in Actions} \ {0})
  /\ state_transition.numerator + state_transition.idempotent = prevention.accepted
  /\ state_transition.numerator = Cardinality(effect_windows)

(* families.py:331-417: D1 rejects hostile commands alone, and each of its *)
(* rejections is reported by the first packet sampled after it, which is   *)
(* the one the twin alarms on; it stays unresolved only when the first     *)
(* rejection of the run came before any telemetry, and then all of them do. *)
ReportingIsTrue ==
  f4_applicable /\ Undisturbed =>
    \A r \in {x \in Rows : ~events[x].accepted} :
      LET first == events[Min({x \in Rows : ~events[x].accepted})]
          after == {i \in DOMAIN observed : observed[i].src > events[r].t}
      IN /\ events[r].act # 0
         /\ secondary_reporting(events[r].t) =
              IF after = {} THEN "no_reporting_opportunity"
              ELSE IF first.t < observed[1].src THEN "unresolved" ELSE "reported"

(* The last row that changed the parameter on board                        *)
Changes == {r \in AcceptedRows : Previous(r) = 0 \/ events[Previous(r)].wrote # events[r].wrote}
HostileValueHolds == Changes # {} /\ events[Max(Changes)].act # 0

(* state.py, effect windows: in a replay run, where the value law holds,   *)
(* a window is open exactly while the parameter has the value that a       *)
(* hostile command put there; rewriting it neither opens nor closes one.   *)
ExposureIsInAWindow ==
  setting.scenario = "A3" /\ Undisturbed
    => (HostileValueHolds <=> \E w \in effect_windows : w.start <= now /\ now < w.stop)

=============================================================================
