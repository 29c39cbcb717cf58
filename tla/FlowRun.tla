------------------------------ MODULE FlowRun ------------------------------
(***************************************************************************)
(* The downlink of an A4 run and the three detectors at the ground station *)
(* that see each packet as it arrives: the flow detector D2, which counts  *)
(* what comes between two beats of its timer, the twin D3 and the random   *)
(* detector.  Afterwards the scorer joins their alarms to the packets and  *)
(* to the hostile actions again (analysis/scoring/windows.py, state.py,    *)
(* families.py, and rndjoin.py of the repaired scorer): an alarm of D2 by  *)
(* the number of a window computed from its time, one of D3 by the         *)
(* sequence number and its time, a random one by its arrival ordinal.      *)
(***************************************************************************)
EXTENDS Integers, Sequences, FiniteSets, FiniteSetsExt, SequencesExt

CONSTANTS Interval,          \* telemetryInterval
          WindowSize,        \* windowSize, WINDOW_SECONDS
          Transit,           \* from the satellite to the ground station
          AddedDelays,       \* A4: for how long a packet is held
          Starts, Spans,     \* start and span of the episode
          PassEnds,          \* from when on the link drops every packet
          PpsTolerance, IatTolerance, \* sigmaFactor times the calibrated spread
          Verdicts,          \* on which arrivals the random detector fires, and
                             \* in which each channel of D3 is breached
          Horizon

ASSUME FlowAssumption ==
  /\ {Interval, WindowSize, Transit} \subseteq Nat \ {0}
  /\ {PpsTolerance, IatTolerance, Horizon} \subseteq Nat
  /\ AddedDelays \cup Starts \cup Spans \cup PassEnds \subseteq Nat

\* No packet arrives in the very instant of the window timer
\* (windows.py, assert_no_boundary_observation), or of another packet: the
\* times of arrival are real numbers of their own.
ASSUME BoundaryAssumption ==
  /\ Transit < Interval /\ WindowSize % Interval = 0
  /\ \A d \in AddedDelays \cup {0}, k \in 0..(WindowSize - 1) :
       k % Interval = 0 => (k + Transit + d) % WindowSize # 0
  /\ \A d \in AddedDelays : d % Interval # 0

VARIABLES now,
          setting,       \* the contact, the episode and the added delay
          flight,        \* packets on their way: [seq, due]
          done,          \* what the relay did with each packet sent: seq -> kind
          received,      \* tm.recv rows: [seq, t, window]
          d3Alarms,      \* d3.alarm rows: [t, tmSeq, channel]
          rndAlarms,     \* rnd.alarm rows: [t, n]
          alarms,        \* d2.alarm rows: [t, window]
          beats,         \* windows closed so far
          packets,       \* windowPackets
          iatSum, iatCount, lastArrival

detector == <<beats, packets, iatSum, iatCount, lastArrival>>
vars == <<now, setting, flight, done, received, d3Alarms, rndAlarms, alarms, detector>>

Packet == 1..(Horizon \div Interval + 1)
Never == -1

CHANNELS == {"physical", "logical", "security"}
\* The channels whose alarms direct_detection_d3 counts
DIRECT_CHANNELS == {"physical", "logical"}

SendTime(seq) == (seq - 1) * Interval

Init ==
  /\ now = 0
  /\ setting \in {[start |-> b, stop |-> b + n, passEnd |-> p, addedDelay |-> d,
                   fires |-> v.random, breach |-> [c \in CHANNELS |-> v[c]]] :
                    b \in Starts, n \in Spans, p \in PassEnds, d \in AddedDelays,
                    v \in Verdicts}
  /\ flight = {} /\ received = << >> /\ alarms = {}
  /\ d3Alarms = << >> /\ rndAlarms = << >>
  /\ done = [seq \in Packet |-> "unsent"]
  /\ beats = 0 /\ packets = 0 /\ iatSum = 0 /\ iatCount = 0
  /\ lastArrival = Never

(***************************************************************************)
(* The packet of this instant, through the link and the relay              *)
(***************************************************************************)
Handled(seq, kind) ==
  /\ done' = [done EXCEPT ![seq] = kind]
  /\ flight' = IF kind \in {"lost", "drop"} THEN flight
               ELSE flight \cup {[seq |-> seq,
                      due |-> now + Transit + IF kind = "delay" THEN setting.addedDelay ELSE 0]}

Episode == setting.start <= now /\ now < setting.stop

SendTelemetry ==
  \E seq \in Packet :
    /\ SendTime(seq) = now /\ done[seq] = "unsent"
    /\ IF now >= setting.passEnd THEN Handled(seq, "lost")
       ELSE \E kind \in {"forwarded"} \cup IF Episode THEN {"tamper", "delay", "drop"} ELSE {} :
              Handled(seq, kind)
    /\ UNCHANGED <<now, setting, received, d3Alarms, rndAlarms, alarms, detector>>

(***************************************************************************)
(* FlowDetector                                                            *)
(***************************************************************************)
ObservePacket(seq) ==
  LET gap == now - lastArrival
  IN /\ packets' = packets + 1
     /\ lastArrival' = now
     /\ IF lastArrival # Never /\ gap <= 5 * WindowSize
        THEN /\ iatSum' = iatSum + gap /\ iatCount' = iatCount + 1
        ELSE UNCHANGED <<iatSum, iatCount>>

(* RandomDetector::observe counts the packet and then decides, whatever    *)
(* the packet is                                                           *)
RandomObserve ==
  LET observations == Len(received) + 1
  IN rndAlarms' = IF observations \in setting.fires
                  THEN Append(rndAlarms, [t |-> now, n |-> observations])
                  ELSE rndAlarms

(* Which channels of the twin a packet of A4 breaches is an input; each of *)
(* them has a row of its own                                               *)
emitAlarm(rows, seq, c) ==
  IF Len(received) + 1 \in setting.breach[c]
  THEN Append(rows, [t |-> now, tmSeq |-> seq, channel |-> c]) ELSE rows

TwinObserve(seq) ==
  LET physical == emitAlarm(d3Alarms, seq, "physical")
      logical == emitAlarm(physical, seq, "logical")
  IN d3Alarms' = emitAlarm(logical, seq, "security")

(* The ground logs a packet and shows it to D2, the random detector and D3 *)
Arrive ==
  \E p \in flight :
    /\ p.due = now
    /\ flight' = flight \ {p}
    /\ received' = Append(received, [seq |-> p.seq, t |-> now, window |-> beats + 1])
    /\ ObservePacket(p.seq)
    /\ RandomObserve
    /\ TwinObserve(p.seq)
    /\ UNCHANGED <<now, setting, done, alarms, beats>>

Abs(n) == IF n < 0 THEN -n ELSE n

(* muPps is what a full window of the contact holds, muIat the interval.   *)
(* Packets are of one length, so that the bit rate says what their number  *)
(* says.                                                                   *)
Breach ==
  \/ Abs(packets - WindowSize \div Interval) > PpsTolerance
  \/ iatCount > 0 /\ Abs(iatSum - iatCount * Interval) > IatTolerance * iatCount

(* A window without packets is not judged                                  *)
Judged == packets > 0 /\ Breach

Reset == packets' = 0 /\ iatSum' = 0 /\ iatCount' = 0

CloseWindow ==
  /\ now = (beats + 1) * WindowSize
  /\ beats' = beats + 1
  /\ alarms' = IF Judged THEN alarms \cup {[t |-> now, window |-> beats + 1]} ELSE alarms
  /\ Reset
  /\ UNCHANGED <<now, setting, flight, done, received, d3Alarms, rndAlarms, lastArrival>>

Due ==
  \/ now = (beats + 1) * WindowSize
  \/ \E p \in flight : p.due = now
  \/ \E seq \in Packet : SendTime(seq) = now /\ done[seq] = "unsent"

Tick ==
  /\ now < Horizon /\ ~Due
  /\ now' = now + 1
  /\ UNCHANGED <<setting, flight, done, received, d3Alarms, rndAlarms, alarms, detector>>

Next == SendTelemetry \/ Arrive \/ CloseWindow \/ Tick
Spec == Init /\ [][Next]_vars

(***************************************************************************)
(* windows.py, families.py                                                 *)
(***************************************************************************)
Rows == {received[i] : i \in DOMAIN received}
Receipts(seq) == {r \in Rows : r.seq = seq}

(* k = ceil(t / WindowSize), at least 1                                    *)
observation_window(t) ==
  IF t = 0 THEN 1 ELSE (t + WindowSize - 1) \div WindowSize

expected_arrival_window(s) == s \div WindowSize + 1

opportunities == {observation_window(r.t) : r \in Rows}
alarm_windows == {observation_window(a.t) : a \in alarms}

ActionsOf(kind) == {seq \in Packet : done[seq] = kind}

mappings_expected ==
  {expected_arrival_window(SendTime(seq)) : seq \in ActionsOf("drop") \cup ActionsOf("delay")}
(* A dropped packet maps to the window it was expected in, a delayed one   *)
(* also to the window it was received in                                   *)
mappings ==
  {expected_arrival_window(SendTime(seq)) : seq \in ActionsOf("drop") \cup ActionsOf("delay")}
  \cup {observation_window(r.t) : r \in {x \in Rows : done[x.seq] = "delay"}}

truth_windows == mappings \cap opportunities

(* direct_detection_d2                                                     *)
direct_detection_d2 ==
  [tp |-> Cardinality(truth_windows \cap alarm_windows),
   fn |-> Cardinality(truth_windows \ alarm_windows),
   fp |-> Cardinality(alarm_windows \ truth_windows),
   tn |-> Cardinality((opportunities \ truth_windows) \ alarm_windows)]

(* action_accounting: the fate of an action, by what it was and by whether *)
(* its packet was received                                                 *)
disposition(seq) ==
  CASE done[seq] = "tamper" /\ Receipts(seq) # {} -> "received_modified"
    [] done[seq] = "delay" /\ Receipts(seq) # {} -> "received_delayed"
    [] done[seq] = "drop" /\ Receipts(seq) = {} -> "dropped"
    [] OTHER -> "unresolved"

DisposedAs(kind) ==
  {seq \in ActionsOf("tamper") \cup ActionsOf("delay") \cup ActionsOf("drop") :
     disposition(seq) = kind}

(* drop_opportunity_classes: the drops whose window D2 could judge, and    *)
(* those of them whose window it alarmed in                                *)
native_decision_opportunity ==
  {seq \in ActionsOf("drop") : expected_arrival_window(SendTime(seq)) \in opportunities}
covered ==
  {seq \in native_decision_opportunity :
     expected_arrival_window(SendTime(seq)) \in alarm_windows}

(* telemetry_effect_events: a received action is an effect at the instant  *)
(* of its receipt; the list is in the order of the actions                 *)
InOrder(S) ==
  [i \in 1..Cardinality(S) |->
     CHOOSE a \in S : Cardinality({b \in S : b.seq < a.seq}) = i - 1]
EffectsAtSending ==
  InOrder({[seq |-> r.seq, start |-> SendTime(r.seq) + Transit] :
             r \in {x \in Rows : done[x.seq] \in {"tamper", "delay"}}})
telemetry_effect_events ==
  InOrder({[seq |-> r.seq, start |-> r.t] :
             r \in {x \in Rows : done[x.seq] \in {"tamper", "delay"}}})

(* An alarm of a direct channel credits the first effect at its instant    *)
(* that is not yet taken: of two alarms on one packet, one credits nothing *)
credit_alarms(rows) ==
  FoldLeft(LAMBDA claimed, a :
             LET free == {i \in DOMAIN telemetry_effect_events :
                            /\ a.channel \in DIRECT_CHANNELS
                            /\ telemetry_effect_events[i].start = a.t} \ claimed
             IN IF free = {} THEN claimed ELSE claimed \cup {Min(free)},
           {}, rows)

(* The counts over the observations: positive by time, alarmed by position *)
Confusion(observations, alarmed) ==
  LET positives == {telemetry_effect_events[i].start : i \in DOMAIN telemetry_effect_events}
      count(truth, alarm) ==
        Cardinality({k \in DOMAIN observations :
                       /\ (observations[k].t \in positives) = truth
                       /\ (k \in alarmed) = alarm})
  IN [tp |-> count(TRUE, TRUE), fn |-> count(TRUE, FALSE),
      fp |-> count(FALSE, TRUE), tn |-> count(FALSE, FALSE)]

direct_alarm_seqs ==
  {d3Alarms[i].tmSeq : i \in {x \in DOMAIN d3Alarms : d3Alarms[x].channel \in DIRECT_CHANNELS}}

direct_detection_d3 ==
  Confusion(received, {k \in DOMAIN received : received[k].seq \in direct_alarm_seqs})

(* a4_subtype_detection: the credits, by what was done to their packets    *)
Detected(kind) ==
  {i \in credit_alarms(d3Alarms) : done[telemetry_effect_events[i].seq] = kind}

(* What the join reads of the log: its tm.recv rows and its rnd.alarm rows *)
Log == [received |-> received, alarms |-> rndAlarms]
NoField == -1  \* of a row of the log that does not have the field

(* rndjoin.bind: what becomes of each row of the random detector           *)
Repeated(log, i) == \E h \in 1..(i - 1) : log.alarms[h].n = log.alarms[i].n
OrdinalAsSeq(log, i) == {k \in DOMAIN log.received : log.received[k].seq = log.alarms[i].n}
Ordinal(log, i) == {log.alarms[i].n} \cap DOMAIN log.received
Joined(log, i) ==
  CASE log.alarms[i].n = NoField -> "unmatched_missing_ordinal_field"
    [] log.alarms[i].n # NoField /\ Ordinal(log, i) = {} -> "unmatched_ordinal_out_of_range"
    [] Ordinal(log, i) # {} /\ Repeated(log, i) -> "unmatched_duplicate_ordinal"
    [] OTHER -> "matched"

bind(log) ==
  [i \in DOMAIN log.alarms |->
     [disposition |-> Joined(log, i), ordinal |-> Ordinal(log, i),
      consistent |-> \A k \in Ordinal(log, i) : log.received[k].t = log.alarms[i].t]]

alarmed_ordinals(rows) ==
  UNION {rows[i].ordinal : i \in {x \in DOMAIN rows : rows[x].disposition = "matched"}}

direct_detection_rnd == Confusion(received, alarmed_ordinals(bind(Log)))

(***************************************************************************)
(* Properties.                                                             *)
(***************************************************************************)

(* The window in which a packet would have arrived undisturbed             *)
Natural(seq) == observation_window(SendTime(seq) + Transit)

Arrivals(k) == {r.seq : r \in {x \in Rows : x.window = k}}
Undisturbed(k) ==
  {seq \in Packet : done[seq] \notin {"unsent", "lost"} /\ Natural(seq) = k
                  /\ SendTime(seq) + Transit < now}

(* windows.py:44-76: when the packets of a window that the detector judged *)
(* are not those of an undisturbed run, because one was taken from it or   *)
(* one came late into it, the window is scored as truth-positive           *)
DisturbedWindowsAreTruth ==
  \A k \in 1..beats :
    k \in opportunities /\ Arrivals(k) # Undisturbed(k) => k \in truth_windows

(* On these arrivals a channel that D3 is scored by is breached            *)
Diverged == UNION {setting.breach[c] : c \in DIRECT_CHANNELS}

(* families.py:75-235: the views of the twin's score on one run agree.     *)
(* The credited effects are the disturbed packets that breached a direct   *)
(* channel of it, once each however many they breached, as many as the     *)
(* positives found by sequence number; the positives are the received      *)
(* actions; and a drop that D2's alarms cover lies in one of the windows   *)
(* that D2 scores as found.                                                *)
TwinScoreIsTrue ==
  /\ {telemetry_effect_events[i].seq : i \in credit_alarms(d3Alarms)} =
       {received[k].seq : k \in {x \in Diverged \cap DOMAIN received :
                                  done[received[x].seq] \in {"tamper", "delay"}}}
  /\ direct_detection_d3.tp = Cardinality(Detected("tamper")) + Cardinality(Detected("delay"))
  /\ direct_detection_d3.tp + direct_detection_d3.fn =
       Cardinality(DisposedAs("received_modified") \cup DisposedAs("received_delayed"))
  /\ DisposedAs("dropped") = ActionsOf("drop")
  /\ covered # {} => direct_detection_d2.tp > 0
=============================================================================
