----------------------------- MODULE FlowJoined -----------------------------
(***************************************************************************)
(* The downlink of an A4 run, for every contact, episode, delay and firing *)
(* of the detectors: the windows of the flow detector that were disturbed  *)
(* are scored as such, the repaired join of the random alarms credits the  *)
(* packets they were raised on, which no damage of the log escapes, the    *)
(* views of the twin's score agree, and the suite of the repair finds its  *)
(* guards awake on the runs that can be its fixture, and on no others.     *)
(***************************************************************************)
EXTENDS JoinGuards, FiniteSetTheorems, WellFoundedInduction, TLAPS

Fate == {"unsent", "lost", "drop", "forwarded", "tamper", "delay"}
Passed == {"forwarded", "tamper", "delay"}

Item == [seq : Packet, due : Nat]
Receipt == [seq : Packet, t : Nat, window : Nat]
Alarm == [t : Nat, n : Nat]

\* When a packet arrives, by what the relay did with it.
ArrivalTime(seq, fate, added) ==
  SendTime(seq) + Transit + IF fate = "delay" THEN added ELSE 0

TypeInv ==
  /\ now \in Nat /\ beats \in Nat
  /\ setting.addedDelay \in AddedDelays
  /\ done \in [Packet -> Fate]
  /\ flight \in SUBSET Item
  /\ received \in Seq(Receipt)
  /\ rndAlarms \in Seq(Alarm)

\* The timer has closed the windows that are over.
Timed == beats * WindowSize <= now /\ now <= (beats + 1) * WindowSize

\* What got past the relay is on its way or was received, once, at its time.
OnItsWay ==
  \A p \in flight : done[p.seq] \in Passed /\ now <= p.due
               /\ p.due = ArrivalTime(p.seq, done[p.seq], setting.addedDelay)

Inside(t, k) == (k - 1) * WindowSize < t /\ t < k * WindowSize

Arrived ==
  /\ \A i \in DOMAIN received :
       /\ done[received[i].seq] \in Passed
       /\ received[i].t = ArrivalTime(received[i].seq, done[received[i].seq], setting.addedDelay)
       /\ received[i].t <= now
       /\ Inside(received[i].t, received[i].window)
       /\ \A p \in flight : p.seq # received[i].seq
  /\ \A i, j \in DOMAIN received : i < j => received[i].t < received[j].t

NoneMissing ==
  \A seq \in Packet : done[seq] \in Passed =>
    (\E p \in flight : p.seq = seq) \/ (\E i \in DOMAIN received : received[i].seq = seq)

\* The random detector has one alarm for each arrival it fires on, in their order.
Fired ==
  /\ \A i \in DOMAIN rndAlarms :
       /\ rndAlarms[i].n \in setting.fires \cap DOMAIN received
       /\ rndAlarms[i].t = received[rndAlarms[i].n].t
  /\ \A i, j \in DOMAIN rndAlarms : i < j => rndAlarms[i].n < rndAlarms[j].n
  /\ \A n \in setting.fires \cap DOMAIN received :
       \E i \in DOMAIN rndAlarms : rndAlarms[i].n = n

JoinInv == TypeInv /\ Timed /\ OnItsWay /\ Arrived /\ NoneMissing /\ Fired

-----------------------------------------------------------------------------
(* Times and windows                                                       *)

\* What the provers know of a quotient and a remainder, named for its uses.
LEMMA DivMod ==
  ASSUME NEW n \in Nat, NEW w \in Nat \ {0}
  PROVE  n \div w \in Nat /\ n = w * (n \div w) + (n % w) /\ n % w \in 0..(w - 1)
OBVIOUS

LEMMA Quotient ==
  ASSUME NEW w \in Nat \ {0}, NEW q \in Nat, NEW r \in 0..(w - 1), NEW n \in Nat,
         n = w * q + r
  PROVE  n \div w = q /\ n % w = r
OBVIOUS

LEMMA Multiples ==
  ASSUME NEW j \in Int, NEW k \in Int, NEW w \in Nat \ {0}, j < k
  PROVE  j * w <= (k - 1) * w /\ (k - 1) * w = k * w - w
OBVIOUS

LEMMA Constants ==
  /\ Interval \in Nat \ {0} /\ WindowSize \in Nat \ {0} /\ Transit \in Nat \ {0}
  /\ Horizon \in Nat
  /\ Transit < Interval /\ WindowSize % Interval = 0
  /\ \A d \in AddedDelays : d \in Nat /\ d % Interval # 0
BY FlowAssumption, BoundaryAssumption

\* Packets are sent at the multiples of the interval.
LEMMA Sending ==
  ASSUME NEW seq \in Packet
  PROVE  SendTime(seq) \in Nat /\ SendTime(seq) % Interval = 0
<1>1. Interval \in Nat \ {0} /\ Horizon \in Nat
  BY Constants
<1>2. seq - 1 \in Nat
  BY <1>1, DivMod DEF Packet
<1>3. (seq - 1) * Interval \in Nat
  BY <1>1, <1>2
<1>4. (seq - 1) * Interval = Interval * (seq - 1) + 0
  BY <1>1, <1>2
<1>5. 0 \in 0..(Interval - 1)
  BY <1>1
<1>6. ((seq - 1) * Interval) % Interval = 0
  BY <1>1, <1>2, <1>3, <1>4, <1>5, Quotient
<1> QED BY <1>3, <1>6 DEF SendTime

\* A packet is sent early enough to arrive, undisturbed, in the window it was sent in.
LEMMA SentInWindow ==
  ASSUME NEW seq \in Packet
  PROVE  /\ (SendTime(seq) % WindowSize) % Interval = 0
         /\ (SendTime(seq) % WindowSize) + Transit < WindowSize
<1> DEFINE s == SendTime(seq)
           q == s \div WindowSize
           r == s % WindowSize
           m == WindowSize \div Interval
<1>1. /\ Interval \in Nat \ {0} /\ WindowSize \in Nat \ {0} /\ Transit \in Nat \ {0}
      /\ Transit < Interval /\ WindowSize % Interval = 0
  BY Constants
<1>2. s \in Nat /\ s % Interval = 0
  BY Sending
<1> HIDE DEF s
<1>3. q \in Nat /\ r \in 0..(WindowSize - 1) /\ s = WindowSize * q + r
  BY <1>1, <1>2, DivMod
<1>4. m \in Nat /\ WindowSize = Interval * m
  BY <1>1, DivMod
<1> DEFINE i == s \div Interval
           e == r \div Interval
           f == r % Interval
<1>5. i \in Nat /\ s = Interval * i
  BY <1>1, <1>2, DivMod
<1>6. e \in Nat /\ f \in 0..(Interval - 1) /\ r = Interval * e + f
  <2> HIDE DEF r
  <2>1. r \in Nat
    BY <1>1, <1>3
  <2> QED BY <1>1, <2>1, DivMod
<1> HIDE DEF q, r, m, i, e, f
<1>7. s = Interval * (m * q + e) + f
  <2>1. WindowSize * q = Interval * (m * q)
    BY <1>1, <1>3, <1>4
  <2>2. m * q \in Nat
    BY <1>3, <1>4
  <2>3. Interval * (m * q + e) = Interval * (m * q) + Interval * e
    BY <1>1, <1>6, <2>2
  <2>4. Interval * e \in Nat
    BY <1>1, <1>6
  <2> QED BY <1>1, <1>3, <1>6, <2>1, <2>3, <2>4
<1>8. f = 0
  <2>1. m * q + e \in Nat
    BY <1>3, <1>4, <1>6
  <2> DEFINE u == m * q + e
  <2>2. u \in Nat /\ s = Interval * u + f
    BY <1>7, <2>1
  <2> HIDE DEF u
  <2>3. s % Interval = f
    BY <1>1, <1>2, <1>6, <2>2, Quotient
  <2> QED BY <1>2, <2>3
<1>9. e < m
  <2> SUFFICES ASSUME e >= m PROVE FALSE
    BY <1>4, <1>6
  <2>1. Interval * e >= Interval * m
    BY <1>1, <1>4, <1>6
  <2> QED BY <1>1, <1>3, <1>4, <1>6, <1>8, <2>1
<1>10. Interval * e <= Interval * m - Interval
  BY <1>1, <1>4, <1>6, <1>9
<1>11. r + Transit < WindowSize
  BY <1>1, <1>3, <1>4, <1>6, <1>8, <1>10
<1> QED BY <1>8, <1>11 DEF f, r, s

\* A time strictly inside a window is found in it by the scorer.
LEMMA WindowOf ==
  ASSUME NEW t \in Nat, NEW k \in Int, Inside(t, k)
  PROVE  k \in Nat \ {0} /\ t > 0 /\ observation_window(t) = k
<1>1. WindowSize \in Nat \ {0}
  BY Constants
<1>2. (k - 1) * WindowSize < t /\ t < k * WindowSize
  BY DEF Inside
<1>3. k >= 1
  <2> SUFFICES ASSUME k < 1 PROVE FALSE
    OBVIOUS
  <2>1. k * WindowSize <= (1 - 1) * WindowSize
    BY <1>1, Multiples
  <2> QED BY <1>1, <1>2, <2>1
<1>4. /\ k - 1 \in Nat /\ (k - 1) * WindowSize \in Nat
      /\ (k - 1) * WindowSize = k * WindowSize - WindowSize
  BY <1>1, <1>3
<1>5. t > 0
  BY <1>2, <1>4
<1> DEFINE r == t + WindowSize - 1 - k * WindowSize
<1>6. k * WindowSize \in Nat /\ r \in 0..(WindowSize - 1)
  BY <1>1, <1>2, <1>4
<1>7. t + WindowSize - 1 \in Nat /\ t + WindowSize - 1 = WindowSize * k + r
  BY <1>1, <1>3, <1>6
<1> HIDE DEF r
<1>8. (t + WindowSize - 1) \div WindowSize = k
  BY <1>1, <1>3, <1>6, <1>7, Quotient
<1> QED BY <1>3, <1>5, <1>8 DEF observation_window

\* No packet arrives at the beat of the timer.
LEMMA NotAtTheBeat ==
  ASSUME NEW seq \in Packet, NEW d \in AddedDelays \cup {0}, NEW b \in Nat
  PROVE  SendTime(seq) + Transit + d # b * WindowSize
<1> DEFINE s == SendTime(seq)
           q == s \div WindowSize
           r == s % WindowSize
           c == r + Transit + d
<1>1. /\ WindowSize \in Nat \ {0} /\ Transit \in Nat \ {0} /\ d \in Nat /\ s \in Nat
  BY Constants, Sending
<1>2. q \in Nat /\ r \in 0..(WindowSize - 1) /\ s = WindowSize * q + r
  BY <1>1, DivMod
<1>3. r % Interval = 0
  BY SentInWindow
<1>4. c % WindowSize # 0
  BY <1>2, <1>3, BoundaryAssumption
<1> HIDE DEF s, q, r
<1>5. SUFFICES ASSUME s + Transit + d = b * WindowSize PROVE FALSE
  BY DEF s
<1>6. c \in Nat /\ c = b * WindowSize - WindowSize * q
  BY <1>1, <1>2, <1>5
<1> HIDE DEF c
<1>7. b - q \in Int /\ c = WindowSize * (b - q)
  BY <1>1, <1>2, <1>6
<1>8. b - q >= 0
  <2> SUFFICES ASSUME b - q < 0 PROVE FALSE
    BY <1>7
  <2>1. /\ b * WindowSize <= (q - 1) * WindowSize
        /\ (q - 1) * WindowSize = q * WindowSize - WindowSize
    BY <1>1, <1>2, <1>7, Multiples
  <2>2. b * WindowSize \in Int /\ q * WindowSize \in Int /\ q * WindowSize = WindowSize * q
    BY <1>1, <1>2
  <2> QED BY <1>1, <1>6, <2>1, <2>2
<1>9. 0 \in 0..(WindowSize - 1) /\ c = WindowSize * (b - q) + 0 /\ b - q \in Nat
  BY <1>1, <1>7, <1>8
<1>10. c % WindowSize = 0
  BY <1>1, <1>6, <1>9, Quotient
<1> QED BY <1>4, <1>10 DEF c

-----------------------------------------------------------------------------
(* The steps                                                               *)

LEMMA TimeOfArrival ==
  ASSUME NEW seq \in Packet, NEW fate, NEW added \in AddedDelays
  PROVE  \E d \in AddedDelays \cup {0} :
           /\ d = IF fate = "delay" THEN added ELSE 0
           /\ ArrivalTime(seq, fate, added) = SendTime(seq) + Transit + d
           /\ d \in Nat /\ ArrivalTime(seq, fate, added) \in Nat
<1> DEFINE d == IF fate = "delay" THEN added ELSE 0
<1>1. d \in AddedDelays \cup {0} /\ d \in Nat
  BY Constants
<1>2. ArrivalTime(seq, fate, added) = SendTime(seq) + Transit + d
  BY DEF ArrivalTime
<1>3. ArrivalTime(seq, fate, added) \in Nat
  <2> HIDE DEF d
  <2> QED BY <1>1, <1>2, Constants, Sending
<1> QED BY <1>1, <1>2, <1>3

\* Two packets never arrive at one instant.
LEMMA OneAtATime ==
  ASSUME NEW p \in Packet, NEW q \in Packet, NEW f, NEW g, NEW added \in AddedDelays,
         ArrivalTime(p, f, added) = ArrivalTime(q, g, added)
  PROVE  p = q
<1> DEFINE I == Interval
           i == p - 1
           j == q - 1
<1>1. I \in Nat \ {0} /\ Transit \in Nat /\ Horizon \in Nat
  BY Constants
<1>2. i \in Nat /\ j \in Nat
  BY <1>1, DivMod DEF Packet
<1>3. SendTime(p) = i * I /\ SendTime(q) = j * I /\ i * I \in Nat /\ j * I \in Nat
  BY <1>1, <1>2 DEF SendTime
<1>4. PICK d \in AddedDelays \cup {0} :
        /\ d = IF f = "delay" THEN added ELSE 0
        /\ ArrivalTime(p, f, added) = SendTime(p) + Transit + d /\ d \in Nat
  BY TimeOfArrival
<1>12. PICK e \in AddedDelays \cup {0} :
        /\ e = IF g = "delay" THEN added ELSE 0
        /\ ArrivalTime(q, g, added) = SendTime(q) + Transit + e /\ e \in Nat
  BY TimeOfArrival
<1>5. i * I + d = j * I + e
  <2>1. SendTime(p) + Transit + d = SendTime(q) + Transit + e
    BY <1>4, <1>12
  <2>2. SendTime(p) \in Nat /\ SendTime(q) \in Nat
    BY Sending
  <2>3. SendTime(p) + d = SendTime(q) + e
    BY <1>1, <1>4, <1>12, <2>1, <2>2
  <2> QED BY <1>3, <2>3
<1> HIDE DEF i, j, I
<1>6. \A m, n \in Nat : m * I = n * I => m = n
  <2>1. ASSUME NEW m \in Nat, NEW n \in Nat, m < n PROVE m * I < n * I
    <3>1. m * I <= (n - 1) * I /\ (n - 1) * I = n * I - I
      BY <1>1, <2>1, Multiples
    <3> QED BY <1>1, <3>1
  <2> QED BY <1>1, <2>1
<1>7. ASSUME NEW m \in Nat, NEW n \in Nat PROVE m * I # n * I + added
  <2> SUFFICES ASSUME m * I = n * I + added PROVE FALSE
    OBVIOUS
  <2>1. added \in Nat /\ added % I # 0
    BY Constants DEF I
  <2>2. m >= n
    <3> SUFFICES ASSUME m < n PROVE FALSE
      BY <1>7
    <3>1. m * I <= (n - 1) * I /\ (n - 1) * I = n * I - I
      BY <1>1, <1>7, Multiples
    <3> QED BY <1>1, <1>7, <2>1, <3>1
  <2>3. m - n \in Nat /\ added = I * (m - n) + 0 /\ 0 \in 0..(I - 1)
    BY <1>1, <1>7, <2>1, <2>2
  <2>4. added % I = 0
    BY <1>1, <2>1, <2>3, Quotient
  <2> QED BY <2>1, <2>4
<1>8. (d = 0 \/ d = added) /\ (e = 0 \/ e = added)
  BY <1>4, <1>12
<1>10. i * I \in Nat /\ j * I \in Nat
  BY <1>1, <1>2
<1>11. i = j
  <2>1. CASE d = e
    BY <1>2, <1>4, <1>5, <1>6, <1>10, <2>1
  <2>2. CASE d = 0 /\ e = added
    BY <1>2, <1>5, <1>7, <1>10, <2>2
  <2>3. CASE d = added /\ e = 0
    BY <1>2, <1>5, <1>7, <1>10, <2>3
  <2> QED BY <1>8, <2>1, <2>2, <2>3
<1> QED BY <1>1, <1>2, <1>11, DivMod DEF i, j, Packet

LEMMA InitJoin == Init => JoinInv
<1> SUFFICES ASSUME Init PROVE JoinInv
  OBVIOUS
<1>1. setting.addedDelay \in AddedDelays
  BY DEF Init
<1>2. TypeInv
  BY <1>1 DEF Init, TypeInv, Fate
<1>3. Timed
  BY Constants DEF Init, Timed
<1>4. OnItsWay /\ Arrived /\ NoneMissing /\ Fired
  BY DEF Init, OnItsWay, Arrived, NoneMissing, Fired, Passed
<1> QED BY <1>2, <1>3, <1>4 DEF JoinInv

LEMMA SendKeeps == JoinInv /\ SendTelemetry => JoinInv'
<1> SUFFICES ASSUME JoinInv, SendTelemetry PROVE JoinInv'
  OBVIOUS
<1>1. /\ TypeInv /\ Timed /\ OnItsWay /\ Arrived /\ NoneMissing /\ Fired
  BY DEF JoinInv
<1>2. UNCHANGED <<now, setting, received, rndAlarms, beats>>
  BY DEF SendTelemetry, detector
<1>3. PICK seq \in Packet, kind \in Fate \ {"unsent"} :
        SendTime(seq) = now /\ done[seq] = "unsent" /\ Handled(seq, kind)
  <2>1. PICK seq \in Packet :
          /\ SendTime(seq) = now /\ done[seq] = "unsent"
          /\ IF now >= setting.passEnd THEN Handled(seq, "lost")
             ELSE \E kind \in {"forwarded"}
                              \cup IF Episode THEN {"tamper", "delay", "drop"} ELSE {} :
                    Handled(seq, kind)
    BY DEF SendTelemetry
  <2>2. \E kind \in {"lost", "forwarded", "tamper", "delay", "drop"} : Handled(seq, kind)
    <3>1. CASE now >= setting.passEnd
      BY <2>1, <3>1
    <3>2. CASE ~(now >= setting.passEnd)
      BY <2>1, <3>2
    <3> QED BY <3>1, <3>2
  <2> QED BY <2>1, <2>2 DEF Fate
<1> DEFINE held == IF kind = "delay" THEN setting.addedDelay ELSE 0
           item == [seq |-> seq, due |-> now + Transit + held]
<1>4. /\ done' = [done EXCEPT ![seq] = kind]
      /\ flight' = IF kind \in {"lost", "drop"} THEN flight ELSE flight \cup {item}
  BY <1>3 DEF Handled
<1>5. held \in Nat /\ Transit \in Nat /\ now \in Nat
  BY <1>1, Constants DEF TypeInv
<1>6. /\ done \in [Packet -> Fate] /\ done'[seq] = kind
      /\ \A s \in Packet : s # seq => done'[s] = done[s]
  BY <1>1, <1>4 DEF TypeInv
<1> DEFINE due == now + Transit + held
<1>7. due \in Nat /\ due >= now /\ item = [seq |-> seq, due |-> due]
  BY <1>5
<1>8. ArrivalTime(seq, kind, setting.addedDelay) = due
  BY <1>2, <1>3 DEF ArrivalTime
<1> HIDE DEF held, item, due
<1>10. \A p \in flight : p.seq \in Packet /\ p.seq # seq
  BY <1>1, <1>3 DEF TypeInv, Item, OnItsWay, Passed
<1>11. \A i \in DOMAIN received : received[i].seq \in Packet /\ received[i].seq # seq
  <2>1. \A i \in DOMAIN received : received[i] \in Receipt
    BY <1>1 DEF TypeInv
  <2> QED BY <1>1, <1>3, <2>1 DEF Receipt, Arrived, Passed
<1>12. \A p \in flight' : p \in flight \/ (p = item /\ kind \in Passed)
  BY <1>3, <1>4 DEF Fate, Passed
<1>13. TypeInv'
  <2>1. done' \in [Packet -> Fate]
    BY <1>3, <1>4, <1>6
  <2>2. flight' \in SUBSET Item
    BY <1>1, <1>7, <1>12 DEF TypeInv, Item
  <2> QED BY <1>1, <1>2, <2>1, <2>2 DEF TypeInv
<1>14. Timed'
  BY <1>1, <1>2 DEF Timed
<1>15. OnItsWay'
  <2> SUFFICES ASSUME NEW p \in flight'
               PROVE  /\ done'[p.seq] \in Passed /\ now' <= p.due
                      /\ p.due = ArrivalTime(p.seq, done'[p.seq], setting'.addedDelay)
    BY DEF OnItsWay
  <2>1. CASE p \in flight
    BY <1>1, <1>2, <1>6, <1>10, <2>1 DEF OnItsWay
  <2>2. CASE p = item /\ kind \in Passed
    BY <1>2, <1>6, <1>7, <1>8, <2>2
  <2> QED BY <1>12, <2>1, <2>2
<1>16. Arrived'
  <2>1. ASSUME NEW i \in DOMAIN received
        PROVE  /\ done'[received[i].seq] \in Passed
               /\ received[i].t = ArrivalTime(received[i].seq, done'[received[i].seq],
                                              setting.addedDelay)
               /\ received[i].t <= now
               /\ Inside(received[i].t, received[i].window)
               /\ \A p \in flight' : p.seq # received[i].seq
    <3>1. done'[received[i].seq] = done[received[i].seq]
      BY <1>6, <1>11
    <3>2. \A p \in flight' : p.seq # received[i].seq
      BY <1>1, <1>7, <1>11, <1>12 DEF Arrived
    <3> QED BY <1>1, <3>1, <3>2 DEF Arrived
  <2> QED BY <1>1, <1>2, <2>1 DEF Arrived, Inside
<1>17. NoneMissing'
  <2> SUFFICES ASSUME NEW s \in Packet, done'[s] \in Passed
               PROVE  \/ \E p \in flight' : p.seq = s
                      \/ \E i \in DOMAIN received' : received'[i].seq = s
    BY DEF NoneMissing
  <2>1. CASE s = seq
    <3>1. kind \in Passed
      BY <1>6, <2>1
    <3>2. item \in flight' /\ item.seq = s
      BY <1>4, <1>7, <2>1, <3>1 DEF Passed
    <3> QED BY <3>2
  <2>2. CASE s # seq
    BY <1>1, <1>2, <1>4, <1>6, <2>2 DEF NoneMissing
  <2> QED BY <2>1, <2>2
<1>18. Fired'
  BY <1>1, <1>2 DEF Fired
<1> QED BY <1>13, <1>14, <1>15, <1>16, <1>17, <1>18 DEF JoinInv

LEMMA TickKeeps == JoinInv /\ Tick => JoinInv'
<1> SUFFICES ASSUME JoinInv, Tick PROVE JoinInv'
  OBVIOUS
<1>1. /\ TypeInv /\ Timed /\ OnItsWay /\ Arrived /\ NoneMissing /\ Fired
  BY DEF JoinInv
<1>2. UNCHANGED <<setting, flight, done, received, rndAlarms, beats>>
  BY DEF Tick, detector
<1>3. now \in Nat /\ now' = now + 1 /\ ~Due /\ beats \in Nat
  BY <1>1 DEF Tick, TypeInv
<1>4. TypeInv'
  BY <1>1, <1>2, <1>3 DEF TypeInv
<1>5. Timed'
  <2>1. (beats + 1) * WindowSize \in Nat /\ beats * WindowSize \in Nat
    BY <1>3, Constants
  <2>2. now # (beats + 1) * WindowSize
    BY <1>3 DEF Due
  <2>3. beats * WindowSize <= now' /\ now' <= (beats + 1) * WindowSize
    BY <1>1, <1>3, <2>1, <2>2 DEF Timed
  <2> QED BY <1>2, <2>3 DEF Timed
<1>6. OnItsWay'
  <2> SUFFICES ASSUME NEW p \in flight PROVE now' <= p.due
    BY <1>1, <1>2 DEF OnItsWay
  <2>1. now <= p.due /\ p.due # now /\ p.due \in Nat
    BY <1>1, <1>3 DEF OnItsWay, Due, TypeInv, Item
  <2> QED BY <1>3, <2>1
<1>7. Arrived'
  <2>1. ASSUME NEW i \in DOMAIN received PROVE received[i].t <= now'
    <3>1. received[i] \in Receipt
      BY <1>1 DEF TypeInv
    <3>2. received[i].t \in Nat /\ received[i].t <= now
      BY <1>1, <3>1 DEF Receipt, Arrived
    <3> QED BY <1>3, <3>2
  <2> QED BY <1>1, <1>2, <2>1 DEF Arrived, Inside
<1>8. NoneMissing' /\ Fired'
  BY <1>1, <1>2 DEF NoneMissing, Fired
<1> QED BY <1>4, <1>5, <1>6, <1>7, <1>8 DEF JoinInv

LEMMA CloseKeeps == JoinInv /\ CloseWindow => JoinInv'
<1> SUFFICES ASSUME JoinInv, CloseWindow PROVE JoinInv'
  OBVIOUS
<1>1. /\ TypeInv /\ Timed /\ OnItsWay /\ Arrived /\ NoneMissing /\ Fired
  BY DEF JoinInv
<1>2. UNCHANGED <<now, setting, flight, done, received, rndAlarms>>
  BY DEF CloseWindow
<1>3. now = (beats + 1) * WindowSize /\ beats' = beats + 1 /\ beats \in Nat
  BY <1>1 DEF CloseWindow, TypeInv
<1>4. TypeInv'
  BY <1>1, <1>2, <1>3 DEF TypeInv
<1>5. Timed'
  <2> DEFINE b == beats + 1
  <2>1. b \in Nat /\ b < b + 2
    BY <1>3
  <2> HIDE DEF b
  <2>2. b * WindowSize \in Nat /\ (b + 1) * WindowSize = b * WindowSize + WindowSize
    BY <2>1, Constants
  <2>3. b * WindowSize <= b * WindowSize /\ b * WindowSize <= (b + 1) * WindowSize
    BY <2>2, Constants
  <2> QED BY <1>2, <1>3, <2>3 DEF Timed, b
<1>6. OnItsWay' /\ Arrived' /\ NoneMissing' /\ Fired'
  BY <1>1, <1>2 DEF OnItsWay, Arrived, Inside, NoneMissing, Fired
<1> QED BY <1>4, <1>5, <1>6 DEF JoinInv

LEMMA ArriveKeeps == JoinInv /\ Arrive => JoinInv'
<1> SUFFICES ASSUME JoinInv, Arrive PROVE JoinInv'
  OBVIOUS
<1>1. /\ TypeInv /\ Timed /\ OnItsWay /\ Arrived /\ NoneMissing /\ Fired
  BY DEF JoinInv
<1> DEFINE l == Len(received)
<1>2. PICK p \in flight :
        /\ p.due = now /\ flight' = flight \ {p}
        /\ received' = Append(received, [seq |-> p.seq, t |-> now, window |-> beats + 1])
        /\ RandomObserve
        /\ UNCHANGED <<now, setting, done, beats>>
  BY DEF Arrive
<1> DEFINE row == [seq |-> p.seq, t |-> now, window |-> beats + 1]
<1>3. /\ p.seq \in Packet /\ now \in Nat /\ beats \in Nat /\ row \in Receipt
      /\ setting.addedDelay \in AddedDelays
      /\ received \in Seq(Receipt) /\ rndAlarms \in Seq(Alarm)
      /\ row.seq = p.seq /\ row.t = now /\ row.window = beats + 1
  BY <1>1 DEF TypeInv, Item, Receipt
<1>4. /\ done[p.seq] \in Passed /\ now = ArrivalTime(p.seq, done[p.seq], setting.addedDelay)
  BY <1>1, <1>2 DEF OnItsWay
<1> HIDE DEF row
<1>5. /\ l \in Nat /\ received' \in Seq(Receipt) /\ DOMAIN received = 1..l
      /\ DOMAIN received' = 1..(l + 1) /\ received'[l + 1] = row
      /\ \A i \in 1..l : received'[i] = received[i]
  BY <1>2, <1>3 DEF row
<1> HIDE DEF l
<1>6. Inside(now, beats + 1)
  <2>1. PICK d \in AddedDelays \cup {0} : now = SendTime(p.seq) + Transit + d
    BY <1>3, <1>4, TimeOfArrival
  <2>2. now # beats * WindowSize /\ now # (beats + 1) * WindowSize
    BY <1>3, <2>1, NotAtTheBeat
  <2>3. /\ beats * WindowSize \in Nat /\ (beats + 1) * WindowSize \in Nat
        /\ (beats + 1) - 1 = beats
    BY <1>3, Constants
  <2> QED BY <1>1, <1>3, <2>2, <2>3 DEF Timed, Inside
<1>7. \A i \in 1..l : received[i].t \in Nat /\ received[i].seq \in Packet
  <2>1. \A i \in 1..l : received[i] \in Receipt
    BY <1>3, <1>5
  <2> QED BY <2>1 DEF Receipt
<1>8. \A i \in 1..l : received[i].seq # p.seq /\ received[i].t < now
  <2> SUFFICES ASSUME NEW i \in 1..l PROVE received[i].seq # p.seq /\ received[i].t < now
    OBVIOUS
  <2>1. /\ received[i].seq # p.seq /\ received[i].t <= now
        /\ received[i].t =
             ArrivalTime(received[i].seq, done[received[i].seq], setting.addedDelay)
    BY <1>1, <1>5 DEF Arrived
  <2>2. received[i].t # now
    BY <1>3, <1>4, <1>7, <2>1, OneAtATime
  <2> QED BY <1>3, <1>7, <2>1, <2>2
<1>9. \A q \in flight' : q \in flight /\ q.seq # p.seq
  <2> SUFFICES ASSUME NEW q \in flight, q # p PROVE q.seq # p.seq
    BY <1>2
  <2> SUFFICES ASSUME q.seq = p.seq PROVE FALSE
    OBVIOUS
  <2>1. q.due = p.due
    BY <1>1 DEF OnItsWay
  <2>2. q \in Item /\ p \in Item
    BY <1>1 DEF TypeInv
  <2>3. q = p
    BY <2>1, <2>2 DEF Item
  <2> QED BY <2>3
<1>10. OnItsWay' /\ Timed'
  BY <1>1, <1>2, <1>9 DEF OnItsWay, Timed
<1>11. Arrived'
  <2>1. ASSUME NEW i \in 1..(l + 1)
        PROVE  /\ done[received'[i].seq] \in Passed
               /\ received'[i].t = ArrivalTime(received'[i].seq, done[received'[i].seq],
                                               setting.addedDelay)
               /\ received'[i].t <= now
               /\ Inside(received'[i].t, received'[i].window)
               /\ \A q \in flight' : q.seq # received'[i].seq
    <3>1. CASE i = l + 1
      BY <1>3, <1>4, <1>5, <1>6, <1>9, <3>1
    <3>2. CASE i # l + 1
      <4>1. i \in 1..l /\ i \in DOMAIN received
        BY <1>5, <3>2
      <4> QED BY <1>1, <1>5, <1>9, <4>1 DEF Arrived
    <3> QED BY <3>1, <3>2
  <2>2. ASSUME NEW i \in 1..(l + 1), NEW j \in 1..(l + 1), i < j
        PROVE  received'[i].t < received'[j].t
    <3>1. i \in 1..l /\ (j \in 1..l \/ j = l + 1)
      BY <1>5, <2>2
    <3>2. CASE j \in 1..l
      BY <1>1, <1>5, <2>2, <3>1, <3>2 DEF Arrived
    <3>3. CASE j = l + 1
      BY <1>3, <1>5, <1>8, <3>1, <3>3
    <3> QED BY <3>1, <3>2, <3>3
  <2> QED BY <1>2, <1>5, <2>1, <2>2 DEF Arrived, Inside
<1>12. NoneMissing'
  <2> SUFFICES ASSUME NEW s \in Packet, done[s] \in Passed
               PROVE  \/ \E q \in flight' : q.seq = s
                      \/ \E i \in 1..(l + 1) : received'[i].seq = s
    BY <1>2, <1>5 DEF NoneMissing
  <2>1. CASE s = p.seq
    BY <1>3, <1>5, <2>1
  <2>2. CASE s # p.seq
    <3>1. (\E q \in flight : q.seq = s) \/ (\E i \in 1..l : received[i].seq = s)
      BY <1>1, <1>5 DEF NoneMissing
    <3>2. \A i \in 1..l : i \in 1..(l + 1)
      BY <1>5
    <3> QED BY <1>2, <1>5, <2>2, <3>1, <3>2
  <2> QED BY <2>1, <2>2
<1>13. rndAlarms' = IF l + 1 \in setting.fires
                    THEN Append(rndAlarms, [t |-> now, n |-> l + 1]) ELSE rndAlarms
  BY <1>2 DEF RandomObserve, l
<1>14. rndAlarms' \in Seq(Alarm) /\ Fired'
  <2> DEFINE m == Len(rndAlarms)
             alarm == [t |-> now, n |-> l + 1]
  <2>1. \A i \in 1..m : rndAlarms[i].n \in 1..l
    BY <1>1, <1>3, <1>5 DEF Fired
  <2>2. CASE l + 1 \in setting.fires
    <3>1. alarm \in Alarm /\ alarm.n = l + 1 /\ alarm.t = now
      BY <1>3, <1>5 DEF Alarm
    <3>2. rndAlarms' = Append(rndAlarms, alarm)
      BY <1>13, <2>2
    <3> HIDE DEF alarm
    <3>3. /\ m \in Nat /\ rndAlarms' \in Seq(Alarm) /\ DOMAIN rndAlarms = 1..m
          /\ DOMAIN rndAlarms' = 1..(m + 1) /\ rndAlarms'[m + 1] = alarm
          /\ \A i \in 1..m : rndAlarms'[i] = rndAlarms[i]
      BY <1>3, <3>1, <3>2
    <3> HIDE DEF m
    <3>4. ASSUME NEW i \in 1..(m + 1)
          PROVE  /\ rndAlarms'[i].n \in setting.fires \cap (1..(l + 1))
                 /\ rndAlarms'[i].t = received'[rndAlarms'[i].n].t
      <4>1. CASE i = m + 1
        BY <1>3, <1>5, <2>2, <3>1, <3>3, <4>1
      <4>2. CASE i \in 1..m
        BY <1>1, <1>5, <2>1, <3>3, <4>2 DEF Fired
      <4> QED BY <3>3, <4>1, <4>2
    <3>5. ASSUME NEW i \in 1..(m + 1), NEW j \in 1..(m + 1), i < j
          PROVE  rndAlarms'[i].n < rndAlarms'[j].n
      <4>1. i \in 1..m /\ (j \in 1..m \/ j = m + 1)
        BY <3>3, <3>5
      <4>2. CASE j \in 1..m
        BY <1>1, <3>3, <3>5, <4>1, <4>2 DEF Fired
      <4>3. CASE j = m + 1
        BY <1>5, <2>1, <3>1, <3>3, <4>1, <4>3
      <4> QED BY <4>1, <4>2, <4>3
    <3>6. ASSUME NEW n \in setting.fires \cap (1..(l + 1))
          PROVE  \E i \in 1..(m + 1) : rndAlarms'[i].n = n
      <4>1. CASE n = l + 1
        BY <3>1, <3>3, <4>1
      <4>2. CASE n # l + 1
        <5>1. n \in setting.fires \cap (1..l)
          BY <1>5, <4>2
        <5>2. PICK i \in 1..m : rndAlarms[i].n = n
          BY <1>1, <1>5, <3>3, <5>1 DEF Fired
        <5> QED BY <3>3, <5>2
      <4> QED BY <4>1, <4>2
    <3> QED BY <1>2, <1>5, <3>3, <3>4, <3>5, <3>6 DEF Fired
  <2>3. CASE l + 1 \notin setting.fires
    <3>1. rndAlarms' = rndAlarms
      BY <1>13, <2>3
    <3>2. \A n \in setting.fires \cap (1..(l + 1)) : n \in setting.fires \cap (1..l)
      BY <1>5, <2>3
    <3>3. \A i \in DOMAIN rndAlarms :
            /\ rndAlarms[i].n \in setting.fires \cap (1..(l + 1))
            /\ rndAlarms[i].t = received'[rndAlarms[i].n].t
      BY <1>1, <1>5 DEF Fired
    <3> QED BY <1>1, <1>2, <1>3, <1>5, <3>1, <3>2, <3>3 DEF Fired
  <2> QED BY <2>2, <2>3
<1>15. TypeInv'
  BY <1>1, <1>2, <1>5, <1>14 DEF TypeInv
<1> QED BY <1>10, <1>11, <1>12, <1>14, <1>15 DEF JoinInv

\* Every step keeps the run in its invariant.
LEMMA NextKeepsJoin == JoinInv /\ [Next]_vars => JoinInv'
<1> SUFFICES ASSUME JoinInv, [Next]_vars PROVE JoinInv'
  OBVIOUS
<1>1. CASE UNCHANGED vars
  BY <1>1 DEF JoinInv, TypeInv, Timed, OnItsWay, Arrived, Inside, NoneMissing, Fired,
              vars, detector
<1> QED BY <1>1, SendKeeps, ArriveKeeps, CloseKeeps, TickKeeps DEF Next

\* The invariant of a run of the downlink, on which the theorems below rest.
THEOREM JoinInvariant == Spec => []JoinInv
<1> QED BY InitJoin, NextKeepsJoin, PTL DEF Spec

-----------------------------------------------------------------------------
(* The windows of the flow detector                                        *)

\* A row was received in the window that its time is in.
LEMMA RowsWindow ==
  ASSUME JoinInv, NEW r \in Rows
  PROVE  /\ r \in Receipt /\ done[r.seq] \in Passed /\ Inside(r.t, r.window)
         /\ r.t = ArrivalTime(r.seq, done[r.seq], setting.addedDelay)
         /\ observation_window(r.t) = r.window
<1>1. PICK i \in DOMAIN received : r = received[i]
  BY DEF Rows
<1>2. received \in Seq(Receipt) /\ Arrived
  BY DEF JoinInv, TypeInv
<1>3. r \in Receipt
  BY <1>1, <1>2
<1>4. r.t \in Nat /\ r.window \in Int
  BY <1>3 DEF Receipt
<1>5. /\ done[r.seq] \in Passed /\ Inside(r.t, r.window)
      /\ r.t = ArrivalTime(r.seq, done[r.seq], setting.addedDelay)
  BY <1>1, <1>2 DEF Arrived
<1> QED BY <1>3, <1>4, <1>5, WindowOf

\* What is neither dropped nor delayed arrives in the window it was sent in.
LEMMA NaturalWindow ==
  ASSUME NEW seq \in Packet
  PROVE  Natural(seq) = expected_arrival_window(SendTime(seq))
<1> DEFINE s == SendTime(seq)
           q == s \div WindowSize
           r == s % WindowSize
<1>1. /\ WindowSize \in Nat \ {0} /\ Transit \in Nat \ {0} /\ s \in Nat
      /\ r + Transit < WindowSize
  BY Constants, Sending, SentInWindow
<1>2. q \in Nat /\ r \in 0..(WindowSize - 1) /\ s = WindowSize * q + r
  BY <1>1, DivMod
<1> DEFINE t == s + Transit
           k == q + 1
<1>3. t \in Nat /\ k \in Int /\ k - 1 = q
  <2> HIDE DEF s, q, r
  <2> QED BY <1>1, <1>2
<1>4. Inside(t, k)
  <2> HIDE DEF s, q, r
  <2>1. /\ (k - 1) * WindowSize = WindowSize * q
        /\ k * WindowSize = WindowSize * q + WindowSize
    BY <1>1, <1>2
  <2>2. WindowSize * q \in Nat
    BY <1>1, <1>2
  <2> HIDE DEF k
  <2>3. (k - 1) * WindowSize < t /\ t < k * WindowSize
    BY <1>1, <1>2, <2>1, <2>2
  <2> QED BY <2>3 DEF Inside
<1>5. observation_window(t) = k
  BY <1>3, <1>4, WindowOf
<1> QED BY <1>5 DEF Natural, expected_arrival_window

\* windows.py:44-76: a judged window whose packets are not those of an
\* undisturbed run is truth-positive.
THEOREM DisturbedWindows == Spec => []DisturbedWindowsAreTruth
<1>1. JoinInv => DisturbedWindowsAreTruth
  <2> SUFFICES ASSUME JoinInv, NEW k \in 1..beats,
                      k \in opportunities, k \notin truth_windows
               PROVE  Arrivals(k) = Undisturbed(k)
    BY DEF DisturbedWindowsAreTruth
  <2>1. k \notin mappings
    BY DEF truth_windows
  <2>2. /\ beats \in Nat /\ now \in Nat /\ done \in [Packet -> Fate]
        /\ beats * WindowSize <= now
        /\ WindowSize \in Nat \ {0} /\ Transit \in Nat /\ k \in Int
        /\ OnItsWay /\ NoneMissing
    BY Constants DEF JoinInv, TypeInv, Timed
  <2>3. k * WindowSize <= now
    <3>1. CASE k = beats
      BY <2>2, <3>1
    <3>2. CASE k < beats
      <4>1. /\ k * WindowSize <= (beats - 1) * WindowSize
            /\ (beats - 1) * WindowSize = beats * WindowSize - WindowSize
        BY <2>2, <3>2, Multiples
      <4>2. k * WindowSize \in Int /\ beats * WindowSize \in Int
        BY <2>2
      <4> QED BY <2>2, <4>1, <4>2
    <3> QED BY <2>2, <3>1, <3>2
  <2>4. ASSUME NEW seq \in Packet, done[seq] \in {"drop", "delay"} PROVE Natural(seq) # k
    <3>1. seq \in ActionsOf("drop") \cup ActionsOf("delay")
      BY <2>4 DEF ActionsOf
    <3>2. expected_arrival_window(SendTime(seq)) \in mappings
      BY <3>1 DEF mappings
    <3> QED BY <2>1, <3>2, NaturalWindow
  <2>5. ASSUME NEW r \in Rows, r.window = k PROVE r.seq \in Undisturbed(k)
    <3>1. /\ r \in Receipt /\ done[r.seq] \in Passed /\ Inside(r.t, k)
          /\ r.t = ArrivalTime(r.seq, done[r.seq], setting.addedDelay)
          /\ observation_window(r.t) = k
      BY <2>5, RowsWindow
    <3>2. r.seq \in Packet /\ r.t \in Nat
      BY <3>1 DEF Receipt
    <3>3. done[r.seq] # "delay"
      <4> SUFFICES ASSUME done[r.seq] = "delay" PROVE FALSE
        OBVIOUS
      <4>1. observation_window(r.t) \in mappings
        BY <2>5 DEF mappings
      <4> QED BY <2>1, <3>1, <4>1
    <3>4. r.t = SendTime(r.seq) + Transit
      <4>1. SendTime(r.seq) \in Nat
        BY <3>2, Sending
      <4> QED BY <2>2, <3>1, <3>3, <4>1 DEF ArrivalTime
    <3>5. Natural(r.seq) = k
      BY <3>1, <3>4 DEF Natural
    <3>6. SendTime(r.seq) + Transit < now
      <4>1. r.t < k * WindowSize /\ k * WindowSize \in Int
        BY <2>2, <3>1 DEF Inside
      <4> QED BY <2>2, <2>3, <3>2, <3>4, <4>1
    <3>7. done[r.seq] \notin {"unsent", "lost"}
      BY <3>1 DEF Passed
    <3> QED BY <3>2, <3>5, <3>6, <3>7 DEF Undisturbed
  <2>6. ASSUME NEW seq \in Undisturbed(k) PROVE \E r \in Rows : r.window = k /\ r.seq = seq
    <3>1. /\ seq \in Packet /\ done[seq] \notin {"unsent", "lost"} /\ Natural(seq) = k
          /\ SendTime(seq) + Transit < now
      BY DEF Undisturbed
    <3>2. done[seq] \in {"forwarded", "tamper"}
      BY <2>2, <2>4, <3>1 DEF Fate
    <3>3. ArrivalTime(seq, done[seq], setting.addedDelay) = SendTime(seq) + Transit
      <4>1. SendTime(seq) \in Nat
        BY <3>1, Sending
      <4> QED BY <2>2, <3>2, <4>1 DEF ArrivalTime
    <3>4. ASSUME NEW p \in flight, p.seq = seq PROVE FALSE
      <4>1. now <= p.due /\ p.due = SendTime(seq) + Transit
        BY <2>2, <3>3, <3>4 DEF OnItsWay
      <4>2. SendTime(seq) + Transit \in Nat
        BY <2>2, <3>1, Sending
      <4> QED BY <2>2, <3>1, <4>1, <4>2
    <3>5. PICK i \in DOMAIN received : received[i].seq = seq
      BY <2>2, <3>1, <3>2, <3>4 DEF NoneMissing, Passed
    <3> DEFINE r == received[i]
    <3>6. r \in Rows /\ r.seq = seq
      BY <3>5 DEF Rows
    <3> HIDE DEF r
    <3>7. /\ r.t = ArrivalTime(r.seq, done[r.seq], setting.addedDelay)
          /\ observation_window(r.t) = r.window
      BY <3>6, RowsWindow
    <3>8. r.window = Natural(seq)
      BY <3>3, <3>6, <3>7 DEF Natural
    <3> QED BY <3>1, <3>6, <3>8
  <2>7. Arrivals(k) \subseteq Undisturbed(k)
    BY <2>5 DEF Arrivals
  <2>8. Undisturbed(k) \subseteq Arrivals(k)
    BY <2>6 DEF Arrivals
  <2> QED BY <2>7, <2>8
<1> QED BY <1>1, JoinInvariant, PTL

-----------------------------------------------------------------------------
(* What the guards read in a log, damaged or not                           *)

AlarmRow == [t : Nat, n : Int]
LogLike(log) == log.received \in Seq(Receipt) /\ log.alarms \in Seq(AlarmRow)

BoundAs(log, d) == {i \in DOMAIN log.alarms : Joined(log, i) = d}
Mistimed(log) ==
  {i \in BoundAs(log, "matched") :
     \E k \in Ordinal(log, i) : log.received[k].t # log.alarms[i].t}
OfMatched(log) == UNION {Ordinal(log, i) : i \in BoundAs(log, "matched")}

LEMMA AlarmedByOrdinal ==
  ASSUME NEW log
  PROVE  alarmed_ordinals(bind(log)) = OfMatched(log)
<1> DEFINE rows == bind(log)
<1>1. DOMAIN rows = DOMAIN log.alarms
  BY DEF bind
<1>2. \A i \in DOMAIN log.alarms :
        rows[i].disposition = Joined(log, i) /\ rows[i].ordinal = Ordinal(log, i)
  BY DEF bind
<1> HIDE DEF rows
<1>3. {i \in DOMAIN rows : rows[i].disposition = "matched"} = BoundAs(log, "matched")
  BY <1>1, <1>2 DEF BoundAs
<1>4. \A i \in BoundAs(log, "matched") : rows[i].ordinal = Ordinal(log, i)
  BY <1>2 DEF BoundAs
<1>5. alarmed_ordinals(rows) = UNION {rows[i].ordinal : i \in BoundAs(log, "matched")}
  BY <1>3 DEF alarmed_ordinals
<1>6. {rows[i].ordinal : i \in BoundAs(log, "matched")} =
        {Ordinal(log, i) : i \in BoundAs(log, "matched")}
  BY <1>4
<1> QED BY <1>5, <1>6 DEF rows, OfMatched

LEMMA Counted ==
  ASSUME NEW m \in Nat, NEW S \in SUBSET (1..m)
  PROVE  IsFiniteSet(S) /\ Cardinality(S) \in Nat /\ (Cardinality(S) = 0 <=> S = {})
<1>1. IsFiniteSet(1..m)
  BY FS_Interval
<1>2. IsFiniteSet(S)
  BY <1>1, FS_Subset
<1> QED BY <1>2, FS_CardinalityType, FS_EmptySet

\* The books of a log count its alarms by what became of them.
LEMMA Books ==
  ASSUME NEW log, LogLike(log)
  PROVE  /\ \A d \in DISPOSITIONS :
              conservation(bind(log)).by_disposition[d] = Cardinality(BoundAs(log, d))
         /\ conservation(bind(log)).matched = Cardinality(BoundAs(log, "matched"))
         /\ conservation(bind(log)).unmatched = UnmatchedIn(conservation(bind(log)).by_disposition)
         /\ conservation(bind(log)).raw_alarm_rows = Len(log.alarms)
         /\ conservation(bind(log)).matched_time_inconsistent = Cardinality(Mistimed(log))
<1> DEFINE rows == bind(log)
           c == conservation(rows)
           m == Len(log.alarms)
<1>1. m \in Nat /\ DOMAIN log.alarms = 1..m
  BY DEF LogLike
<1>2. DOMAIN rows = 1..m
  BY <1>1 DEF bind
<1>3. \A i \in 1..m :
        /\ rows[i].disposition = Joined(log, i)
        /\ rows[i].consistent = (\A k \in Ordinal(log, i) : log.received[k].t = log.alarms[i].t)
  BY <1>1 DEF bind
<1>4. Len(rows) = m
  BY <1>1 DEF bind
<1> HIDE DEF rows, m
<1>5. \A d : {i \in DOMAIN rows : rows[i].disposition = d} = BoundAs(log, d)
  BY <1>1, <1>2, <1>3 DEF BoundAs
<1>6. {i \in DOMAIN rows : rows[i].disposition = "matched" /\ ~rows[i].consistent} = Mistimed(log)
  BY <1>1, <1>2, <1>3 DEF BoundAs, Mistimed
<1>7. "matched" \in DISPOSITIONS
  BY DEF DISPOSITIONS
<1> DEFINE counts == [d \in DISPOSITIONS |->
                        Cardinality({i \in DOMAIN rows : rows[i].disposition = d})]
<1>8. /\ c.by_disposition = counts /\ c.matched = counts["matched"]
      /\ c.unmatched = UnmatchedIn(counts) /\ c.raw_alarm_rows = Len(rows)
      /\ c.matched_time_inconsistent =
           Cardinality({i \in DOMAIN rows : rows[i].disposition = "matched" /\ ~rows[i].consistent})
  BY DEF conservation
<1>9. \A d \in DISPOSITIONS : counts[d] = Cardinality(BoundAs(log, d))
  BY <1>5
<1> QED BY <1>4, <1>6, <1>7, <1>8, <1>9 DEF rows, m

\* A log in which the guards find nothing.
Clean(log) ==
  /\ BoundAs(log, "unmatched_ordinal_out_of_range") = {}
  /\ BoundAs(log, "unmatched_duplicate_ordinal") = {}
  /\ Mistimed(log) = {}
  /\ bind_by_time(log).pairs = OfMatched(log)

LEMMA OnlyCleanLogsPass ==
  ASSUME NEW log, LogLike(log), scan_corpus(log) = {}
  PROVE  Clean(log)
<1> DEFINE rows == bind(log)
           alarmed == alarmed_ordinals(rows)
           block == Confusion(log.received, alarmed)
           c == conservation(rows)
           m == Len(log.alarms)
<1>1. Guards(log, rows, alarmed, block) = {}
  BY DEF scan_corpus
<1>2. m \in Nat /\ DOMAIN log.alarms = 1..m
  BY DEF LogLike
<1>3. c.matched_time_inconsistent = Cardinality(Mistimed(log))
  BY Books
<1>4. c.by_disposition["unmatched_ordinal_out_of_range"] =
        Cardinality(BoundAs(log, "unmatched_ordinal_out_of_range"))
  BY Books DEF DISPOSITIONS
<1>5. c.by_disposition["unmatched_duplicate_ordinal"] =
        Cardinality(BoundAs(log, "unmatched_duplicate_ordinal"))
  BY Books DEF DISPOSITIONS
<1>6. alarmed = OfMatched(log)
  BY AlarmedByOrdinal
<1> HIDE DEF rows, alarmed, block, c, m
<1>7. /\ check_ordinal_health(c) = {} /\ check_time_witness(c) = {}
      /\ compare(log, alarmed, block) = {}
  BY <1>1 DEF Guards, c
<1>8. \A d : BoundAs(log, d) \in SUBSET (1..m)
  BY <1>2 DEF BoundAs
<1>9. Mistimed(log) \in SUBSET (1..m)
  BY <1>8 DEF Mistimed
<1>10. \A S \in SUBSET (1..m) : Cardinality(S) > 0 \/ S = {}
  <2> TAKE S \in SUBSET (1..m)
  <2>1. Cardinality(S) \in Nat /\ (Cardinality(S) = 0 <=> S = {})
    BY <1>2, Counted
  <2> QED BY <2>1
<1>11. Mistimed(log) = {}
  <2>1. ~(c.matched_time_inconsistent > 0)
    BY <1>7 DEF check_time_witness, Finding
  <2> QED BY <1>3, <1>9, <1>10, <2>1
<1>12. /\ ~(c.by_disposition["unmatched_ordinal_out_of_range"] > 0)
       /\ ~(c.by_disposition["unmatched_duplicate_ordinal"] > 0)
  BY <1>7 DEF check_ordinal_health, Finding
<1>13. BoundAs(log, "unmatched_ordinal_out_of_range") = {}
  BY <1>4, <1>8, <1>12, <1>10
<1>14. BoundAs(log, "unmatched_duplicate_ordinal") = {}
  BY <1>5, <1>8, <1>12, <1>10
<1>15. bind_by_time(log).pairs = alarmed
  BY <1>7 DEF compare, Finding
<1> QED BY <1>6, <1>11, <1>13, <1>14, <1>15 DEF Clean

\* In such a log an alarm that names an arrival names one of its own time, and
\* the alarms that name one are the matched ones.
LEMMA CleanAlarms ==
  ASSUME NEW log, LogLike(log), Clean(log),
         NEW i \in DOMAIN log.alarms, log.alarms[i].n # NoField
  PROVE  /\ log.alarms[i].n \in DOMAIN log.received
         /\ log.received[log.alarms[i].n].t = log.alarms[i].t
         /\ Ordinal(log, i) = {log.alarms[i].n}
         /\ i \in BoundAs(log, "matched")
<1>1. /\ Joined(log, i) # "unmatched_ordinal_out_of_range"
      /\ Joined(log, i) # "unmatched_duplicate_ordinal"
  BY DEF Clean, BoundAs
<1>2. Ordinal(log, i) # {} /\ Joined(log, i) = "matched"
  BY <1>1 DEF Joined
<1>3. log.alarms[i].n \in DOMAIN log.received /\ Ordinal(log, i) = {log.alarms[i].n}
  BY <1>2 DEF Ordinal
<1>4. i \in BoundAs(log, "matched")
  BY <1>2 DEF BoundAs
<1>5. log.received[log.alarms[i].n].t = log.alarms[i].t
  BY <1>3, <1>4 DEF Clean, Mistimed
<1> QED BY <1>3, <1>4, <1>5

LEMMA CleanOrdinals ==
  ASSUME NEW log, LogLike(log), Clean(log)
  PROVE  OfMatched(log) =
           {log.alarms[i].n : i \in {x \in DOMAIN log.alarms : log.alarms[x].n # NoField}}
<1> DEFINE Named == {x \in DOMAIN log.alarms : log.alarms[x].n # NoField}
<1>1. \A i \in BoundAs(log, "matched") : i \in Named
  BY DEF BoundAs, Joined
<1>2. BoundAs(log, "matched") = Named
  BY <1>1, CleanAlarms DEF BoundAs
<1>3. \A i \in Named : Ordinal(log, i) = {log.alarms[i].n}
  BY CleanAlarms
<1> HIDE DEF Named
<1>4. OfMatched(log) = UNION {{log.alarms[i].n} : i \in Named}
  BY <1>2, <1>3 DEF OfMatched
<1>5. UNION {{log.alarms[i].n} : i \in Named} = {log.alarms[i].n : i \in Named}
  OBVIOUS
<1> QED BY <1>4, <1>5 DEF Named

-----------------------------------------------------------------------------
(* The log of the run itself                                               *)

LEMMA RunLog ==
  ASSUME JoinInv
  PROVE  /\ LogLike(Log) /\ Log.received = received /\ Log.alarms = rndAlarms
         /\ DOMAIN received = 1..Len(received) /\ Len(received) \in Nat
         /\ DOMAIN rndAlarms = 1..Len(rndAlarms) /\ Len(rndAlarms) \in Nat
         /\ \A i \in DOMAIN received : received[i] \in Receipt /\ received[i].t \in Nat
         /\ \A i, j \in DOMAIN received : received[i].t = received[j].t => i = j
<1>1. received \in Seq(Receipt) /\ rndAlarms \in Seq(Alarm) /\ Arrived
  BY DEF JoinInv, TypeInv
<1>2. rndAlarms \in Seq(AlarmRow)
  <2>1. Alarm \subseteq AlarmRow
    BY DEF Alarm, AlarmRow
  <2> QED BY <1>1, <2>1
<1>3. \A i \in DOMAIN received : received[i] \in Receipt
  BY <1>1
<1>4. \A i \in DOMAIN received : received[i].t \in Nat
  BY <1>3 DEF Receipt
<1>5. DOMAIN received = 1..Len(received) /\ Len(received) \in Nat
  BY <1>1
<1>6. ASSUME NEW i \in DOMAIN received, NEW j \in DOMAIN received,
             received[i].t = received[j].t
      PROVE  i = j
  <2>1. i < j \/ j < i \/ i = j
    BY <1>5
  <2> QED BY <1>1, <1>4, <1>6, <2>1 DEF Arrived
<1> QED BY <1>1, <1>2, <1>3, <1>4, <1>5, <1>6 DEF LogLike, Log

\* Each alarm of the run is on an arrival of its own, the only one at its time.
LEMMA RunAlarms ==
  ASSUME JoinInv, NEW i \in DOMAIN rndAlarms
  PROVE  /\ rndAlarms[i].n \in setting.fires \cap DOMAIN received
         /\ rndAlarms[i].n # NoField
         /\ received[rndAlarms[i].n].t = rndAlarms[i].t
         /\ Ordinal(Log, i) = {rndAlarms[i].n}
         /\ Candidates(Log, i) = {rndAlarms[i].n}
         /\ \A j \in DOMAIN rndAlarms : rndAlarms[j].n = rndAlarms[i].n => i = j
         /\ Joined(Log, i) = "matched"
<1> DEFINE n == rndAlarms[i].n
<1>1. n \in setting.fires \cap DOMAIN received /\ rndAlarms[i].t = received[n].t
  BY DEF JoinInv, Fired
<1>2. n # NoField
  BY <1>1, RunLog DEF NoField
<1>3. Log.alarms = rndAlarms /\ Log.received = received
  BY RunLog
<1>4. Ordinal(Log, i) = {n}
  BY <1>1, <1>3 DEF Ordinal
<1>5. Candidates(Log, i) = {n}
  <2>1. Candidates(Log, i) = {k \in DOMAIN received : received[k].t = received[n].t}
    BY <1>1, <1>3 DEF Candidates
  <2> HIDE DEF n
  <2> QED BY <1>1, <2>1, RunLog
<1>6. \A j \in DOMAIN rndAlarms : rndAlarms[j].n = n => i = j
  <2> SUFFICES ASSUME NEW j \in DOMAIN rndAlarms, rndAlarms[j].n = n, i # j PROVE FALSE
    OBVIOUS
  <2>1. i < j \/ j < i
    BY RunLog
  <2>2. rndAlarms[i].n < rndAlarms[j].n \/ rndAlarms[j].n < rndAlarms[i].n
    BY <2>1 DEF JoinInv, Fired
  <2>3. n \in Nat
    BY <1>1, RunLog
  <2> QED BY <2>2, <2>3
<1>7. ~Repeated(Log, i)
  <2> SUFFICES ASSUME NEW h \in 1..(i - 1), rndAlarms[h].n = n PROVE FALSE
    BY <1>3 DEF Repeated
  <2>1. h \in DOMAIN rndAlarms /\ h # i
    BY RunLog
  <2> QED BY <1>6, <2>1
<1>8. Joined(Log, i) = "matched"
  <2>1. Log.alarms[i].n # NoField /\ Ordinal(Log, i) # {}
    BY <1>2, <1>3, <1>4
  <2> QED BY <1>7, <2>1 DEF Joined
<1> QED BY <1>1, <1>2, <1>4, <1>5, <1>6, <1>8

LEMMA RunOrdinals ==
  ASSUME JoinInv
  PROVE  /\ OfMatched(Log) = setting.fires \cap DOMAIN received
         /\ OfMatched(Log) = {rndAlarms[i].n : i \in DOMAIN rndAlarms}
         /\ UNION {Ordinal(Log, i) : i \in DOMAIN rndAlarms} = OfMatched(Log)
<1>1. BoundAs(Log, "matched") = DOMAIN rndAlarms
  BY RunLog, RunAlarms DEF BoundAs
<1>2. \A i \in DOMAIN rndAlarms : Ordinal(Log, i) = {rndAlarms[i].n}
  BY RunAlarms
<1>3. UNION {Ordinal(Log, i) : i \in DOMAIN rndAlarms} = OfMatched(Log)
  BY <1>1 DEF OfMatched
<1>4. OfMatched(Log) = {rndAlarms[i].n : i \in DOMAIN rndAlarms}
  <2>1. \A x \in OfMatched(Log) : \E i \in DOMAIN rndAlarms : x = rndAlarms[i].n
    BY <1>1, <1>2 DEF OfMatched
  <2>2. \A i \in DOMAIN rndAlarms : rndAlarms[i].n \in OfMatched(Log)
    BY <1>1, <1>2 DEF OfMatched
  <2> QED BY <2>1, <2>2
<1>5. OfMatched(Log) = setting.fires \cap DOMAIN received
  <2>1. \A n \in setting.fires \cap DOMAIN received :
          \E i \in DOMAIN rndAlarms : rndAlarms[i].n = n
    BY DEF JoinInv, Fired
  <2>2. \A i \in DOMAIN rndAlarms : rndAlarms[i].n \in setting.fires \cap DOMAIN received
    BY RunAlarms
  <2> QED BY <1>4, <2>1, <2>2
<1> QED BY <1>3, <1>4, <1>5

-----------------------------------------------------------------------------
(* The properties of the join                                              *)

\* The alarms are as many as the arrivals they are on.
LEMMA AlarmsCounted ==
  ASSUME JoinInv
  PROVE  IsFiniteSet(OfMatched(Log)) /\ Cardinality(OfMatched(Log)) = Len(rndAlarms)
<1> DEFINE m == Len(rndAlarms)
           f == [i \in 1..m |-> rndAlarms[i].n]
           S == OfMatched(Log)
<1>1. m \in Nat /\ DOMAIN rndAlarms = 1..m
  BY RunLog
<1>2. S = {rndAlarms[i].n : i \in 1..m}
  BY <1>1, RunOrdinals
<1>3. \A i, j \in 1..m : rndAlarms[i].n = rndAlarms[j].n => i = j
  BY <1>1, RunAlarms
<1> HIDE DEF m, S
<1>4. /\ f \in [1..m -> S]
      /\ \A i, j \in 1..m : f[i] = f[j] => i = j
      /\ \A x \in S : \E i \in 1..m : f[i] = x
  BY <1>2, <1>3
<1> HIDE DEF f
<1>5. f \in Bijection(1..m, S)
  BY <1>4 DEF Bijection, Injection, Surjection, IsInjective
<1>6. ExistsBijection(1..m, S)
  BY <1>5 DEF ExistsBijection
<1>7. Cardinality(S) = m
  BY <1>1, <1>6, FS_CountingElements
<1>8. IsFiniteSet(1..m)
  BY <1>1, FS_Interval
<1>9. IsFiniteSet(S)
  BY <1>6, <1>8, FS_Bijection
<1> QED BY <1>7, <1>9 DEF m, S

\* An alarm on a positive observation is a true one, on another a false one.
LEMMA AlarmsAreTrueOrFalse ==
  ASSUME NEW observations, NEW alarmed,
         alarmed \subseteq DOMAIN observations, IsFiniteSet(alarmed)
  PROVE  Confusion(observations, alarmed).tp + Confusion(observations, alarmed).fp
           = Cardinality(alarmed)
<1> DEFINE P == {telemetry_effect_events[i].start : i \in DOMAIN telemetry_effect_events}
           A == {k \in DOMAIN observations :
                   (observations[k].t \in P) = TRUE /\ (k \in alarmed) = TRUE}
           B == {k \in DOMAIN observations :
                   (observations[k].t \in P) = FALSE /\ (k \in alarmed) = TRUE}
<1>1. Confusion(observations, alarmed).tp = Cardinality(A)
  BY DEF Confusion
<1>2. Confusion(observations, alarmed).fp = Cardinality(B)
  BY DEF Confusion
<1> HIDE DEF P
<1>3. A \cup B = alarmed /\ A \cap B = {}
  OBVIOUS
<1>4. A \in SUBSET alarmed /\ B \in SUBSET alarmed
  OBVIOUS
<1> HIDE DEF A, B
<1>5. IsFiniteSet(A) /\ IsFiniteSet(B)
  BY <1>4, FS_Subset
<1>6. Cardinality(A) \in Nat /\ Cardinality(B) \in Nat
  BY <1>5, FS_CardinalityType
<1>7. Cardinality(alarmed) = Cardinality(A) + Cardinality(B) - Cardinality({})
  BY <1>3, <1>5, FS_Union
<1>8. Cardinality({}) = 0
  BY FS_EmptySet
<1> QED BY <1>1, <1>2, <1>6, <1>7, <1>8

\* The guards find nothing in the log of the run.
LEMMA GreenStage ==
  ASSUME JoinInv
  PROVE  green_stage = {}
<1> DEFINE rows == bind(Log)
           alarmed == alarmed_ordinals(rows)
           block == Confusion(received, alarmed)
           c == conservation(rows)
           m == Len(rndAlarms)
<1>1. /\ Log.alarms = rndAlarms /\ Log.received = received /\ LogLike(Log)
      /\ m \in Nat /\ DOMAIN rndAlarms = 1..m
  BY RunLog
<1>2. alarmed = OfMatched(Log)
  BY AlarmedByOrdinal
<1>3. \A i \in 1..m : Joined(Log, i) = "matched"
  BY <1>1, RunAlarms
<1>4. BoundAs(Log, "matched") = 1..m
  BY <1>1, <1>3 DEF BoundAs
<1>5. \A d : d # "matched" => BoundAs(Log, d) = {}
  BY <1>1, <1>3 DEF BoundAs
<1>6. Mistimed(Log) = {}
  <2> SUFFICES ASSUME NEW i \in DOMAIN rndAlarms, NEW k \in Ordinal(Log, i)
               PROVE  received[k].t = rndAlarms[i].t
    BY <1>1, <1>4 DEF Mistimed
  <2> QED BY RunAlarms
<1>7. Cardinality(1..m) = m /\ Cardinality({}) = 0
  <2> HIDE DEF m
  <2>1. 1 \in Int /\ m \in Int
    BY <1>1
  <2>2. Cardinality(1..m) = IF 1 > m THEN 0 ELSE m - 1 + 1
    BY <2>1, FS_Interval
  <2> QED BY <1>1, <2>2, FS_EmptySet
<1>8. /\ \A d \in DISPOSITIONS : c.by_disposition[d] = Cardinality(BoundAs(Log, d))
      /\ c.matched = Cardinality(BoundAs(Log, "matched"))
      /\ c.unmatched = UnmatchedIn(c.by_disposition)
      /\ c.raw_alarm_rows = m
      /\ c.matched_time_inconsistent = Cardinality(Mistimed(Log))
  BY <1>1, Books
<1>9. /\ c.by_disposition["matched"] = m /\ c.matched = m
      /\ \A d \in DISPOSITIONS \ {"matched"} : c.by_disposition[d] = 0
      /\ c.matched_time_inconsistent = 0
  BY <1>4, <1>5, <1>6, <1>7, <1>8 DEF DISPOSITIONS
<1>10. \A i \in DOMAIN rows : rows[i].disposition \in DISPOSITIONS
  BY <1>1, <1>3 DEF bind, DISPOSITIONS
<1> HIDE DEF rows, alarmed, block, c, m
<1>11. UnmatchedIn(c.by_disposition) = 0
  BY <1>9 DEF UnmatchedIn, DISPOSITIONS
<1>12. check_conservation(c, Log) = {}
  <2>1. Len(Log.alarms) = c.raw_alarm_rows /\ c.raw_alarm_rows = c.matched + c.unmatched
    BY <1>1, <1>8, <1>9, <1>11 DEF m
  <2>2. c.by_disposition["matched"] + UnmatchedIn(c.by_disposition) = c.raw_alarm_rows
    BY <1>1, <1>8, <1>9, <1>11
  <2> QED BY <2>1, <2>2 DEF check_conservation, Finding
<1>13. check_dispositions(rows) = {}
  BY <1>10 DEF check_dispositions, Finding
<1>14. check_ordinal_health(c) = {}
  BY <1>9 DEF check_ordinal_health, Finding, DISPOSITIONS
<1>15. check_time_witness(c) = {}
  BY <1>9 DEF check_time_witness, Finding
<1>16. check_join_is_ordinal(Log, alarmed) = {}
  BY <1>1, <1>2, RunOrdinals DEF check_join_is_ordinal, Finding
<1>17. compare(Log, alarmed, block) = {}
  <2>1. \A i \in DOMAIN rndAlarms : Cardinality(Candidates(Log, i)) = 1
    <3> TAKE i \in DOMAIN rndAlarms
    <3>1. Candidates(Log, i) = {rndAlarms[i].n}
      BY RunAlarms
    <3> QED BY <3>1, FS_Singleton
  <2>2. bind_by_time(Log).ambiguous = {}
    BY <1>1, <2>1 DEF bind_by_time
  <2>3. bind_by_time(Log).pairs = UNION {Candidates(Log, i) : i \in DOMAIN rndAlarms}
    BY <1>1, <2>1 DEF bind_by_time
  <2>4. \A i \in DOMAIN rndAlarms : Candidates(Log, i) = Ordinal(Log, i)
    BY RunAlarms
  <2>5. bind_by_time(Log).pairs = alarmed
    BY <1>2, <2>3, <2>4, RunOrdinals
  <2>6. confusion(Log) = block
    BY <1>1, <2>5 DEF confusion, block
  <2> QED BY <2>2, <2>5, <2>6 DEF compare, Finding
<1>18. check_field_registry(PRODUCER, PROVENANCE_ONLY) = {}
  BY DEF check_field_registry, Finding, PRODUCER, PROVENANCE_ONLY
<1>19. scan_corpus(Log) = Guards(Log, rows, alarmed, block)
  BY <1>1 DEF scan_corpus, rows, alarmed, block
<1>20. Guards(Log, rows, alarmed, block) = {}
  BY <1>12, <1>13, <1>14, <1>15, <1>16, <1>17 DEF Guards, c
<1> QED BY <1>18, <1>19, <1>20 DEF green_stage

\* rndjoin.py, validate_phase4.py:52-94: the repaired join credits the packets
\* that the detector was looking at, and no guard finds anything in the log.
THEOREM RandomAlarmsJoin == Spec => []RandomAlarmsJoinTheirPackets
<1>1. JoinInv => RandomAlarmsJoinTheirPackets
  <2> SUFFICES ASSUME JoinInv PROVE RandomAlarmsJoinTheirPackets
    OBVIOUS
  <2>1. Alarmed = OfMatched(Log)
    BY AlarmedByOrdinal DEF Alarmed
  <2>2. Alarmed = setting.fires \cap DOMAIN received
    BY <2>1, RunOrdinals
  <2>3. IsFiniteSet(Alarmed) /\ Cardinality(Alarmed) = Len(rndAlarms)
    BY <2>1, AlarmsCounted
  <2>4. direct_detection_rnd = Confusion(received, Alarmed)
    BY DEF direct_detection_rnd, Alarmed
  <2>5. Alarmed \subseteq DOMAIN received
    BY <2>2
  <2>6. direct_detection_rnd.tp + direct_detection_rnd.fp = Len(rndAlarms)
    <3> HIDE DEF Alarmed
    <3> QED BY <2>3, <2>4, <2>5, AlarmsAreTrueOrFalse
  <2> QED BY <2>2, <2>6, GreenStage DEF RandomAlarmsJoinTheirPackets
<1> QED BY <1>1, JoinInvariant, PTL

\* A log with the alarms of the run, whose observations are rows of the run.
LEMMA ObservationsDamaged ==
  ASSUME JoinInv, NEW log, log.alarms = rndAlarms, log.received \in Seq(Receipt),
         \A k \in DOMAIN log.received : log.received[k] \in Rows,
         scan_corpus(log) = {}
  PROVE  Credited(log) = Credited(Log)
<1>1. LogLike(log)
  BY RunLog DEF LogLike
<1>2. Clean(log)
  BY <1>1, OnlyCleanLogsPass
<1>3. ASSUME NEW i \in DOMAIN rndAlarms
      PROVE  /\ rndAlarms[i].n \in DOMAIN log.received
             /\ log.received[rndAlarms[i].n] = received[rndAlarms[i].n]
  <2> DEFINE n == rndAlarms[i].n
  <2>1. n # NoField /\ n \in DOMAIN received /\ received[n].t = rndAlarms[i].t
    BY RunAlarms
  <2>2. n \in DOMAIN log.received /\ log.received[n].t = rndAlarms[i].t
    BY <1>1, <1>2, <2>1, CleanAlarms
  <2> HIDE DEF n
  <2>3. PICK k \in DOMAIN received : log.received[n] = received[k]
    BY <2>2 DEF Rows
  <2>4. k = n
    BY <2>1, <2>2, <2>3, RunLog
  <2> QED BY <2>2, <2>3, <2>4 DEF n
<1>4. OfMatched(log) = {rndAlarms[i].n : i \in DOMAIN rndAlarms}
  <2>1. OfMatched(log) =
          {log.alarms[i].n : i \in {x \in DOMAIN log.alarms : log.alarms[x].n # NoField}}
    BY <1>1, <1>2, CleanOrdinals
  <2>2. {x \in DOMAIN rndAlarms : rndAlarms[x].n # NoField} = DOMAIN rndAlarms
    BY RunAlarms
  <2> QED BY <2>1, <2>2
<1>5. OfMatched(log) = OfMatched(Log)
  BY <1>4, RunOrdinals
<1>6. \A k \in OfMatched(Log) : log.received[k] = received[k]
  BY <1>3, RunOrdinals
<1>7. {log.received[k].seq : k \in OfMatched(log)} =
        {received[k].seq : k \in OfMatched(Log)}
  BY <1>5, <1>6
<1>8. Credited(log) = {log.received[k].seq : k \in OfMatched(log)}
  BY AlarmedByOrdinal DEF Credited
<1>9. Credited(Log) = {received[k].seq : k \in OfMatched(Log)}
  BY AlarmedByOrdinal, RunLog DEF Credited
<1> QED BY <1>7, <1>8, <1>9

\* A log in which one alarm names another observation, or none.
LEMMA AlarmDamaged ==
  ASSUME JoinInv, NEW i \in DOMAIN rndAlarms, NEW n \in Int, NEW log,
         log.received = received, log.alarms \in Seq(AlarmRow),
         DOMAIN log.alarms = DOMAIN rndAlarms,
         \A j \in DOMAIN rndAlarms : log.alarms[j].t = rndAlarms[j].t,
         \A j \in DOMAIN rndAlarms : log.alarms[j].n = IF j = i THEN n ELSE rndAlarms[j].n,
         scan_corpus(log) = {}
  PROVE  Credited(log) = Credited(Log)
<1> DEFINE old == rndAlarms[i].n
<1>1. LogLike(log)
  BY RunLog DEF LogLike
<1>2. Clean(log)
  BY <1>1, OnlyCleanLogsPass
<1>3. /\ old \in DOMAIN received /\ received[old].t = rndAlarms[i].t
      /\ Candidates(Log, i) = {old}
      /\ \A j \in DOMAIN rndAlarms : rndAlarms[j].n = old => i = j
  BY RunAlarms
<1> HIDE DEF old
<1>4. OfMatched(log) =
        {log.alarms[j].n : j \in {x \in DOMAIN rndAlarms : log.alarms[x].n # NoField}}
  BY <1>1, <1>2, CleanOrdinals
\* The oracle still finds the observation by the time of the alarm.
<1>5. old \in OfMatched(log)
  <2>1. Candidates(log, i) = {old}
    BY <1>3, RunLog DEF Candidates
  <2>2. Cardinality(Candidates(log, i)) = 1
    BY <2>1, FS_Singleton
  <2>3. old \in bind_by_time(log).pairs
    BY <2>1, <2>2 DEF bind_by_time
  <2> QED BY <1>2, <2>3 DEF Clean
<1>6. n # NoField
  <2> SUFFICES ASSUME n = NoField PROVE FALSE
    OBVIOUS
  <2>1. PICK j \in DOMAIN rndAlarms : log.alarms[j].n # NoField /\ log.alarms[j].n = old
    BY <1>4, <1>5
  <2>2. j # i /\ rndAlarms[j].n = old
    BY <2>1
  <2> QED BY <1>3, <2>2
<1>7. n = old
  <2>1. log.alarms[i].n = n /\ log.alarms[i].t = rndAlarms[i].t
    OBVIOUS
  <2>2. n \in DOMAIN received /\ received[n].t = rndAlarms[i].t
    BY <1>1, <1>2, <1>6, <2>1, CleanAlarms
  <2> QED BY <1>3, <2>2, RunLog
<1>8. \A j \in DOMAIN rndAlarms : log.alarms[j].n = rndAlarms[j].n
  BY <1>7 DEF old
<1>9. {x \in DOMAIN rndAlarms : log.alarms[x].n # NoField} = DOMAIN rndAlarms
  <2>1. \A x \in DOMAIN rndAlarms : rndAlarms[x].n # NoField
    BY RunAlarms
  <2> QED BY <1>8, <2>1
<1>10. OfMatched(log) = {rndAlarms[j].n : j \in DOMAIN rndAlarms}
  BY <1>4, <1>8, <1>9
<1>11. OfMatched(log) = OfMatched(Log)
  BY <1>10, RunOrdinals
<1> QED BY <1>11, AlarmedByOrdinal, RunLog DEF Credited

\* A sequence without its k-th element, and one with a further element as its k-th.
LEMMA RemovedAt ==
  ASSUME NEW S, NEW s \in Seq(S), NEW k \in DOMAIN s
  PROVE  /\ RemoveAt(s, k) \in Seq(S) /\ DOMAIN RemoveAt(s, k) = 1..(Len(s) - 1)
         /\ \A j \in 1..(Len(s) - 1) : RemoveAt(s, k)[j] = IF j < k THEN s[j] ELSE s[j + 1]
<1> DEFINE l == Len(s)
           a == SubSeq(s, 1, k - 1)
           b == SubSeq(s, k + 1, l)
<1>1. l \in Nat /\ DOMAIN s = 1..l /\ k \in 1..l
  OBVIOUS
<1>2. /\ a \in Seq(S) /\ Len(a) = k - 1
      /\ \A j \in 1..(k - 1) : a[j] = s[j]
  BY <1>1
<1>3. /\ b \in Seq(S) /\ Len(b) = l - k
      /\ \A j \in 1..(l - k) : b[j] = s[k + j]
  BY <1>1
<1>4. RemoveAt(s, k) = a \o b
  BY DEF RemoveAt
<1> HIDE DEF l, a, b
<1>5. /\ a \o b \in Seq(S) /\ DOMAIN (a \o b) = 1..(l - 1)
      /\ \A j \in 1..(l - 1) : (a \o b)[j] = IF j <= k - 1 THEN a[j] ELSE b[j - (k - 1)]
  BY <1>1, <1>2, <1>3
<1>6. ASSUME NEW j \in 1..(l - 1) PROVE (a \o b)[j] = IF j < k THEN s[j] ELSE s[j + 1]
  <2>1. CASE j <= k - 1
    <3>1. j \in 1..(k - 1) /\ j < k
      BY <1>1, <2>1
    <3> QED BY <1>2, <1>5, <2>1, <3>1
  <2>2. CASE ~(j <= k - 1)
    <3> DEFINE h == j - (k - 1)
    <3>1. h \in 1..(l - k) /\ k + h = j + 1 /\ ~(j < k)
      BY <1>1, <2>2
    <3>2. (a \o b)[j] = b[h]
      BY <1>5, <2>2
    <3> HIDE DEF h
    <3> QED BY <1>3, <3>1, <3>2
  <2> QED BY <2>1, <2>2
<1> QED BY <1>4, <1>5, <1>6 DEF l

LEMMA InsertedAt ==
  ASSUME NEW S, NEW s \in Seq(S), NEW k \in 1..(Len(s) + 1), NEW e \in S
  PROVE  /\ InsertAt(s, k, e) \in Seq(S) /\ DOMAIN InsertAt(s, k, e) = 1..(Len(s) + 1)
         /\ \A j \in 1..(k - 1) : InsertAt(s, k, e)[j] = s[j]
         /\ InsertAt(s, k, e)[k] = e
         /\ \A j \in (k + 1)..(Len(s) + 1) : InsertAt(s, k, e)[j] = s[j - 1]
<1> DEFINE l == Len(s)
           a == SubSeq(s, 1, k - 1)
           b == SubSeq(s, k, l)
           c == a \o <<e>>
<1>1. l \in Nat /\ DOMAIN s = 1..l /\ k \in 1..(l + 1)
  OBVIOUS
<1>2. /\ a \in Seq(S) /\ Len(a) = k - 1
      /\ \A j \in 1..(k - 1) : a[j] = s[j]
  BY <1>1
<1>3. /\ b \in Seq(S) /\ Len(b) = l - k + 1
      /\ \A j \in 1..(l - k + 1) : b[j] = s[k - 1 + j]
  BY <1>1
<1>4. InsertAt(s, k, e) = c \o b
  BY DEF InsertAt
<1> HIDE DEF l, a, b
<1>5. /\ c \in Seq(S) /\ Len(c) = k
      /\ \A j \in 1..(k - 1) : c[j] = a[j]
      /\ c[k] = e
  BY <1>1, <1>2
<1> HIDE DEF c
<1>6. /\ c \o b \in Seq(S) /\ DOMAIN (c \o b) = 1..(l + 1)
      /\ \A j \in 1..(l + 1) : (c \o b)[j] = IF j <= k THEN c[j] ELSE b[j - k]
  <2>1. c \o b \in Seq(S) /\ Len(c \o b) = Len(c) + Len(b)
    <3>1. c \in Seq(S) /\ b \in Seq(S)
      BY <1>3, <1>5
    <3>2. c \o b \in Seq(S)
      BY <3>1
    <3>3. Len(c \o b) = Len(c) + Len(b)
      BY <3>1
    <3> QED BY <3>2, <3>3
  <2>2. Len(c \o b) = l + 1
    BY <1>1, <1>3, <1>5, <2>1
  <2>3. DOMAIN (c \o b) = 1..(l + 1)
    BY <2>1, <2>2
  <2>4. \A j \in 1..(Len(c) + Len(b)) :
          (c \o b)[j] = IF j <= Len(c) THEN c[j] ELSE b[j - Len(c)]
    BY <1>3, <1>5
  <2>5. Len(c) + Len(b) = l + 1
    BY <2>1, <2>2
  <2> QED BY <1>5, <2>1, <2>3, <2>4, <2>5
<1>7. ASSUME NEW j \in 1..(k - 1) PROVE (c \o b)[j] = s[j]
  <2>1. j \in 1..(l + 1) /\ j <= k
    BY <1>1
  <2> QED BY <1>2, <1>5, <1>6, <2>1
<1>8. (c \o b)[k] = e
  BY <1>1, <1>5, <1>6
<1>9. ASSUME NEW j \in (k + 1)..(l + 1) PROVE (c \o b)[j] = s[j - 1]
  <2> DEFINE h == j - k
  <2>1. h \in 1..(l - k + 1) /\ k - 1 + h = j - 1 /\ j \in 1..(l + 1) /\ ~(j <= k)
    BY <1>1
  <2>2. (c \o b)[j] = b[h]
    BY <1>6, <2>1
  <2> HIDE DEF h
  <2> QED BY <1>3, <2>1, <2>2
<1> QED BY <1>4, <1>6, <1>7, <1>8, <1>9 DEF l

\* Neither has other elements, if the further one is an element already.
LEMMA Removed ==
  ASSUME NEW S, NEW s \in Seq(S), NEW k \in DOMAIN s
  PROVE  /\ RemoveAt(s, k) \in Seq(S)
         /\ \A j \in DOMAIN RemoveAt(s, k) : \E i \in DOMAIN s : RemoveAt(s, k)[j] = s[i]
<1>1. DOMAIN s = 1..Len(s) /\ Len(s) \in Nat
  OBVIOUS
<1>2. \A j \in 1..(Len(s) - 1) : j \in 1..Len(s) /\ j + 1 \in 1..Len(s)
  BY <1>1
<1> QED BY <1>1, <1>2, RemovedAt

LEMMA InsertedFrom ==
  ASSUME NEW S, NEW s \in Seq(S), NEW k \in 1..(Len(s) + 1), NEW e \in S
  PROVE  \A j \in DOMAIN InsertAt(s, k, e) :
           InsertAt(s, k, e)[j] = e \/ \E i \in DOMAIN s : InsertAt(s, k, e)[j] = s[i]
<1> DEFINE r == InsertAt(s, k, e)
<1>1. /\ DOMAIN r = 1..(Len(s) + 1)
      /\ \A j \in 1..(k - 1) : r[j] = s[j]
      /\ r[k] = e
      /\ \A j \in (k + 1)..(Len(s) + 1) : r[j] = s[j - 1]
  BY InsertedAt
<1>2. DOMAIN s = 1..Len(s) /\ Len(s) \in Nat
  OBVIOUS
<1> HIDE DEF r
<1>3. ASSUME NEW j \in 1..(Len(s) + 1) PROVE r[j] = e \/ \E i \in 1..Len(s) : r[j] = s[i]
  <2>1. CASE j \in 1..(k - 1)
    BY <1>1, <1>2, <2>1
  <2>2. CASE j = k
    BY <1>1, <2>2
  <2>3. CASE j \in (k + 1)..(Len(s) + 1)
    <3>1. j - 1 \in 1..Len(s)
      BY <1>2, <2>3
    <3> QED BY <1>1, <2>3, <3>1
  <2>4. j \in 1..(k - 1) \/ j = k \/ j \in (k + 1)..(Len(s) + 1)
    BY <1>2
  <2> QED BY <2>1, <2>2, <2>3, <2>4
<1> QED BY <1>1, <1>2, <1>3 DEF r

LEMMA Inserted ==
  ASSUME NEW S, NEW s \in Seq(S), NEW k \in DOMAIN s
  PROVE  /\ InsertAt(s, k, s[k]) \in Seq(S)
         /\ \A j \in DOMAIN InsertAt(s, k, s[k]) :
              \E i \in DOMAIN s : InsertAt(s, k, s[k])[j] = s[i]
<1>1. k \in 1..(Len(s) + 1) /\ s[k] \in S
  OBVIOUS
<1>2. InsertAt(s, k, s[k]) \in Seq(S)
  BY <1>1, InsertedAt
<1>3. ASSUME NEW j \in DOMAIN InsertAt(s, k, s[k])
      PROVE  \E i \in DOMAIN s : InsertAt(s, k, s[k])[j] = s[i]
  <2>1. InsertAt(s, k, s[k])[j] = s[k] \/ \E i \in DOMAIN s : InsertAt(s, k, s[k])[j] = s[i]
    BY <1>1, InsertedFrom
  <2> QED BY <2>1
<1> QED BY <1>2, <1>3

\* p4_checks.py, p4_reference_oracle.py: no damage of one row changes which
\* packets are credited unless a guard finds it.
THEOREM NoDamage == Spec => []NoDamageEscapes
<1>1. JoinInv => NoDamageEscapes
  <2> SUFFICES ASSUME JoinInv, NEW log \in Damaged, scan_corpus(log) = {}
               PROVE  Credited(log) = Credited(Log)
    BY DEF NoDamageEscapes
  <2>1. Log = [received |-> received, alarms |-> rndAlarms]
    BY DEF Log
  <2>2. received \in Seq(Receipt) /\ rndAlarms \in Seq(AlarmRow)
    BY RunLog DEF LogLike
  <2>3. ASSUME NEW k \in DOMAIN received, log = [Log EXCEPT !.received = RemoveAt(@, k)]
        PROVE  Credited(log) = Credited(Log)
    <3>1. log.alarms = rndAlarms /\ log.received = RemoveAt(received, k)
      BY <2>1, <2>3
    <3>2. /\ RemoveAt(received, k) \in Seq(Receipt)
          /\ \A j \in DOMAIN RemoveAt(received, k) :
               \E i \in DOMAIN received : RemoveAt(received, k)[j] = received[i]
      BY <2>2, Removed
    <3>3. log.received \in Seq(Receipt) /\ \A j \in DOMAIN log.received : log.received[j] \in Rows
      BY <3>1, <3>2 DEF Rows
    <3> QED BY <3>1, <3>3, ObservationsDamaged
  <2>4. ASSUME NEW k \in DOMAIN received, log = [Log EXCEPT !.received = InsertAt(@, k, @[k])]
        PROVE  Credited(log) = Credited(Log)
    <3>1. log.alarms = rndAlarms /\ log.received = InsertAt(received, k, received[k])
      BY <2>1, <2>4
    <3>2. /\ InsertAt(received, k, received[k]) \in Seq(Receipt)
          /\ \A j \in DOMAIN InsertAt(received, k, received[k]) :
               \E i \in DOMAIN received : InsertAt(received, k, received[k])[j] = received[i]
      BY <2>2, Inserted
    <3>3. log.received \in Seq(Receipt) /\ \A j \in DOMAIN log.received : log.received[j] \in Rows
      BY <3>1, <3>2 DEF Rows
    <3> QED BY <3>1, <3>3, ObservationsDamaged
  <2>5. ASSUME NEW i \in DOMAIN rndAlarms, NEW n \in {NoField} \cup 0..(Len(received) + 1),
               log = [Log EXCEPT !.alarms[i].n = n]
        PROVE  Credited(log) = Credited(Log)
    <3>1. n \in Int
      BY RunLog DEF NoField
    <3>2. log.received = received /\ log.alarms = [rndAlarms EXCEPT ![i].n = n]
      BY <2>1, <2>5
    <3>3. \A j \in DOMAIN rndAlarms : rndAlarms[j] \in AlarmRow
      BY <2>2
    <3>4. [rndAlarms[i] EXCEPT !.n = n] \in AlarmRow
      BY <3>1, <3>3 DEF AlarmRow
    <3>5. log.alarms = [rndAlarms EXCEPT ![i] = [rndAlarms[i] EXCEPT !.n = n]]
      BY <3>2
    <3>6. log.alarms \in Seq(AlarmRow) /\ DOMAIN log.alarms = DOMAIN rndAlarms
      BY <2>2, <3>4, <3>5
    <3>7. \A j \in DOMAIN rndAlarms : j # i => log.alarms[j] = rndAlarms[j]
      BY <3>5
    <3>8. log.alarms[i] = [rndAlarms[i] EXCEPT !.n = n]
      BY <3>5
    <3>9. log.alarms[i].n = n /\ log.alarms[i].t = rndAlarms[i].t
      BY <3>3, <3>8 DEF AlarmRow
    <3>10. /\ \A j \in DOMAIN rndAlarms : log.alarms[j].t = rndAlarms[j].t
           /\ \A j \in DOMAIN rndAlarms : log.alarms[j].n = IF j = i THEN n ELSE rndAlarms[j].n
      BY <3>7, <3>9
    <3> QED BY <3>1, <3>2, <3>6, <3>10, AlarmDamaged
  <2> QED BY <2>3, <2>4, <2>5 DEF Damaged
<1> QED BY <1>1, JoinInvariant, PTL

-----------------------------------------------------------------------------
(* The score of the twin                                                   *)

LEMMA LeastOf ==
  ASSUME NEW S \in SUBSET Nat, S # {}
  PROVE  /\ Min(S) \in S
         /\ \A y \in S : Min(S) <= y
<1>1. PICK x \in S : \A y \in S : ~(<<y, x>> \in OpToRel(<, Nat))
  BY NatLessThanWellFounded, WFMin, Zenon
<1>2. \A y \in S : x <= y
  <2>1. TAKE y \in S
  <2>2. <<y, x>> \in Nat \X Nat
    OBVIOUS
  <2>3. ~(y < x)
    BY <1>1, <2>2 DEF OpToRel
  <2> QED BY <2>3
<1> QED BY <1>2 DEF Min

LEMMA GreatestOf ==
  ASSUME NEW n \in Nat, NEW S \in SUBSET (1..n), S # {}
  PROVE  /\ Max(S) \in S
         /\ \A y \in S : y <= Max(S)
<1> DEFINE T == {n - y : y \in S}
<1>1. T \in SUBSET Nat /\ T # {}
  <2>1. \A y \in S : y \in 1..n /\ n - y \in Nat
    OBVIOUS
  <2> QED BY <2>1
<1>2. Min(T) \in T /\ \A y \in T : Min(T) <= y
  <2> HIDE DEF T
  <2> QED BY <1>1, LeastOf
<1>3. PICK x \in S : Min(T) = n - x
  BY <1>2
<1>4. \A y \in S : x >= y
  <2> SUFFICES ASSUME NEW y \in S PROVE x >= y
    OBVIOUS
  <2>1. Min(T) <= n - y
    BY <1>2
  <2> HIDE DEF T
  <2> QED BY <1>3, <2>1
<1>5. Max(S) \in S /\ \A y \in S : Max(S) >= y
  BY <1>3, <1>4 DEF Max
<1>6. \A y \in S : y \in Int
  OBVIOUS
<1> QED BY <1>5, <1>6

\* Induction over the naturals, for a set.
LEMMA SetInduction ==
  ASSUME NEW S, 0 \in S, \A n \in Nat : n \in S => n + 1 \in S
  PROVE  Nat \subseteq S
<1> DEFINE T == Nat \ S
<1> SUFFICES ASSUME T # {} PROVE FALSE
  OBVIOUS
<1>1. Min(T) \in T /\ \A y \in T : Min(T) <= y
  BY LeastOf
<1> DEFINE m == Min(T)
<1>2. m \in Nat /\ m \notin S /\ \A y \in Nat : y < m => y \in S
  BY <1>1
<1> HIDE DEF m, T
<1>3. m # 0 /\ m - 1 \in Nat /\ m - 1 \in S
  BY <1>2
<1> QED BY <1>2, <1>3

LEMMA SameSize ==
  ASSUME NEW S, NEW T, IsFiniteSet(S), NEW f \in [S -> T],
         \A x, y \in S : f[x] = f[y] => x = y,
         \A y \in T : \E x \in S : f[x] = y
  PROVE  IsFiniteSet(T) /\ Cardinality(T) = Cardinality(S)
<1>1. f \in Bijection(S, T)
  BY DEF Bijection, Injection, Surjection, IsInjective
<1> QED BY <1>1, FS_Bijection DEF ExistsBijection

\* Rows with numbers of their own stand in their order once each.
LEMMA Ordered ==
  ASSUME NEW S, IsFiniteSet(S), \A x \in S : x.seq \in Nat,
         \A x, y \in S : x.seq = y.seq => x = y
  PROVE  /\ Cardinality(S) \in Nat /\ DOMAIN InOrder(S) = 1..Cardinality(S)
         /\ \A i \in 1..Cardinality(S) : InOrder(S)[i] \in S
         /\ \A i, j \in 1..Cardinality(S) : InOrder(S)[i] = InOrder(S)[j] => i = j
         /\ \A x \in S : \E i \in 1..Cardinality(S) : InOrder(S)[i] = x
<1> DEFINE n == Cardinality(S)
           Below(x) == {y \in S : y.seq < x.seq}
           Rank(x) == Cardinality(Below(x))
<1>1. n \in Nat
  BY FS_CardinalityType
<1>2. \A x \in S : IsFiniteSet(Below(x)) /\ Rank(x) \in Nat
  <2> TAKE x \in S
  <2>1. Below(x) \in SUBSET S
    OBVIOUS
  <2>2. IsFiniteSet(Below(x))
    BY <2>1, FS_Subset
  <2> QED BY <2>2, FS_CardinalityType
<1>3. \A x \in S : Rank(x) < n
  <2> TAKE x \in S
  <2>1. Below(x) \in SUBSET S /\ x \notin Below(x)
    OBVIOUS
  <2> HIDE DEF Below
  <2>2. Rank(x) <= n /\ Rank(x) # n
    BY <2>1, FS_Subset
  <2> QED BY <1>1, <1>2, <2>2
<1>4. ASSUME NEW x \in S, NEW y \in S, x.seq < y.seq PROVE Rank(x) < Rank(y)
  <2>1. Below(x) \in SUBSET Below(y) /\ x \in Below(y) /\ x \notin Below(x)
    BY <1>4
  <2> HIDE DEF Below
  <2>2. Rank(x) <= Rank(y) /\ Rank(x) # Rank(y)
    BY <1>2, <2>1, FS_Subset
  <2> QED BY <1>2, <2>2
<1>5. ASSUME NEW x \in S, NEW y \in S, Rank(x) = Rank(y) PROVE x = y
  <2>1. ~(Rank(x) < Rank(y)) /\ ~(Rank(y) < Rank(x))
    BY <1>2, <1>5
  <2>2. x.seq \in Nat /\ y.seq \in Nat
    OBVIOUS
  <2> QED BY <1>4, <2>1, <2>2
<1> DEFINE f == [x \in S |-> Rank(x) + 1]
<1>6. f \in [S -> 1..n]
  <2>1. ASSUME NEW x \in S PROVE Rank(x) + 1 \in 1..n
    <3>1. Rank(x) \in Nat /\ Rank(x) < n
      BY <1>2, <1>3
    <3> HIDE DEF Rank, n
    <3> QED BY <1>1, <3>1
  <2> HIDE DEF Rank
  <2> QED BY <2>1
<1>7. \A x, y \in S : f[x] = f[y] => x = y
  <2> HIDE DEF Rank, n
  <2>1. \A x, y \in S : Rank(x) + 1 = Rank(y) + 1 => Rank(x) = Rank(y)
    BY <1>2 DEF Rank
  <2> QED BY <1>5, <2>1 DEF Rank
<1>8. f \in Injection(S, 1..n)
  <2> HIDE DEF f
  <2> QED BY <1>6, <1>7 DEF Injection, IsInjective
<1>9. IsFiniteSet(1..n) /\ Cardinality(1..n) = n
  <2> HIDE DEF n
  <2>1. 1 \in Int /\ n \in Int
    BY <1>1
  <2>2. IsFiniteSet(1..n) /\ Cardinality(1..n) = IF 1 > n THEN 0 ELSE n - 1 + 1
    BY <2>1, FS_Interval
  <2> QED BY <1>1, <2>2
<1>10. f \in Surjection(S, 1..n)
  <2> HIDE DEF f
  <2>1. Cardinality(S) = Cardinality(1..n)
    BY <1>9 DEF n
  <2> QED BY <1>8, <1>9, <2>1, FS_Injection
<1>11. \A i \in 1..n : \E x \in S : f[x] = i
  <2> HIDE DEF f
  <2> QED BY <1>10 DEF Surjection
<1>12. ASSUME NEW i \in 1..n PROVE InOrder(S)[i] \in S /\ Rank(InOrder(S)[i]) = i - 1
  <2>1. PICK x \in S : f[x] = i
    BY <1>11
  <2>2. Rank(x) \in Nat /\ Rank(x) + 1 = i
    BY <1>2, <2>1
  <2> HIDE DEF f, n
  <2>3. Rank(x) = i - 1
    <3> HIDE DEF Rank
    <3> QED BY <2>2
  <2>4. InOrder(S)[i] = CHOOSE a \in S : Rank(a) = i - 1
    BY DEF InOrder, n
  <2> HIDE DEF Rank
  <2> QED BY <2>3, <2>4
<1>13. DOMAIN InOrder(S) = 1..n
  BY DEF InOrder
<1>14. ASSUME NEW i \in 1..n, NEW j \in 1..n, InOrder(S)[i] = InOrder(S)[j] PROVE i = j
  <2>1. i - 1 = j - 1
    BY <1>12, <1>14
  <2> QED BY <2>1
<1>15. ASSUME NEW x \in S PROVE \E i \in 1..n : InOrder(S)[i] = x
  <2>1. f[x] \in 1..n /\ f[x] = Rank(x) + 1
    BY <1>6
  <2>2. PICK i \in 1..n : i = Rank(x) + 1
    BY <2>1
  <2>3. Rank(x) = i - 1 /\ Rank(InOrder(S)[i]) = i - 1 /\ InOrder(S)[i] \in S
    <3>1. Rank(x) \in Nat
      BY <1>2
    <3>2. Rank(InOrder(S)[i]) = i - 1 /\ InOrder(S)[i] \in S
      BY <1>12
    <3> HIDE DEF Rank
    <3> QED BY <2>2, <3>1, <3>2
  <2> HIDE DEF Rank
  <2> QED BY <1>5, <2>3
<1> QED BY <1>1, <1>12, <1>13, <1>14, <1>15 DEF n

\* What an alarm adds to the credits.
WithAlarm(claimed, a) ==
  LET free == {i \in DOMAIN telemetry_effect_events :
                 /\ a.channel \in DIRECT_CHANNELS
                 /\ telemetry_effect_events[i].start = a.t} \ claimed
  IN IF free = {} THEN claimed ELSE claimed \cup {Min(free)}

Crediting(rows, s, g) ==
  IF s = {} THEN {} ELSE WithAlarm(g[s \ {Max(s)}], rows[Max(s)])
CreditsOf(rows, D) == CHOOSE g : g = [s \in SUBSET D |-> Crediting(rows, s, g)]

LEMMA CreditsAreFold ==
  ASSUME NEW rows
  PROVE  credit_alarms(rows) = CreditsOf(rows, DOMAIN rows)[DOMAIN rows]
BY DEF credit_alarms, FoldLeft, MapThenFoldSet, CreditsOf, Crediting, WithAlarm

\* The fold over the alarms exists: over one alarm more, the credits without it.
LEMMA CreditsUnfold ==
  ASSUME NEW rows, NEW m \in Nat
  PROVE  \A s \in SUBSET (1..m) :
           CreditsOf(rows, 1..m)[s] = Crediting(rows, s, CreditsOf(rows, 1..m))
<1> DEFINE Fits(n, g) == g = [s \in SUBSET (1..n) |-> Crediting(rows, s, g)]
           S == {n \in Nat : \E g : Fits(n, g)}
<1>1. 0 \in S
  <2> DEFINE g == [s \in SUBSET (1..0) |-> {}]
  <2>1. \A s \in SUBSET (1..0) : Crediting(rows, s, g) = {}
    BY DEF Crediting
  <2> QED BY <2>1
<1>2. ASSUME NEW n \in Nat, n \in S PROVE n + 1 \in S
  <2>1. PICK g : Fits(n, g)
    BY <1>2
  <2> DEFINE h == [s \in SUBSET (1..(n + 1)) |-> IF n + 1 \in s THEN Crediting(rows, s, g) ELSE g[s]]
  <2>2. ASSUME NEW s \in SUBSET (1..(n + 1)) PROVE h[s] = Crediting(rows, s, h)
    <3>1. CASE s = {}
      <4>1. h[s] = g[s] /\ s \in SUBSET (1..n)
        BY <3>1
      <4>2. g[s] = Crediting(rows, s, g)
        BY <2>1, <4>1
      <4> QED BY <3>1, <4>1, <4>2 DEF Crediting
    <3>2. CASE s # {}
      <4> DEFINE t == s \ {Max(s)}
      <4>7. n + 1 \in Nat
        OBVIOUS
      <4>1. Max(s) \in s /\ \A y \in s : y <= Max(s)
        BY <3>2, <4>7, GreatestOf
      <4>2. n + 1 \notin t /\ t \in SUBSET (1..n) /\ t \in SUBSET (1..(n + 1))
        <5> HIDE DEF h
        <5>1. PICK x \in 1..(n + 1) : x = Max(s)
          BY <4>1
        <5>2. ASSUME NEW y \in t PROVE y \in 1..n
          <6>1. y \in 1..(n + 1) /\ y <= x /\ y # x
            BY <4>1, <5>1
          <6> QED BY <5>1, <6>1
        <5>3. n + 1 \notin t
          <6> SUFFICES ASSUME n + 1 \in t PROVE FALSE
            OBVIOUS
          <6>1. n + 1 \in 1..n
            BY <5>2
          <6> QED BY <6>1
        <5>4. \A y \in t : y \in 1..(n + 1)
          OBVIOUS
        <5> HIDE DEF t
        <5> QED BY <5>2, <5>3, <5>4
      <4>3. h[t] = g[t]
        BY <4>2
      <4>4. Crediting(rows, s, g) = Crediting(rows, s, h)
        <5> HIDE DEF h
        <5> QED BY <4>3 DEF Crediting
      <4>5. CASE n + 1 \in s
        BY <4>4, <4>5
      <4>6. CASE n + 1 \notin s
        <5>1. s \in SUBSET (1..n)
          BY <4>6
        <5>2. h[s] = g[s] /\ g[s] = Crediting(rows, s, g)
          BY <2>1, <4>6, <5>1
        <5> HIDE DEF h
        <5> QED BY <4>4, <5>2
      <4> QED BY <4>5, <4>6
    <3> QED BY <3>1, <3>2
  <2>3. Fits(n + 1, h)
    <3>1. DOMAIN h = SUBSET (1..(n + 1)) /\ h = [s \in SUBSET (1..(n + 1)) |-> h[s]]
      OBVIOUS
    <3> HIDE DEF h
    <3> QED BY <2>2, <3>1
  <2> HIDE DEF h
  <2> QED BY <2>3
<1>3. m \in S
  <2> HIDE DEF S
  <2> QED BY <1>1, <1>2, SetInduction
<1> DEFINE c == CreditsOf(rows, 1..m)
<1>4. Fits(m, c)
  BY <1>3 DEF CreditsOf
<1> HIDE DEF c
<1>5. \A s \in SUBSET (1..m) : c[s] = Crediting(rows, s, c)
  BY <1>4
<1> QED BY <1>5 DEF c

\* Effects at different instants are each credited by the direct alarms at their
\* instant, of which there may be several.
LEMMA Credits ==
  ASSUME NEW rows, NEW m \in Nat, DOMAIN rows = 1..m,
         NEW n \in Nat, DOMAIN telemetry_effect_events = 1..n,
         \A i, j \in 1..n :
           telemetry_effect_events[i].start = telemetry_effect_events[j].start => i = j
  PROVE  credit_alarms(rows) =
           {i \in 1..n : \E h \in 1..m : /\ rows[h].channel \in DIRECT_CHANNELS
                                        /\ telemetry_effect_events[i].start = rows[h].t}
<1> DEFINE E == telemetry_effect_events
           c == CreditsOf(rows, 1..m)
           Of(k) == {i \in 1..n : \E h \in 1..k : /\ rows[h].channel \in DIRECT_CHANNELS
                                                  /\ E[i].start = rows[h].t}
           S == {k \in Nat : k <= m => c[1..k] = Of(k)}
<1>1. \A s \in SUBSET (1..m) : c[s] = Crediting(rows, s, c)
  BY CreditsUnfold
<1> HIDE DEF c
<1>2. 0 \in S
  <2>1. 1..0 \in SUBSET (1..m) /\ 1..0 = {}
    OBVIOUS
  <2>2. c[1..0] = {}
    BY <1>1, <2>1 DEF Crediting
  <2>3. Of(0) = {}
    BY <2>1
  <2> HIDE DEF Of
  <2> QED BY <2>2, <2>3
<1>3. ASSUME NEW k \in Nat, k \in S PROVE k + 1 \in S
  <2> SUFFICES ASSUME k + 1 <= m PROVE c[1..(k + 1)] = Of(k + 1)
    OBVIOUS
  <2>1. c[1..k] = Of(k)
    BY <1>3
  <2> DEFINE D == 1..(k + 1)
  <2>2. D \in SUBSET (1..m) /\ D \in SUBSET (1..(k + 1)) /\ k + 1 \in D
    <3>1. \A y \in 1..(k + 1) : y \in 1..m
      OBVIOUS
    <3> QED BY <3>1
  <2>3. Max(D) = k + 1
    <3>1. Max(D) \in D /\ \A y \in D : y <= Max(D)
      <4>1. k + 1 \in Nat
        OBVIOUS
      <4> HIDE DEF D
      <4> QED BY <2>2, <4>1, GreatestOf
    <3> QED BY <2>2, <3>1
  <2>4. D \ {k + 1} = 1..k
    OBVIOUS
  <2>5. c[D] = WithAlarm(Of(k), rows[k + 1])
    <3> HIDE DEF D, Of
    <3>1. c[D] = Crediting(rows, D, c)
      BY <1>1, <2>2
    <3>2. Crediting(rows, D, c) = WithAlarm(c[D \ {Max(D)}], rows[Max(D)])
      BY <2>2 DEF Crediting
    <3>3. c[D \ {Max(D)}] = Of(k)
      BY <2>1, <2>3, <2>4
    <3> QED BY <2>3, <3>1, <3>2, <3>3
  <2> DEFINE a == rows[k + 1]
             At == {i \in 1..n : a.channel \in DIRECT_CHANNELS /\ E[i].start = a.t}
  <2>6. Of(k + 1) = Of(k) \cup At
    <3>1. \A h \in 1..(k + 1) : h \in 1..k \/ h = k + 1
      OBVIOUS
    <3>2. \A h \in 1..k : h \in 1..(k + 1)
      OBVIOUS
    <3> QED BY <2>2, <3>1, <3>2
  <2>7. \A i, j \in At : i = j
    OBVIOUS
  <2>8. WithAlarm(Of(k), a) =
          IF At \ Of(k) = {} THEN Of(k) ELSE Of(k) \cup {Min(At \ Of(k))}
    <3> HIDE DEF Of
    <3> QED BY DEF WithAlarm
  <2>9. At \ Of(k) # {} => At \ Of(k) = {Min(At \ Of(k))} /\ At = {Min(At \ Of(k))}
    <3> SUFFICES ASSUME At \ Of(k) # {}
                 PROVE  At \ Of(k) = {Min(At \ Of(k))} /\ At = {Min(At \ Of(k))}
      OBVIOUS
    <3> DEFINE F == At \ Of(k)
    <3>1. F \in SUBSET Nat /\ F \in SUBSET At /\ F # {}
      OBVIOUS
    <3> HIDE DEF Of, At
    <3>2. Min(F) \in F
      <4> HIDE DEF F
      <4> QED BY <3>1, LeastOf
    <3> QED BY <2>7, <3>1, <3>2
  <2> HIDE DEF Of, At, D, a
  <2>10. CASE At \ Of(k) = {}
    BY <2>5, <2>6, <2>8, <2>10 DEF D, a
  <2>11. CASE At \ Of(k) # {}
    BY <2>5, <2>6, <2>8, <2>9, <2>11 DEF D, a
  <2> QED BY <2>10, <2>11
<1>4. m \in S
  <2> HIDE DEF S
  <2> QED BY <1>2, <1>3, SetInduction
<1>5. c[1..m] = Of(m)
  BY <1>4
<1>6. credit_alarms(rows) = c[1..m]
  BY CreditsAreFold DEF c
<1> QED BY <1>5, <1>6

\* The rows of the twin on a log: one for each channel and arrival of T, with the
\* number and time of the arrival.
TwinAlarm == [t : Nat, tmSeq : Packet, channel : CHANNELS]
AlarmOn(a, log, k) == a.tmSeq = log[k].seq /\ a.t = log[k].t
Told(rows, log, T) ==
  /\ rows \in Seq(TwinAlarm)
  /\ \A i \in DOMAIN rows : \E k \in DOMAIN log :
       <<rows[i].channel, k>> \in T /\ AlarmOn(rows[i], log, k)
  /\ \A c \in CHANNELS, k \in DOMAIN log :
       <<c, k>> \in T => \E i \in DOMAIN rows : rows[i].channel = c /\ AlarmOn(rows[i], log, k)
Breached(log) == {x \in CHANNELS \X DOMAIN log : x[2] \in setting.breach[x[1]]}
TwinFired == Told(d3Alarms, received, Breached(received))

LEMMA TwinStays ==
  ASSUME TwinFired, UNCHANGED <<d3Alarms, setting, received>> PROVE TwinFired'
BY DEF TwinFired, Told, AlarmOn, Breached

\* One row more, for one channel and arrival more.
LEMMA ToldOneMore ==
  ASSUME NEW rows, NEW log, NEW T, Told(rows, log, T),
         NEW c \in CHANNELS, NEW k \in DOMAIN log, NEW a \in TwinAlarm,
         a.channel = c, AlarmOn(a, log, k)
  PROVE  Told(Append(rows, a), log, T \cup {<<c, k>>})
<1> DEFINE m == Len(rows)
           R == Append(rows, a)
           U == T \cup {<<c, k>>}
<1>1. rows \in Seq(TwinAlarm)
  BY DEF Told
<1>2. /\ m \in Nat /\ DOMAIN rows = 1..m /\ R \in Seq(TwinAlarm) /\ DOMAIN R = 1..(m + 1)
      /\ R[m + 1] = a /\ \A i \in 1..m : R[i] = rows[i]
  BY <1>1
<1>3. (\A i \in 1..m : i \in 1..(m + 1)) /\ m + 1 \in 1..(m + 1)
  BY <1>2
<1> HIDE DEF R, m
<1>4. ASSUME NEW i \in DOMAIN R
      PROVE  \E l \in DOMAIN log : <<R[i].channel, l>> \in U /\ AlarmOn(R[i], log, l)
  <2>1. CASE i \in 1..m
    <3>1. PICK l \in DOMAIN log : <<rows[i].channel, l>> \in T /\ AlarmOn(rows[i], log, l)
      BY <1>2, <2>1 DEF Told
    <3>2. R[i] = rows[i]
      BY <1>2, <2>1
    <3> QED BY <3>1, <3>2
  <2>2. CASE i = m + 1
    <3>1. R[i] = a /\ <<c, k>> \in U
      BY <1>2, <2>2
    <3> HIDE DEF U
    <3> QED BY <3>1
  <2> QED BY <1>2, <2>1, <2>2
<1>5. ASSUME NEW d \in CHANNELS, NEW l \in DOMAIN log, <<d, l>> \in U
      PROVE  \E i \in DOMAIN R : R[i].channel = d /\ AlarmOn(R[i], log, l)
  <2>1. CASE <<d, l>> \in T
    <3>1. PICK i \in 1..m : rows[i].channel = d /\ AlarmOn(rows[i], log, l)
      BY <1>2, <2>1 DEF Told
    <3>2. R[i] = rows[i] /\ i \in DOMAIN R
      BY <1>2, <1>3
    <3> QED BY <3>1, <3>2
  <2>2. CASE <<d, l>> = <<c, k>>
    <3>1. d = c /\ l = k
      BY <2>2
    <3>2. R[m + 1] = a /\ m + 1 \in DOMAIN R
      BY <1>2, <1>3
    <3> QED BY <3>1, <3>2
  <2> QED BY <1>5, <2>1, <2>2
<1> QED BY <1>2, <1>4, <1>5 DEF Told, R

\* What emitAlarm adds for a channel.
LEMMA ToldChannel ==
  ASSUME NEW rows, NEW log, NEW T, NEW c \in CHANNELS, NEW s \in Packet,
         Len(received) + 1 \in DOMAIN log, Told(rows, log, T), now \in Nat,
         log[Len(received) + 1].seq = s, log[Len(received) + 1].t = now
  PROVE  \E U :
           /\ Told(emitAlarm(rows, s, c), log, U)
           /\ \A d \in CHANNELS, k \in DOMAIN log :
                <<d, k>> \in U <=> \/ <<d, k>> \in T
                                   \/ d = c /\ k = Len(received) + 1 /\ k \in setting.breach[c]
<1> DEFINE l == Len(received) + 1
           a == [t |-> now, tmSeq |-> s, channel |-> c]
           U == T \cup {<<c, l>>}
<1>1. CASE l \notin setting.breach[c]
  <2>1. emitAlarm(rows, s, c) = rows
    BY <1>1 DEF emitAlarm
  <2> QED BY <1>1, <2>1
<1>2. CASE l \in setting.breach[c]
  <2>1. emitAlarm(rows, s, c) = Append(rows, a)
    BY <1>2 DEF emitAlarm
  <2>2. a \in TwinAlarm /\ a.channel = c /\ AlarmOn(a, log, l)
    BY DEF TwinAlarm, AlarmOn
  <2> HIDE DEF l, a
  <2>3. Told(Append(rows, a), log, U)
    BY <2>2, ToldOneMore DEF l
  <2>4. \A d \in CHANNELS, k \in DOMAIN log : <<d, k>> \in U <=> <<d, k>> \in T \/ (d = c /\ k = l)
    OBVIOUS
  <2> HIDE DEF U
  <2> QED BY <1>2, <2>1, <2>3, <2>4 DEF l
<1> QED BY <1>1, <1>2

\* A set of channels and arrivals tells a log by its members alone.
LEMMA ToldSame ==
  ASSUME NEW rows, NEW log, NEW T, NEW U, Told(rows, log, T),
         \A c \in CHANNELS, k \in DOMAIN log : <<c, k>> \in T <=> <<c, k>> \in U
  PROVE  Told(rows, log, U)
<1>1. rows \in Seq(TwinAlarm)
  BY DEF Told
<1>2. \A i \in DOMAIN rows : rows[i] \in TwinAlarm
  BY <1>1
<1>3. \A i \in DOMAIN rows : rows[i].channel \in CHANNELS
  BY <1>2 DEF TwinAlarm
<1> QED BY <1>1, <1>3 DEF Told

LEMMA TwinArrives == JoinInv /\ TwinFired /\ Arrive => TwinFired'
<1> SUFFICES ASSUME JoinInv, TwinFired, Arrive PROVE TwinFired'
  OBVIOUS
<1> DEFINE l == Len(received)
           log == received'
           T == Breached(received)
<1>1. PICK p \in flight :
        /\ received' = Append(received, [seq |-> p.seq, t |-> now, window |-> beats + 1])
        /\ TwinObserve(p.seq)
        /\ UNCHANGED <<now, setting>>
  BY DEF Arrive
<1>2. p.seq \in Packet /\ now \in Nat /\ beats \in Nat /\ received \in Seq(Receipt)
  BY DEF JoinInv, TypeInv, Item
<1> DEFINE row == [seq |-> p.seq, t |-> now, window |-> beats + 1]
<1>3. row \in Receipt /\ row.seq = p.seq /\ row.t = now
  BY <1>2 DEF Receipt
<1> HIDE DEF row
<1>4. /\ l \in Nat /\ DOMAIN received = 1..l /\ DOMAIN log = 1..(l + 1)
      /\ log[l + 1] = row /\ \A k \in 1..l : log[k] = received[k]
  BY <1>1, <1>2, <1>3 DEF row
<1>5. l + 1 \in DOMAIN log /\ (\A k \in 1..l : k \in DOMAIN log /\ k # l + 1)
      /\ \A k \in DOMAIN log : k \in 1..l \/ k = l + 1
  BY <1>4
<1>6. \A c \in CHANNELS, k \in DOMAIN log :
        <<c, k>> \in T <=> k \in 1..l /\ k \in setting.breach[c]
  BY <1>4, <1>5 DEF Breached
<1> HIDE DEF log, T
<1>7. Told(d3Alarms, log, T)
  <2>1. Told(d3Alarms, received, T)
    BY DEF TwinFired, T
  <2>2. ASSUME NEW i \in DOMAIN d3Alarms
        PROVE  \E k \in DOMAIN log : <<d3Alarms[i].channel, k>> \in T /\ AlarmOn(d3Alarms[i], log, k)
    <3>1. PICK k \in 1..l : <<d3Alarms[i].channel, k>> \in T /\ AlarmOn(d3Alarms[i], received, k)
      BY <1>4, <2>1 DEF Told
    <3> QED BY <1>4, <1>5, <3>1 DEF AlarmOn
  <2>3. ASSUME NEW c \in CHANNELS, NEW k \in DOMAIN log, <<c, k>> \in T
        PROVE  \E i \in DOMAIN d3Alarms : d3Alarms[i].channel = c /\ AlarmOn(d3Alarms[i], log, k)
    <3>1. k \in DOMAIN received /\ log[k] = received[k]
      BY <1>4, <1>6, <2>3
    <3> QED BY <2>1, <2>3, <3>1 DEF Told, AlarmOn
  <2> QED BY <2>1, <2>2, <2>3 DEF Told
<1> DEFINE physical == emitAlarm(d3Alarms, p.seq, "physical")
           logical == emitAlarm(physical, p.seq, "logical")
           security == emitAlarm(logical, p.seq, "security")
           Adds(U, V, c) ==
             \A d \in CHANNELS, k \in DOMAIN log :
               <<d, k>> \in V <=> \/ <<d, k>> \in U
                                  \/ d = c /\ k = l + 1 /\ k \in setting.breach[c]
<1>8. d3Alarms' = security
  BY <1>1 DEF TwinObserve
<1>9. log[l + 1].seq = p.seq /\ log[l + 1].t = now
  BY <1>3, <1>4
<1>10. CHANNELS = {"physical", "logical", "security"}
  BY DEF CHANNELS
<1> HIDE DEF security, logical, physical, Adds
<1>11. PICK P : Told(physical, log, P) /\ Adds(T, P, "physical")
  <2>1. "physical" \in CHANNELS
    BY <1>10
  <2> QED BY <1>2, <1>5, <1>7, <1>9, <2>1, ToldChannel DEF physical, Adds
<1>12. PICK L : Told(logical, log, L) /\ Adds(P, L, "logical")
  <2>1. "logical" \in CHANNELS
    BY <1>10
  <2> QED BY <1>2, <1>5, <1>9, <1>11, <2>1, ToldChannel DEF logical, Adds
<1>13. PICK S : Told(security, log, S) /\ Adds(L, S, "security")
  <2>1. "security" \in CHANNELS
    BY <1>10
  <2> QED BY <1>2, <1>5, <1>9, <1>12, <2>1, ToldChannel DEF security, Adds
<1>14. ASSUME NEW c \in CHANNELS, NEW k \in DOMAIN log
       PROVE  <<c, k>> \in S <=> k \in setting.breach[c]
  <2>1. <<c, k>> \in S <=> <<c, k>> \in T \/ (k = l + 1 /\ k \in setting.breach[c])
    BY <1>10, <1>11, <1>12, <1>13 DEF Adds
  <2> QED BY <1>5, <1>6, <2>1
<1>15. \A c \in CHANNELS, k \in DOMAIN log : <<c, k>> \in Breached(log) <=> k \in setting.breach[c]
  BY DEF Breached
<1>16. Told(security, log, Breached(log))
  BY <1>13, <1>14, <1>15, ToldSame
<1>17. TwinFired' = Told(security, log, Breached(log))
  BY <1>1, <1>8 DEF TwinFired, log, Told, AlarmOn, Breached
<1> QED BY <1>16, <1>17

LEMMA InitTwin == Init => TwinFired
<1> SUFFICES ASSUME Init PROVE TwinFired
  OBVIOUS
<1>1. d3Alarms = << >> /\ received = << >>
  BY DEF Init
<1> QED BY <1>1 DEF TwinFired, Told

LEMMA NextKeepsTwin == JoinInv /\ TwinFired /\ [Next]_vars => TwinFired'
<1> SUFFICES ASSUME JoinInv, TwinFired, [Next]_vars PROVE TwinFired'
  OBVIOUS
<1>1. CASE SendTelemetry
  BY <1>1, TwinStays DEF SendTelemetry
<1>2. CASE CloseWindow
  BY <1>2, TwinStays DEF CloseWindow
<1>3. CASE Tick
  BY <1>3, TwinStays DEF Tick
<1>4. CASE UNCHANGED vars
  BY <1>4, TwinStays DEF vars
<1> QED BY <1>1, <1>2, <1>3, <1>4, TwinArrives DEF Next

-----------------------------------------------------------------------------

Touched == {"tamper", "delay"}
\* The observations of disturbed packets.
Disturbed == {k \in DOMAIN received : done[received[k].seq] \in Touched}

LEMMA Observations ==
  ASSUME JoinInv
  PROVE  /\ IsFiniteSet(DOMAIN received)
         /\ \A k \in DOMAIN received : received[k].seq \in Packet /\ received[k].seq \in Nat
         /\ \A j, k \in DOMAIN received : received[j].t = received[k].t => j = k
         /\ \A j, k \in DOMAIN received : received[j].seq = received[k].seq => j = k
<1>1. /\ DOMAIN received = 1..Len(received) /\ Len(received) \in Nat
      /\ \A k \in DOMAIN received : received[k] \in Receipt
      /\ \A j, k \in DOMAIN received : received[j].t = received[k].t => j = k
  BY RunLog
<1>2. IsFiniteSet(DOMAIN received)
  BY <1>1, FS_Interval
<1>3. \A k \in DOMAIN received : received[k].seq \in Packet
  BY <1>1 DEF Receipt
<1>4. \A s \in Packet : s \in Nat
  BY DEF Packet
<1>5. \A j, k \in DOMAIN received : received[j].seq = received[k].seq => j = k
  <2>1. \A k \in DOMAIN received :
          received[k].t = ArrivalTime(received[k].seq, done[received[k].seq], setting.addedDelay)
    BY DEF JoinInv, Arrived
  <2> QED BY <1>1, <2>1
<1> QED BY <1>1, <1>2, <1>3, <1>4, <1>5

\* The effects are the disturbed observations, once each.
LEMMA Effects ==
  ASSUME JoinInv
  PROVE  \E n \in Nat :
           /\ DOMAIN telemetry_effect_events = 1..n
           /\ \A i \in 1..n : \E k \in Disturbed :
                /\ telemetry_effect_events[i].seq = received[k].seq
                /\ telemetry_effect_events[i].start = received[k].t
           /\ \A k \in Disturbed : \E i \in 1..n :
                /\ telemetry_effect_events[i].seq = received[k].seq
                /\ telemetry_effect_events[i].start = received[k].t
           /\ \A i, j \in 1..n :
                telemetry_effect_events[i].start = telemetry_effect_events[j].start => i = j
<1> DEFINE Effect(k) == [seq |-> received[k].seq, start |-> received[k].t]
           S == {[seq |-> r.seq, start |-> r.t] : r \in {x \in Rows : done[x.seq] \in Touched}}
           f == [k \in Disturbed |-> Effect(k)]
<1>1. S = {Effect(k) : k \in Disturbed}
  BY DEF Rows, Disturbed
<1>2. telemetry_effect_events = InOrder(S)
  BY DEF telemetry_effect_events, Touched
<1> HIDE DEF S
<1>3. IsFiniteSet(Disturbed)
  <2>1. Disturbed \in SUBSET DOMAIN received
    BY DEF Disturbed
  <2> QED BY <2>1, Observations, FS_Subset
<1>4. f \in [Disturbed -> S] /\ \A x \in S : \E k \in Disturbed : f[k] = x
  BY <1>1
<1>5. \A x \in S : \E k \in Disturbed :
        k \in DOMAIN received /\ x.seq = received[k].seq /\ x.start = received[k].t /\ x = Effect(k)
  BY <1>1 DEF Disturbed
<1>6. \A j, k \in Disturbed : f[j] = f[k] => j = k
  <2> SUFFICES ASSUME NEW j \in Disturbed, NEW k \in Disturbed, f[j] = f[k] PROVE j = k
    OBVIOUS
  <2>1. Effect(j).seq = Effect(k).seq
    OBVIOUS
  <2>2. received[j].seq = received[k].seq /\ j \in DOMAIN received /\ k \in DOMAIN received
    BY <2>1 DEF Disturbed
  <2> QED BY <2>2, Observations
<1> HIDE DEF f
<1>7. IsFiniteSet(S)
  BY <1>3, <1>4, <1>6, SameSize
<1>8. \A x \in S : x.seq \in Nat
  BY <1>5, Observations
<1>9. ASSUME NEW x \in S, NEW y \in S, x.seq = y.seq \/ x.start = y.start PROVE x = y
  <2>1. PICK j \in Disturbed : j \in DOMAIN received
          /\ x.seq = received[j].seq /\ x.start = received[j].t /\ x = Effect(j)
    BY <1>5
  <2>2. PICK k \in Disturbed : k \in DOMAIN received
          /\ y.seq = received[k].seq /\ y.start = received[k].t /\ y = Effect(k)
    BY <1>5
  <2>3. j = k
    BY <1>9, <2>1, <2>2, Observations
  <2> QED BY <2>1, <2>2, <2>3
<1> DEFINE n == Cardinality(S)
           E == InOrder(S)
<1>10. /\ n \in Nat /\ DOMAIN E = 1..n
       /\ \A i \in 1..n : E[i] \in S
       /\ \A i, j \in 1..n : E[i] = E[j] => i = j
       /\ \A x \in S : \E i \in 1..n : E[i] = x
  BY <1>7, <1>8, <1>9, Ordered
<1> HIDE DEF n, E
<1>11. \A i \in 1..n : \E k \in Disturbed : E[i].seq = received[k].seq /\ E[i].start = received[k].t
  BY <1>5, <1>10
<1>12. \A k \in Disturbed : \E i \in 1..n : E[i].seq = received[k].seq /\ E[i].start = received[k].t
  <2> TAKE k \in Disturbed
  <2>1. Effect(k) \in S
    BY <1>1
  <2>2. PICK i \in 1..n : E[i] = Effect(k)
    BY <1>10, <2>1
  <2> QED BY <2>2
<1>13. \A i, j \in 1..n : E[i].start = E[j].start => i = j
  BY <1>9, <1>10
<1> QED BY <1>2, <1>10, <1>11, <1>12, <1>13 DEF E

\* The credits are the effects whose observations breach a direct channel.
FiredOn == Diverged \cap DOMAIN received

\* These observations have a direct alarm, and each direct alarm is on one of them.
LEMMA DirectAlarms ==
  ASSUME TwinFired
  PROVE  /\ \A i \in DOMAIN d3Alarms : d3Alarms[i].channel \in DIRECT_CHANNELS =>
              \E k \in FiredOn : AlarmOn(d3Alarms[i], received, k)
         /\ \A k \in FiredOn : \E i \in DOMAIN d3Alarms :
              d3Alarms[i].channel \in DIRECT_CHANNELS /\ AlarmOn(d3Alarms[i], received, k)
<1>1. \A c \in DIRECT_CHANNELS : c \in CHANNELS
  BY DEF CHANNELS, DIRECT_CHANNELS
<1>2. \A c \in DIRECT_CHANNELS, k \in DOMAIN received :
        <<c, k>> \in Breached(received) <=> k \in setting.breach[c]
  BY <1>1 DEF Breached
<1>3. \A k : k \in FiredOn <=>
        k \in DOMAIN received /\ \E c \in DIRECT_CHANNELS : k \in setting.breach[c]
  BY DEF FiredOn, Diverged
<1>4. ASSUME NEW i \in DOMAIN d3Alarms, d3Alarms[i].channel \in DIRECT_CHANNELS
      PROVE  \E k \in FiredOn : AlarmOn(d3Alarms[i], received, k)
  <2>1. PICK k \in DOMAIN received :
          <<d3Alarms[i].channel, k>> \in Breached(received) /\ AlarmOn(d3Alarms[i], received, k)
    BY DEF TwinFired, Told
  <2>2. k \in setting.breach[d3Alarms[i].channel]
    BY <1>2, <1>4, <2>1
  <2> QED BY <1>3, <1>4, <2>1, <2>2
<1>5. ASSUME NEW k \in FiredOn
      PROVE  \E i \in DOMAIN d3Alarms :
               d3Alarms[i].channel \in DIRECT_CHANNELS /\ AlarmOn(d3Alarms[i], received, k)
  <2>1. PICK c \in DIRECT_CHANNELS : k \in DOMAIN received /\ k \in setting.breach[c]
    BY <1>3
  <2>2. <<c, k>> \in Breached(received) /\ c \in CHANNELS
    BY <1>1, <1>2, <2>1
  <2>3. PICK i \in DOMAIN d3Alarms : d3Alarms[i].channel = c /\ AlarmOn(d3Alarms[i], received, k)
    BY <2>1, <2>2 DEF TwinFired, Told
  <2> QED BY <2>3
<1> QED BY <1>4, <1>5

LEMMA CreditsAreFired ==
  ASSUME JoinInv, TwinFired
  PROVE  /\ credit_alarms(d3Alarms) \subseteq DOMAIN telemetry_effect_events
         /\ \A i \in credit_alarms(d3Alarms) : \E k \in Disturbed \cap FiredOn :
              /\ telemetry_effect_events[i].seq = received[k].seq
              /\ telemetry_effect_events[i].start = received[k].t
         /\ \A k \in Disturbed \cap FiredOn : \E i \in credit_alarms(d3Alarms) :
              /\ telemetry_effect_events[i].seq = received[k].seq
              /\ telemetry_effect_events[i].start = received[k].t
         /\ \A i, j \in credit_alarms(d3Alarms) :
              telemetry_effect_events[i].start = telemetry_effect_events[j].start => i = j
<1> DEFINE E == telemetry_effect_events
           m == Len(d3Alarms)
           C == credit_alarms(d3Alarms)
<1>1. PICK n \in Nat :
        /\ DOMAIN E = 1..n
        /\ \A i \in 1..n : \E k \in Disturbed : E[i].seq = received[k].seq /\ E[i].start = received[k].t
        /\ \A k \in Disturbed : \E i \in 1..n : E[i].seq = received[k].seq /\ E[i].start = received[k].t
        /\ \A i, j \in 1..n : E[i].start = E[j].start => i = j
  BY Effects
<1>2. m \in Nat /\ DOMAIN d3Alarms = 1..m
  BY DEF TwinFired, Told
<1>3. C = {i \in 1..n : \E h \in 1..m : /\ d3Alarms[h].channel \in DIRECT_CHANNELS
                                         /\ E[i].start = d3Alarms[h].t}
  BY <1>1, <1>2, Credits
<1> HIDE DEF E, m, C
<1>4. ASSUME NEW i \in C PROVE \E k \in Disturbed \cap FiredOn : E[i].seq = received[k].seq /\ E[i].start = received[k].t
  <2>1. PICK k \in Disturbed : E[i].seq = received[k].seq /\ E[i].start = received[k].t
    BY <1>1, <1>3
  <2>2. PICK h \in 1..m : d3Alarms[h].channel \in DIRECT_CHANNELS /\ E[i].start = d3Alarms[h].t
    BY <1>3
  <2>3. PICK l \in FiredOn : d3Alarms[h].t = received[l].t
    BY <1>2, <2>2, DirectAlarms DEF AlarmOn
  <2>4. k = l
    BY <2>1, <2>2, <2>3, Observations DEF Disturbed, FiredOn
  <2> QED BY <2>1, <2>3, <2>4
<1>5. ASSUME NEW k \in Disturbed \cap FiredOn PROVE \E i \in C : E[i].seq = received[k].seq /\ E[i].start = received[k].t
  <2>1. PICK i \in 1..n : E[i].seq = received[k].seq /\ E[i].start = received[k].t
    BY <1>1
  <2>2. PICK h \in 1..m : d3Alarms[h].channel \in DIRECT_CHANNELS /\ d3Alarms[h].t = received[k].t
    BY <1>2, DirectAlarms DEF AlarmOn
  <2> QED BY <1>3, <2>1, <2>2
<1> QED BY <1>1, <1>3, <1>4, <1>5 DEF E, C

\* The credits by kind are apart and together all of them, and as many as the
\* disturbed observations fired on.
LEMMA DetectedInAll ==
  ASSUME JoinInv, TwinFired
  PROVE  /\ IsFiniteSet(Disturbed) /\ IsFiniteSet(Disturbed \cap FiredOn)
         /\ Cardinality(Detected("tamper")) + Cardinality(Detected("delay"))
              = Cardinality(Disturbed \cap FiredOn)
<1> DEFINE E == telemetry_effect_events
           C == credit_alarms(d3Alarms)
           K == Disturbed \cap FiredOn
           A == Detected("tamper")
           B == Detected("delay")
<1>1. /\ \A i \in C : \E k \in K : E[i].seq = received[k].seq /\ E[i].start = received[k].t
      /\ \A k \in K : \E i \in C : E[i].seq = received[k].seq /\ E[i].start = received[k].t
      /\ \A i, j \in C : E[i].start = E[j].start => i = j
  BY CreditsAreFired
<1>2. IsFiniteSet(Disturbed) /\ IsFiniteSet(K)
  <2>1. Disturbed \in SUBSET DOMAIN received /\ K \in SUBSET DOMAIN received
    BY DEF Disturbed
  <2> QED BY <2>1, Observations, FS_Subset
<1>3. \A k \in K : k \in DOMAIN received /\ done[received[k].seq] \in Touched
  BY DEF Disturbed
<1>4. A = {i \in C : done[E[i].seq] = "tamper"} /\ B = {i \in C : done[E[i].seq] = "delay"}
  BY DEF Detected
<1> HIDE DEF E, C, K, A, B
<1> DEFINE f == [k \in K |-> CHOOSE i \in C : E[i].seq = received[k].seq /\ E[i].start = received[k].t]
<1>5. \A k \in K : f[k] \in C /\ E[f[k]].start = received[k].t
  BY <1>1
<1>6. f \in [K -> C]
  BY <1>5
<1> HIDE DEF f
<1>7. \A j, k \in K : f[j] = f[k] => j = k
  BY <1>3, <1>5, Observations
<1>8. \A i \in C : \E k \in K : f[k] = i
  BY <1>1, <1>5
<1>9. IsFiniteSet(C) /\ Cardinality(C) = Cardinality(K)
  BY <1>2, <1>6, <1>7, <1>8, SameSize
<1>10. A \cup B = C /\ A \cap B = {}
  BY <1>1, <1>3, <1>4 DEF Touched
<1>11. A \in SUBSET C /\ B \in SUBSET C
  BY <1>4
<1>12. IsFiniteSet(A) /\ IsFiniteSet(B)
  BY <1>9, <1>11, FS_Subset
<1>13. Cardinality(A) \in Nat /\ Cardinality(B) \in Nat
  BY <1>12, FS_CardinalityType
<1>14. Cardinality(C) = Cardinality(A) + Cardinality(B) - Cardinality({})
  BY <1>10, <1>12, FS_Union
<1>15. Cardinality({}) = 0
  BY FS_EmptySet
<1>16. Cardinality(A) + Cardinality(B) = Cardinality(K)
  BY <1>9, <1>13, <1>14, <1>15
<1> QED BY <1>2, <1>16 DEF A, B, K

\* The twin is scored by number: found where it fired, missed where it did not.
LEMMA TwinConfusion ==
  ASSUME JoinInv, TwinFired
  PROVE  /\ direct_detection_d3.tp = Cardinality(Disturbed \cap FiredOn)
         /\ direct_detection_d3.fn = Cardinality(Disturbed \ FiredOn)
<1> DEFINE E == telemetry_effect_events
           P == {E[i].start : i \in DOMAIN E}
           alarmed == {k \in DOMAIN received : received[k].seq \in direct_alarm_seqs}
           TP == {k \in DOMAIN received : (received[k].t \in P) = TRUE /\ (k \in alarmed) = TRUE}
           FN == {k \in DOMAIN received : (received[k].t \in P) = TRUE /\ (k \in alarmed) = FALSE}
<1>1. direct_detection_d3.tp = Cardinality(TP) /\ direct_detection_d3.fn = Cardinality(FN)
  BY DEF direct_detection_d3, Confusion
<1>2. alarmed = FiredOn
  <2>1. ASSUME NEW k \in DOMAIN received, received[k].seq \in direct_alarm_seqs
        PROVE  k \in FiredOn
    <3>1. PICK i \in DOMAIN d3Alarms :
            d3Alarms[i].channel \in DIRECT_CHANNELS /\ d3Alarms[i].tmSeq = received[k].seq
      BY <2>1 DEF direct_alarm_seqs
    <3>2. PICK l \in FiredOn : d3Alarms[i].tmSeq = received[l].seq
      BY <3>1, DirectAlarms DEF AlarmOn
    <3> QED BY <3>1, <3>2, Observations DEF FiredOn
  <2>2. ASSUME NEW k \in FiredOn
        PROVE  k \in DOMAIN received /\ received[k].seq \in direct_alarm_seqs
    <3>1. PICK i \in DOMAIN d3Alarms :
            d3Alarms[i].channel \in DIRECT_CHANNELS /\ d3Alarms[i].tmSeq = received[k].seq
      BY DirectAlarms DEF AlarmOn
    <3> QED BY <3>1 DEF direct_alarm_seqs, FiredOn
  <2> QED BY <2>1, <2>2
<1>3. \A k \in DOMAIN received : received[k].t \in P <=> k \in Disturbed
  <2> TAKE k \in DOMAIN received
  <2>1. PICK n \in Nat :
          /\ DOMAIN E = 1..n
          /\ \A i \in 1..n : \E j \in Disturbed : E[i].start = received[j].t
          /\ \A j \in Disturbed : \E i \in 1..n : E[i].start = received[j].t
    BY Effects
  <2> HIDE DEF E
  <2>2. received[k].t \in P => k \in Disturbed
    <3> SUFFICES ASSUME NEW i \in 1..n, received[k].t = E[i].start PROVE k \in Disturbed
      BY <2>1
    <3>1. PICK j \in Disturbed : E[i].start = received[j].t
      BY <2>1
    <3> QED BY <3>1, Observations DEF Disturbed
  <2>3. k \in Disturbed => received[k].t \in P
    BY <2>1
  <2> QED BY <2>2, <2>3
<1>4. Disturbed \subseteq DOMAIN received
  BY DEF Disturbed
<1> HIDE DEF P, alarmed
<1>5. TP = Disturbed \cap FiredOn
  BY <1>2, <1>3, <1>4
<1>6. FN = Disturbed \ FiredOn
  BY <1>2, <1>3, <1>4
<1> QED BY <1>1, <1>5, <1>6

\* What was received of the actions is what was observed of them, and no drop was.
LEMMA Dispositions ==
  ASSUME JoinInv
  PROVE  /\ DisposedAs("received_modified") \cup DisposedAs("received_delayed")
              = {received[k].seq : k \in Disturbed}
         /\ DisposedAs("dropped") = ActionsOf("drop")
<1>1. \A k \in DOMAIN received : received[k].seq \in Packet
  BY Observations
<1>2. \A s \in Packet : Receipts(s) # {} <=> \E k \in DOMAIN received : received[k].seq = s
  BY DEF Receipts, Rows
<1>3. ASSUME NEW s \in Packet
      PROVE  disposition(s) \in {"received_modified", "received_delayed"}
               <=> done[s] \in Touched /\ Receipts(s) # {}
  BY DEF disposition, Touched
<1>4. \A s \in Packet : disposition(s) = "dropped" <=> done[s] = "drop" /\ Receipts(s) = {}
  BY DEF disposition
<1>5. \A s \in Packet : done[s] = "drop" => Receipts(s) = {}
  BY <1>2 DEF JoinInv, Arrived, Passed
<1>6. DisposedAs("dropped") = ActionsOf("drop")
  BY <1>4, <1>5 DEF DisposedAs, ActionsOf
<1>7. DisposedAs("received_modified") \cup DisposedAs("received_delayed")
        = {s \in Packet : done[s] \in Touched /\ Receipts(s) # {}}
  <2>1. \A s \in Packet : done[s] \in Touched =>
          s \in ActionsOf("tamper") \cup ActionsOf("delay") \cup ActionsOf("drop")
    BY DEF ActionsOf, Touched
  <2>2. \A s : s \in DisposedAs("received_modified") \cup DisposedAs("received_delayed") <=>
          /\ s \in ActionsOf("tamper") \cup ActionsOf("delay") \cup ActionsOf("drop")
          /\ disposition(s) \in {"received_modified", "received_delayed"}
    BY DEF DisposedAs
  <2>3. \A s \in ActionsOf("tamper") \cup ActionsOf("delay") \cup ActionsOf("drop") : s \in Packet
    BY DEF ActionsOf
  <2> QED BY <1>3, <2>1, <2>2, <2>3
<1>8. {s \in Packet : done[s] \in Touched /\ Receipts(s) # {}} = {received[k].seq : k \in Disturbed}
  BY <1>1, <1>2 DEF Disturbed
<1> QED BY <1>6, <1>7, <1>8

\* A covered drop is in a window that D2 is scored to have found.
LEMMA CoveredIsFound ==
  ASSUME JoinInv, covered # {}
  PROVE  direct_detection_d2.tp > 0
<1>1. PICK s \in ActionsOf("drop") :
        /\ expected_arrival_window(SendTime(s)) \in opportunities
        /\ expected_arrival_window(SendTime(s)) \in alarm_windows
  BY DEF covered, native_decision_opportunity
<1> DEFINE w == expected_arrival_window(SendTime(s))
           T == truth_windows \cap alarm_windows
           f == [k \in DOMAIN received |-> observation_window(received[k].t)]
<1>2. w \in T
  BY <1>1 DEF truth_windows, mappings
<1>3. IsFiniteSet(opportunities)
  <2>1. f \in [DOMAIN received -> opportunities]
    BY DEF opportunities, Rows
  <2>2. \A x \in opportunities : \E k \in DOMAIN received : f[k] = x
    BY DEF opportunities, Rows
  <2> HIDE DEF f
  <2>3. f \in Surjection(DOMAIN received, opportunities)
    BY <2>1, <2>2 DEF Surjection
  <2> QED BY <2>3, Observations, FS_Surjection
<1>4. T \in SUBSET opportunities
  BY DEF truth_windows
<1> HIDE DEF T, w
<1>5. IsFiniteSet(T)
  BY <1>3, <1>4, FS_Subset
<1>6. Cardinality(T) \in Nat /\ Cardinality(T) # 0
  BY <1>2, <1>5, FS_CardinalityType, FS_EmptySet
<1>7. direct_detection_d2.tp = Cardinality(T)
  BY DEF direct_detection_d2, T
<1> QED BY <1>6, <1>7

\* families.py:75-235: the views of the twin's score on one run agree, by the
\* effects, by the sequence numbers and by the fate of the actions.
THEOREM TwinScore == Spec => []TwinScoreIsTrue
<1>1. JoinInv /\ TwinFired => TwinScoreIsTrue
  <2> SUFFICES ASSUME JoinInv, TwinFired PROVE TwinScoreIsTrue
    OBVIOUS
  <2> DEFINE E == telemetry_effect_events
             C == credit_alarms(d3Alarms)
             K == Disturbed \cap FiredOn
             f == [k \in Disturbed |-> received[k].seq]
             D == {received[k].seq : k \in Disturbed}
  <2>1. {E[i].seq : i \in C} = {received[k].seq : k \in K}
    BY CreditsAreFired
  <2>2. K = {x \in Diverged \cap DOMAIN received : done[received[x].seq] \in {"tamper", "delay"}}
    BY DEF Disturbed, FiredOn, Touched
  <2>3. direct_detection_d3.tp = Cardinality(Detected("tamper")) + Cardinality(Detected("delay"))
    BY DetectedInAll, TwinConfusion
  <2>4. direct_detection_d3.tp + direct_detection_d3.fn = Cardinality(Disturbed)
    <3> DEFINE A == Disturbed \cap FiredOn
               B == Disturbed \ FiredOn
    <3>1. A \cup B = Disturbed /\ A \cap B = {} /\ A \in SUBSET Disturbed /\ B \in SUBSET Disturbed
      OBVIOUS
    <3>2. direct_detection_d3.tp = Cardinality(A) /\ direct_detection_d3.fn = Cardinality(B)
      BY TwinConfusion
    <3> HIDE DEF A, B
    <3>3. IsFiniteSet(A) /\ IsFiniteSet(B)
      BY <3>1, DetectedInAll, FS_Subset
    <3>4. Cardinality(A) \in Nat /\ Cardinality(B) \in Nat
      BY <3>3, FS_CardinalityType
    <3>5. Cardinality(Disturbed) = Cardinality(A) + Cardinality(B) - Cardinality({})
      BY <3>1, <3>3, FS_Union
    <3>6. Cardinality({}) = 0
      BY FS_EmptySet
    <3> QED BY <3>2, <3>4, <3>5, <3>6
  <2>5. Cardinality(D) = Cardinality(Disturbed)
    <3>1. f \in [Disturbed -> D] /\ \A y \in D : \E x \in Disturbed : f[x] = y
      OBVIOUS
    <3>2. \A x, y \in Disturbed : f[x] = f[y] => x = y
      BY Observations DEF Disturbed
    <3> HIDE DEF f, D
    <3> QED BY <3>1, <3>2, DetectedInAll, SameSize
  <2>6. /\ DisposedAs("received_modified") \cup DisposedAs("received_delayed") = D
        /\ DisposedAs("dropped") = ActionsOf("drop")
    BY Dispositions
  <2>7. covered # {} => direct_detection_d2.tp > 0
    BY CoveredIsFound
  <2> QED BY <2>1, <2>2, <2>3, <2>4, <2>5, <2>6, <2>7 DEF TwinScoreIsTrue
<1>2. Spec => []TwinFired
  <2>1. TwinFired /\ JoinInv /\ [Next]_vars => TwinFired'
    BY NextKeepsTwin
  <2> QED BY <2>1, InitTwin, JoinInvariant, PTL DEF Spec
<1> QED BY <1>1, <1>2, JoinInvariant, PTL

-----------------------------------------------------------------------------
(* The suite that damages a log and expects the owner of the damage to     *)
(* refuse it                                                               *)

\* The first alarm of a run is on the first packet that was alarmed on.
LEMMA FirstAlarmed ==
  ASSUME JoinInv, Alarmed # {}
  PROVE  /\ 1 \in DOMAIN rndAlarms /\ rndAlarms[1] \in Alarm
         /\ Alarmed = OfMatched(Log) /\ Alarmed \in SUBSET DOMAIN received
         /\ Min(Alarmed) = rndAlarms[1].n /\ Min(Alarmed) \in Alarmed
         /\ \A i \in DOMAIN rndAlarms : Min(Alarmed) <= rndAlarms[i].n /\ rndAlarms[i].n \in Nat
<1>1. /\ DOMAIN rndAlarms = 1..Len(rndAlarms) /\ Len(rndAlarms) \in Nat
      /\ DOMAIN received = 1..Len(received) /\ Len(received) \in Nat
  BY RunLog
<1>2. Alarmed = OfMatched(Log)
  BY AlarmedByOrdinal DEF Alarmed
<1>3. /\ Alarmed = setting.fires \cap DOMAIN received
      /\ Alarmed = {rndAlarms[i].n : i \in DOMAIN rndAlarms}
  BY <1>2, RunOrdinals
<1>4. 1 \in DOMAIN rndAlarms
  <2>1. \E i \in DOMAIN rndAlarms : TRUE
    BY <1>3
  <2> QED BY <1>1, <2>1
<1>5. rndAlarms[1] \in Alarm
  BY <1>4 DEF JoinInv, TypeInv
<1>6. Alarmed \in SUBSET Nat
  BY <1>1, <1>3
<1> HIDE DEF Alarmed
<1>7. Min(Alarmed) \in Alarmed /\ \A y \in Alarmed : Min(Alarmed) <= y
  BY <1>6, LeastOf
<1>8. \A i \in DOMAIN rndAlarms : rndAlarms[i].n \in Alarmed
  BY <1>3
<1>9. \A i \in DOMAIN rndAlarms : rndAlarms[1].n <= rndAlarms[i].n
  <2> TAKE i \in DOMAIN rndAlarms
  <2>1. i = 1 \/ 1 < i
    BY <1>1
  <2>2. rndAlarms[1].n \in Nat /\ rndAlarms[i].n \in Nat
    BY <1>4, <1>6, <1>8
  <2> QED BY <1>4, <2>1, <2>2 DEF JoinInv, Fired
<1>10. Min(Alarmed) = rndAlarms[1].n
  <2>1. PICK i \in DOMAIN rndAlarms : Min(Alarmed) = rndAlarms[i].n
    BY <1>3, <1>7
  <2>2. rndAlarms[1].n <= Min(Alarmed) /\ Min(Alarmed) <= rndAlarms[1].n
    BY <1>4, <1>7, <1>8, <1>9, <2>1
  <2>3. rndAlarms[1].n \in Nat /\ Min(Alarmed) \in Nat
    BY <1>4, <1>6, <1>7, <1>8
  <2> QED BY <2>2, <2>3
<1> QED BY <1>2, <1>3, <1>4, <1>5, <1>6, <1>7, <1>8, <1>10

\* The log whose first alarm names another observation, or none.
LEMMA FirstAltered ==
  ASSUME JoinInv, Alarmed # {}, NEW n \in Int
  PROVE  /\ LogLike(FirstAlarm(n)) /\ FirstAlarm(n).received = received
         /\ DOMAIN FirstAlarm(n).alarms = DOMAIN rndAlarms
         /\ FirstAlarm(n).alarms[1].n = n
         /\ Len(FirstAlarm(n).alarms) = Len(rndAlarms)
<1> DEFINE altered == [rndAlarms EXCEPT ![1].n = n]
<1>1. 1 \in DOMAIN rndAlarms /\ rndAlarms[1] \in Alarm
  BY FirstAlarmed
<1>2. FirstAlarm(n).received = received /\ FirstAlarm(n).alarms = altered
  BY DEF FirstAlarm, Log
<1>3. rndAlarms \in Seq(AlarmRow) /\ received \in Seq(Receipt)
  BY RunLog DEF LogLike
<1>4. [rndAlarms[1] EXCEPT !.n = n] \in AlarmRow /\ [rndAlarms[1] EXCEPT !.n = n].n = n
  BY <1>1 DEF Alarm, AlarmRow
<1>5. altered = [rndAlarms EXCEPT ![1] = [rndAlarms[1] EXCEPT !.n = n]]
  OBVIOUS
<1> HIDE DEF altered
<1>6. /\ altered \in Seq(AlarmRow) /\ DOMAIN altered = DOMAIN rndAlarms
      /\ Len(altered) = Len(rndAlarms) /\ altered[1] = [rndAlarms[1] EXCEPT !.n = n]
  BY <1>1, <1>3, <1>4, <1>5
<1> QED BY <1>2, <1>3, <1>4, <1>6 DEF LogLike, altered

\* A row bound otherwise than it should be is counted.
LEMMA Noticed ==
  ASSUME NEW log, LogLike(log), NEW i \in DOMAIN log.alarms, Joined(log, i) \in DISPOSITIONS
  PROVE  conservation(bind(log)).by_disposition[Joined(log, i)] > 0
<1> DEFINE B == BoundAs(log, Joined(log, i))
<1>1. i \in B
  BY DEF BoundAs
<1>2. DOMAIN log.alarms = 1..Len(log.alarms) /\ Len(log.alarms) \in Nat
  BY DEF LogLike
<1>3. B \in SUBSET (1..Len(log.alarms))
  BY <1>2 DEF BoundAs
<1>4. conservation(bind(log)).by_disposition[Joined(log, i)] = Cardinality(B)
  BY Books
<1> HIDE DEF B
<1>5. Cardinality(B) \in Nat /\ Cardinality(B) # 0
  BY <1>1, <1>2, <1>3, Counted
<1> QED BY <1>4, <1>5

\* The time witness is the one who finds matched rows with a wrong time.
LEMMA TimeWitness ==
  ASSUME NEW log, LogLike(log)
  PROVE  "TIME-WITNESS" \in bind_and_check(log) <=> Mistimed(log) # {}
<1> DEFINE c == conservation(bind(log))
<1>1. c.matched_time_inconsistent = Cardinality(Mistimed(log))
  BY Books
<1>2. DOMAIN log.alarms = 1..Len(log.alarms) /\ Len(log.alarms) \in Nat
  BY DEF LogLike
<1>3. Mistimed(log) \in SUBSET (1..Len(log.alarms))
  BY <1>2 DEF Mistimed, BoundAs
<1>4. Cardinality(Mistimed(log)) \in Nat /\ (Cardinality(Mistimed(log)) = 0 <=> Mistimed(log) = {})
  BY <1>2, <1>3, Counted
<1>5. "TIME-WITNESS" \in bind_and_check(log) <=> c.matched_time_inconsistent > 0
  <2> HIDE DEF c
  <2> QED BY DEF bind_and_check, check_conservation, check_dispositions, check_ordinal_health,
               check_time_witness, check_join_is_ordinal, Finding, c
<1> QED BY <1>1, <1>4, <1>5

LEMMA OrdinalHealth ==
  ASSUME NEW log
  PROVE  /\ conservation(bind(log)).by_disposition["unmatched_ordinal_out_of_range"] > 0
              => "ORDINAL-RANGE" \in bind_and_check(log)
         /\ conservation(bind(log)).by_disposition["unmatched_duplicate_ordinal"] > 0
              => "ORDINAL-DUPLICATE" \in bind_and_check(log)
BY DEF bind_and_check, check_ordinal_health, Finding

-----------------------------------------------------------------------------
(* The mutants, each with its owner                                        *)

LEMMA JoinKeyMutants ==
  ASSUME JoinInv, Alarmed # {}
  PROVE  "JOIN-KEY" \in mut_consumer_reads_tmseq /\ "JOIN-KEY" \in mut_ordinal_shift
<1>1. /\ Alarmed = OfMatched(Log) /\ Alarmed \in SUBSET DOMAIN received
      /\ DOMAIN received = 1..Len(received) /\ Len(received) \in Nat
      /\ Log.received = received /\ Log.alarms = rndAlarms
  BY FirstAlarmed, RunLog
<1>2. UNION {Ordinal(Log, i) : i \in DOMAIN Log.alarms} = Alarmed
  BY <1>1, RunOrdinals
<1> HIDE DEF Alarmed
<1>3. legacy_alarmed(Log) = {}
  <2>1. \A k \in DOMAIN received : received[k].seq # NoField
    BY Observations DEF NoField
  <2> QED BY <1>1, <2>1 DEF legacy_alarmed
<1>4. {k - 1 : k \in Alarmed \ {1}} # Alarmed
  <2> DEFINE S == {k - 1 : k \in Alarmed \ {1}}
  <2>1. Alarmed \in SUBSET (1..Len(received)) /\ Len(received) \in Nat
    BY <1>1
  <2>2. PICK x \in Alarmed : \A y \in Alarmed : y <= x
    BY <2>1, GreatestOf
  <2>3. x \notin S
    <3> SUFFICES ASSUME NEW k \in Alarmed, x = k - 1 PROVE FALSE
      OBVIOUS
    <3>1. k <= x /\ k \in Nat /\ x \in Nat
      BY <2>1, <2>2
    <3> QED BY <3>1
  <2> QED BY <2>2, <2>3
<1>5. \A a : a # Alarmed => "JOIN-KEY" \in check_join_is_ordinal(Log, a)
  BY <1>2 DEF check_join_is_ordinal, Finding
<1> QED BY <1>3, <1>4, <1>5 DEF mut_consumer_reads_tmseq, red_stage, mut_ordinal_shift

LEMMA DuplicateMutant ==
  ASSUME JoinInv, Alarmed # {}
  PROVE  "ORDINAL-DUPLICATE" \in mut_duplicate_ordinal
<1> DEFINE row == [t |-> rndAlarms[1].t + 1, n |-> rndAlarms[1].n]
           log == [Log EXCEPT !.alarms = InsertAt(rndAlarms, 2, row)]
<1>1. /\ 1 \in DOMAIN rndAlarms /\ rndAlarms[1] \in Alarm /\ rndAlarms[1].n \in DOMAIN received
      /\ rndAlarms[1].n # NoField
  BY FirstAlarmed, RunAlarms
<1>2. /\ DOMAIN rndAlarms = 1..Len(rndAlarms) /\ Len(rndAlarms) \in Nat
      /\ rndAlarms \in Seq(AlarmRow) /\ received \in Seq(Receipt)
  BY RunLog DEF LogLike
<1>3. row \in AlarmRow /\ row.n = rndAlarms[1].n
  BY <1>1 DEF Alarm, AlarmRow
<1> HIDE DEF row
<1>4. /\ InsertAt(rndAlarms, 2, row) \in Seq(AlarmRow)
      /\ DOMAIN InsertAt(rndAlarms, 2, row) = 1..(Len(rndAlarms) + 1)
      /\ InsertAt(rndAlarms, 2, row)[1] = rndAlarms[1] /\ InsertAt(rndAlarms, 2, row)[2] = row
  <2>1. 2 \in 1..(Len(rndAlarms) + 1) /\ 1 \in 1..(2 - 1)
    BY <1>1, <1>2
  <2> QED BY <1>2, <1>3, <2>1, InsertedAt
<1>5. log.received = received /\ log.alarms = InsertAt(rndAlarms, 2, row) /\ LogLike(log)
  BY <1>2, <1>4 DEF Log, LogLike
<1>6. mut_duplicate_ordinal = bind_and_check(log)
  BY DEF mut_duplicate_ordinal, Log, row
<1> HIDE DEF log
<1>7. 2 \in DOMAIN log.alarms
  BY <1>1, <1>2, <1>4, <1>5
<1>8. Joined(log, 2) = "unmatched_duplicate_ordinal"
  <2>1. log.alarms[2].n = log.alarms[1].n /\ log.alarms[2].n = rndAlarms[1].n
    BY <1>3, <1>4, <1>5
  <2>2. Repeated(log, 2)
    <3>1. 1 \in 1..(2 - 1)
      OBVIOUS
    <3> QED BY <2>1, <3>1 DEF Repeated
  <2>3. Ordinal(log, 2) # {} /\ log.alarms[2].n # NoField
    BY <1>1, <1>5, <2>1 DEF Ordinal
  <2> QED BY <2>2, <2>3 DEF Joined
<1>9. Joined(log, 2) \in DISPOSITIONS
  BY <1>8 DEF DISPOSITIONS
<1>10. conservation(bind(log)).by_disposition["unmatched_duplicate_ordinal"] > 0
  BY <1>5, <1>7, <1>8, <1>9, Noticed
<1> QED BY <1>6, <1>10, OrdinalHealth

\* The removed observation shows by its time if another one took its place.
LEMMA MissingMutant ==
  ASSUME JoinInv, Alarmed # {}
  PROVE  "TIME-WITNESS" \in mut_missing_observation <=> Min(Alarmed) < Len(received)
<1> DEFINE l == Len(received)
           n == Min(Alarmed)
           log == [Log EXCEPT !.received = RemoveAt(received, n)]
<1>1. /\ 1 \in DOMAIN rndAlarms /\ n = rndAlarms[1].n /\ n \in DOMAIN received
      /\ \A i \in DOMAIN rndAlarms : n <= rndAlarms[i].n /\ rndAlarms[i].n \in Nat
  BY FirstAlarmed
<1>2. rndAlarms[1].t = received[n].t /\ rndAlarms[1].n # NoField
  BY <1>1, RunAlarms
<1>3. /\ DOMAIN received = 1..l /\ l \in Nat /\ received \in Seq(Receipt)
      /\ rndAlarms \in Seq(AlarmRow)
      /\ \A i, j \in DOMAIN received : received[i].t = received[j].t => i = j
  BY RunLog DEF LogLike
<1>4. mut_missing_observation = bind_and_check(log)
  BY DEF mut_missing_observation, Log
<1> HIDE DEF n, l
<1>5. /\ RemoveAt(received, n) \in Seq(Receipt) /\ DOMAIN RemoveAt(received, n) = 1..(l - 1)
      /\ \A j \in 1..(l - 1) :
           RemoveAt(received, n)[j] = IF j < n THEN received[j] ELSE received[j + 1]
  BY <1>1, <1>3, RemovedAt DEF l
<1>6. log.received = RemoveAt(received, n) /\ log.alarms = rndAlarms /\ LogLike(log)
  BY <1>3, <1>5 DEF Log, LogLike
<1> HIDE DEF log
<1>7. CASE n < l
  <2>1. n \in 1..(l - 1) /\ n + 1 \in 1..l /\ n + 1 # n /\ ~(n < n)
    BY <1>1, <1>3, <1>7
  <2>2. Ordinal(log, 1) = {n}
    BY <1>1, <1>5, <1>6, <2>1 DEF Ordinal
  <2>3. ~Repeated(log, 1)
    BY DEF Repeated
  <2>4. Joined(log, 1) = "matched"
    BY <1>2, <1>6, <2>2, <2>3 DEF Joined
  <2>5. log.received[n].t # log.alarms[1].t
    BY <1>1, <1>2, <1>3, <1>5, <1>6, <2>1
  <2>6. 1 \in Mistimed(log)
    BY <1>1, <1>6, <2>2, <2>4, <2>5 DEF Mistimed, BoundAs
  <2> QED BY <1>4, <1>6, <1>7, <2>6, TimeWitness DEF n, l
<1>8. CASE ~(n < l)
  <2>1. ASSUME NEW i \in DOMAIN rndAlarms PROVE Ordinal(log, i) = {}
    <3>1. rndAlarms[i].n >= l /\ rndAlarms[i].n \in Nat
      BY <1>1, <1>3, <1>8
    <3>2. rndAlarms[i].n \notin 1..(l - 1)
      BY <1>3, <3>1
    <3> QED BY <1>5, <1>6, <3>2 DEF Ordinal
  <2>2. Mistimed(log) = {}
    BY <1>6, <2>1 DEF Mistimed, BoundAs
  <2> QED BY <1>4, <1>6, <1>8, <2>2, TimeWitness DEF n, l
<1> QED BY <1>7, <1>8 DEF n, l

LEMMA RangeMutant ==
  ASSUME JoinInv, Alarmed # {}
  PROVE  "ORDINAL-RANGE" \in mut_ordinal_out_of_range
<1> DEFINE n == Len(received) + 1
           log == FirstAlarm(n)
<1>1. n \in Int /\ n \notin DOMAIN received /\ n # NoField
  BY RunLog DEF NoField
<1> HIDE DEF n
<1>2. /\ LogLike(log) /\ log.received = received /\ 1 \in DOMAIN log.alarms
      /\ log.alarms[1].n = n
  BY <1>1, FirstAlarmed, FirstAltered
<1> HIDE DEF log
<1>3. Joined(log, 1) = "unmatched_ordinal_out_of_range"
  BY <1>1, <1>2 DEF Joined, Ordinal
<1>4. Joined(log, 1) \in DISPOSITIONS
  BY <1>3 DEF DISPOSITIONS
<1>5. conservation(bind(log)).by_disposition["unmatched_ordinal_out_of_range"] > 0
  BY <1>2, <1>3, <1>4, Noticed
<1> QED BY <1>5, OrdinalHealth DEF mut_ordinal_out_of_range, log, n

\* No more packets are received than instants have passed.
LEMMA FewReceived ==
  ASSUME JoinInv, now <= Horizon
  PROVE  Horizon \in Nat /\ Horizon + 1 \notin DOMAIN received
<1> DEFINE l == Len(received)
           f == [k \in 1..l |-> received[k].t]
<1>1. /\ DOMAIN received = 1..l /\ l \in Nat /\ now \in Nat /\ Horizon \in Nat
      /\ \A k \in DOMAIN received : received[k].t \in Nat
  BY RunLog, Constants DEF JoinInv, TypeInv
<1>2. \A k \in DOMAIN received : received[k].t \in 1..Horizon
  <2> TAKE k \in DOMAIN received
  <2>1. /\ received[k].seq \in Packet /\ received[k].t <= now
        /\ received[k].t = ArrivalTime(received[k].seq, done[received[k].seq], setting.addedDelay)
        /\ setting.addedDelay \in AddedDelays
    BY Observations DEF JoinInv, Arrived, TypeInv
  <2>2. PICK d \in Nat : received[k].t = SendTime(received[k].seq) + Transit + d
    BY <2>1, TimeOfArrival
  <2>3. SendTime(received[k].seq) \in Nat /\ Transit \in Nat \ {0}
    BY <2>1, Sending, Constants
  <2> QED BY <1>1, <2>1, <2>2, <2>3
<1>3. \A j, k \in 1..l : received[j].t = received[k].t => j = k
  BY <1>1, Observations
<1>4. f \in [1..l -> 1..Horizon] /\ \A j, k \in 1..l : f[j] = f[k] => j = k
  BY <1>1, <1>2, <1>3
<1> HIDE DEF f, l
<1>5. f \in Injection(1..l, 1..Horizon)
  BY <1>4 DEF Injection, IsInjective
<1>6. IsFiniteSet(1..Horizon) /\ Cardinality(1..Horizon) = Horizon /\ Cardinality(1..l) = l
  <2>1. 1 \in Int /\ Horizon \in Int /\ l \in Int
    BY <1>1
  <2>2. /\ IsFiniteSet(1..Horizon)
        /\ Cardinality(1..Horizon) = IF 1 > Horizon THEN 0 ELSE Horizon - 1 + 1
        /\ Cardinality(1..l) = IF 1 > l THEN 0 ELSE l - 1 + 1
    BY <2>1, FS_Interval
  <2> QED BY <1>1, <2>2
<1>7. l <= Horizon
  <2>1. Cardinality(1..l) <= Cardinality(1..Horizon)
    BY <1>5, <1>6, FS_Injection
  <2> QED BY <1>6, <2>1
<1> QED BY <1>1, <1>7

\* Books from which a row was filtered do not balance with the log.
LEMMA SilentDropMutant ==
  ASSUME JoinInv, now <= Horizon, Alarmed # {}
  PROVE  "CONSERVATION" \in mut_silent_drop
<1> DEFINE n == Horizon + 1
           log == FirstAlarm(n)
           m == Len(rndAlarms)
           kept == {i \in DOMAIN bind(log) : bind(log)[i].disposition = "matched"}
           rows == [j \in 1..Cardinality(kept) |->
                      bind(log)[CHOOSE i \in kept : Cardinality(kept \cap (1..i)) = j]]
<1>1. n \in Int /\ n \notin DOMAIN received /\ n # NoField
  BY FewReceived DEF NoField
<1> HIDE DEF n
<1>2. /\ log.received = received /\ 1 \in DOMAIN log.alarms /\ log.alarms[1].n = n
      /\ DOMAIN log.alarms = 1..m /\ Len(log.alarms) = m /\ m \in Nat
  BY <1>1, FirstAlarmed, FirstAltered, RunLog
<1>3. mut_silent_drop = check_conservation(conservation(rows), log)
  BY DEF mut_silent_drop, log, n
<1> HIDE DEF log, m
<1>4. Joined(log, 1) # "matched"
  BY <1>1, <1>2 DEF Joined, Ordinal
<1>5. kept \in SUBSET (1..m) /\ 1 \notin kept /\ 1 \in 1..m
  BY <1>2, <1>4 DEF bind
<1> HIDE DEF kept
<1>6. Cardinality(kept) \in Nat /\ Cardinality(kept) # m
  <2>1. IsFiniteSet(1..m) /\ Cardinality(1..m) = IF 1 > m THEN 0 ELSE m - 1 + 1
    <3>1. 1 \in Int /\ m \in Int
      BY <1>2
    <3> QED BY <3>1, FS_Interval
  <2>2. Cardinality(1..m) = m
    BY <1>2, <2>1
  <2>3. Cardinality(kept) # Cardinality(1..m)
    BY <1>5, <2>1, FS_Subset
  <2>4. Cardinality(kept) \in Nat
    BY <1>2, <1>5, Counted
  <2> QED BY <2>2, <2>3, <2>4
<1>7. Len(rows) = Cardinality(kept)
  BY <1>6
<1> HIDE DEF rows
<1>8. conservation(rows).raw_alarm_rows = Len(rows)
  BY DEF conservation
<1>9. Len(log.alarms) # conservation(rows).raw_alarm_rows
  BY <1>2, <1>6, <1>7, <1>8
<1> QED BY <1>3, <1>9 DEF check_conservation, Finding

LEMMA DispositionMutants ==
  ASSUME JoinInv, Alarmed # {}
  PROVE  "DISPOSITION" \in mut_missing_ordinal_field /\ "DISPOSITION" \in mut_undeclared_disposition
<1>1. ASSUME NEW log, NEW d, 1 \in DOMAIN log.alarms, d \notin DISPOSITIONS
      PROVE  "DISPOSITION" \in check_dispositions(FirstDisposition(log, d))
  <2>1. 1 \in DOMAIN bind(log) /\ "disposition" \in DOMAIN bind(log)[1]
    BY <1>1 DEF bind
  <2>2. /\ 1 \in DOMAIN FirstDisposition(log, d)
        /\ FirstDisposition(log, d)[1].disposition = d
    BY <2>1 DEF FirstDisposition
  <2> QED BY <1>1, <2>2 DEF check_dispositions, Finding
<1>2. 1 \in DOMAIN Log.alarms
  BY FirstAlarmed, RunLog
<1>3. "DISPOSITION" \in mut_undeclared_disposition
  <2>1. "probably_fine" \notin DISPOSITIONS
    BY DEF DISPOSITIONS
  <2> QED BY <1>1, <1>2, <2>1 DEF mut_undeclared_disposition
<1>4. "DISPOSITION" \in mut_missing_ordinal_field
  <2> DEFINE log == FirstAlarm(NoField)
  <2>1. /\ 1 \in DOMAIN log.alarms /\ log.alarms[1].n = NoField
        /\ log.received = received /\ NoField \notin DOMAIN received
    <3>1. NoField \in Int /\ NoField \notin DOMAIN received
      BY RunLog DEF NoField
    <3> QED BY <3>1, FirstAlarmed, FirstAltered
  <2>2. mut_missing_ordinal_field =
          IF \E i \in DOMAIN bind(log) : bind(log)[i].disposition = "unmatched_missing_ordinal_field"
          THEN check_dispositions(FirstDisposition(log, "None")) ELSE {}
    BY DEF mut_missing_ordinal_field
  <2> HIDE DEF log
  <2>3. Joined(log, 1) = "unmatched_missing_ordinal_field"
    BY <2>1 DEF Joined, Ordinal
  <2>4. 1 \in DOMAIN bind(log) /\ bind(log)[1].disposition = "unmatched_missing_ordinal_field"
    BY <2>1, <2>3 DEF bind
  <2>5. "None" \notin DISPOSITIONS
    BY DEF DISPOSITIONS
  <2> QED BY <1>1, <2>1, <2>2, <2>4, <2>5
<1> QED BY <1>3, <1>4

\* The oracle joins the alarms of the run to the packets they were raised on.
LEMMA OracleAgrees ==
  ASSUME JoinInv
  PROVE  bind_by_time(Log).pairs = Alarmed /\ confusion(Log) = direct_detection_rnd
<1>1. /\ Log.alarms = rndAlarms /\ Log.received = received
      /\ Alarmed = OfMatched(Log)
      /\ UNION {Ordinal(Log, i) : i \in DOMAIN rndAlarms} = OfMatched(Log)
  BY RunLog, RunOrdinals, AlarmedByOrdinal DEF Alarmed
<1> HIDE DEF Alarmed
<1>2. \A i \in DOMAIN rndAlarms :
        Candidates(Log, i) = Ordinal(Log, i) /\ Cardinality(Candidates(Log, i)) = 1
  BY RunAlarms, FS_Singleton
<1>3. bind_by_time(Log).pairs = UNION {Candidates(Log, i) : i \in DOMAIN rndAlarms}
  BY <1>1, <1>2 DEF bind_by_time
<1>4. bind_by_time(Log).pairs = Alarmed
  BY <1>1, <1>2, <1>3
<1> QED BY <1>1, <1>4 DEF confusion, direct_detection_rnd, Alarmed

\* The oracle's mutant credits the seventh packet: it shows unless that was alarmed on.
LEMMA OracleMutant ==
  ASSUME JoinInv
  PROVE  "ORACLE-AGREEMENT" \in mut_oracle_disagreement <=> 7 \notin Alarmed
<1>1. bind_by_time(Log).pairs = Alarmed /\ confusion(Log) = direct_detection_rnd
  BY OracleAgrees
<1>2. "ORACLE-AGREEMENT" \in mut_oracle_disagreement
        <=> Alarmed # Alarmed \cup {7} \/ direct_detection_rnd # direct_detection_rnd
  <2> HIDE DEF Alarmed
  <2> QED BY <1>1 DEF mut_oracle_disagreement, compare, Finding
<1> HIDE DEF Alarmed
<1> QED BY <1>2

\* A packet that comes twice leaves the oracle two candidates.
LEMMA AmbiguousMutant ==
  ASSUME JoinInv, Alarmed # {}
  PROVE  "ORACLE-AMBIGUOUS" \in mut_oracle_ambiguous
<1> DEFINE l == Len(received)
           n == Min(Alarmed)
           log == [Log EXCEPT !.received = InsertAt(received, n + 1, received[n])]
<1>1. /\ 1 \in DOMAIN rndAlarms /\ n = rndAlarms[1].n /\ n \in DOMAIN received
      /\ rndAlarms[1].t = received[n].t
  BY FirstAlarmed, RunAlarms
<1>2. /\ DOMAIN received = 1..l /\ l \in Nat /\ received \in Seq(Receipt)
      /\ received[n] \in Receipt
  BY <1>1, RunLog DEF LogLike
<1>3. "ORACLE-AMBIGUOUS" \in mut_oracle_ambiguous <=> bind_by_time(log).ambiguous # {}
  <2>1. mut_oracle_ambiguous =
          compare(log, alarmed_ordinals(bind(log)), [tp |-> 0, fn |-> 0, fp |-> 0, tn |-> 0])
    BY DEF mut_oracle_ambiguous, Log
  <2> HIDE DEF log
  <2> QED BY <2>1 DEF compare, Finding
<1> HIDE DEF n, l
<1>4. /\ DOMAIN InsertAt(received, n + 1, received[n]) = 1..(l + 1)
      /\ InsertAt(received, n + 1, received[n])[n] = received[n]
      /\ InsertAt(received, n + 1, received[n])[n + 1] = received[n]
  <2> DEFINE k == n + 1
             e == received[n]
  <2>1. k \in 1..(Len(received) + 1) /\ e \in Receipt /\ n \in 1..(k - 1)
    BY <1>1, <1>2 DEF l
  <2>2. received[n] = e /\ k = n + 1
    OBVIOUS
  <2> HIDE DEF k, e
  <2>3. /\ DOMAIN InsertAt(received, k, e) = 1..(Len(received) + 1)
        /\ \A j \in 1..(k - 1) : InsertAt(received, k, e)[j] = received[j]
        /\ InsertAt(received, k, e)[k] = e
    BY <1>2, <2>1, InsertedAt
  <2>4. InsertAt(received, k, e)[n] = e
    BY <2>1, <2>2, <2>3
  <2> QED BY <2>2, <2>3, <2>4 DEF l
<1>5. log.received = InsertAt(received, n + 1, received[n]) /\ log.alarms = rndAlarms
  BY DEF Log
<1> HIDE DEF log
<1> DEFINE S == Candidates(log, 1)
<1>6. S \in SUBSET (1..(l + 1)) /\ {n, n + 1} \in SUBSET S
  <2>1. n \in 1..(l + 1) /\ n + 1 \in 1..(l + 1)
    BY <1>1, <1>2
  <2> QED BY <1>1, <1>4, <1>5, <2>1 DEF Candidates
<1>7. IsFiniteSet(S) /\ Cardinality(S) \in Nat
  <2>1. l + 1 \in Nat
    BY <1>2
  <2> HIDE DEF S
  <2> QED BY <1>6, <2>1, Counted
<1>8. Cardinality({n, n + 1}) = 2
  <2>1. IsFiniteSet({n}) /\ Cardinality({n}) = 1
    BY FS_Singleton
  <2>2. n + 1 \notin {n} /\ {n, n + 1} = {n} \cup {n + 1}
    BY <1>1, <1>2
  <2> QED BY <2>1, <2>2, FS_AddElement
<1>9. Cardinality(S) > 1
  <2> HIDE DEF S
  <2>1. Cardinality({n, n + 1}) <= Cardinality(S)
    BY <1>6, <1>7, FS_Subset
  <2> QED BY <1>7, <1>8, <2>1
<1>10. 1 \in bind_by_time(log).ambiguous
  BY <1>1, <1>5, <1>9 DEF bind_by_time
<1> QED BY <1>3, <1>10

\* The mutants of the registry and of the claims show on any run.
LEMMA OtherMutants ==
  ASSUME JoinInv
  PROVE  /\ "JOIN-KEY" \in mut_registry_declares_tmseq /\ "JOIN-KEY" \in mut_registry_seq_as_key
         /\ "RAW-TOTAL" \in mut_stale_corpus_total /\ "RAW-TOTAL" \in mut_no_checkable_total
         /\ "RAW-TOTAL" \in mut_overglob_scope
<1>1. "JOIN-KEY" \in mut_registry_declares_tmseq
  BY DEF mut_registry_declares_tmseq, check_field_registry, Finding, PRODUCER
<1>2. "JOIN-KEY" \in mut_registry_seq_as_key
  BY DEF mut_registry_seq_as_key, check_field_registry, Finding, PROVENANCE_ONLY
<1>3. "RAW-TOTAL" \in mut_stale_corpus_total
  <2> DEFINE totals == recount(Log)
             stale == [totals EXCEPT !.alarm_rows = @ + 16]
  <2>1. totals.alarm_rows = Len(rndAlarms) /\ Len(rndAlarms) \in Nat
    BY RunLog DEF recount
  <2>2. stale.alarm_rows = totals.alarm_rows + 16
    BY DEF recount
  <2>3. mut_stale_corpus_total = check_claims([report |-> {stale}], totals)
    BY DEF mut_stale_corpus_total
  <2> HIDE DEF totals, stale
  <2>4. stale # totals
    BY <2>1, <2>2
  <2>5. "report" \in DOMAIN [report |-> {stale}] /\ [report |-> {stale}]["report"] # {totals}
    BY <2>4
  <2> QED BY <2>3, <2>5 DEF check_claims, Finding
<1>4. "RAW-TOTAL" \in mut_no_checkable_total
  <2>1. "report" \in DOMAIN [report |-> {}] /\ [report |-> {}]["report"] = {}
    OBVIOUS
  <2> QED BY <2>1 DEF mut_no_checkable_total, check_claims, Finding
<1>5. "RAW-TOTAL" \in mut_overglob_scope
  BY DEF mut_overglob_scope, check_scope, Finding
<1> QED BY <1>1, <1>2, <1>3, <1>4, <1>5

\* p4_mutations.py, run_phase4_suite.py: the suite finds its guards awake exactly on
\* the runs whose first alarm is not on the last packet and none on the seventh.
THEOREM SuiteFixture == Spec => []SuiteNeedsItsFixture
<1>1. JoinInv /\ now <= Horizon => SuiteNeedsItsFixture
  <2> SUFFICES ASSUME JoinInv, now <= Horizon, Alarmed # {}
               PROVE  escaped = {} <=> Min(Alarmed) < Len(received) /\ 7 \notin Alarmed
    BY DEF SuiteNeedsItsFixture
  <2>1. escaped = {} <=> /\ "TIME-WITNESS" \in mut_missing_observation
                         /\ "ORACLE-AGREEMENT" \in mut_oracle_disagreement
    <3>1. \A m \in MUTANTS :
            \/ m = <<mut_missing_observation, "TIME-WITNESS">>
            \/ m = <<mut_oracle_disagreement, "ORACLE-AGREEMENT">>
            \/ m[2] \in m[1]
      BY JoinKeyMutants, DuplicateMutant, RangeMutant, SilentDropMutant, DispositionMutants,
         AmbiguousMutant, OtherMutants DEF MUTANTS
    <3>2. /\ <<mut_missing_observation, "TIME-WITNESS">> \in MUTANTS
          /\ <<mut_oracle_disagreement, "ORACLE-AGREEMENT">> \in MUTANTS
      BY DEF MUTANTS
    <3> QED BY <3>1, <3>2 DEF escaped
  <2> QED BY <2>1, MissingMutant, OracleMutant
<1>2. Spec => [](now <= Horizon)
  <2>1. Init => now <= Horizon
    BY Constants DEF Init
  <2>2. JoinInv /\ now <= Horizon /\ [Next]_vars => (now <= Horizon)'
    <3> SUFFICES ASSUME JoinInv, now <= Horizon, [Next]_vars PROVE now' <= Horizon
      OBVIOUS
    <3>1. now \in Nat /\ Horizon \in Nat
      BY Constants DEF JoinInv, TypeInv
    <3>2. CASE Tick
      BY <3>1, <3>2 DEF Tick
    <3>3. CASE UNCHANGED now
      BY <3>3
    <3>4. Tick \/ UNCHANGED now
      BY DEF Next, SendTelemetry, Arrive, CloseWindow, vars
    <3> QED BY <3>2, <3>3, <3>4
  <2> QED BY <2>1, <2>2, JoinInvariant, PTL DEF Spec
<1> QED BY <1>1, <1>2, JoinInvariant, PTL
=============================================================================
