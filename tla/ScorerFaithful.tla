--------------------------- MODULE ScorerFaithful ---------------------------
(***************************************************************************)
(* The scorer tells what happened: the proofs that, in every run and at    *)
(* every moment of it, what matching.py, state.py and families.py make of  *)
(* the two files agrees with what the satellite, the ground and the relay  *)
(* of ScoredRun did, for every setting, timetable and horizon.             *)
(*                                                                         *)
(* The scorer's functions are first reduced to facts about sets of rows.   *)
(* match claims outcomes in the order of the actions, a recursive function *)
(* whose unfolding (TakingUnfolds) is proved by induction over the         *)
(* actions; that no outcome is claimed twice, and so FamiliesAgree, needs  *)
(* nothing else of the run than two files of the right shape.              *)
(*                                                                         *)
(* The other three properties relate the scorer's picture to facts it      *)
(* cannot see, and need the inductive invariant ScorerInv:                 *)
(*   ClockInv      no timer or arrival is missed, the rows are in order of *)
(*                 time, and none is logged in the instant of an action    *)
(*                 or of a sample, as the transit is odd and all else even *)
(*   NumberInv     which number a command, an action and the captured      *)
(*                 command may have                                        *)
(*   CopyInv       a command or row that came from an action bears its     *)
(*                 number, comes after it, in A3 exactly one transit       *)
(*                 after, and is the only one                              *)
(*   OwnInv        out of A3, an action's number is nobody else's          *)
(*   ReplayInv     in A3, replays are one injection interval apart, values *)
(*                 obey the law, and the original is on board before its   *)
(*                 first copy leaves, unless the two raced                 *)
(*   OrderInv      with D1 and no race, what can pass D1 arrives in the    *)
(*                 order of the numbers, and a replay is of a number that  *)
(*                 was used                                                *)
(*   TelemetryInv  a packet holds the count of the rejections before it,   *)
(*                 packets are seen in the order of their samples, and the *)
(*                 alarm is on every change from one to the next           *)
(***************************************************************************)
EXTENDS ScoredRun, FiniteSetTheorems, WellFoundedInduction, SequenceTheorems, TLAPS

LEMMA LeastOf ==
  ASSUME NEW S \in SUBSET Nat, S # {}
  PROVE  /\ Min(S) \in S
         /\ \A y \in S : Min(S) <= y
<1>1. PICK x \in S : \A y \in S : ~(<<y, x>> \in OpToRel(<, Nat))
  BY NatLessThanWellFounded, WFMin, Zenon
<1>2. \A y \in S : x <= y
  <2>1. TAKE y \in S
  <2>2. <<y, x>> \in Nat \X Nat
    OBVIOUS
  <2>3. ~(y < x)
    BY <1>1, <2>2 DEF OpToRel
  <2> QED BY <2>3
<1> QED BY <1>2 DEF Min

\* Induction over the naturals, for a set.
LEMMA SetInduction ==
  ASSUME NEW S, 0 \in S, \A n \in Nat : n \in S => n + 1 \in S
  PROVE  Nat \subseteq S
<1> DEFINE T == Nat \ S
<1> SUFFICES ASSUME T # {} PROVE FALSE
  OBVIOUS
<1>1. Min(T) \in T /\ \A y \in T : Min(T) <= y
  BY LeastOf
<1> DEFINE m == Min(T)
<1>2. m \in Nat /\ m \notin S /\ \A y \in Nat : y < m => y \in S
  BY <1>1
<1> HIDE DEF m, T
<1>3. m # 0 /\ m - 1 \in Nat /\ m - 1 \in S
  BY <1>2
<1> QED BY <1>2, <1>3

-----------------------------------------------------------------------------

Telecommand == [id : Nat, seq : Nat, value : Nat, signed : BOOLEAN, act : Nat, due : Nat]
Outcome == [t : Nat, id : Nat, accepted : BOOLEAN, act : Nat, wrote : Nat]
Action == [t : Nat, id : Nat]
Sample == [src : Nat, rej : Nat, due : Nat]
Observation == [src : Nat, recv : Nat, rej : Nat, alarm : BOOLEAN]

\* The two files of the run.
Files == events \in Seq(Outcome) /\ truth \in Seq(Action)

\* The rows an action may be credited with, and what it takes of them given what was
\* taken before it.
Free(g, b) ==
  {r \in FromAction(b) : /\ events[r].t < Bound(b)
                         /\ \A c \in 1..(b - 1) : g[c] # r}
Taking == CHOOSE g : g = [b \in Actions |-> First(Free(g, b))]

LEMMA MatchIsTaking ==
  ASSUME NEW a, ~EXACT PROVE match(a) = Taking[a]
  BY DEF match, Taking, Free

LEMMA TakingUnfolds ==
  ASSUME Files
  PROVE  Taking = [b \in Actions |-> First(Free(Taking, b))]
<1> DEFINE Fits(n, g) == g = [b \in 1..n |-> First(Free(g, b))]
           S == {n \in Nat : \E g : Fits(n, g)}
<1>1. 0 \in S
  <2> DEFINE g == [b \in 1..0 |-> 0]
  <2>1. g = [b \in 1..0 |-> First(Free(g, b))]
    OBVIOUS
  <2> QED BY <2>1
<1>2. ASSUME NEW n \in Nat, n \in S PROVE n + 1 \in S
  <2>1. PICK g : Fits(n, g)
    BY <1>2
  <2> DEFINE h == [b \in 1..(n + 1) |-> IF b <= n THEN g[b] ELSE First(Free(g, b))]
  <2>2. ASSUME NEW b \in 1..(n + 1) PROVE Free(h, b) = Free(g, b)
    <3>1. \A c \in 1..(b - 1) : h[c] = g[c]
      OBVIOUS
    <3> QED BY <3>1 DEF Free
  <2>3. ASSUME NEW b \in 1..(n + 1) PROVE h[b] = First(Free(g, b))
    <3>1. CASE b <= n
      <4>1. b \in 1..n /\ h[b] = g[b]
        BY <3>1
      <4> QED BY <2>1, <4>1
    <3>2. CASE ~(b <= n)
      BY <3>2
    <3> QED BY <3>1, <3>2
  <2> HIDE DEF h
  <2>4. h = [b \in 1..(n + 1) |-> First(Free(h, b))]
    <3>1. h = [b \in 1..(n + 1) |-> h[b]]
      BY DEF h
    <3>2. \A b \in 1..(n + 1) : h[b] = First(Free(h, b))
      BY <2>2, <2>3
    <3> QED BY <3>1, <3>2, Zenon
  <2>5. \E k : Fits(n + 1, k)
    BY <2>4, Zenon
  <2> QED BY <2>5
<1>3. Nat \subseteq S
  <2> HIDE DEF S
  <2> QED BY <1>1, <1>2, SetInduction
<1>4. Actions = 1..Len(truth) /\ Len(truth) \in Nat
  BY DEF Files, Actions
<1>5. \E g : Fits(Len(truth), g)
  <2>1. Len(truth) \in S
    BY <1>3, <1>4
  <2> QED BY <2>1
<1>6. \E g : g = [b \in Actions |-> First(Free(g, b))]
  BY <1>4, <1>5, Zenon
<1> QED BY <1>6, Zenon DEF Taking

-----------------------------------------------------------------------------
(* What match returns *)

LEMMA FirstOf ==
  ASSUME Files, NEW S \in SUBSET Rows
  PROVE  /\ First(S) \in Nat
         /\ S = {} <=> First(S) = 0
         /\ S # {} => First(S) \in S /\ \A y \in S : First(S) <= y
<1>1. Rows = 1..Len(events) /\ Len(events) \in Nat
  BY DEF Files, Rows
<1>2. CASE S = {}
  BY <1>2 DEF First
<1>3. CASE S # {}
  <2>1. S \in SUBSET Nat
    BY <1>1
  <2>2. Min(S) \in S /\ \A y \in S : Min(S) <= y
    BY <1>3, <2>1, LeastOf
  <2>3. First(S) = Min(S)
    BY <1>3 DEF First
  <2> DEFINE m == Min(S)
  <2>4. m \in Rows
    BY <2>2
  <2> HIDE DEF m
  <2>5. m \in Nat /\ m # 0
    BY <1>1, <2>4
  <2> QED BY <1>3, <2>2, <2>3, <2>5 DEF m
<1> QED BY <1>2, <1>3

\* The rows that are left for an action, after the ones before it in the truth.
Left(a) ==
  {r \in FromAction(a) : /\ events[r].t < Bound(a)
                         /\ \A c \in 1..(a - 1) : match(c) # r}

LEMMA MatchTakesFirst ==
  ASSUME Files, ~EXACT, NEW a \in Actions
  PROVE  match(a) = First(Left(a))
<1>1. Actions = 1..Len(truth) /\ Len(truth) \in Nat
  BY DEF Files, Actions
<1>2. \A b \in Actions : match(b) = Taking[b]
  BY MatchIsTaking
<1>3. Taking[a] = First(Free(Taking, a))
  BY TakingUnfolds
<1>4. \A c \in 1..(a - 1) : c \in Actions
  BY <1>1
<1>5. Free(Taking, a) = Left(a)
  BY <1>2, <1>4 DEF Free, Left
<1> QED BY <1>2, <1>3, <1>5

\* An action is credited with an outcome of its command, or with none.
LEMMA MatchIsAnOutcome ==
  ASSUME Files, NEW a \in Actions
  PROVE  /\ match(a) \in Nat
         /\ match(a) # 0 => match(a) \in Outcomes(truth[a].id)
<1>1. /\ FromAction(a) \subseteq Outcomes(truth[a].id) /\ Outcomes(truth[a].id) \subseteq Rows
      /\ Left(a) \subseteq FromAction(a)
  BY DEF FromAction, Outcomes, Rows, Left
<1>2. CASE EXACT
  <2>1. match(a) = ExactHit(a)
    BY <1>2 DEF match
  <2>2. match(a) = First(Outcomes(truth[a].id)) \/ match(a) = First(FromAction(a))
    BY <2>1 DEF ExactHit
  <2>3. FromAction(a) \in SUBSET Rows /\ Outcomes(truth[a].id) \in SUBSET Rows
    BY <1>1
  <2> QED BY <1>1, <2>2, <2>3, FirstOf
<1>3. CASE ~EXACT
  <2>1. match(a) = First(Left(a))
    BY <1>3, MatchTakesFirst
  <2>2. Left(a) \in SUBSET Rows
    BY <1>1
  <2> QED BY <1>1, <2>1, <2>2, FirstOf
<1> QED BY <1>2, <1>3

\* No outcome is credited twice.
LEMMA MatchIsInjective ==
  ASSUME Files, NEW a \in Actions, NEW b \in Actions, match(a) = match(b), match(a) # 0
  PROVE  a = b
<1>1. Actions = 1..Len(truth) /\ Len(truth) \in Nat
  BY DEF Files, Actions
<1>2. CASE EXACT
  <2>1. match(a) \in Outcomes(truth[a].id) /\ match(a) \in Outcomes(truth[b].id)
    BY MatchIsAnOutcome
  <2>2. truth[a].id = truth[b].id
    BY <2>1 DEF Outcomes
  <2>3. \A x, y \in Actions : truth[x].id = truth[y].id => x = y
    BY <1>2 DEF EXACT
  <2> HIDE <1>2
  <2> QED BY <2>2, <2>3
<1>3. CASE ~EXACT
  <2>1. ASSUME NEW c \in Actions, NEW d \in Actions, c < d, match(c) = match(d), match(d) # 0
        PROVE  FALSE
    <3>1. match(d) = First(Left(d))
      BY <1>3, MatchTakesFirst
    <3>2. Left(d) \in SUBSET Rows
      BY DEF Left, FromAction, Outcomes, Rows
    <3>3. match(d) \in Left(d)
      BY <2>1, <3>1, <3>2, FirstOf
    <3>4. c \in 1..(d - 1)
      BY <1>1, <2>1
    <3> QED BY <2>1, <3>3, <3>4 DEF Left
  <2>2. ~(a < b) /\ ~(b < a)
    BY <2>1
  <2>3. a \in Int /\ b \in Int
    BY <1>1
  <2> QED BY <2>2, <2>3
<1> QED BY <1>2, <1>3

-----------------------------------------------------------------------------
(* The families add up *)

LEMMA SameSize ==
  ASSUME NEW S, NEW T, IsFiniteSet(S), NEW f \in [S -> T],
         \A x, y \in S : f[x] = f[y] => x = y,
         \A y \in T : \E x \in S : f[x] = y
  PROVE  IsFiniteSet(T) /\ Cardinality(T) = Cardinality(S)
<1>1. f \in Bijection(S, T)
  BY DEF Bijection, Injection, Surjection, IsInjective
<1> QED BY <1>1, FS_Bijection DEF ExistsBijection

LEMMA ActionsFinite ==
  ASSUME Files, NEW S \in SUBSET Actions
  PROVE  IsFiniteSet(S)
<1>1. Actions = 1..Len(truth) /\ Len(truth) \in Nat
  BY DEF Files, Actions
<1>2. IsFiniteSet(Actions)
  BY <1>1, FS_Interval
<1> QED BY <1>2, FS_Subset

LEMMA OutcomeOf ==
  ASSUME Files, NEW a \in Actions
  PROVE  /\ outcome(a) \in {"none", "accepted", "rejected"}
         /\ outcome(a) = "none" <=> match(a) = 0
         /\ outcome(a) = "accepted" <=> match(a) # 0 /\ events[match(a)].accepted
         /\ outcome(a) = "rejected" <=> match(a) # 0 /\ ~events[match(a)].accepted
BY DEF outcome

LEMMA FamiliesAddUp == Files => FamiliesAgree
<1> SUFFICES ASSUME Files PROVE FamiliesAgree
  OBVIOUS
<1>1. prevention.denominator = Cardinality({match(a) : a \in Actions} \ {0})
  <2> DEFINE S == {a \in Actions : match(a) # 0}
             T == {match(a) : a \in Actions} \ {0}
             f == [a \in S |-> match(a)]
  <2>1. IsFiniteSet(S) /\ f \in [S -> T]
    BY ActionsFinite
  <2>2. \A x, y \in S : f[x] = f[y] => x = y
    BY MatchIsInjective
  <2>3. \A y \in T : \E x \in S : f[x] = y
    OBVIOUS
  <2>4. prevention.denominator = Cardinality(S)
    BY DEF prevention
  <2> HIDE DEF S, T, f
  <2>5. Cardinality(T) = Cardinality(S)
    BY <2>1, <2>2, <2>3, SameSize
  <2> QED BY <2>4, <2>5 DEF T
<1> DEFINE C == {a \in Actions : spacecraft_effect(a) = "state_changed"}
           I == {a \in Actions : spacecraft_effect(a) = "idempotent"}
           A == ActionsWith("accepted")
<1>2. \A a \in Actions :
        /\ (spacecraft_effect(a) = "state_changed")
             <=> (outcome(a) = "accepted" /\ StateChanged(match(a)))
        /\ (spacecraft_effect(a) = "idempotent")
             <=> (outcome(a) = "accepted" /\ ~StateChanged(match(a)))
  <2> SUFFICES ASSUME NEW a \in Actions
               PROVE  /\ (spacecraft_effect(a) = "state_changed")
                           <=> (outcome(a) = "accepted" /\ StateChanged(match(a)))
                      /\ (spacecraft_effect(a) = "idempotent")
                           <=> (outcome(a) = "accepted" /\ ~StateChanged(match(a)))
    OBVIOUS
  <2>1. outcome(a) \in {"none", "accepted", "rejected"}
    BY OutcomeOf
  <2>2. CASE outcome(a) = "none"
    BY <2>2 DEF spacecraft_effect
  <2>3. CASE outcome(a) = "rejected"
    BY <2>3 DEF spacecraft_effect
  <2>4. CASE outcome(a) = "accepted" /\ StateChanged(match(a))
    <3>1. spacecraft_effect(a) = "state_changed"
      BY <2>4 DEF spacecraft_effect
    <3> QED BY <2>4, <3>1
  <2>5. CASE outcome(a) = "accepted" /\ ~StateChanged(match(a))
    <3>1. spacecraft_effect(a) = "idempotent"
      BY <2>5 DEF spacecraft_effect
    <3> QED BY <2>5, <3>1
  <2> QED BY <2>1, <2>2, <2>3, <2>4, <2>5
<1>3. IsFiniteSet(C) /\ IsFiniteSet(I) /\ IsFiniteSet(A)
  BY ActionsFinite DEF ActionsWith
<1>4. state_transition.numerator = Cardinality(C) /\ state_transition.idempotent = Cardinality(I)
      /\ prevention.accepted = Cardinality(A)
  BY DEF state_transition, prevention
<1>5. C \cup I = A /\ C \cap I = {}
  BY <1>2 DEF ActionsWith
<1> HIDE DEF I
<1>6. Cardinality(C) + Cardinality(I) = Cardinality(A)
  <2>1. Cardinality(C) \in Nat /\ Cardinality(I) \in Nat
    BY <1>3, FS_CardinalityType
  <2>2. Cardinality({}) = 0
    BY FS_EmptySet
  <2> HIDE DEF C, A
  <2>3. Cardinality(C \cup I) = Cardinality(C) + Cardinality(I) - Cardinality(C \cap I)
    BY <1>3, FS_Union
  <2>4. Cardinality(C \cup I) = Cardinality(A) /\ Cardinality(C \cap I) = 0
    BY <1>5, <2>2
  <2> QED BY <2>1, <2>3, <2>4
<1>7. Cardinality(effect_windows) = Cardinality(C)
  <2> DEFINE w(r) == [row |-> r, start |-> events[r].t, stop |-> Stop(r)]
             f == [a \in C |-> w(match(a))]
  <2>1. \A a \in C : match(a) \in HostileRows /\ StateChanged(match(a)) /\ match(a) # 0
    BY <1>2, OutcomeOf DEF HostileRows
  <2>2. f \in [C -> effect_windows]
    BY <2>1 DEF effect_windows
  <2>3. \A x, y \in C : f[x] = f[y] => x = y
    <3>1. \A x \in C : f[x].row = match(x)
      OBVIOUS
    <3>2. \A x, y \in C : match(x) = match(y) => x = y
      BY <2>1, MatchIsInjective
    <3> HIDE DEF f, C
    <3> QED BY <3>1, <3>2
  <2>4. ASSUME NEW y \in effect_windows PROVE \E x \in C : f[x] = y
    <3>1. PICK r \in HostileRows : StateChanged(r) /\ y = w(r)
      BY DEF effect_windows
    <3>2. PICK a \in Actions : outcome(a) = "accepted" /\ r = match(a)
      BY <3>1 DEF HostileRows
    <3>3. a \in C
      BY <1>2, <3>1, <3>2
    <3> QED BY <3>1, <3>2, <3>3
  <2> HIDE DEF f, C
  <2> QED BY <1>3, <2>2, <2>3, <2>4, SameSize
<1> HIDE DEF C, A
<1> QED BY <1>1, <1>4, <1>6, <1>7 DEF FamiliesAgree

Setting == [scenario : Scenarios, auth : BOOLEAN, attacked : SUBSET Nat, start : Starts,
            stop : Nat, passEnd : PassEnds]

TypeInv ==
  /\ now \in 0..Horizon
  /\ setting \in Setting
  /\ nextCommand \in Nat /\ sent \in Nat
  /\ timer \in Nat \cup {Unset}
  /\ captured \in Seq(Telecommand)
  /\ flight \in SUBSET Telecommand
  /\ lastAccepted \in Nat
  /\ nextTelemetry \in Nat
  /\ downlink \in Seq(Sample) /\ observed \in Seq(Observation)
  /\ Files
  /\ raced \in BOOLEAN

LEMMA Constants ==
  /\ Scenarios \subseteq {"A1", "A2", "A2v", "A3"}
  /\ Levels \in Nat \ {0} /\ CommandInterval \in Nat \ {0} /\ TelemetryInterval \in Nat \ {0}
  /\ Period \in Nat \ {0}
  /\ Transit \in Nat /\ Horizon \in Nat /\ ForgedBase \in Nat /\ ForgedValue \in Nat
  /\ ParamDelta \in Nat
  /\ InjectionInterval \in Nat /\ Transit < InjectionInterval
  /\ AddedDelays \subseteq Nat /\ Starts \subseteq Nat /\ Spans \subseteq Nat /\ PassEnds \subseteq Nat
BY RunAssumption

LEMMA WrittenValue == \A id \in Nat : written_value(id) \in Nat
BY Constants DEF written_value

LEMMA RowsFinite ==
  ASSUME Files, NEW S \in SUBSET Rows
  PROVE  IsFiniteSet(S) /\ Cardinality(S) \in Nat
<1>1. Rows = 1..Len(events) /\ Len(events) \in Nat
  BY DEF Files, Rows
<1>2. IsFiniteSet(Rows)
  BY <1>1, FS_Interval
<1> QED BY <1>2, FS_Subset, FS_CardinalityType

LEMMA CountTyped == Files => rejectedCmdCount \in Nat
BY RowsFinite DEF rejectedCmdCount, Rows

LEMMA SettingTyped ==
  ASSUME TypeInv
  PROVE  /\ setting.scenario \in {"A1", "A2", "A2v", "A3"} /\ setting.auth \in BOOLEAN
         /\ setting.start \in Nat /\ setting.stop \in Nat /\ setting.passEnd \in Nat
         /\ setting.start \in Starts
BY Constants DEF TypeInv, Setting

LEMMA InitTyped == Init => TypeInv
<1> SUFFICES ASSUME Init PROVE TypeInv
  OBVIOUS
<1> USE Constants
<1>1. setting \in Setting
  <2>1. PICK s \in Scenarios, d \in BOOLEAN, c \in {{0}, {1}, {0, 1}}, b \in Starts, n \in Spans,
             p \in PassEnds :
          setting = [scenario |-> s, auth |-> d, attacked |-> c, start |-> b, stop |-> b + n,
                     passEnd |-> p]
    BY DEF Init
  <2>2. c \in SUBSET Nat /\ b + n \in Nat
    OBVIOUS
  <2> QED BY <2>1, <2>2 DEF Setting
<1>2. Files
  BY DEF Init, Files
<1>3. captured \in Seq(Telecommand) /\ flight \in SUBSET Telecommand
  BY DEF Init
<1>4. downlink \in Seq(Sample) /\ observed \in Seq(Observation)
  BY DEF Init
<1>5. /\ now \in 0..Horizon /\ nextCommand \in Nat /\ sent \in Nat /\ timer \in Nat \cup {Unset}
      /\ lastAccepted \in Nat /\ nextTelemetry \in Nat /\ raced \in BOOLEAN
  <2>1. /\ now = 0 /\ nextCommand = 0 /\ sent = 0 /\ timer = Unset /\ lastAccepted = 0
        /\ nextTelemetry = TelemetryInterval /\ raced = FALSE
    BY DEF Init
  <2>2. 0 \in 0..Horizon
    OBVIOUS
  <2> QED BY <2>1, <2>2
<1> QED BY <1>1, <1>2, <1>3, <1>4, <1>5 DEF TypeInv

-----------------------------------------------------------------------------
(* What each action does *)

LEMMA GroundCommandTyped ==
  ASSUME TypeInv
  PROVE  /\ GroundCommand \in Telecommand
         /\ GroundCommand.id = sent + 1 /\ GroundCommand.seq = sent + 1 /\ GroundCommand.act = 0
         /\ GroundCommand.value = written_value(sent + 1)
         /\ GroundCommand.signed = TRUE /\ GroundCommand.due = now
<1>1. sent + 1 \in Nat /\ now \in Nat
  BY Constants DEF TypeInv
<1>2. written_value(sent + 1) \in Nat
  BY <1>1, WrittenValue
<1> QED BY <1>1, <1>2 DEF GroundCommand, Telecommand

\* A command that is forwarded after delay.
Delayed(tc, delay) == [tc EXCEPT !.due = now + delay + Transit]

LEMMA ForwardTyped ==
  ASSUME TypeInv, NEW tc \in Telecommand, NEW delay \in Nat, Forward(tc, delay)
  PROVE  /\ Delayed(tc, delay) \in Telecommand
         /\ flight' = flight \/ flight' = flight \cup {Delayed(tc, delay)}
<1>1. now + delay + Transit \in Nat
  BY Constants DEF TypeInv
<1>2. Delayed(tc, delay) \in Telecommand
  BY <1>1 DEF Delayed, Telecommand
<1>3. flight' = flight \/ flight' = flight \cup {Delayed(tc, delay)}
  BY DEF Delayed, Forward
<1> QED BY <1>2, <1>3

LEMMA TamperTyped ==
  ASSUME TypeInv, NEW tc \in Telecommand, NEW s \in BOOLEAN
  PROVE  /\ Tamper(tc, s) \in Telecommand
         /\ Tamper(tc, s).id = tc.id /\ Tamper(tc, s).seq = tc.seq
         /\ Tamper(tc, s).act = Len(truth) + 1 /\ Tamper(tc, s).signed = s
<1>1. tc.value + ParamDelta \in Nat /\ Len(truth) + 1 \in Nat
  BY Constants DEF Telecommand, TypeInv, Files
<1> QED BY <1>1 DEF Tamper, Telecommand

LEMMA HostileTyped ==
  ASSUME TypeInv, Hostile # << >>
  PROVE  /\ Hostile[1] \in Telecommand
         /\ setting.scenario = "A3" => Hostile = captured /\ captured # << >>
         /\ setting.scenario # "A3" => Hostile[1].id = ForgedBase + Len(truth) + 1
                                      /\ Hostile[1].signed = FALSE
<1>1. CASE setting.scenario = "A3"
  BY <1>1 DEF Hostile, TypeInv
<1>2. CASE setting.scenario # "A3"
  <2> DEFINE forged == ForgedBase + Len(truth) + 1
  <2>1. Hostile[1] = [GroundCommand EXCEPT !.id = forged, !.seq = forged, !.value = ForgedValue,
                                           !.signed = FALSE]
    BY <1>2 DEF Hostile
  <2>2. forged \in Nat
    BY Constants DEF TypeInv, Files
  <2> QED BY <1>2, <2>1, <2>2, GroundCommandTyped, Constants DEF Telecommand
<1> QED BY <1>1, <1>2

\* A command that leaves the relay with added delay d.
Leaves(x, d) == /\ x \in Telecommand /\ x.due = now + d + Transit
                /\ flight' = flight \/ flight' = flight \cup {x}

Records(id) == truth' = Append(truth, [t |-> now, id |-> id])

SendsOwn ==
  /\ sent' = sent + 1 /\ UNCHANGED truth
  /\ \E x \in Telecommand :
       /\ x.due = now + Transit /\ flight' = flight \cup {x}
       /\ x.id = sent + 1 /\ x.seq = sent + 1 /\ x.act = 0
       /\ x.value = written_value(sent + 1) /\ x.signed = TRUE
  /\ \/ captured' = captured
     \/ captured = << >> /\ setting.scenario = "A3" /\ captured' = <<GroundCommand>>

SendsTampered ==
  /\ sent' = sent + 1 /\ UNCHANGED captured /\ setting.scenario \in {"A1", "A2v"}
  /\ Records(sent + 1)
  /\ \E x : \E d \in AddedDelays \cup {0} :
       /\ Leaves(x, d)
       /\ setting.scenario = "A2v" => d = 0
       /\ x.id = sent + 1 /\ x.seq = sent + 1 /\ x.act = Len(truth) + 1
       /\ x.signed = (setting.scenario = "A2v")

LEMMA SendCommandDoes ==
  ASSUME TypeInv, SendCommand
  PROVE  /\ now = nextCommand /\ nextCommand' = now + CommandInterval
         /\ UNCHANGED <<now, setting, timer, satellite, telemetry, events, raced>>
         /\ \/ UNCHANGED <<sent, flight, captured, truth>>
            \/ SendsOwn
            \/ SendsTampered
<1>1. now \in Nat /\ now + 0 = now /\ now + 0 + Transit = now + Transit
  BY Constants DEF TypeInv
<1>2. /\ now = nextCommand /\ nextCommand' = now + CommandInterval
      /\ UNCHANGED <<now, setting, timer, satellite, telemetry, events, raced>>
  BY DEF SendCommand
<1>3. CASE ~Visible(now)
  BY <1>2, <1>3 DEF SendCommand
<1>4. CASE Visible(now)
  <2> DEFINE tc == GroundCommand
             s == setting.scenario
             own == /\ Forward(tc, 0)
                    /\ captured' = IF s = "A3" /\ Active /\ captured = << >>
                                   THEN <<tc>> ELSE captured
                    /\ UNCHANGED truth
             tampered == /\ Active /\ s \in {"A1", "A2v"}
                         /\ \E delay \in IF s = "A1" THEN AddedDelays ELSE {0} :
                              Forward(Tamper(tc, s = "A2v"), delay)
                         /\ Act(tc.id)
                         /\ UNCHANGED captured
  <2>1. sent' = sent + 1 /\ (own \/ tampered)
    BY <1>4 DEF SendCommand
  <2>2. /\ tc \in Telecommand /\ tc.id = sent + 1 /\ tc.seq = sent + 1 /\ tc.act = 0
        /\ tc.value = written_value(sent + 1) /\ tc.signed = TRUE
    BY GroundCommandTyped
  <2>3. CASE own
    <3> DEFINE x == [tc EXCEPT !.due = now + Transit]
    <3>1. flight' = flight \cup {x}
      BY <1>1, <1>4, <2>3 DEF Forward
    <3>2. now + Transit \in Nat
      BY <1>1, Constants
    <3> HIDE DEF tc
    <3>3. /\ x \in Telecommand /\ x.id = sent + 1 /\ x.seq = sent + 1 /\ x.act = 0
          /\ x.value = written_value(sent + 1) /\ x.signed = TRUE /\ x.due = now + Transit
      BY <2>2, <3>2 DEF Telecommand
    <3>4. \/ captured' = captured
          \/ captured = << >> /\ setting.scenario = "A3" /\ captured' = <<tc>>
      BY <2>3
    <3> HIDE DEF x
    <3>5. SendsOwn
      BY <2>1, <2>3, <3>1, <3>3, <3>4 DEF SendsOwn, tc
    <3> QED BY <1>2, <3>5
  <2>4. CASE tampered
    <3> DEFINE t == Tamper(tc, s = "A2v")
    <3>1. PICK d \in IF s = "A1" THEN AddedDelays ELSE {0} : Forward(t, d)
      BY <2>4
    <3>2. d \in AddedDelays \cup {0} /\ d \in Nat /\ (s = "A2v" => d = 0)
      BY Constants
    <3>3. /\ t \in Telecommand /\ t.id = tc.id /\ t.seq = tc.seq /\ t.act = Len(truth) + 1
          /\ t.signed = (s = "A2v")
      BY <2>2, TamperTyped
    <3> HIDE DEF t
    <3>4. Delayed(t, d) \in Telecommand /\ (flight' = flight \/ flight' = flight \cup {Delayed(t, d)})
      BY <3>1, <3>2, <3>3, ForwardTyped
    <3>5. /\ Delayed(t, d).due = now + d + Transit /\ Delayed(t, d).id = t.id
          /\ Delayed(t, d).seq = t.seq /\ Delayed(t, d).act = t.act
          /\ Delayed(t, d).signed = t.signed
      BY <3>3 DEF Delayed, Telecommand
    <3>6. Records(sent + 1)
      BY <2>2, <2>4 DEF Act, Records
    <3>7. Leaves(Delayed(t, d), d)
      BY <3>4, <3>5 DEF Leaves
    <3>8. /\ Delayed(t, d).id = sent + 1 /\ Delayed(t, d).seq = sent + 1
          /\ Delayed(t, d).act = Len(truth) + 1
          /\ Delayed(t, d).signed = (setting.scenario = "A2v")
      BY <2>2, <3>3, <3>5
    <3>9. setting.scenario \in {"A1", "A2v"} /\ UNCHANGED captured
      BY <2>4
    <3> HIDE DEF tampered, own, tc, s
    <3>10. SendsTampered
      BY <2>1, <3>2, <3>6, <3>7, <3>8, <3>9 DEF SendsTampered, s
    <3> QED BY <1>2, <3>10
  <2> QED BY <2>1, <2>3, <2>4
<1> QED BY <1>3, <1>4

Injects ==
  \E x \in Telecommand :
    /\ Leaves(x, 0) /\ x.act = Len(truth) + 1
    /\ Records(x.id)
    /\ raced' = (raced \/ \E f \in flight : f.id = x.id)
    /\ setting.scenario = "A3" =>
         /\ captured # << >> /\ x.id = captured[1].id /\ x.seq = captured[1].seq
         /\ x.value = captured[1].value /\ x.signed = captured[1].signed
    /\ setting.scenario # "A3" => x.id = ForgedBase + Len(truth) + 1 /\ x.signed = FALSE

LEMMA InterfereDoes ==
  ASSUME TypeInv, Interfere
  PROVE  /\ now = timer /\ timer' = now + InjectionInterval
         /\ UNCHANGED <<now, setting, ground, captured, satellite, telemetry, events>>
         /\ UNCHANGED <<flight, truth, raced>> \/ Injects
<1>1. /\ now = timer /\ timer' = now + InjectionInterval
      /\ UNCHANGED <<now, setting, ground, captured, satellite, telemetry, events>>
  BY DEF Interfere
<1>2. CASE Hostile = << >>
  BY <1>1, <1>2 DEF Interfere
<1>3. CASE Hostile # << >>
  <2> DEFINE h == Hostile[1]
             m == [h EXCEPT !.act = Len(truth) + 1]
  <2>1. Forward(m, 0) /\ Act(h.id) /\ raced' = (raced \/ \E f \in flight : f.id = h.id)
    BY <1>3 DEF Interfere
  <2>2. /\ h \in Telecommand
        /\ setting.scenario = "A3" => h = captured[1] /\ captured # << >>
        /\ setting.scenario # "A3" => h.id = ForgedBase + Len(truth) + 1 /\ h.signed = FALSE
    BY <1>3, HostileTyped
  <2> HIDE DEF h
  <2>3. Len(truth) + 1 \in Nat
    BY DEF TypeInv, Files
  <2>4. /\ m \in Telecommand /\ m.id = h.id /\ m.seq = h.seq /\ m.value = h.value
        /\ m.signed = h.signed /\ m.act = Len(truth) + 1
    BY <2>2, <2>3 DEF Telecommand
  <2> HIDE DEF m
  <2> DEFINE x == Delayed(m, 0)
  <2>5. x \in Telecommand /\ (flight' = flight \/ flight' = flight \cup {x})
    BY <2>1, <2>4, ForwardTyped
  <2>6. /\ x.due = now + 0 + Transit /\ x.id = m.id /\ x.seq = m.seq /\ x.value = m.value
        /\ x.signed = m.signed /\ x.act = m.act
    BY <2>4 DEF Delayed, Telecommand
  <2> HIDE DEF x
  <2>7. Leaves(x, 0) /\ Records(x.id)
    BY <2>1, <2>4, <2>5, <2>6 DEF Leaves, Records, Act
  <2>8. Injects
    BY <2>1, <2>2, <2>4, <2>5, <2>6, <2>7 DEF Injects
  <2> QED BY <1>1, <2>8
<1> QED BY <1>2, <1>3

Arrives(tc) ==
  /\ tc.due = now /\ flight' = flight \ {tc}
  /\ events' = Append(events, [t |-> now, id |-> tc.id, accepted |-> Accepted(tc),
                               act |-> tc.act, wrote |-> tc.value])
  /\ IF Accepted(tc) THEN lastAccepted' = tc.seq ELSE lastAccepted' = lastAccepted
  /\ UNCHANGED <<now, setting, ground, relay, telemetry, truth, raced>>

LEMMA ArriveDoes == Arrive => \E tc \in flight : Arrives(tc)
BY DEF Arrive, Arrives, satellite

LEMMA Appended ==
  ASSUME NEW S, NEW s \in Seq(S), NEW e \in S, NEW t, t = Append(s, e)
  PROVE  /\ t \in Seq(S) /\ Len(s) \in Nat /\ Len(t) = Len(s) + 1
         /\ DOMAIN s = 1..Len(s) /\ DOMAIN t = 1..(Len(s) + 1)
         /\ \A k \in 1..Len(s) : t[k] = s[k]
         /\ t[Len(s) + 1] = e
OBVIOUS

LEMMA ArrivedRow ==
  ASSUME TypeInv, NEW tc \in flight
  PROVE  [t |-> now, id |-> tc.id, accepted |-> Accepted(tc), act |-> tc.act,
          wrote |-> tc.value] \in Outcome
<1>1. tc \in Telecommand /\ now \in Nat
  BY Constants DEF TypeInv
<1>2. Accepted(tc) \in BOOLEAN
  BY DEF Accepted
<1> QED BY <1>1, <1>2 DEF Telecommand, Outcome

LEMMA TypeStep == ASSUME TypeInv, [Next]_vars PROVE TypeInv'
<1> USE Constants
<1>0. now \in Nat /\ now \in 0..Horizon
  BY DEF TypeInv
<1>1. CASE SendCommand
  <2>1. /\ UNCHANGED <<now, setting, timer, satellite, telemetry, events, raced>>
        /\ nextCommand' \in Nat
    BY <1>0, <1>1, SendCommandDoes
  <2>2. CASE UNCHANGED <<sent, flight, captured, truth>>
    BY <2>1, <2>2 DEF TypeInv, satellite, telemetry, Files
  <2>3. CASE SendsOwn
    <3>1. captured' \in Seq(Telecommand)
      <4>1. captured \in Seq(Telecommand)
        BY DEF TypeInv
      <4>2. captured' = captured \/ captured' = <<GroundCommand>>
        BY <2>3 DEF SendsOwn
      <4>3. GroundCommand \in Telecommand
        BY GroundCommandTyped
      <4> HIDE Constants
      <4>4. <<GroundCommand>> \in Seq(Telecommand)
        BY <4>3
      <4> QED BY <4>1, <4>2, <4>4
    <3>2. flight' \in SUBSET Telecommand /\ sent' \in Nat /\ truth' = truth
      BY <2>3 DEF SendsOwn, TypeInv
    <3> QED BY <2>1, <3>1, <3>2 DEF TypeInv, satellite, telemetry, Files
  <2>4. CASE SendsTampered
    <3>1. flight' \in SUBSET Telecommand /\ sent' \in Nat /\ captured' = captured
      BY <2>4 DEF SendsTampered, TypeInv, Leaves
    <3>2. truth' \in Seq(Action)
      <4>1. [t |-> now, id |-> sent + 1] \in Action /\ truth \in Seq(Action)
        BY <1>0 DEF Action, TypeInv, Files
      <4> QED BY <2>4, <4>1 DEF SendsTampered, Records
    <3> QED BY <2>1, <3>1, <3>2 DEF TypeInv, satellite, telemetry, Files
  <2> QED BY <1>1, <2>2, <2>3, <2>4, SendCommandDoes
<1>2. CASE Interfere
  <2>1. /\ UNCHANGED <<now, setting, ground, captured, satellite, telemetry, events>>
        /\ timer' \in Nat
    BY <1>0, <1>2, InterfereDoes
  <2>2. CASE UNCHANGED <<flight, truth, raced>>
    BY <2>1, <2>2 DEF TypeInv, ground, satellite, telemetry, Files
  <2>3. CASE Injects
    <3>1. PICK x \in Telecommand : Leaves(x, 0) /\ Records(x.id)
                                    /\ raced' = (raced \/ \E f \in flight : f.id = x.id)
      BY <2>3 DEF Injects
    <3>2. flight' \in SUBSET Telecommand /\ raced' \in BOOLEAN
      BY <3>1 DEF Leaves, TypeInv
    <3>3. truth' \in Seq(Action)
      <4>1. [t |-> now, id |-> x.id] \in Action /\ truth \in Seq(Action)
        BY <1>0 DEF Action, TypeInv, Files, Telecommand
      <4> QED BY <3>1, <4>1 DEF Records
    <3> QED BY <2>1, <3>2, <3>3 DEF TypeInv, ground, satellite, telemetry, Files
  <2> QED BY <1>2, <2>2, <2>3, InterfereDoes
<1>3. CASE Arrive
  <2>1. PICK tc \in flight : Arrives(tc)
    BY <1>3, ArriveDoes
  <2>2. events' \in Seq(Outcome)
    BY <2>1, ArrivedRow, Appended DEF Arrives, TypeInv, Files
  <2>3. flight' \in SUBSET Telecommand /\ lastAccepted' \in Nat
    BY <2>1 DEF Arrives, TypeInv, Telecommand
  <2> QED BY <2>1, <2>2, <2>3 DEF Arrives, TypeInv, ground, relay, telemetry, Files
<1>4. CASE SendTelemetry
  <2>1. /\ nextTelemetry' = now + TelemetryInterval
        /\ UNCHANGED <<now, setting, ground, relay, flight, satellite, observed, events, truth, raced>>
    BY <1>4 DEF SendTelemetry
  <2>2. downlink' \in Seq(Sample)
    <3> DEFINE e == [src |-> now, rej |-> rejectedCmdCount, due |-> now + Transit]
    <3>1. e \in Sample
      BY <1>0, CountTyped DEF TypeInv, Sample
    <3> HIDE DEF e
    <3>2. downlink \in Seq(Sample)
      BY DEF TypeInv
    <3>3. downlink' = Append(downlink, e) \/ downlink' = downlink
      BY <1>4 DEF SendTelemetry, e
    <3> QED BY <3>1, <3>2, <3>3
  <2> QED BY <1>0, <2>1, <2>2 DEF TypeInv, ground, relay, satellite, Files
<1>5. CASE ReceiveTelemetry
  <2> DEFINE tm == Head(downlink)
             e == [src |-> tm.src, recv |-> now, rej |-> tm.rej, alarm |-> tm.rej # expectedRejectedCount]
  <2>1. /\ downlink # << >> /\ downlink' = Tail(downlink) /\ observed' = Append(observed, e)
        /\ UNCHANGED <<now, setting, ground, relay, flight, satellite, nextTelemetry, events, truth, raced>>
    BY <1>5 DEF ReceiveTelemetry
  <2>2. tm \in Sample /\ downlink' \in Seq(Sample)
    BY <2>1 DEF TypeInv
  <2>3. e \in Observation
    BY <1>0, <2>2 DEF Sample, Observation
  <2> HIDE DEF e
  <2>4. observed' \in Seq(Observation)
    BY <2>1, <2>3 DEF TypeInv
  <2> QED BY <2>1, <2>2, <2>4 DEF TypeInv, ground, relay, satellite, Files
<1>6. CASE Tick
  <2>1. now' \in 0..Horizon
    BY <1>0, <1>6 DEF Tick
  <2>2. timer' \in Nat \cup {Unset}
    <3>1. timer' = TimerAt(now + 1)
      BY <1>6 DEF Tick
    <3>2. timer' \in {now + 1 + InjectionInterval, Unset, timer}
      BY <3>1 DEF TimerAt
    <3> QED BY <1>0, <3>2 DEF TypeInv
  <2>3. UNCHANGED <<setting, ground, captured, flight, satellite, telemetry, events, truth, raced>>
    BY <1>6 DEF Tick
  <2> QED BY <2>1, <2>2, <2>3 DEF TypeInv, ground, satellite, telemetry, Files
<1>7. CASE UNCHANGED vars
  BY <1>7 DEF TypeInv, vars, ground, relay, satellite, telemetry, Files
<1> QED BY <1>1, <1>2, <1>3, <1>4, <1>5, <1>6, <1>7 DEF Next

Even(t) == t % 2 = 0
Odd(t) == t % 2 = 1

LEMMA Parity ==
  ASSUME NEW x \in Nat, NEW y \in Nat
  PROVE  /\ Even(x) /\ Even(y) => Even(x + y)
         /\ Even(x) /\ Odd(y) => Odd(x + y)
         /\ Even(x) /\ Odd(y) => x # y
BY DEF Even, Odd

LEMMA EvenFactor ==
  ASSUME NEW p \in Nat, NEW q \in Nat, Even(p)
  PROVE  Even(p * q)
<1>1. PICK h \in Nat : p = 2 * h
  <2>1. p = 2 * (p \div 2)
    BY DEF Even
  <2> QED BY <2>1
<1>2. p * q = 2 * (h * q) /\ h * q \in Nat
  BY <1>1
<1> HIDE <1>1
<1> DEFINE k == h * q
<1>3. k \in Nat /\ p * q = 2 * k
  BY <1>2
<1> HIDE DEF k
<1>4. (2 * k) % 2 = 0
  BY <1>3
<1> QED BY <1>3, <1>4 DEF Even

LEMMA EvenTimes ==
  ASSUME NEW t \in Nat, NEW s \in Nat, NEW p \in Nat \ {0}, Even(p), Even(s), t % p = s
  PROVE  Even(t)
<1> DEFINE q == t \div p
<1>1. q \in Nat
  OBVIOUS
<1>2. t % p = t - p * q
  OBVIOUS
<1> HIDE DEF q
<1>3. Even(p * q)
  BY <1>1, EvenFactor
<1>4. p * q \in Nat
  BY <1>1
<1> DEFINE k == p * q
<1>5. k \in Nat /\ Even(k) /\ t = k + s
  BY <1>2, <1>3, <1>4
<1> HIDE DEF k
<1> QED BY <1>5, Parity

LEMMA Parities ==
  /\ Odd(Transit) /\ Even(CommandInterval) /\ Even(InjectionInterval) /\ Even(TelemetryInterval)
  /\ Even(Period) /\ Even(0)
  /\ \A t \in AddedDelays \cup Starts : Even(t)
BY TransitAssumption DEF Even, Odd

\* What a step adds to the files.
LEMMA RowAdded ==
  ASSUME TypeInv, NEW tc \in flight, Arrives(tc)
  PROVE  LET n == Len(events) + 1
         IN /\ n \in Nat /\ n \in Rows' /\ n \notin Rows
            /\ Rows' = Rows \cup {n}
            /\ \A r \in Rows : r \in Nat /\ r < n /\ events'[r] = events[r]
            /\ events'[n] = [t |-> now, id |-> tc.id, accepted |-> Accepted(tc), act |-> tc.act,
                             wrote |-> tc.value]
<1> DEFINE e == [t |-> now, id |-> tc.id, accepted |-> Accepted(tc), act |-> tc.act,
                 wrote |-> tc.value]
<1>1. e \in Outcome /\ events \in Seq(Outcome) /\ events' = Append(events, e)
  BY ArrivedRow DEF Arrives, TypeInv, Files
<1> HIDE DEF e
<1>2. /\ Len(events) \in Nat /\ DOMAIN events = 1..Len(events)
      /\ DOMAIN events' = 1..(Len(events) + 1)
      /\ \A k \in 1..Len(events) : events'[k] = events[k]
      /\ events'[Len(events) + 1] = e
  BY <1>1, Appended
<1> QED BY <1>2 DEF Rows, e

LEMMA ActionAdded ==
  ASSUME TypeInv, NEW id \in Nat, Records(id)
  PROVE  LET n == Len(truth) + 1
         IN /\ n \in Nat /\ n \in Actions' /\ n \notin Actions /\ n # 0
            /\ Actions' = Actions \cup {n}
            /\ \A a \in Actions : a \in Nat /\ a < n /\ a # 0 /\ truth'[a] = truth[a]
            /\ truth'[n] = [t |-> now, id |-> id]
            /\ truth' # << >>
<1> DEFINE e == [t |-> now, id |-> id]
<1>1. e \in Action /\ truth \in Seq(Action) /\ truth' = Append(truth, e)
  BY Constants DEF Records, TypeInv, Files, Action
<1> HIDE DEF e
<1>2. /\ Len(truth) \in Nat /\ DOMAIN truth = 1..Len(truth)
      /\ DOMAIN truth' = 1..(Len(truth) + 1)
      /\ \A k \in 1..Len(truth) : truth'[k] = truth[k]
      /\ truth'[Len(truth) + 1] = e
      /\ Len(truth') = Len(truth) + 1
  BY <1>1, Appended
<1>3. truth' # << >>
  BY <1>2
<1> QED BY <1>2, <1>3 DEF Actions, e

LEMMA RowTyped ==
  ASSUME TypeInv, NEW r \in Rows
  PROVE  /\ r \in Nat /\ r # 0
         /\ events[r] \in Outcome /\ events[r].t \in Nat /\ events[r].id \in Nat
         /\ events[r].act \in Nat /\ events[r].accepted \in BOOLEAN
<1>1. events \in Seq(Outcome) /\ Rows = 1..Len(events)
  BY DEF TypeInv, Files, Rows
<1>2. r \in Nat /\ r # 0 /\ events[r] \in Outcome
  BY <1>1
<1> QED BY <1>2 DEF Outcome

LEMMA ActionTyped ==
  ASSUME TypeInv, NEW a \in Actions
  PROVE  /\ a \in Nat /\ a # 0
         /\ truth[a] \in Action /\ truth[a].t \in Nat /\ truth[a].id \in Nat
<1>1. truth \in Seq(Action) /\ Actions = 1..Len(truth)
  BY DEF TypeInv, Files, Actions
<1>2. a \in Nat /\ a # 0 /\ truth[a] \in Action
  BY <1>1
<1> QED BY <1>2 DEF Action

LEMMA FlightTyped ==
  ASSUME TypeInv, NEW f \in flight
  PROVE  /\ f \in Telecommand /\ f.id \in Nat /\ f.seq \in Nat /\ f.value \in Nat
         /\ f.signed \in BOOLEAN /\ f.act \in Nat /\ f.due \in Nat
BY DEF TypeInv, Telecommand

LEMMA NowTyped ==
  ASSUME TypeInv
  PROVE  /\ now \in Nat /\ now <= Horizon /\ nextCommand \in Nat /\ nextTelemetry \in Nat
         /\ sent \in Nat /\ lastAccepted \in Nat /\ timer \in Nat \cup {Unset}
         /\ Len(truth) \in Nat /\ Actions = 1..Len(truth) /\ Rows = 1..Len(events)
         /\ Len(events) \in Nat
BY Constants DEF TypeInv, Files, Actions, Rows

\* Nothing is logged, due or set out of its time.
FlightOnTime == \A f \in flight : now <= f.due /\ Odd(f.due)
FilesOnTime ==
  /\ \A r \in Rows : events[r].t <= now /\ Odd(events[r].t)
  /\ \A q, r \in Rows : q < r => events[q].t <= events[r].t
  /\ \A a \in Actions : truth[a].t <= now /\ Even(truth[a].t)
TimersOnTime ==
  /\ now <= nextCommand /\ Even(nextCommand)
  /\ now <= nextTelemetry /\ Even(nextTelemetry)
  /\ timer # Unset => now <= timer /\ Even(timer)

ClockInv == TimersOnTime /\ FlightOnTime /\ FilesOnTime

LEMMA LeavesOnTime ==
  ASSUME TypeInv, FlightOnTime, NEW d \in AddedDelays \cup {0}, NEW x, Leaves(x, d), Even(now), now' = now
  PROVE  FlightOnTime'
<1>1. d \in Nat /\ Even(d) /\ now \in Nat /\ now + d \in Nat
  BY Constants, Parities, NowTyped
<1>2. Odd(x.due) /\ now <= x.due
  <2>1. Even(now + d)
    BY <1>1, Parity
  <2>2. Odd(now + d + Transit)
    BY <1>1, <2>1, Parity, Parities, Constants
  <2> QED BY <1>1, <2>2, Constants DEF Leaves
<1> QED BY <1>2 DEF Leaves, FlightOnTime

LEMMA RecordsOnTime ==
  ASSUME TypeInv, FilesOnTime, NEW id \in Nat, Records(id), Even(now), now' = now, events' = events
  PROVE  FilesOnTime'
<1> DEFINE n == Len(truth) + 1
<1>1. /\ Actions' = Actions \cup {n} /\ truth'[n] = [t |-> now, id |-> id]
      /\ \A a \in Actions : truth'[a] = truth[a]
  BY ActionAdded
<1> HIDE DEF n
<1>2. truth'[n].t = now /\ now <= now
  BY <1>1, NowTyped
<1>3. \A a \in Actions' : truth'[a].t <= now /\ Even(truth'[a].t)
  BY <1>1, <1>2 DEF FilesOnTime
<1> QED BY <1>3 DEF FilesOnTime, Rows

LEMMA ClockInit == Init => ClockInv
BY Constants, Parities DEF Init, ClockInv, TimersOnTime, FlightOnTime, FilesOnTime, Rows, Actions

LEMMA ClockStep == ASSUME TypeInv, ClockInv, [Next]_vars PROVE ClockInv'
<1>0. TimersOnTime /\ FlightOnTime /\ FilesOnTime
  BY DEF ClockInv
<1>9. now \in Nat
  BY NowTyped
<1>1. CASE SendCommand
  <2>1. /\ now = nextCommand /\ nextCommand' = now + CommandInterval
        /\ UNCHANGED <<now, setting, timer, satellite, telemetry, events, raced>>
    BY <1>1, SendCommandDoes
  <2>2. Even(now)
    BY <1>0, <2>1 DEF TimersOnTime
  <2>3. TimersOnTime'
    <3>1. Even(now + CommandInterval)
      BY <1>9, <2>2, Parity, Parities, Constants
    <3> QED BY <1>0, <1>9, <2>1, <3>1, Constants DEF TimersOnTime, telemetry
  <2>4. CASE UNCHANGED <<sent, flight, captured, truth>>
    <3>1. FlightOnTime' /\ FilesOnTime'
      BY <1>0, <2>1, <2>4 DEF FlightOnTime, FilesOnTime, Rows, Actions
    <3> QED BY <2>3, <3>1 DEF ClockInv
  <2>5. CASE SendsOwn
    <3>1. FilesOnTime'
      BY <1>0, <2>1, <2>5 DEF FilesOnTime, Rows, Actions, SendsOwn
    <3>2. PICK x \in Telecommand : x.due = now + Transit /\ flight' = flight \cup {x}
      BY <2>5 DEF SendsOwn
    <3>3. Leaves(x, 0)
      BY <1>9, <3>2, Constants DEF Leaves
    <3>4. FlightOnTime'
      BY <1>0, <2>1, <2>2, <3>3, LeavesOnTime
    <3> QED BY <2>3, <3>1, <3>4 DEF ClockInv
  <2>6. CASE SendsTampered
    <3>1. PICK x : \E d \in AddedDelays \cup {0} : Leaves(x, d)
      BY <2>6 DEF SendsTampered
    <3>2. FlightOnTime'
      BY <1>0, <2>1, <2>2, <3>1, LeavesOnTime
    <3>3. Records(sent + 1) /\ sent + 1 \in Nat
      BY <2>6, NowTyped DEF SendsTampered
    <3>4. FilesOnTime'
      BY <1>0, <2>1, <2>2, <3>3, RecordsOnTime
    <3> QED BY <2>3, <3>2, <3>4 DEF ClockInv
  <2> QED BY <1>1, <2>4, <2>5, <2>6, SendCommandDoes
<1>2. CASE Interfere
  <2>1. /\ now = timer /\ timer' = now + InjectionInterval
        /\ UNCHANGED <<now, setting, ground, captured, satellite, telemetry, events>>
    BY <1>2, InterfereDoes
  <2>2. Even(now)
    BY <1>0, <1>9, <2>1 DEF TimersOnTime, Unset
  <2>3. TimersOnTime'
    <3>1. Even(now + InjectionInterval)
      BY <1>9, <2>2, Parity, Parities, Constants
    <3> QED BY <1>0, <1>9, <2>1, <3>1, Constants DEF TimersOnTime, telemetry, ground
  <2>4. CASE UNCHANGED <<flight, truth, raced>>
    <3>1. FlightOnTime' /\ FilesOnTime'
      BY <1>0, <2>1, <2>4 DEF FlightOnTime, FilesOnTime, Rows, Actions
    <3> QED BY <2>3, <3>1 DEF ClockInv
  <2>5. CASE Injects
    <3>1. PICK x \in Telecommand : Leaves(x, 0) /\ Records(x.id)
      BY <2>5 DEF Injects
    <3>2. FlightOnTime'
      BY <1>0, <2>1, <2>2, <3>1, LeavesOnTime
    <3>3. x.id \in Nat
      BY DEF Telecommand
    <3>4. FilesOnTime'
      BY <1>0, <2>1, <2>2, <3>1, <3>3, RecordsOnTime
    <3> QED BY <2>3, <3>2, <3>4 DEF ClockInv
  <2> QED BY <1>2, <2>4, <2>5, InterfereDoes
<1>3. CASE Arrive
  <2>1. PICK tc \in flight : Arrives(tc)
    BY <1>3, ArriveDoes
  <2>2. UNCHANGED <<now, nextCommand, timer, nextTelemetry, truth>> /\ flight' \subseteq flight
    BY <2>1 DEF Arrives, ground, relay, telemetry
  <2>3. TimersOnTime' /\ FlightOnTime'
    BY <1>0, <2>2 DEF TimersOnTime, FlightOnTime
  <2>4. FilesOnTime'
    <3>1. Odd(now)
      BY <1>0, <2>1 DEF Arrives, FlightOnTime
    <3> DEFINE n == Len(events) + 1
    <3>5. /\ Rows' = Rows \cup {n} /\ n \in Nat
          /\ \A r \in Rows : r \in Nat /\ r < n /\ events'[r] = events[r]
          /\ events'[n] = [t |-> now, id |-> tc.id, accepted |-> Accepted(tc), act |-> tc.act,
                           wrote |-> tc.value]
      BY <2>1, RowAdded
    <3> HIDE DEF n
    <3>2. /\ Rows' = Rows \cup {n} /\ events'[n].t = now /\ n \in Nat
          /\ \A r \in Rows : r \in Nat /\ r < n /\ events'[r] = events[r]
      BY <3>5
    <3>3. \A r \in Rows' : events'[r].t <= now /\ Odd(events'[r].t)
      BY <1>0, <1>9, <3>1, <3>2 DEF FilesOnTime
    <3>4. ASSUME NEW q \in Rows', NEW r \in Rows', q < r PROVE events'[q].t <= events'[r].t
      <4>1. q \in Rows
        BY <3>2, <3>4
      <4>2. CASE r \in Rows
        BY <1>0, <3>2, <3>4, <4>1, <4>2 DEF FilesOnTime
      <4>3. CASE r = n
        BY <1>0, <3>2, <4>1, <4>3 DEF FilesOnTime
      <4> QED BY <3>2, <4>2, <4>3
    <3> QED BY <1>0, <2>2, <3>3, <3>4 DEF FilesOnTime, Actions
  <2> QED BY <2>3, <2>4 DEF ClockInv
<1>4. CASE SendTelemetry
  <2>1. /\ now = nextTelemetry /\ nextTelemetry' = now + TelemetryInterval
        /\ UNCHANGED <<now, ground, relay, flight, events, truth>>
    BY <1>4 DEF SendTelemetry
  <2>2. Even(now + TelemetryInterval)
    BY <1>0, <1>9, <2>1, Parity, Parities, Constants DEF TimersOnTime
  <2>3. TimersOnTime'
    BY <1>0, <1>9, <2>1, <2>2, Constants DEF TimersOnTime, ground, relay
  <2>4. FlightOnTime' /\ FilesOnTime'
    BY <1>0, <2>1 DEF FlightOnTime, FilesOnTime, Rows, Actions
  <2> QED BY <2>3, <2>4 DEF ClockInv
<1>5. CASE ReceiveTelemetry
  <2>1. UNCHANGED <<now, ground, relay, flight, nextTelemetry, events, truth>>
    BY <1>5 DEF ReceiveTelemetry
  <2>2. TimersOnTime' /\ FlightOnTime' /\ FilesOnTime'
    BY <1>0, <2>1 DEF TimersOnTime, FlightOnTime, FilesOnTime, Rows, Actions, ground, relay
  <2> QED BY <2>2 DEF ClockInv
<1>6. CASE Tick
  <2>1. /\ now' = now + 1 /\ timer' = TimerAt(now + 1) /\ ~Due
        /\ UNCHANGED <<ground, flight, telemetry, events, truth>>
    BY <1>6 DEF Tick
  <2>2. now # timer /\ now # nextCommand /\ now # nextTelemetry /\ \A tc \in flight : tc.due # now
    BY <2>1 DEF Due
  <2>3. now' <= nextCommand /\ now' <= nextTelemetry
    BY <1>0, <1>9, <2>1, <2>2, NowTyped DEF TimersOnTime
  <2>4. timer' # Unset => now' <= timer' /\ Even(timer')
    <3>1. CASE timer' = timer
      BY <1>0, <1>9, <2>1, <2>2, <3>1, NowTyped DEF TimersOnTime
    <3>2. CASE timer' = Unset
      BY <3>2
    <3>3. CASE timer' = now + 1 + InjectionInterval /\ (now + 1) % Period = setting.start
      <4>1. Even(now + 1)
        BY <1>9, <3>3, EvenTimes, SettingTyped, Parities, Constants
      <4>2. Even(now + 1 + InjectionInterval)
        BY <1>9, <4>1, Parity, Parities, Constants
      <4> QED BY <1>9, <2>1, <3>3, <4>2, Constants
    <3>4. \/ timer' = timer \/ timer' = Unset
          \/ timer' = now + 1 + InjectionInterval /\ (now + 1) % Period = setting.start
      BY <2>1 DEF TimerAt
    <3> QED BY <3>1, <3>2, <3>3, <3>4
  <2>5. TimersOnTime'
    BY <1>0, <2>1, <2>3, <2>4 DEF TimersOnTime, ground, telemetry
  <2>6. FlightOnTime'
    BY <1>0, <1>9, <2>1, <2>2, FlightTyped DEF FlightOnTime
  <2>7. FilesOnTime'
    BY <1>0, <1>9, <2>1, RowTyped, ActionTyped DEF FilesOnTime, Rows, Actions
  <2> QED BY <2>5, <2>6, <2>7 DEF ClockInv
<1>7. CASE UNCHANGED vars
  <2>1. UNCHANGED <<now, ground, relay, flight, nextTelemetry, events, truth>>
    BY <1>7 DEF vars, telemetry
  <2>2. TimersOnTime' /\ FlightOnTime' /\ FilesOnTime'
    BY <1>0, <2>1 DEF TimersOnTime, FlightOnTime, FilesOnTime, Rows, Actions, ground, relay
  <2> QED BY <2>2 DEF ClockInv
<1> QED BY <1>1, <1>2, <1>3, <1>4, <1>5, <1>6, <1>7 DEF Next

-----------------------------------------------------------------------------
(* The steps, as far as commands and actions go *)

Idle ==
  /\ UNCHANGED <<setting, sent, captured, flight, lastAccepted, events, truth, raced>>
  /\ nextCommand <= nextCommand'
  /\ timer' \in {timer, Unset} \/ now + InjectionInterval <= timer'
  /\ timer = Unset /\ timer' # Unset => setting.scenario \in {"A2", "A3"}

OwnStep ==
  /\ SendsOwn /\ now = nextCommand /\ nextCommand' = now + CommandInterval
  /\ UNCHANGED <<now, setting, timer, lastAccepted, events, raced>>

TamperStep ==
  /\ SendsTampered /\ now = nextCommand /\ nextCommand' = now + CommandInterval
  /\ UNCHANGED <<now, setting, timer, lastAccepted, events, raced>>

InjectStep ==
  /\ Injects /\ now = timer /\ timer' = now + InjectionInterval
  /\ UNCHANGED <<now, setting, sent, nextCommand, captured, lastAccepted, events>>

ArriveStep == \E tc \in flight : Arrives(tc)

LEMMA StepKinds ==
  ASSUME TypeInv, [Next]_vars
  PROVE  Idle \/ OwnStep \/ TamperStep \/ InjectStep \/ ArriveStep
<1>0. now \in Nat /\ nextCommand \in Nat /\ nextCommand <= nextCommand /\ CommandInterval \in Nat
      /\ InjectionInterval \in Nat
  BY NowTyped, Constants
<1>1. CASE SendCommand
  <2>1. /\ now = nextCommand /\ nextCommand' = now + CommandInterval
        /\ UNCHANGED <<now, setting, timer, lastAccepted, events, raced>>
    BY <1>1, SendCommandDoes DEF satellite
  <2>2. CASE UNCHANGED <<sent, flight, captured, truth>>
    <3>1. nextCommand <= nextCommand'
      BY <1>0, <2>1
    <3> QED BY <2>1, <2>2, <3>1 DEF Idle
  <2> QED BY <1>1, <2>1, <2>2, SendCommandDoes DEF OwnStep, TamperStep
<1>2. CASE Interfere
  <2>1. /\ now = timer /\ timer' = now + InjectionInterval
        /\ UNCHANGED <<now, setting, sent, nextCommand, captured, lastAccepted, events>>
    BY <1>2, InterfereDoes DEF ground, satellite
  <2>2. CASE UNCHANGED <<flight, truth, raced>>
    <3>1. now + InjectionInterval <= timer' /\ nextCommand <= nextCommand' /\ timer # Unset
      BY <1>0, <2>1 DEF Unset
    <3> QED BY <2>1, <2>2, <3>1 DEF Idle
  <2> QED BY <1>2, <2>1, <2>2, InterfereDoes DEF InjectStep
<1>3. CASE Arrive
  BY <1>3, ArriveDoes DEF ArriveStep
<1>4. CASE SendTelemetry \/ ReceiveTelemetry \/ UNCHANGED vars
  <2>1. UNCHANGED <<setting, ground, relay, flight, satellite, events, truth, raced>>
    BY <1>4 DEF SendTelemetry, ReceiveTelemetry, vars
  <2>2. nextCommand <= nextCommand'
    BY <1>0, <2>1 DEF ground
  <2> QED BY <2>1, <2>2 DEF Idle, ground, relay, satellite
<1>5. CASE Tick
  <2>1. /\ timer' = TimerAt(now + 1)
        /\ UNCHANGED <<setting, ground, captured, flight, satellite, events, truth, raced>>
    BY <1>5 DEF Tick
  <2>2. timer' \in {timer, Unset} \/ now + InjectionInterval <= timer'
    <3>1. timer' \in {timer, Unset} \/ timer' = now + 1 + InjectionInterval
      BY <2>1 DEF TimerAt
    <3> QED BY <1>0, <3>1
  <2>3. nextCommand <= nextCommand'
    BY <1>0, <2>1 DEF ground
  <2>4. timer = Unset /\ timer' # Unset => setting.scenario \in {"A2", "A3"}
    BY <2>1 DEF TimerAt
  <2> QED BY <2>1, <2>2, <2>3, <2>4 DEF Idle, ground, satellite
<1> QED BY <1>1, <1>2, <1>3, <1>4, <1>5 DEF Next

-----------------------------------------------------------------------------
(* The numbers of the commands *)

TruthOf(a) ==
  /\ setting.scenario \in {"A1", "A2v"} => truth[a].id \in 1..sent
  /\ setting.scenario = "A2" => truth[a].id = ForgedBase + a
  /\ setting.scenario = "A3" => captured # << >> /\ truth[a].id = captured[1].id

NumberInv ==
  /\ timer # Unset => setting.scenario \in {"A2", "A3"}
  /\ sent * CommandInterval <= nextCommand
  /\ sent <= ForgedBase
  /\ captured # << >> => captured[1].id \in 1..sent
  /\ \A f \in flight : f.act = 0 => f.id \in 1..sent
  /\ \A r \in Rows : events[r].act = 0 => events[r].id \in 1..sent
  /\ \A a \in Actions : TruthOf(a)

LEMMA FactorOut ==
  ASSUME NEW s \in Nat, NEW b \in Nat, NEW c \in Nat, s * c < b * c
  PROVE  s < b
<1> SUFFICES ASSUME b <= s PROVE FALSE
  OBVIOUS
<1> DEFINE k == s - b
<1>1. k \in Nat /\ s = b + k
  OBVIOUS
<1> HIDE DEF k
<1>2. (b + k) * c = b * c + k * c /\ k * c \in Nat /\ b * c \in Nat
  BY <1>1
<1> QED BY <1>1, <1>2

LEMMA SendsBelow ==
  ASSUME TypeInv, NumberInv, now = nextCommand, nextCommand' = now + CommandInterval, sent' = sent + 1
  PROVE  /\ sent' * CommandInterval <= nextCommand' /\ sent' <= ForgedBase
<1>1. /\ sent \in Nat /\ CommandInterval \in Nat /\ ForgedBase \in Nat /\ now \in Nat
      /\ now <= Horizon /\ Horizon \in Nat
  BY NowTyped, Constants
<1>2. (sent + 1) * CommandInterval = sent * CommandInterval + CommandInterval
      /\ sent * CommandInterval \in Nat
  BY <1>1
<1>3. ForgedBase * CommandInterval \in Nat /\ Horizon < ForgedBase * CommandInterval
  BY <1>1, NumbersAssumption
<1>4. sent * CommandInterval <= now
  BY DEF NumberInv
<1> DEFINE p == sent * CommandInterval
           q == ForgedBase * CommandInterval
<1>5. p < q
  <2> HIDE DEF p, q
  <2> QED BY <1>1, <1>2, <1>3, <1>4 DEF p, q
<1>6. sent < ForgedBase
  BY <1>1, <1>5, FactorOut
<1>7. sent' * CommandInterval <= nextCommand'
  BY <1>1, <1>2, <1>4
<1> QED BY <1>1, <1>6, <1>7

LEMMA NumberInit == Init => NumberInv
BY Constants DEF Init, NumberInv, Rows, Actions

LEMMA NumberStep == ASSUME TypeInv, NumberInv, [Next]_vars PROVE NumberInv'
<1>0. sent \in Nat /\ 1..sent \subseteq 1..(sent + 1) /\ nextCommand \in Nat /\ now \in Nat
      /\ sent * CommandInterval \in Nat
  BY NowTyped, Constants
<1>1. CASE Idle
  <2>1. sent' * CommandInterval <= nextCommand'
    <3>1. nextCommand' \in Nat
      BY TypeStep, <1>0 DEF TypeInv
    <3> DEFINE p == sent * CommandInterval
    <3>2. p \in Nat /\ p <= nextCommand /\ nextCommand <= nextCommand'
      BY <1>0, <1>1 DEF Idle, NumberInv
    <3> HIDE DEF p
    <3>3. p <= nextCommand'
      BY <1>0, <3>1, <3>2
    <3> QED BY <1>1, <3>3 DEF Idle, p
  <2> QED BY <1>1, <2>1 DEF Idle, NumberInv, TruthOf, Rows, Actions
<1>2. CASE OwnStep
  <2>1. sent' = sent + 1 /\ UNCHANGED <<truth, setting, events, timer>>
    BY <1>2 DEF OwnStep, SendsOwn
  <2>2. sent' * CommandInterval <= nextCommand' /\ sent' <= ForgedBase
    BY <1>2, <2>1, SendsBelow DEF OwnStep
  <2>3. captured' # << >> => captured'[1].id \in 1..sent'
    <3>1. captured' = captured \/ captured' = <<GroundCommand>>
      BY <1>2 DEF OwnStep, SendsOwn
    <3>2. CASE captured' = <<GroundCommand>>
      <4>1. captured'[1] = GroundCommand
        BY <3>2
      <4>2. captured'[1].id = sent + 1
        BY <4>1, GroundCommandTyped
      <4> QED BY <1>0, <2>1, <4>2
    <3> QED BY <1>0, <2>1, <3>1, <3>2 DEF NumberInv
  <2>4. \A f \in flight' : f.act = 0 => f.id \in 1..sent'
    <3>1. PICK x \in Telecommand : flight' = flight \cup {x} /\ x.id = sent + 1
      BY <1>2 DEF OwnStep, SendsOwn
    <3> QED BY <1>0, <2>1, <3>1 DEF NumberInv
  <2>5. \A r \in Rows' : events'[r].act = 0 => events'[r].id \in 1..sent'
    BY <1>0, <2>1 DEF NumberInv, Rows
  <2>6. \A a \in Actions' : TruthOf(a)'
    <3> SUFFICES ASSUME NEW a \in Actions PROVE TruthOf(a)'
      BY <2>1 DEF Actions
    <3>1. TruthOf(a)
      BY DEF NumberInv
    <3>2. setting.scenario = "A3" => captured' = captured
      BY <1>2, <3>1 DEF OwnStep, SendsOwn, TruthOf
    <3> QED BY <1>0, <2>1, <3>1, <3>2 DEF TruthOf
  <2> QED BY <2>1, <2>2, <2>3, <2>4, <2>5, <2>6 DEF NumberInv
<1>3. CASE TamperStep
  <2>1. sent' = sent + 1 /\ UNCHANGED <<captured, setting, events, timer>> /\ Records(sent + 1)
        /\ setting.scenario \in {"A1", "A2v"}
    BY <1>3 DEF TamperStep, SendsTampered
  <2>2. sent' * CommandInterval <= nextCommand' /\ sent' <= ForgedBase
    BY <1>3, <2>1, SendsBelow DEF TamperStep
  <2>3. captured' # << >> => captured'[1].id \in 1..sent'
    BY <1>0, <2>1 DEF NumberInv
  <2>4. \A f \in flight' : f.act = 0 => f.id \in 1..sent'
    <3>1. PICK x : \E d \in AddedDelays \cup {0} : Leaves(x, d) /\ x.id = sent + 1
      BY <1>3 DEF TamperStep, SendsTampered
    <3>2. flight' \subseteq flight \cup {x}
      BY <3>1 DEF Leaves
    <3> QED BY <1>0, <2>1, <3>1, <3>2 DEF NumberInv
  <2>5. \A r \in Rows' : events'[r].act = 0 => events'[r].id \in 1..sent'
    BY <1>0, <2>1 DEF NumberInv, Rows
  <2>6. \A a \in Actions' : TruthOf(a)'
    <3> DEFINE n == Len(truth) + 1
    <3>1. /\ Actions' = Actions \cup {n} /\ \A a \in Actions : truth'[a] = truth[a]
          /\ truth'[n] = [t |-> now, id |-> sent + 1]
      BY <1>0, <2>1, ActionAdded
    <3> HIDE DEF n
    <3>2. truth'[n].id = sent + 1
      BY <3>1
    <3>3. \A a \in Actions : truth'[a].id \in 1..(sent + 1)
      BY <1>0, <2>1, <3>1 DEF NumberInv, TruthOf
    <3>4. \A a \in Actions' : truth'[a].id \in 1..(sent + 1)
      BY <1>0, <3>1, <3>2, <3>3
    <3>5. setting'.scenario \notin {"A2", "A3"}
      BY <2>1
    <3> QED BY <2>1, <3>4, <3>5 DEF TruthOf
  <2> QED BY <2>1, <2>2, <2>3, <2>4, <2>5, <2>6 DEF NumberInv
<1>4. CASE InjectStep
  <2>1. UNCHANGED <<setting, sent, nextCommand, captured, events>>
    BY <1>4 DEF InjectStep
  <2>2. PICK x \in Telecommand :
          /\ Leaves(x, 0) /\ x.act = Len(truth) + 1 /\ Records(x.id)
          /\ setting.scenario = "A3" => captured # << >> /\ x.id = captured[1].id
          /\ setting.scenario # "A3" => x.id = ForgedBase + Len(truth) + 1
    BY <1>4 DEF InjectStep, Injects
  <2>3. \A f \in flight' : f.act = 0 => f.id \in 1..sent'
    <3>1. flight' \subseteq flight \cup {x} /\ x.act # 0
      BY <2>2, NowTyped DEF Leaves
    <3> QED BY <2>1, <3>1 DEF NumberInv
  <2>4. \A a \in Actions' : TruthOf(a)'
    <3>0. PICK n \in Nat : n = Len(truth) + 1
      BY NowTyped
    <3>1. /\ Actions' = Actions \cup {n} /\ \A a \in Actions : truth'[a] = truth[a]
          /\ truth'[n] = [t |-> now, id |-> x.id]
      BY <2>2, <3>0, ActionAdded DEF Telecommand
    <3>2. truth'[n].id = x.id
      BY <3>1
    <3>3. ForgedBase + Len(truth) + 1 = ForgedBase + n
      BY <3>0, NowTyped, Constants
    <3>4. setting.scenario \notin {"A1", "A2v"}
      <4>1. timer # Unset
        BY <1>0, <1>4 DEF InjectStep, Unset
      <4> QED BY <4>1 DEF NumberInv
    <3>5. TruthOf(n)'
      BY <2>1, <2>2, <3>2, <3>3, <3>4 DEF TruthOf
    <3>6. \A a \in Actions : TruthOf(a)'
      BY <2>1, <3>1 DEF NumberInv, TruthOf
    <3> QED BY <3>1, <3>5, <3>6
  <2>5. timer' # Unset => setting'.scenario \in {"A2", "A3"}
    <3>1. timer # Unset
      BY <1>0, <1>4 DEF InjectStep, Unset
    <3> QED BY <2>1, <3>1 DEF NumberInv
  <2> QED BY <2>1, <2>3, <2>4, <2>5 DEF NumberInv, Rows
<1>5. CASE ArriveStep
  <2>1. PICK tc \in flight : Arrives(tc)
    BY <1>5 DEF ArriveStep
  <2>2. UNCHANGED <<setting, sent, nextCommand, captured, timer, truth>> /\ flight' \subseteq flight
    BY <2>1 DEF Arrives, ground, relay
  <2>3. \A r \in Rows' : events'[r].act = 0 => events'[r].id \in 1..sent'
    <3> DEFINE n == Len(events) + 1
    <3>1. /\ Rows' = Rows \cup {n} /\ \A r \in Rows : events'[r] = events[r]
          /\ events'[n] = [t |-> now, id |-> tc.id, accepted |-> Accepted(tc), act |-> tc.act,
                           wrote |-> tc.value]
      BY <2>1, RowAdded
    <3> HIDE DEF n
    <3>2. events'[n].act = tc.act /\ events'[n].id = tc.id
      BY <3>1
    <3> QED BY <2>2, <3>1, <3>2 DEF NumberInv
  <2> QED BY <2>2, <2>3 DEF NumberInv, TruthOf, Actions
<1> QED BY <1>1, <1>2, <1>3, <1>4, <1>5, StepKinds

-----------------------------------------------------------------------------
(* The copies of the commands *)

\* What is known of a command or a row that came from an action.
Copy(act, id, at) ==
  act # 0 => /\ act \in Actions /\ truth[act].id = id /\ truth[act].t < at
             /\ setting.scenario = "A3" => at = truth[act].t + Transit

FlightCopies == \A f \in flight : Copy(f.act, f.id, f.due)
RowCopies == \A r \in Rows : Copy(events[r].act, events[r].id, events[r].t)

\* Nothing of an action is in two places.
Once ==
  /\ \A f, g \in flight : f.act = g.act => f.act = 0 \/ f = g
  /\ \A f \in flight, r \in Rows : f.act = events[r].act => f.act = 0
  /\ \A q, r \in Rows : events[q].act = events[r].act => events[q].act = 0 \/ q = r

CopyInv == FlightCopies /\ RowCopies /\ Once

LEMMA CopyInit == Init => CopyInv
BY DEF Init, CopyInv, FlightCopies, RowCopies, Once, Rows, Actions

LEMMA AddsCopy ==
  ASSUME TypeInv, CopyInv, NEW x \in Telecommand, NEW d \in Nat, Leaves(x, d), Records(x.id),
         x.act = Len(truth) + 1, d = 0 \/ setting.scenario # "A3",
         UNCHANGED <<setting, events>>
  PROVE  CopyInv'
<1>1. PICK n \in Nat : n = Len(truth) + 1
  BY NowTyped
<1>2. /\ Actions' = Actions \cup {n} /\ n \notin Actions /\ n # 0
      /\ \A a \in Actions : truth'[a] = truth[a]
      /\ truth'[n] = [t |-> now, id |-> x.id]
  BY <1>1, ActionAdded DEF Telecommand
<1>3. truth'[n].t = now /\ truth'[n].id = x.id
  BY <1>2
<1>4. flight' \subseteq flight \cup {x} /\ x.due = now + d + Transit
  BY DEF Leaves
<1>5. Copy(x.act, x.id, x.due)'
  <2>1. now < x.due /\ (setting'.scenario = "A3" => x.due = now + Transit)
    <3>1. now \in Nat /\ Transit \in Nat /\ Transit # 0
      BY NowTyped, Constants, Parities DEF Odd
    <3> QED BY <1>4, <3>1
  <2> QED BY <1>1, <1>2, <1>3, <2>1 DEF Copy
<1>6. \A f \in flight : Copy(f.act, f.id, f.due)' /\ f.act # n
  BY <1>2 DEF CopyInv, FlightCopies, Copy
<1>7. \A r \in Rows : Copy(events[r].act, events[r].id, events[r].t)' /\ events[r].act # n
  BY <1>2 DEF CopyInv, RowCopies, Copy
<1>8. FlightCopies'
  BY <1>4, <1>5, <1>6 DEF FlightCopies
<1>9. RowCopies'
  BY <1>7 DEF RowCopies, Rows
<1>10. Once'
  BY <1>1, <1>4, <1>6, <1>7 DEF Once, CopyInv, Rows
<1> QED BY <1>8, <1>9, <1>10 DEF CopyInv

LEMMA CopyStep == ASSUME TypeInv, CopyInv, [Next]_vars PROVE CopyInv'
<1>0. now \in Nat /\ sent \in Nat /\ 0 \in Nat
  BY NowTyped
<1>1. CASE Idle
  BY <1>1 DEF Idle, CopyInv, FlightCopies, RowCopies, Once, Copy, Rows, Actions
<1>2. CASE OwnStep
  <2>1. UNCHANGED <<truth, setting, events>>
    BY <1>2 DEF OwnStep, SendsOwn
  <2>2. PICK x \in Telecommand : flight' = flight \cup {x} /\ x.act = 0
    BY <1>2 DEF OwnStep, SendsOwn
  <2>3. FlightCopies' /\ RowCopies'
    BY <2>1, <2>2 DEF CopyInv, FlightCopies, RowCopies, Copy, Rows, Actions
  <2>4. Once'
    BY <2>1, <2>2 DEF CopyInv, Once, Rows
  <2> QED BY <2>3, <2>4 DEF CopyInv
<1>3. CASE TamperStep
  <2>1. UNCHANGED <<setting, events>> /\ setting.scenario \in {"A1", "A2v"}
    BY <1>3 DEF TamperStep, SendsTampered
  <2>2. Records(sent + 1)
    BY <1>3 DEF TamperStep, SendsTampered
  <2>3. PICK x : \E d \in AddedDelays \cup {0} :
                   Leaves(x, d) /\ x.id = sent + 1 /\ x.act = Len(truth) + 1
    BY <1>3 DEF TamperStep, SendsTampered
  <2>4. PICK d \in AddedDelays \cup {0} : Leaves(x, d)
    BY <2>3
  <2>5. d \in Nat /\ x \in Telecommand
    BY <2>4, Constants DEF Leaves
  <2> QED BY <2>1, <2>2, <2>3, <2>4, <2>5, AddsCopy
<1>4. CASE InjectStep
  <2>1. PICK x \in Telecommand : Leaves(x, 0) /\ x.act = Len(truth) + 1 /\ Records(x.id)
    BY <1>4 DEF InjectStep, Injects
  <2>2. UNCHANGED <<setting, events>>
    BY <1>4 DEF InjectStep
  <2> QED BY <1>0, <2>1, <2>2, AddsCopy
<1>5. CASE ArriveStep
  <2>1. PICK tc \in flight : Arrives(tc)
    BY <1>5 DEF ArriveStep
  <2>2. UNCHANGED <<setting, truth>> /\ flight' = flight \ {tc} /\ tc.due = now
    BY <2>1 DEF Arrives
  <2>3. PICK n \in Nat : n = Len(events) + 1
    BY NowTyped
  <2>4. /\ Rows' = Rows \cup {n} /\ \A r \in Rows : events'[r] = events[r]
        /\ events'[n] = [t |-> now, id |-> tc.id, accepted |-> Accepted(tc), act |-> tc.act,
                         wrote |-> tc.value]
    BY <2>1, <2>3, RowAdded
  <2>5. events'[n].act = tc.act /\ events'[n].id = tc.id /\ events'[n].t = tc.due
    BY <2>2, <2>4
  <2>6. FlightCopies'
    BY <2>2 DEF CopyInv, FlightCopies, Copy, Actions
  <2>7. RowCopies'
    <3>1. Copy(tc.act, tc.id, tc.due) /\ \A r \in Rows : Copy(events[r].act, events[r].id, events[r].t)
      BY DEF CopyInv, FlightCopies, RowCopies
    <3>2. Copy(events[n].act, events[n].id, events[n].t)'
      BY <2>2, <2>5, <3>1 DEF Copy, Actions
    <3>3. \A r \in Rows : Copy(events[r].act, events[r].id, events[r].t)'
      BY <2>2, <2>4, <3>1 DEF Copy, Actions
    <3> QED BY <2>4, <3>2, <3>3 DEF RowCopies
  <2>8. Once'
    <3>1. \A f \in flight' : f \in flight /\ f # tc
      BY <2>2
    <3>2. \A f, g \in flight' : f.act = g.act => f.act = 0 \/ f = g
      BY <3>1 DEF CopyInv, Once
    <3>3. \A f \in flight', r \in Rows' : f.act = events'[r].act => f.act = 0
      BY <2>4, <2>5, <3>1 DEF CopyInv, Once
    <3>4. \A q, r \in Rows' : events'[q].act = events'[r].act => events'[q].act = 0 \/ q = r
      BY <2>4, <2>5 DEF CopyInv, Once
    <3> QED BY <3>2, <3>3, <3>4 DEF Once
  <2> QED BY <2>6, <2>7, <2>8 DEF CopyInv
<1> QED BY <1>1, <1>2, <1>3, <1>4, <1>5, StepKinds

-----------------------------------------------------------------------------
(* What is known of a command that is not of an action *)

\* Out of A3, no two actions are on one command, and none is on a command of the ground's own.
OwnInv ==
  setting.scenario # "A3" =>
    /\ EXACT
    /\ \A f \in flight : f.act = 0 => \A a \in Actions : truth[a].id # f.id
    /\ \A r \in Rows : events[r].act = 0 => \A a \in Actions : truth[a].id # events[r].id

LEMMA OwnInit == Init => OwnInv
BY DEF Init, OwnInv, EXACT, Rows, Actions

\* An action on a command that no other action and nothing of the ground's own had.
LEMMA AddsOwn ==
  ASSUME TypeInv, OwnInv, NEW x \in Telecommand, NEW d, Leaves(x, d), Records(x.id),
         x.act # 0, setting.scenario # "A3", UNCHANGED <<setting, events>>,
         \A a \in Actions : truth[a].id # x.id,
         \A f \in flight : f.act = 0 => f.id # x.id,
         \A r \in Rows : events[r].act = 0 => events[r].id # x.id
  PROVE  OwnInv'
<1>1. PICK n \in Nat : n = Len(truth) + 1
  BY NowTyped
<1>2. /\ Actions' = Actions \cup {n}
      /\ \A a \in Actions : truth'[a] = truth[a]
      /\ truth'[n] = [t |-> now, id |-> x.id]
  BY <1>1, ActionAdded DEF Telecommand
<1>3. truth'[n].id = x.id
  BY <1>2
<1>4. flight' \subseteq flight \cup {x}
  BY DEF Leaves
<1>5. EXACT'
  BY <1>2, <1>3 DEF OwnInv, EXACT
<1>6. \A f \in flight' : f.act = 0 => \A a \in Actions' : truth'[a].id # f.id
  BY <1>2, <1>3, <1>4 DEF OwnInv
<1>7. \A r \in Rows' : events'[r].act = 0 => \A a \in Actions' : truth'[a].id # events'[r].id
  BY <1>2, <1>3 DEF OwnInv, Rows
<1> QED BY <1>5, <1>6, <1>7 DEF OwnInv

LEMMA OwnKept == ASSUME TypeInv, NumberInv, OwnInv, [Next]_vars PROVE OwnInv'
<1>0. sent \in Nat /\ ForgedBase \in Nat
  BY NowTyped, Constants
<1> SUFFICES ASSUME setting.scenario # "A3" PROVE OwnInv'
  <2>1. setting' = setting
    BY StepKinds DEF Idle, OwnStep, TamperStep, InjectStep, ArriveStep, Arrives
  <2> QED BY <2>1 DEF OwnInv
<1>1. CASE Idle
  BY <1>1 DEF Idle, OwnInv, EXACT, Rows, Actions
<1>2. CASE OwnStep
  <2>1. UNCHANGED <<truth, setting, events>>
    BY <1>2 DEF OwnStep, SendsOwn
  <2>2. PICK x \in Telecommand : flight' = flight \cup {x} /\ x.id = sent + 1
    BY <1>2 DEF OwnStep, SendsOwn
  <2>3. \A a \in Actions : truth[a].id # sent + 1
    <3> SUFFICES ASSUME NEW a \in Actions PROVE truth[a].id # sent + 1
      OBVIOUS
    <3>1. TruthOf(a) /\ a \in Nat /\ a # 0
      BY ActionTyped DEF NumberInv
    <3>2. CASE setting.scenario \in {"A1", "A2v"}
      BY <1>0, <3>1, <3>2 DEF TruthOf
    <3>3. CASE setting.scenario = "A2"
      <4>1. sent' <= ForgedBase /\ sent' = sent + 1
        BY <1>2, SendsBelow DEF OwnStep, SendsOwn
      <4>2. truth[a].id = ForgedBase + a
        BY <3>1, <3>3 DEF TruthOf
      <4> QED BY <1>0, <3>1, <4>1, <4>2
    <3> QED BY <3>2, <3>3, SettingTyped
  <2> QED BY <2>1, <2>2, <2>3 DEF OwnInv, EXACT, Rows, Actions
<1>3. CASE TamperStep
  <2>1. UNCHANGED <<setting, events>> /\ setting.scenario \in {"A1", "A2v"}
    BY <1>3 DEF TamperStep, SendsTampered
  <2>2. Records(sent + 1)
    BY <1>3 DEF TamperStep, SendsTampered
  <2>3. PICK x : \E d \in AddedDelays \cup {0} :
                   Leaves(x, d) /\ x.id = sent + 1 /\ x.act = Len(truth) + 1
    BY <1>3 DEF TamperStep, SendsTampered
  <2>4. PICK d \in AddedDelays \cup {0} : Leaves(x, d)
    BY <2>3
  <2>5. x \in Telecommand /\ x.act # 0
    BY <2>3, <2>4, NowTyped DEF Leaves
  <2>6. \A a \in Actions : truth[a].id # x.id
    BY <1>0, <2>1, <2>3 DEF NumberInv, TruthOf
  <2>7. /\ \A f \in flight : f.act = 0 => f.id # x.id
        /\ \A r \in Rows : events[r].act = 0 => events[r].id # x.id
    BY <1>0, <2>3 DEF NumberInv
  <2> QED BY <2>1, <2>2, <2>3, <2>4, <2>5, <2>6, <2>7, AddsOwn
<1>4. CASE InjectStep
  <2>1. PICK x \in Telecommand : /\ Leaves(x, 0) /\ x.act = Len(truth) + 1 /\ Records(x.id)
                                 /\ x.id = ForgedBase + Len(truth) + 1
    BY <1>4 DEF InjectStep, Injects
  <2>2. UNCHANGED <<setting, events>>
    BY <1>4 DEF InjectStep
  <2>3. setting.scenario = "A2"
    <3>1. timer # Unset
      BY <1>4, NowTyped DEF InjectStep, Unset
    <3> QED BY <3>1 DEF NumberInv
  <2>4. \A a \in Actions : truth[a].id # x.id
    <3> SUFFICES ASSUME NEW a \in Actions PROVE truth[a].id # x.id
      OBVIOUS
    <3>1. truth[a].id = ForgedBase + a
      BY <2>3 DEF NumberInv, TruthOf
    <3>2. a \in Nat /\ a <= Len(truth) /\ Len(truth) \in Nat
      BY NowTyped
    <3> QED BY <1>0, <2>1, <3>1, <3>2
  <2>5. x.id > ForgedBase /\ x.id > sent /\ x.act # 0 /\ x.id \in Nat
    BY <1>0, <2>1, NowTyped DEF NumberInv
  <2>6. /\ \A f \in flight : f.act = 0 => f.id # x.id
        /\ \A r \in Rows : events[r].act = 0 => events[r].id # x.id
    BY <1>0, <2>5 DEF NumberInv
  <2> QED BY <2>1, <2>2, <2>4, <2>5, <2>6, AddsOwn
<1>5. CASE ArriveStep
  <2>1. PICK tc \in flight : Arrives(tc)
    BY <1>5 DEF ArriveStep
  <2>2. UNCHANGED <<setting, truth>> /\ flight' \subseteq flight
    BY <2>1 DEF Arrives
  <2>3. PICK n \in Nat : n = Len(events) + 1
    BY NowTyped
  <2>4. /\ Rows' = Rows \cup {n} /\ \A r \in Rows : events'[r] = events[r]
        /\ events'[n] = [t |-> now, id |-> tc.id, accepted |-> Accepted(tc), act |-> tc.act,
                         wrote |-> tc.value]
    BY <2>1, <2>3, RowAdded
  <2>5. events'[n].act = tc.act /\ events'[n].id = tc.id
    BY <2>4
  <2> QED BY <2>2, <2>4, <2>5 DEF OwnInv, EXACT, Actions
<1> QED BY <1>1, <1>2, <1>3, <1>4, <1>5, StepKinds

-----------------------------------------------------------------------------
(* What is known of a replay run *)

\* The replays come one interval after the other.
Spaced ==
  /\ \A a, b \in Actions : a < b => truth[a].t + InjectionInterval <= truth[b].t
  /\ timer # Unset => \A a \in Actions : truth[a].t + InjectionInterval <= timer

\* Every command writes the value of its number.
LawHolds ==
  /\ captured # << >> => captured[1].value = written_value(captured[1].id)
  /\ \A f \in flight : f.value = written_value(f.id)
  /\ \A r \in Rows : events[r].wrote = written_value(events[r].id)

\* The original is on board before the first of its copies leaves.
OriginalFirst ==
  ~raced /\ truth # << >> =>
    /\ \A f \in flight : f.act = 0 => f.id # captured[1].id
    /\ \A r \in Rows : events[r].act = 0 /\ events[r].id = captured[1].id
         => \A a \in Actions : events[r].t < truth[a].t

ReplayInv == setting.scenario = "A3" => Spaced /\ LawHolds /\ OriginalFirst

LEMMA ReplayInit == Init => ReplayInv
BY DEF Init, ReplayInv, Spaced, LawHolds, OriginalFirst, Rows, Actions

LEMMA FirstActionRows ==
  ASSUME TypeInv, truth = << >>
  PROVE  Actions = {}
BY DEF TypeInv, Files, Actions

LEMMA ReplayKept ==
  ASSUME TypeInv, ClockInv, NumberInv, CopyInv, ReplayInv, [Next]_vars PROVE ReplayInv'
<1>0. /\ sent \in Nat /\ now \in Nat /\ InjectionInterval \in Nat /\ Transit \in Nat
      /\ InjectionInterval # 0 /\ timer \in Nat \cup {Unset}
  BY NowTyped, Constants
<1>a. \A a \in Actions : truth[a].t \in Nat /\ truth[a].t <= now /\ Even(truth[a].t)
  BY ActionTyped DEF ClockInv, FilesOnTime
<1>r. \A r \in Rows : events[r].t \in Nat /\ events[r].t <= now /\ Odd(events[r].t)
  BY RowTyped DEF ClockInv, FilesOnTime
<1> SUFFICES ASSUME setting.scenario = "A3" PROVE ReplayInv'
  <2>1. setting' = setting
    BY StepKinds DEF Idle, OwnStep, TamperStep, InjectStep, ArriveStep, Arrives
  <2> QED BY <2>1 DEF ReplayInv
<1>9. Spaced /\ LawHolds /\ OriginalFirst
  BY DEF ReplayInv
<1>1. CASE Idle
  <2>1. UNCHANGED <<setting, sent, captured, flight, events, truth, raced>>
    BY <1>1 DEF Idle
  <2>2. Spaced'
    <3>1. timer' # Unset => \A a \in Actions : truth[a].t + InjectionInterval <= timer'
      <4>1. CASE timer' \in {timer, Unset}
        BY <1>9, <4>1 DEF Spaced
      <4>2. CASE now + InjectionInterval <= timer' /\ timer' # Unset
        <5>1. timer' \in Nat
          BY <4>2, TypeStep DEF TypeInv
        <5> QED BY <1>0, <1>a, <4>2, <5>1
      <4> QED BY <1>1, <4>1, <4>2 DEF Idle
    <3> QED BY <1>9, <2>1, <3>1 DEF Spaced, Actions
  <2>3. LawHolds' /\ OriginalFirst'
    BY <1>9, <2>1 DEF LawHolds, OriginalFirst, Rows, Actions
  <2> QED BY <2>2, <2>3 DEF ReplayInv
<1>2. CASE OwnStep
  <2>1. UNCHANGED <<timer, truth, setting, events, raced>>
    BY <1>2 DEF OwnStep, SendsOwn
  <2>2. PICK x \in Telecommand :
          flight' = flight \cup {x} /\ x.id = sent + 1 /\ x.value = written_value(sent + 1)
    BY <1>2 DEF OwnStep, SendsOwn
  <2>3. Spaced'
    BY <1>9, <2>1 DEF Spaced, Actions
  <2>4. captured' = captured \/ (captured = << >> /\ captured' = <<GroundCommand>>)
    BY <1>2 DEF OwnStep, SendsOwn
  <2>5. LawHolds'
    <3>1. captured' # << >> => captured'[1].value = written_value(captured'[1].id)
      <4>1. CASE captured' = <<GroundCommand>>
        <5>1. captured'[1] = GroundCommand
          BY <4>1
        <5> QED BY <5>1, GroundCommandTyped
      <4> QED BY <1>9, <2>4, <4>1 DEF LawHolds
    <3> QED BY <1>9, <2>1, <2>2, <3>1 DEF LawHolds, Rows
  <2>6. OriginalFirst'
    <3> SUFFICES ASSUME ~raced, truth # << >> PROVE OriginalFirst'
      BY <2>1 DEF OriginalFirst
    <3>1. captured # << >> /\ captured' = captured
      <4>1. 1 \in Actions
        <5>1. truth \in Seq(Action)
          BY DEF TypeInv, Files
        <5> QED BY <5>1 DEF Actions
      <4>2. TruthOf(1)
        BY <4>1 DEF NumberInv
      <4> QED BY <2>4, <4>2 DEF TruthOf
    <3>2. captured[1].id # sent + 1
      BY <1>0, <3>1 DEF NumberInv
    <3> QED BY <1>9, <2>1, <2>2, <3>1, <3>2 DEF OriginalFirst, Rows, Actions
  <2> QED BY <2>3, <2>5, <2>6 DEF ReplayInv
<1>3. CASE TamperStep
  BY <1>3 DEF TamperStep, SendsTampered
<1>4. CASE InjectStep
  <2>1. /\ UNCHANGED <<setting, captured, events>> /\ now = timer
        /\ timer' = now + InjectionInterval
    BY <1>4 DEF InjectStep
  <2>2. PICK x \in Telecommand :
          /\ Leaves(x, 0) /\ x.act = Len(truth) + 1 /\ Records(x.id)
          /\ raced' = (raced \/ \E f \in flight : f.id = x.id)
          /\ captured # << >> /\ x.id = captured[1].id /\ x.value = captured[1].value
    BY <1>4 DEF InjectStep, Injects
  <2>3. PICK n \in Nat : n = Len(truth) + 1
    BY NowTyped
  <2>4. /\ Actions' = Actions \cup {n} /\ \A a \in Actions : a \in Nat /\ a < n /\ truth'[a] = truth[a]
        /\ truth'[n] = [t |-> now, id |-> x.id] /\ n \notin Actions
    BY <2>2, <2>3, ActionAdded DEF Telecommand
  <2>5. truth'[n].t = now
    BY <2>4
  <2>6. flight' \subseteq flight \cup {x} /\ x.act # 0
    BY <2>2, NowTyped DEF Leaves
  <2>7. Spaced'
    <3>0. timer # Unset
      BY <1>0, <2>1 DEF Unset
    <3>1. \A a \in Actions : truth[a].t + InjectionInterval <= now
      BY <1>9, <2>1, <3>0 DEF Spaced
    <3>2. ASSUME NEW a \in Actions', NEW b \in Actions', a < b
          PROVE  truth'[a].t + InjectionInterval <= truth'[b].t
      <4>1. a \in Actions
        BY <2>3, <2>4, <3>2
      <4>2. CASE b \in Actions
        BY <1>9, <2>4, <3>2, <4>1, <4>2 DEF Spaced
      <4>3. CASE b = n
        BY <2>4, <2>5, <3>1, <4>1, <4>3
      <4> QED BY <2>4, <4>2, <4>3
    <3>3. \A a \in Actions' : truth'[a].t + InjectionInterval <= timer'
      BY <1>0, <1>a, <2>1, <2>4, <2>5
    <3> QED BY <3>2, <3>3 DEF Spaced
  <2>8. LawHolds'
    BY <1>9, <2>1, <2>2, <2>6 DEF LawHolds, Rows
  <2>9. OriginalFirst'
    <3> SUFFICES ASSUME ~raced' PROVE OriginalFirst'
      BY DEF OriginalFirst
    <3>1. ~raced /\ \A f \in flight : f.id # captured[1].id
      BY <2>2
    <3>2. \A r \in Rows : events[r].t < now
      <4>1. Even(now)
        BY <1>0, <2>1 DEF ClockInv, TimersOnTime, Unset
      <4>2. \A t \in Nat : t <= now /\ Odd(t) => t < now
        BY <1>0, <4>1 DEF Even, Odd
      <4> QED BY <1>r, <4>2
    <3>3. ASSUME NEW r \in Rows, events[r].act = 0 /\ events[r].id = captured[1].id, NEW a \in Actions
          PROVE  events[r].t < truth[a].t
      <4>1. truth # << >>
        BY <3>3 DEF Actions
      <4> QED BY <1>9, <3>1, <3>3, <4>1 DEF OriginalFirst
    <3>4. \A r \in Rows : events[r].act = 0 /\ events[r].id = captured[1].id
            => \A a \in Actions' : events[r].t < truth'[a].t
      BY <2>4, <2>5, <3>2, <3>3
    <3>5. \A f \in flight' : f.act = 0 => f.id # captured[1].id
      BY <2>6, <3>1
    <3> QED BY <2>1, <3>4, <3>5 DEF OriginalFirst, Rows
  <2> QED BY <2>7, <2>8, <2>9 DEF ReplayInv
<1>5. CASE ArriveStep
  <2>1. PICK tc \in flight : Arrives(tc)
    BY <1>5 DEF ArriveStep
  <2>2. UNCHANGED <<setting, truth, captured, timer, raced>> /\ flight' \subseteq flight
    BY <2>1 DEF Arrives, relay
  <2>3. PICK n \in Nat : n = Len(events) + 1
    BY NowTyped
  <2>4. /\ Rows' = Rows \cup {n} /\ \A r \in Rows : events'[r] = events[r]
        /\ events'[n] = [t |-> now, id |-> tc.id, accepted |-> Accepted(tc), act |-> tc.act,
                         wrote |-> tc.value]
    BY <2>1, <2>3, RowAdded
  <2>5. events'[n].act = tc.act /\ events'[n].id = tc.id /\ events'[n].wrote = tc.value
    BY <2>4
  <2>6. Spaced'
    BY <1>9, <2>2 DEF Spaced, Actions
  <2>7. LawHolds'
    BY <1>9, <2>2, <2>4, <2>5 DEF LawHolds
  <2>8. OriginalFirst'
    BY <1>9, <2>2, <2>4, <2>5 DEF OriginalFirst, Actions
  <2> QED BY <2>6, <2>7, <2>8 DEF ReplayInv
<1> QED BY <1>1, <1>2, <1>3, <1>4, <1>5, StepKinds

-----------------------------------------------------------------------------
(* The match is true *)

OwnRows(a) == {r \in Rows : events[r].act = a}

LEMMA OwnRowsAreLater ==
  ASSUME TypeInv, CopyInv, NEW a \in Actions
  PROVE  OwnRows(a) \subseteq FromAction(a)
<1> SUFFICES ASSUME NEW r \in Rows, events[r].act = a PROVE r \in FromAction(a)
  BY DEF OwnRows
<1>1. Copy(a, events[r].id, events[r].t) /\ a # 0
  BY ActionTyped DEF CopyInv, RowCopies
<1>2. truth[a].id = events[r].id /\ truth[a].t < events[r].t
  BY <1>1 DEF Copy
<1>3. truth[a].t \in Nat /\ events[r].t \in Nat
  BY RowTyped, ActionTyped
<1>4. events[r].t >= truth[a].t
  BY <1>2, <1>3
<1> QED BY <1>2, <1>4 DEF FromAction, Outcomes, Rows

\* What no replay left comes before all of them.
LEMMA OriginalIsEarly ==
  ASSUME TypeInv, NumberInv, ReplayInv, setting.scenario = "A3", ~raced,
         NEW a \in Actions, NEW r \in FromAction(a)
  PROVE  events[r].act # 0
<1> SUFFICES ASSUME events[r].act = 0 PROVE FALSE
  OBVIOUS
<1>1. r \in Rows /\ events[r].id = truth[a].id /\ events[r].t >= truth[a].t
  BY DEF FromAction, Outcomes, Rows
<1>2. truth[a].id = captured[1].id
  BY DEF NumberInv, TruthOf
<1>3. truth # << >>
  BY DEF Actions
<1>4. events[r].t < truth[a].t
  BY <1>1, <1>2, <1>3 DEF ReplayInv, OriginalFirst
<1>5. truth[a].t \in Nat /\ events[r].t \in Nat
  BY <1>1, RowTyped, ActionTyped
<1> QED BY <1>1, <1>4, <1>5

LEMMA ExactRows ==
  ASSUME TypeInv, NumberInv, CopyInv, OwnInv, ReplayInv, ~raced, EXACT, NEW a \in Actions
  PROVE  FromAction(a) = OwnRows(a)
<1>1. ASSUME NEW r \in FromAction(a) PROVE events[r].act = a
  <2>1. r \in Rows /\ events[r].id = truth[a].id
    BY DEF FromAction, Outcomes, Rows
  <2>2. events[r].act # 0
    BY <2>1, OriginalIsEarly DEF OwnInv
  <2>3. events[r].act \in Actions /\ truth[events[r].act].id = events[r].id
    BY <2>1, <2>2 DEF CopyInv, RowCopies, Copy
  <2> QED BY <2>1, <2>3 DEF EXACT
<1>2. FromAction(a) \subseteq Rows
  BY DEF FromAction, Outcomes, Rows
<1>3. FromAction(a) \subseteq OwnRows(a)
  BY <1>1, <1>2 DEF OwnRows
<1> QED BY <1>3, OwnRowsAreLater

LEMMA BoundOf ==
  ASSUME TypeInv, NEW a \in Actions, NEW b \in Actions, truth[b].id = truth[a].id,
         truth[b].t > truth[a].t
  PROVE  Bound(a) <= truth[b].t /\ Bound(a) \in Nat
<1> DEFINE later == {truth[x].t : x \in {y \in Actions : truth[y].id = truth[a].id
                                                        /\ truth[y].t > truth[a].t}}
<1>1. later \subseteq Nat /\ truth[b].t \in later
  BY ActionTyped
<1>2. Bound(a) = Min(later)
  BY <1>1 DEF Bound
<1> HIDE DEF later
<1>3. Min(later) \in later /\ \A y \in later : Min(later) <= y
  BY <1>1, LeastOf
<1> QED BY <1>1, <1>2, <1>3

LEMMA BoundIs ==
  ASSUME TypeInv, NEW a \in Actions
  PROVE  \/ Bound(a) = Never
         \/ \E b \in Actions : truth[b].t > truth[a].t /\ Bound(a) = truth[b].t
<1> DEFINE later == {truth[x].t : x \in {y \in Actions : truth[y].id = truth[a].id
                                                        /\ truth[y].t > truth[a].t}}
<1>1. later \subseteq Nat
  BY ActionTyped
<1>2. CASE later = {}
  BY <1>2 DEF Bound
<1>3. CASE later # {}
  <2>1. Bound(a) = Min(later)
    BY <1>3 DEF Bound
  <2>2. Min(later) \in later
    <3> HIDE DEF later
    <3> QED BY <1>1, <1>3, LeastOf
  <2> QED BY <2>1, <2>2
<1> QED BY <1>2, <1>3

\* In a replay run, the rows between two replays are those of the first.
LEMMA ReplayRows ==
  ASSUME TypeInv, ClockInv, NumberInv, CopyInv, ReplayInv, ~raced, setting.scenario = "A3",
         NEW a \in Actions
  PROVE  {r \in FromAction(a) : events[r].t < Bound(a)} = OwnRows(a)
<1>0. /\ Transit \in Nat /\ InjectionInterval \in Nat /\ Transit < InjectionInterval /\ a \in Nat
      /\ Horizon \in Nat
  BY Constants, ActionTyped
<1>s. \A b, c \in Actions : b < c => truth[b].t + InjectionInterval <= truth[c].t
  BY DEF ReplayInv, Spaced
<1>1. ASSUME NEW r \in FromAction(a), events[r].t < Bound(a) PROVE events[r].act = a
  <2>1. r \in Rows /\ events[r].id = truth[a].id /\ events[r].t >= truth[a].t
    BY DEF FromAction, Outcomes, Rows
  <2>2. events[r].act # 0
    BY <2>1, OriginalIsEarly
  <2>3. PICK b \in Actions : b = events[r].act /\ truth[b].id = events[r].id
                             /\ events[r].t = truth[b].t + Transit
    BY <2>1, <2>2 DEF CopyInv, RowCopies, Copy
  <2>4. /\ truth[a].t \in Nat /\ truth[b].t \in Nat /\ events[r].t \in Nat /\ b \in Nat
        /\ truth[b].id \in Nat
    BY <2>1, RowTyped, ActionTyped
  <2>5. ~(b < a)
    <3> SUFFICES ASSUME b < a PROVE FALSE
      OBVIOUS
    <3>1. truth[b].t + InjectionInterval <= truth[a].t
      BY <1>s
    <3> QED BY <1>0, <2>1, <2>3, <2>4, <3>1
  <2>6. ~(a < b)
    <3> SUFFICES ASSUME a < b PROVE FALSE
      OBVIOUS
    <3>1. truth[a].t + InjectionInterval <= truth[b].t
      BY <1>s
    <3>2. truth[b].t > truth[a].t
      BY <1>0, <2>4, <3>1
    <3>3. Bound(a) <= truth[b].t /\ Bound(a) \in Nat
      BY <2>1, <2>3, <3>2, BoundOf
    <3> QED BY <1>0, <1>1, <2>3, <2>4, <3>3
  <2> QED BY <1>0, <2>3, <2>4, <2>5, <2>6
<1>2. ASSUME NEW r \in OwnRows(a) PROVE r \in FromAction(a) /\ events[r].t < Bound(a)
  <2>1. r \in FromAction(a) /\ r \in Rows /\ events[r].act = a
    BY OwnRowsAreLater DEF OwnRows
  <2>2. events[r].t = truth[a].t + Transit /\ truth[a].t \in Nat /\ events[r].t <= now
        /\ now \in Nat /\ now <= Horizon
    <3>1. Copy(events[r].act, events[r].id, events[r].t) /\ events[r].t <= now
      BY <2>1 DEF CopyInv, RowCopies, ClockInv, FilesOnTime
    <3>2. a # 0 /\ truth[a].t \in Nat
      BY ActionTyped
    <3>3. events[r].t = truth[a].t + Transit
      BY <2>1, <3>1, <3>2 DEF Copy
    <3>4. now \in Nat /\ now <= Horizon
      BY NowTyped
    <3> HIDE DEF Copy
    <3> QED BY <3>1, <3>2, <3>3, <3>4
  <2>3. CASE Bound(a) = Never
    BY <1>0, <2>1, <2>2, <2>3 DEF Never
  <2>4. ASSUME NEW b \in Actions, truth[b].t > truth[a].t, Bound(a) = truth[b].t
        PROVE  events[r].t < Bound(a)
    <3>1. truth[b].t \in Nat /\ b \in Nat
      BY ActionTyped
    <3>2. a < b
      <4> SUFFICES ASSUME b < a PROVE FALSE
        BY <1>0, <2>2, <2>4, <3>1
      <4>1. truth[b].t + InjectionInterval <= truth[a].t
        BY <1>s
      <4> QED BY <1>0, <2>2, <2>4, <3>1, <4>1
    <3>3. truth[a].t + InjectionInterval <= truth[b].t
      BY <1>s, <3>2
    <3> QED BY <1>0, <2>2, <2>4, <3>1, <3>3
  <2> QED BY <2>1, <2>3, <2>4, BoundIs
<1>3. FromAction(a) \subseteq Rows
  BY DEF FromAction, Outcomes, Rows
<1> QED BY <1>1, <1>2, <1>3 DEF OwnRows

LEMMA MatchIsOwn ==
  ASSUME TypeInv, ClockInv, NumberInv, CopyInv, OwnInv, ReplayInv
  PROVE  MatchIsTrue
<1> SUFFICES ASSUME Undisturbed, NEW a \in Actions PROVE match(a) = Own(a)
  BY DEF MatchIsTrue
<1>0. Files /\ ~raced
  BY DEF TypeInv, Undisturbed
<1>1. Own(a) = First(OwnRows(a))
  BY DEF Own, OwnRows
<1>2. CASE EXACT
  <2>1. FromAction(a) = OwnRows(a)
    BY <1>0, <1>2, ExactRows
  <2> DEFINE rows == Outcomes(truth[a].id)
  <2>2. match(a) = ExactHit(a)
    BY <1>2 DEF match
  <2>3. CASE Cardinality(rows) = 1
    <3>1. match(a) = First(rows)
      BY <2>2, <2>3 DEF ExactHit
    <3>2. rows \in SUBSET Rows /\ IsFiniteSet(rows)
      BY <1>0, RowsFinite DEF Outcomes, Rows
    <3>3. PICK x : rows = {x}
      <4> HIDE DEF rows
      <4> QED BY <2>3, <3>2, FS_Singleton
    <3>4. x \in Rows /\ x \in Outcomes(truth[a].id) /\ x # 0
      BY <3>2, <3>3, RowTyped
    <3>5. match(a) = x
      <4>1. First(rows) \in rows
        BY <1>0, <3>2, <3>3, FirstOf
      <4> QED BY <3>1, <3>3, <4>1
    <3>6. events[x].t >= truth[a].t
      BY <3>4, <3>5 DEF Undisturbed, NoEarlyCredit
    <3>7. FromAction(a) = rows
      BY <3>3, <3>4, <3>6 DEF FromAction
    <3> QED BY <1>1, <2>1, <3>1, <3>7
  <2>4. CASE Cardinality(rows) # 1
    <3>1. match(a) = First(FromAction(a))
      BY <2>2, <2>4 DEF ExactHit
    <3> QED BY <1>1, <2>1, <3>1
  <2> QED BY <2>3, <2>4
<1>3. CASE ~EXACT
  <2>1. setting.scenario = "A3"
    BY <1>3 DEF OwnInv
  <2>2. ASSUME NEW b \in Actions PROVE match(b) = First(Left(b)) /\ Left(b) \subseteq OwnRows(b)
    <3>1. match(b) = First(Left(b))
      BY <1>0, <1>3, MatchTakesFirst
    <3>2. Left(b) \subseteq {r \in FromAction(b) : events[r].t < Bound(b)}
      BY DEF Left
    <3> QED BY <1>0, <2>1, <3>1, <3>2, ReplayRows
  <2>3. OwnRows(a) \subseteq Left(a)
    <3> SUFFICES ASSUME NEW r \in OwnRows(a), NEW c \in 1..(a - 1), match(c) = r PROVE FALSE
      BY <1>0, <2>1, ReplayRows DEF Left
    <3>1. c \in Actions /\ c # a
      <4>1. Actions = 1..Len(truth) /\ Len(truth) \in Nat
        BY NowTyped
      <4> QED BY <4>1
    <3>2. r # 0 /\ events[r].act = a
      BY RowTyped DEF OwnRows
    <3>3. Left(c) \subseteq Rows
      BY DEF Left, FromAction, Outcomes, Rows
    <3>4. r \in Left(c)
      <4>1. r = First(Left(c))
        BY <2>2, <3>1
      <4>2. Left(c) # {} => First(Left(c)) \in Left(c)
        BY <1>0, <3>3, FirstOf
      <4>3. Left(c) = {} => First(Left(c)) = 0
        BY <1>0, <3>3, FirstOf
      <4> QED BY <3>2, <4>1, <4>2, <4>3
    <3>5. r \in OwnRows(c)
      BY <2>2, <3>1, <3>4
    <3> QED BY <3>1, <3>2, <3>5 DEF OwnRows
  <2>4. match(a) = First(Left(a)) /\ Left(a) = OwnRows(a)
    BY <2>2, <2>3
  <2> QED BY <1>1, <2>4
<1> QED BY <1>2, <1>3

-----------------------------------------------------------------------------
(* The effect windows are true *)

LEMMA GreatestOf ==
  ASSUME NEW n \in Nat, NEW S \in SUBSET (1..n), S # {}
  PROVE  /\ Max(S) \in S
         /\ \A y \in S : y <= Max(S)
<1> DEFINE T == {n - y : y \in S}
<1>1. T \in SUBSET Nat /\ T # {}
  <2>1. \A y \in S : y \in 1..n /\ n - y \in Nat
    OBVIOUS
  <2> QED BY <2>1
<1>2. Min(T) \in T /\ \A y \in T : Min(T) <= y
  <2> HIDE DEF T
  <2> QED BY <1>1, LeastOf
<1>3. PICK x \in S : Min(T) = n - x
  BY <1>2
<1>4. \A y \in S : x >= y
  <2> SUFFICES ASSUME NEW y \in S PROVE x >= y
    OBVIOUS
  <2>1. Min(T) <= n - y
    BY <1>2
  <2> HIDE DEF T
  <2> QED BY <1>3, <2>1
<1>5. Max(S) \in S /\ \A y \in S : Max(S) >= y
  BY <1>3, <1>4 DEF Max
<1>6. \A y \in S : y \in Int
  OBVIOUS
<1> QED BY <1>5, <1>6

LEMMA PreviousOf ==
  ASSUME TypeInv, NEW r \in Rows
  PROVE  LET before == {q \in AcceptedRows : q < r}
         IN /\ before = {} => Previous(r) = 0
            /\ before # {} => /\ Previous(r) \in AcceptedRows /\ Previous(r) < r /\ Previous(r) # 0
                              /\ \A q \in AcceptedRows : q < r => q <= Previous(r)
<1> DEFINE before == {q \in AcceptedRows : q < r}
<1>1. Rows = 1..Len(events) /\ Len(events) \in Nat
  BY NowTyped
<1>2. before \in SUBSET (1..Len(events))
  BY <1>1 DEF AcceptedRows, Rows
<1>3. CASE before = {}
  BY <1>3 DEF Previous
<1>4. CASE before # {}
  <2>1. Previous(r) = Max(before)
    BY <1>4 DEF Previous
  <2>2. Max(before) \in before /\ \A y \in before : y <= Max(before)
    <3> HIDE DEF before
    <3> QED BY <1>1, <1>2, <1>4, GreatestOf
  <2>3. Max(before) # 0
    BY <1>1, <1>2, <2>2
  <2> QED BY <1>4, <2>1, <2>2, <2>3
<1> QED BY <1>3, <1>4

\* In a replay run, the value a row wrote is the value the scorer takes it to have written.
LEMMA ValueIsTrue ==
  ASSUME TypeInv, ReplayInv, setting.scenario = "A3", NEW r \in Rows
  PROVE  Value(r) = events[r].wrote
BY DEF ReplayInv, LawHolds, Value

\* The hostile rows are the accepted rows of an action.
LEMMA HostileAre ==
  ASSUME TypeInv, CopyInv, \A a \in Actions : match(a) = Own(a)
  PROVE  HostileRows = {r \in AcceptedRows : events[r].act # 0}
<1>0. Files
  BY DEF TypeInv
<1>1. ASSUME NEW a \in Actions, outcome(a) = "accepted"
      PROVE  match(a) \in AcceptedRows /\ events[match(a)].act = a /\ a # 0
  <2>1. match(a) # 0 /\ events[match(a)].accepted
    BY <1>0, <1>1, OutcomeOf
  <2>2. match(a) = First({r \in Rows : events[r].act = a})
    BY DEF Own
  <2> DEFINE S == {r \in Rows : events[r].act = a}
  <2>3. S \in SUBSET Rows
    OBVIOUS
  <2>4. First(S) \in S
    <3>1. S = {} => First(S) = 0
      BY DEF First
    <3>2. S # {} => First(S) \in S
      <4> HIDE DEF S
      <4> QED BY <1>0, <2>3, FirstOf
    <3> QED BY <2>1, <2>2, <3>1, <3>2
  <2> QED BY <2>1, <2>2, <2>4, ActionTyped DEF AcceptedRows, Rows
<1>2. ASSUME NEW r \in AcceptedRows, events[r].act # 0
      PROVE  \E a \in Actions : outcome(a) = "accepted" /\ match(a) = r
  <2>1. r \in Rows /\ events[r].accepted /\ r # 0
    BY RowTyped DEF AcceptedRows, Rows
  <2> DEFINE a == events[r].act
             S == {q \in Rows : events[q].act = a}
  <2>2. a \in Actions
    BY <1>2, <2>1 DEF CopyInv, RowCopies, Copy
  <2>3. S = {r}
    BY <1>2, <2>1 DEF CopyInv, Once
  <2>4. First(S) \in S
    <3>1. S \in SUBSET Rows /\ S # {}
      BY <2>3
    <3> HIDE DEF S
    <3> QED BY <1>0, <3>1, FirstOf
  <2>5. match(a) = r
    BY <2>2, <2>3, <2>4 DEF Own
  <2> HIDE DEF a
  <2>6. outcome(a) = "accepted"
    BY <2>1, <2>5 DEF outcome
  <2> QED BY <2>2, <2>5, <2>6
<1> QED BY <1>1, <1>2 DEF HostileRows

\* Whether a window is open now.
LEMMA OpenWindow ==
  ASSUME TypeInv, ClockInv
  PROVE  (\E w \in effect_windows : w.start <= now /\ now < w.stop)
           <=> (\E r \in HostileRows : StateChanged(r) /\ Closer(r) = {})
<1>0. now \in Nat /\ now <= Horizon /\ Horizon \in Nat
  BY NowTyped, Constants
<1>h. \A r \in HostileRows : r \in Rows
  <2> SUFFICES ASSUME NEW a \in Actions, outcome(a) = "accepted" PROVE match(a) \in Rows
    BY DEF HostileRows
  <2>0. Files
    BY DEF TypeInv
  <2>1. match(a) # 0
    BY <2>0, OutcomeOf
  <2> QED BY <2>0, <2>1, MatchIsAnOutcome DEF Outcomes, Rows
<1>2. ASSUME NEW r \in HostileRows, Closer(r) # {} PROVE ~(now < Stop(r))
  <2>1. Closer(r) \in SUBSET Rows
    BY DEF Closer, AcceptedRows, Rows
  <2>2. Rows = 1..Len(events)
    BY NowTyped
  <2>3. Min(Closer(r)) \in Closer(r)
    <3>1. Closer(r) \in SUBSET Nat
      BY <2>1, <2>2
    <3> QED BY <1>2, <3>1, LeastOf
  <2> DEFINE m == Min(Closer(r))
  <2>4. m \in Rows
    BY <2>1, <2>3
  <2>5. Stop(r) = events[m].t
    BY <1>2 DEF Stop
  <2> HIDE DEF m
  <2>6. events[m].t <= now /\ events[m].t \in Nat
    BY <2>4, RowTyped DEF ClockInv, FilesOnTime
  <2> QED BY <1>0, <2>5, <2>6
<1>3. ASSUME NEW r \in HostileRows, Closer(r) = {} PROVE now < Stop(r) /\ events[r].t <= now
  <2>1. Stop(r) = Horizon + 1
    BY <1>3 DEF Stop, Never
  <2>2. events[r].t <= now
    BY <1>h DEF ClockInv, FilesOnTime
  <2> QED BY <1>0, <2>1, <2>2
<1>4. ASSUME NEW w \in effect_windows, w.start <= now, now < w.stop
      PROVE  \E r \in HostileRows : StateChanged(r) /\ Closer(r) = {}
  <2>1. PICK r \in HostileRows : StateChanged(r) /\ w = [row |-> r, start |-> events[r].t, stop |-> Stop(r)]
    BY DEF effect_windows
  <2>2. w.stop = Stop(r)
    BY <2>1
  <2> QED BY <1>2, <1>4, <2>1, <2>2
<1>5. ASSUME NEW r \in HostileRows, StateChanged(r), Closer(r) = {}
      PROVE  \E w \in effect_windows : w.start <= now /\ now < w.stop
  <2> DEFINE w == [row |-> r, start |-> events[r].t, stop |-> Stop(r)]
  <2>1. w \in effect_windows
    BY <1>5 DEF effect_windows
  <2>2. w.start = events[r].t /\ w.stop = Stop(r)
    OBVIOUS
  <2> HIDE DEF w
  <2> QED BY <1>3, <1>5, <2>1, <2>2
<1> QED BY <1>4, <1>5

\* A row that changed the parameter is the last to do so exactly when no later row writes
\* another value.
LEMMA LastChange ==
  ASSUME TypeInv, NEW r \in AcceptedRows, Previous(r) = 0 \/ Value(Previous(r)) # Value(r)
  PROVE  Closer(r) = {} <=> \A q \in AcceptedRows :
                              Previous(q) = 0 \/ Value(Previous(q)) # Value(q) => q <= r
<1>0. \A q \in AcceptedRows : q \in Rows /\ q \in Nat /\ q # 0
  BY RowTyped DEF AcceptedRows, Rows
<1>1. ASSUME Closer(r) = {}, NEW q \in AcceptedRows,
             Previous(q) = 0 \/ Value(Previous(q)) # Value(q), r < q
      PROVE  FALSE
  <2>1. /\ Previous(q) \in AcceptedRows /\ Previous(q) < q /\ Previous(q) # 0 /\ r <= Previous(q)
    BY <1>0, <1>1, PreviousOf
  <2>2. Value(Previous(q)) = Value(r)
    <3>1. Previous(q) = r \/ Previous(q) > r
      BY <1>0, <2>1
    <3> QED BY <1>1, <2>1, <3>1 DEF Closer
  <2>3. Value(q) = Value(r)
    BY <1>1, <1>0 DEF Closer
  <2> QED BY <1>1, <2>1, <2>2, <2>3
<1>2. ASSUME Closer(r) # {} PROVE \E q \in AcceptedRows :
                      (Previous(q) = 0 \/ Value(Previous(q)) # Value(q)) /\ ~(q <= r)
  <2>1. Closer(r) \in SUBSET Nat
    BY <1>0 DEF Closer
  <2> DEFINE q == Min(Closer(r))
  <2>2. q \in Closer(r) /\ \A y \in Closer(r) : q <= y
    BY <1>2, <2>1, LeastOf
  <2> HIDE DEF q
  <2>3. q \in AcceptedRows /\ r < q /\ Value(q) # Value(r)
    BY <1>0, <2>2 DEF Closer
  <2>4. /\ Previous(q) \in AcceptedRows /\ Previous(q) < q /\ r <= Previous(q)
    BY <1>0, <2>3, PreviousOf
  <2>5. Value(Previous(q)) = Value(r)
    <3> SUFFICES ASSUME Value(Previous(q)) # Value(r) PROVE FALSE
      OBVIOUS
    <3>1. Previous(q) > r
      BY <1>0, <2>4
    <3>2. Previous(q) \in Closer(r)
      BY <2>4, <3>1 DEF Closer
    <3> QED BY <1>0, <2>2, <2>3, <2>4, <3>2
  <2>6. ~(q <= r)
    BY <1>0, <2>3
  <2> QED BY <2>3, <2>5, <2>6
<1> QED BY <1>0, <1>1, <1>2

LEMMA ExposureIsTrue ==
  ASSUME TypeInv, ClockInv, CopyInv, ReplayInv, MatchIsTrue
  PROVE  ExposureIsInAWindow
<1> SUFFICES ASSUME setting.scenario = "A3", Undisturbed
             PROVE  HostileValueHolds <=> \E w \in effect_windows : w.start <= now /\ now < w.stop
  BY DEF ExposureIsInAWindow
<1>1. HostileRows = {r \in AcceptedRows : events[r].act # 0}
  BY HostileAre DEF MatchIsTrue
<1>0. Rows = 1..Len(events) /\ Len(events) \in Nat /\ AcceptedRows \subseteq Rows
  BY NowTyped DEF AcceptedRows, Rows
<1> DEFINE changes(r) == Previous(r) = 0 \/ Value(Previous(r)) # Value(r)
<1>2. Changes = {r \in AcceptedRows : changes(r)}
  <2>1. \A r \in AcceptedRows : Previous(r) = 0 \/ Previous(r) \in AcceptedRows
    BY <1>0, PreviousOf
  <2>2. \A r \in AcceptedRows : Value(r) = events[r].wrote
    BY <1>0, ValueIsTrue
  <2> QED BY <2>1, <2>2 DEF Changes
<1>3. \A r \in HostileRows : StateChanged(r) <=> changes(r)
  BY DEF StateChanged
<1>4. \A r \in AcceptedRows : changes(r) =>
        (Closer(r) = {} <=> \A q \in AcceptedRows : changes(q) => q <= r)
  BY LastChange
<1> HIDE DEF changes
<1>5. ASSUME HostileValueHolds PROVE \E r \in HostileRows : StateChanged(r) /\ Closer(r) = {}
  <2>1. Changes # {} /\ events[Max(Changes)].act # 0
    BY <1>5 DEF HostileValueHolds
  <2>2. Changes \in SUBSET (1..Len(events))
    BY <1>0, <1>2
  <2> DEFINE m == Max(Changes)
  <2>3. m \in Changes /\ \A y \in Changes : y <= m
    BY <1>0, <2>1, <2>2, GreatestOf
  <2> HIDE DEF m
  <2>4. m \in HostileRows
    BY <1>1, <1>2, <2>1, <2>3 DEF m
  <2>5. Closer(m) = {}
    BY <1>2, <1>4, <2>3
  <2> QED BY <1>2, <1>3, <2>3, <2>4, <2>5
<1>6. ASSUME NEW r \in HostileRows, StateChanged(r), Closer(r) = {} PROVE HostileValueHolds
  <2>1. r \in AcceptedRows /\ changes(r) /\ events[r].act # 0
    BY <1>1, <1>3, <1>6
  <2>2. r \in Changes /\ \A q \in Changes : q <= r
    BY <1>2, <1>4, <1>6, <2>1
  <2>3. Changes \in SUBSET (1..Len(events))
    BY <1>0, <1>2
  <2> DEFINE m == Max(Changes)
  <2>4. m \in Changes /\ r <= m
    BY <1>0, <2>2, <2>3, GreatestOf
  <2>5. m = r
    <3>1. m <= r
      BY <2>2, <2>4
    <3> HIDE DEF m
    <3> QED BY <2>2, <2>3, <2>4, <3>1
  <2> QED BY <2>1, <2>2, <2>5 DEF HostileValueHolds
<1> QED BY <1>5, <1>6, OpenWindow

-----------------------------------------------------------------------------
(* D1 turns down hostile commands alone *)

\* The commands in flight whose tag is good and whose number was not used before.
IsFresh(f) == f.signed /\ (f.act # 0 => setting.scenario # "A3")
Fresh == {f \in flight : IsFresh(f)}

\* They arrive in the order of their numbers.
InOrder ==
  /\ \A f \in Fresh : lastAccepted < f.seq /\ f.seq <= sent /\ f.due < nextCommand + Transit
  /\ \A f, g \in Fresh : f.seq < g.seq => f.due < g.due
  /\ \A f, g \in Fresh : f.seq = g.seq => f = g

\* The captured command was accepted, or is still on its way.
Replayable ==
  captured # << >> => \/ captured[1].seq <= lastAccepted
                      \/ \E f \in Fresh : f.seq = captured[1].seq /\ f.id = captured[1].id

OrderInv ==
  setting.auth /\ ~raced =>
    /\ lastAccepted <= sent
    /\ InOrder
    /\ Replayable
    /\ \A f \in flight : f.act = 0 => f.signed
    /\ \A f \in flight : f.signed /\ ~IsFresh(f) => f.seq <= lastAccepted
    /\ \A r \in Rows : events[r].act = 0 => events[r].accepted

LEMMA OrderInit == Init => OrderInv
BY DEF Init, OrderInv, InOrder, Replayable, Fresh, Rows

\* A fresh command that leaves is the last to arrive.
LEMMA AddsFresh ==
  ASSUME TypeInv, InOrder, lastAccepted <= sent, NEW x \in Telecommand,
         x.seq = sent + 1, x.due = now + Transit, flight' \subseteq flight \cup {x},
         sent' = sent + 1, now = nextCommand, nextCommand' = now + CommandInterval,
         UNCHANGED <<setting, lastAccepted>>
  PROVE  InOrder'
<1>1. /\ sent \in Nat /\ lastAccepted \in Nat /\ now \in Nat /\ Transit \in Nat
      /\ CommandInterval \in Nat /\ CommandInterval # 0
  BY NowTyped, Constants
<1>2. Fresh' \subseteq Fresh \cup {x}
  BY DEF Fresh, IsFresh
<1>3. \A f \in Fresh : /\ f.seq \in Nat /\ f.due \in Nat /\ lastAccepted < f.seq
                       /\ f.seq <= sent /\ f.due < now + Transit
  BY FlightTyped DEF InOrder, Fresh
<1>4. \A f \in Fresh' : lastAccepted' < f.seq /\ f.seq <= sent' /\ f.due < nextCommand' + Transit
  BY <1>1, <1>2, <1>3
<1>5. ASSUME NEW f \in Fresh', NEW g \in Fresh'
      PROVE  (f.seq < g.seq => f.due < g.due) /\ (f.seq = g.seq => f = g)
  <2>1. CASE f \in Fresh /\ g \in Fresh
    BY <2>1 DEF InOrder
  <2>2. CASE f \in Fresh /\ g = x
    BY <1>1, <1>3, <2>2
  <2>3. CASE f = x /\ g \in Fresh
    BY <1>1, <1>3, <2>3
  <2>4. CASE f = x /\ g = x
    BY <1>1, <2>4
  <2> QED BY <1>2, <2>1, <2>2, <2>3, <2>4
<1> QED BY <1>4, <1>5 DEF InOrder

LEMMA OrderStep ==
  ASSUME TypeInv, ClockInv, NumberInv, OrderInv, [Next]_vars PROVE OrderInv'
<1>0. /\ sent \in Nat /\ now \in Nat /\ Transit \in Nat /\ lastAccepted \in Nat
      /\ nextCommand \in Nat /\ CommandInterval \in Nat
  BY NowTyped, Constants
<1>s. setting' = setting /\ (raced => raced')
  <2>1. CASE InjectStep
    <3>1. PICK x : raced' = (raced \/ \E f \in flight : f.id = x.id)
      BY <2>1 DEF InjectStep, Injects
    <3>2. raced => raced'
      BY <3>1, Zenon
    <3> QED BY <2>1, <3>2 DEF InjectStep
  <2>2. CASE Idle \/ OwnStep \/ TamperStep \/ ArriveStep
    <3>1. setting' = setting /\ raced' = raced
      BY <2>2 DEF Idle, OwnStep, TamperStep, ArriveStep, Arrives
    <3> QED BY <3>1, Zenon
  <2> QED BY <2>1, <2>2, StepKinds
<1> SUFFICES ASSUME setting.auth, ~raced' PROVE OrderInv'
  BY <1>s DEF OrderInv
<1>9. /\ ~raced /\ lastAccepted <= sent /\ InOrder /\ Replayable
      /\ \A f \in flight : f.act = 0 => f.signed
      /\ \A f \in flight : f.signed /\ ~IsFresh(f) => f.seq <= lastAccepted
      /\ \A r \in Rows : events[r].act = 0 => events[r].accepted
  BY <1>s DEF OrderInv
<1>1. CASE Idle
  <2>1. UNCHANGED <<setting, sent, captured, flight, lastAccepted, events>> /\ nextCommand <= nextCommand'
    BY <1>1 DEF Idle
  <2>2. nextCommand' \in Nat
    BY TypeStep DEF TypeInv
  <2>3. Fresh' = Fresh
    BY <2>1 DEF Fresh, IsFresh
  <2>4. InOrder'
    <3>1. \A f \in Fresh : f.due < nextCommand' + Transit
      <4> SUFFICES ASSUME NEW f \in Fresh PROVE f.due < nextCommand' + Transit
        OBVIOUS
      <4>1. f.due \in Nat /\ f.due < nextCommand + Transit
        BY <1>9, FlightTyped DEF InOrder, Fresh
      <4> QED BY <1>0, <2>1, <2>2, <4>1
    <3> QED BY <1>9, <2>1, <2>3, <3>1 DEF InOrder
  <2> QED BY <1>9, <2>1, <2>3, <2>4 DEF OrderInv, Replayable, IsFresh, Rows
<1>2. CASE OwnStep
  <2>1. /\ UNCHANGED <<setting, lastAccepted, events>> /\ sent' = sent + 1
        /\ now = nextCommand /\ nextCommand' = now + CommandInterval
    BY <1>2 DEF OwnStep, SendsOwn
  <2>2. PICK x \in Telecommand : /\ x.due = now + Transit /\ flight' = flight \cup {x}
                                 /\ x.id = sent + 1 /\ x.seq = sent + 1 /\ x.act = 0
                                 /\ x.signed = TRUE
    BY <1>2 DEF OwnStep, SendsOwn
  <2>3. InOrder'
    BY <1>9, <2>1, <2>2, AddsFresh
  <2>4. Fresh' = Fresh \cup {x}
    BY <2>1, <2>2 DEF Fresh, IsFresh
  <2>5. Replayable'
    <3>1. captured' = captured \/ captured' = <<GroundCommand>>
      BY <1>2 DEF OwnStep, SendsOwn
    <3>2. CASE captured' = <<GroundCommand>>
      <4>1. captured'[1] = GroundCommand
        BY <3>2
      <4>2. x.seq = captured'[1].seq /\ x.id = captured'[1].id
        BY <2>2, <4>1, GroundCommandTyped
      <4> QED BY <2>4, <4>2 DEF Replayable
    <3> QED BY <1>9, <2>1, <2>4, <3>1, <3>2 DEF Replayable
  <2> QED BY <1>0, <1>9, <2>1, <2>2, <2>3, <2>5 DEF OrderInv, IsFresh, Rows
<1>3. CASE TamperStep
  <2>1. /\ UNCHANGED <<setting, lastAccepted, events, captured>> /\ sent' = sent + 1
        /\ now = nextCommand /\ nextCommand' = now + CommandInterval
        /\ setting.scenario \in {"A1", "A2v"}
    BY <1>3 DEF TamperStep, SendsTampered
  <2>2. PICK x : \E d \in AddedDelays \cup {0} :
                   /\ Leaves(x, d) /\ x.seq = sent + 1 /\ x.act = Len(truth) + 1
                   /\ setting.scenario = "A2v" => d = 0
                   /\ x.signed = (setting.scenario = "A2v")
    BY <1>3 DEF TamperStep, SendsTampered
  <2>3. PICK d \in AddedDelays \cup {0} : Leaves(x, d) /\ (setting.scenario = "A2v" => d = 0)
    BY <2>2
  <2>4. /\ x \in Telecommand /\ flight' \subseteq flight \cup {x} /\ flight \subseteq flight'
        /\ x.due = now + d + Transit /\ x.act # 0
    BY <2>2, <2>3, NowTyped DEF Leaves
  <2>5. Fresh \subseteq Fresh'
    BY <2>1, <2>4 DEF Fresh, IsFresh
  <2>6. InOrder'
    <3>1. CASE setting.scenario = "A2v"
      <4>1. x.due = now + Transit
        BY <1>0, <2>3, <2>4, <3>1
      <4> QED BY <1>9, <2>1, <2>2, <2>4, <4>1, AddsFresh
    <3>2. CASE setting.scenario = "A1"
      <4>1. Fresh' = Fresh
        BY <2>1, <2>2, <2>4, <2>5, <3>2 DEF Fresh, IsFresh
      <4>2. ASSUME NEW f \in Fresh
            PROVE  f.seq <= sent' /\ f.due < nextCommand' + Transit
        <5>1. f.seq \in Nat /\ f.due \in Nat /\ f.seq <= sent /\ f.due < nextCommand + Transit
          BY <1>9, FlightTyped DEF InOrder, Fresh
        <5> QED BY <1>0, <2>1, <5>1
      <4> QED BY <1>9, <2>1, <4>1, <4>2 DEF InOrder
    <3> QED BY <2>1, <3>1, <3>2
  <2>7. Replayable'
    BY <1>9, <2>1, <2>5 DEF Replayable
  <2>8. \A f \in flight' : f.signed /\ ~IsFresh(f)' => f.seq <= lastAccepted'
    <3>1. x.signed => IsFresh(x)'
      BY <2>1, <2>2 DEF IsFresh
    <3>2. \A f \in flight : IsFresh(f)' = IsFresh(f)
      BY <2>1 DEF IsFresh
    <3> QED BY <1>9, <2>1, <2>4, <3>1, <3>2
  <2>9. \A f \in flight' : f.act = 0 => f.signed
    BY <1>9, <2>4
  <2>10. lastAccepted' <= sent'
    BY <1>0, <1>9, <2>1
  <2>11. \A r \in Rows' : events'[r].act = 0 => events'[r].accepted
    BY <1>9, <2>1 DEF Rows
  <2> QED BY <2>6, <2>7, <2>8, <2>9, <2>10, <2>11 DEF OrderInv
<1>4. CASE InjectStep
  <2>1. UNCHANGED <<setting, sent, nextCommand, captured, lastAccepted, events>>
    BY <1>4 DEF InjectStep
  <2>2. PICK x \in Telecommand :
          /\ Leaves(x, 0) /\ x.act = Len(truth) + 1
          /\ raced' = (raced \/ \E f \in flight : f.id = x.id)
          /\ setting.scenario = "A3" =>
               captured # << >> /\ x.id = captured[1].id /\ x.seq = captured[1].seq
          /\ setting.scenario # "A3" => x.signed = FALSE
    BY <1>4 DEF InjectStep, Injects
  <2>3. flight' \subseteq flight \cup {x} /\ flight \subseteq flight' /\ x.act # 0
    BY <2>2, NowTyped DEF Leaves
  <2>4. ~IsFresh(x)'
    BY <2>1, <2>2, <2>3 DEF IsFresh
  <2>5. \A f \in flight : IsFresh(f)' = IsFresh(f)
    BY <2>1 DEF IsFresh
  <2>6. Fresh' = Fresh
    BY <2>3, <2>4, <2>5 DEF Fresh
  <2>7. InOrder' /\ Replayable'
    BY <1>9, <2>1, <2>6 DEF InOrder, Replayable
  <2>8. x.signed => x.seq <= lastAccepted
    <3> SUFFICES ASSUME setting.scenario = "A3" PROVE x.seq <= lastAccepted
      BY <2>2
    <3>1. \A f \in flight : f.id # captured[1].id
      BY <2>2
    <3> QED BY <1>9, <2>2, <3>1 DEF Replayable, Fresh
  <2>9. \A f \in flight' : f.signed /\ ~IsFresh(f)' => f.seq <= lastAccepted'
    BY <1>9, <2>1, <2>3, <2>5, <2>8
  <2>10. \A f \in flight' : f.act = 0 => f.signed
    BY <1>9, <2>3
  <2> QED BY <1>9, <2>1, <2>7, <2>9, <2>10 DEF OrderInv, Rows
<1>5. CASE ArriveStep
  <2>1. PICK tc \in flight : Arrives(tc)
    BY <1>5 DEF ArriveStep
  <2>2. /\ UNCHANGED <<setting, sent, nextCommand, captured>> /\ flight' = flight \ {tc}
        /\ tc.due = now
    BY <2>1 DEF Arrives, ground, relay
  <2>3. PICK n \in Nat : n = Len(events) + 1
    BY NowTyped
  <2>4. /\ Rows' = Rows \cup {n} /\ \A r \in Rows : events'[r] = events[r]
        /\ events'[n] = [t |-> now, id |-> tc.id, accepted |-> Accepted(tc), act |-> tc.act,
                         wrote |-> tc.value]
    BY <2>1, <2>3, RowAdded
  <2>5. events'[n].act = tc.act /\ events'[n].accepted = Accepted(tc)
    BY <2>4
  <2>6. Accepted(tc) <=> tc.signed /\ tc.seq > lastAccepted
    BY DEF Accepted
  <2>7. tc.seq \in Nat
    BY FlightTyped
  <2>8. \A f \in flight : IsFresh(f)' = IsFresh(f)
    BY <2>2 DEF IsFresh
  <2>9. Fresh' = Fresh \ {tc}
    BY <2>2, <2>8 DEF Fresh
  <2>10. CASE IsFresh(tc)
    <3>1. tc \in Fresh /\ lastAccepted < tc.seq /\ tc.seq <= sent /\ tc.signed
      BY <1>9, <2>10 DEF Fresh, InOrder, IsFresh
    <3>2. Accepted(tc) /\ lastAccepted' = tc.seq
      BY <1>0, <2>1, <2>6, <2>7, <3>1 DEF Arrives
    <3>3. \A f \in Fresh' : lastAccepted' < f.seq
      <4> SUFFICES ASSUME NEW f \in Fresh, f # tc PROVE tc.seq < f.seq
        BY <2>9, <3>2
      <4>1. f.seq \in Nat /\ f.due \in Nat /\ now <= f.due
        BY FlightTyped DEF Fresh, ClockInv, FlightOnTime
      <4>2. ~(f.due < tc.due)
        BY <1>0, <2>2, <4>1
      <4>3. ~(f.seq < tc.seq) /\ f.seq # tc.seq
        BY <1>9, <3>1, <4>2 DEF InOrder
      <4> QED BY <2>7, <4>1, <4>3
    <3>4. InOrder'
      BY <1>9, <2>2, <2>9, <3>3 DEF InOrder
    <3>5. Replayable'
      <4> SUFFICES ASSUME captured # << >> PROVE Replayable'
        BY <2>2 DEF Replayable
      <4>1. captured[1].seq \in Nat
        <5>1. captured[1] \in Telecommand
          BY DEF TypeInv
        <5> QED BY <5>1 DEF Telecommand
      <4>2. CASE captured[1].seq <= lastAccepted
        BY <1>0, <2>2, <2>7, <3>1, <3>2, <4>1, <4>2 DEF Replayable
      <4>3. CASE \E f \in Fresh : f.seq = captured[1].seq /\ f.id = captured[1].id
        <5>1. PICK f \in Fresh : f.seq = captured[1].seq /\ f.id = captured[1].id
          BY <4>3
        <5>2. CASE f = tc
          BY <2>2, <2>7, <3>2, <5>1, <5>2 DEF Replayable
        <5>3. CASE f # tc
          BY <2>2, <2>9, <5>1, <5>3 DEF Replayable
        <5> QED BY <5>2, <5>3
      <4> QED BY <1>9, <4>2, <4>3 DEF Replayable
    <3>6. \A f \in flight' : f.signed /\ ~IsFresh(f)' => f.seq <= lastAccepted'
      <4> SUFFICES ASSUME NEW f \in flight, f.signed, ~IsFresh(f) PROVE f.seq <= tc.seq
        BY <2>2, <2>8, <3>2
      <4>1. f.seq \in Nat /\ f.seq <= lastAccepted
        BY <1>9, FlightTyped
      <4> QED BY <1>0, <2>7, <3>1, <4>1
    <3>7. \A r \in Rows' : events'[r].act = 0 => events'[r].accepted
      BY <1>9, <2>4, <2>5, <3>2
    <3> QED BY <1>9, <2>2, <3>1, <3>2, <3>4, <3>5, <3>6, <3>7 DEF OrderInv
  <2>11. CASE ~IsFresh(tc)
    <3>1. ~Accepted(tc)
      BY <1>0, <1>9, <2>6, <2>7, <2>11
    <3>2. lastAccepted' = lastAccepted
      BY <2>1, <3>1 DEF Arrives
    <3>3. Fresh' = Fresh
      BY <2>9, <2>11 DEF Fresh
    <3>4. tc.act # 0
      BY <1>9, <2>11 DEF IsFresh
    <3>5. \A r \in Rows' : events'[r].act = 0 => events'[r].accepted
      BY <1>9, <2>4, <2>5, <3>4
    <3>6. InOrder' /\ Replayable'
      BY <1>9, <2>2, <3>2, <3>3 DEF InOrder, Replayable
    <3> QED BY <1>9, <2>2, <2>8, <3>2, <3>5, <3>6 DEF OrderInv
  <2> QED BY <2>10, <2>11
<1> QED BY <1>1, <1>2, <1>3, <1>4, <1>5, StepKinds

-----------------------------------------------------------------------------
(* The telemetry that the ground saw *)

RejectedBefore(t) == {r \in Rows : ~events[r].accepted /\ events[r].t < t}

\* A sample holds the count of the rejections before it.
Sampled(src, rej) ==
  /\ src <= now /\ src < nextTelemetry /\ Even(src)
  /\ rej = Cardinality(RejectedBefore(src))

Expected(i) == IF i = 1 THEN 0 ELSE observed[i - 1].rej

HoldsIn(s) == \A i \in DOMAIN s : Sampled(s[i].src, s[i].rej)

SamplesHold == HoldsIn(downlink) /\ HoldsIn(observed)
SamplesOrdered ==
  /\ \A i, j \in DOMAIN downlink : i < j => downlink[i].src < downlink[j].src
  /\ \A i, j \in DOMAIN observed : i < j => observed[i].src < observed[j].src
  /\ \A i \in DOMAIN observed, j \in DOMAIN downlink : observed[i].src < downlink[j].src
AlarmsHold ==
  \A i \in DOMAIN observed : observed[i].alarm = (observed[i].rej # Expected(i))

TelemetryInv == SamplesHold /\ SamplesOrdered /\ AlarmsHold

LEMMA TelemetryInit == Init => TelemetryInv
BY DEF Init, TelemetryInv, SamplesHold, SamplesOrdered, AlarmsHold, HoldsIn

LEMMA TelemetryTyped ==
  ASSUME TypeInv
  PROVE  /\ DOMAIN downlink = 1..Len(downlink) /\ Len(downlink) \in Nat
         /\ DOMAIN observed = 1..Len(observed) /\ Len(observed) \in Nat
         /\ \A i \in DOMAIN downlink : /\ i \in Nat /\ downlink[i] \in Sample
                                       /\ downlink[i].src \in Nat /\ downlink[i].rej \in Nat
         /\ \A i \in DOMAIN observed : /\ i \in Nat /\ observed[i] \in Observation
                                       /\ observed[i].src \in Nat /\ observed[i].rej \in Nat
                                       /\ observed[i].alarm \in BOOLEAN
<1>1. downlink \in Seq(Sample) /\ observed \in Seq(Observation)
  BY DEF TypeInv
<1>2. /\ \A s \in Sample : s.src \in Nat /\ s.rej \in Nat
      /\ \A s \in Observation : s.src \in Nat /\ s.rej \in Nat /\ s.alarm \in BOOLEAN
  BY DEF Sample, Observation
<1> QED BY <1>1, <1>2

\* A sample stays true of what comes after it.
LEMMA SampledKept ==
  ASSUME TypeInv, TypeInv', now <= now', nextTelemetry <= nextTelemetry',
         \/ events' = events
         \/ \E tc \in flight : Arrives(tc),
         NEW src \in Nat, NEW rej, Sampled(src, rej)
  PROVE  Sampled(src, rej)'
<1>0. now \in Nat /\ now' \in Nat /\ nextTelemetry \in Nat /\ nextTelemetry' \in Nat
  BY Constants DEF TypeInv
<1>1. src <= now' /\ src < nextTelemetry' /\ src <= now
  BY <1>0 DEF Sampled
<1>2. RejectedBefore(src)' = RejectedBefore(src)
  <2>1. CASE events' = events
    BY <2>1 DEF RejectedBefore, Rows
  <2>2. ASSUME NEW tc \in flight, Arrives(tc) PROVE RejectedBefore(src)' = RejectedBefore(src)
    <3>1. PICK n \in Nat : n = Len(events) + 1
      BY NowTyped
    <3>2. /\ Rows' = Rows \cup {n} /\ \A r \in Rows : events'[r] = events[r]
          /\ events'[n] = [t |-> now, id |-> tc.id, accepted |-> Accepted(tc), act |-> tc.act,
                           wrote |-> tc.value]
      BY <2>2, <3>1, RowAdded
    <3>3. ~(events'[n].t < src)
      <4>1. events'[n].t = now
        BY <3>2
      <4> QED BY <1>0, <1>1, <4>1
    <3> QED BY <3>2, <3>3 DEF RejectedBefore
  <2> QED BY <2>1, <2>2
<1> QED BY <1>1, <1>2 DEF Sampled

LEMMA HoldKept ==
  ASSUME TypeInv, TypeInv', now <= now', nextTelemetry <= nextTelemetry',
         \/ events' = events
         \/ \E tc \in flight : Arrives(tc),
         NEW CONSTANT s, \A i \in DOMAIN s : s[i].src \in Nat, HoldsIn(s)
  PROVE  HoldsIn(s)'
BY SampledKept DEF HoldsIn

LEMMA TelemetryStep ==
  ASSUME TypeInv, ClockInv, TelemetryInv, [Next]_vars PROVE TelemetryInv'
<1>0. /\ now \in Nat /\ nextTelemetry \in Nat /\ TelemetryInterval \in Nat /\ TelemetryInterval # 0
      /\ TypeInv'
  BY NowTyped, Constants, TypeStep
<1>9. SamplesHold /\ SamplesOrdered /\ AlarmsHold
  BY DEF TelemetryInv
<1>d. PICK d : d = downlink
  OBVIOUS
<1>o. PICK o : o = observed
  OBVIOUS
<1>t. /\ DOMAIN d = 1..Len(d) /\ Len(d) \in Nat /\ d \in Seq(Sample)
      /\ DOMAIN o = 1..Len(o) /\ Len(o) \in Nat /\ o \in Seq(Observation)
      /\ \A i \in DOMAIN d : i \in Nat /\ d[i].src \in Nat
      /\ \A i \in DOMAIN o : i \in Nat /\ o[i].src \in Nat
  <2>1. d \in Seq(Sample) /\ o \in Seq(Observation)
    BY <1>d, <1>o DEF TypeInv
  <2> QED BY <1>d, <1>o, <2>1, TelemetryTyped
<1>h. HoldsIn(d) /\ HoldsIn(o)
  BY <1>9, <1>d, <1>o DEF SamplesHold
<1>1. ASSUME UNCHANGED telemetry, now <= now',
             events' = events \/ \E tc \in flight : Arrives(tc)
      PROVE  TelemetryInv'
  <2>1. UNCHANGED <<downlink, observed, nextTelemetry>> /\ nextTelemetry <= nextTelemetry'
    BY <1>0, <1>1 DEF telemetry
  <2>2. HoldsIn(d)' /\ HoldsIn(o)'
    BY <1>0, <1>1, <1>t, <1>h, <2>1, HoldKept
  <2>3. SamplesHold'
    BY <1>d, <1>o, <2>1, <2>2 DEF SamplesHold, HoldsIn, Sampled, RejectedBefore
  <2>4. SamplesOrdered' /\ AlarmsHold'
    BY <1>9, <2>1 DEF SamplesOrdered, AlarmsHold, Expected
  <2> QED BY <2>3, <2>4 DEF TelemetryInv
<1>2. CASE SendCommand \/ Interfere \/ UNCHANGED vars
  <2>1. UNCHANGED <<now, telemetry, events>>
    BY <1>2 DEF SendCommand, Interfere, vars
  <2> QED BY <1>0, <1>1, <2>1
<1>3. CASE Arrive
  <2>1. PICK tc \in flight : Arrives(tc)
    BY <1>3, ArriveDoes
  <2>2. UNCHANGED <<now, telemetry>>
    BY <2>1 DEF Arrives
  <2> QED BY <1>0, <1>1, <2>1, <2>2
<1>4. CASE Tick
  <2>1. UNCHANGED <<telemetry, events>> /\ now <= now'
    BY <1>0, <1>4 DEF Tick
  <2> QED BY <1>1, <2>1
<1>5. CASE SendTelemetry
  <2>1. /\ now = nextTelemetry /\ nextTelemetry' = now + TelemetryInterval
        /\ UNCHANGED <<now, observed, events>>
    BY <1>5 DEF SendTelemetry
  <2>2. now <= now' /\ nextTelemetry <= nextTelemetry' /\ now < nextTelemetry'
    BY <1>0, <2>1
  <2>3. HoldsIn(d)' /\ HoldsIn(o)'
    BY <1>0, <1>t, <1>h, <2>1, <2>2, HoldKept
  <2>4. AlarmsHold'
    BY <1>9, <2>1 DEF AlarmsHold, Expected
  <2>5. CASE downlink' = downlink
    <3>1. SamplesHold'
      BY <1>d, <1>o, <2>1, <2>3, <2>5 DEF SamplesHold, HoldsIn, Sampled, RejectedBefore
    <3>2. SamplesOrdered'
      BY <1>9, <2>1, <2>5 DEF SamplesOrdered
    <3> QED BY <2>4, <3>1, <3>2 DEF TelemetryInv
  <2>6. ASSUME downlink' = Append(d, [src |-> now, rej |-> rejectedCmdCount, due |-> now + Transit])
        PROVE  TelemetryInv'
    <3>n. PICK n \in Nat : n = Len(d) + 1
      BY <1>t
    <3>u. PICK u \in Nat : u = now
      BY <1>0
    <3>e. PICK e : e = [src |-> now, rej |-> rejectedCmdCount, due |-> now + Transit]
      OBVIOUS
    <3>0. e \in Sample
      BY <1>0, <3>e, CountTyped, Constants DEF TypeInv, Sample
    <3>1. /\ n = Len(d) + 1 /\ u = now
          /\ e = [src |-> now, rej |-> rejectedCmdCount, due |-> now + Transit]
      BY <3>n, <3>u, <3>e
    <3>2. PICK e2 : e2 = downlink'
      OBVIOUS
    <3>3. /\ DOMAIN e2 = 1..n /\ e2[n] = e /\ \A i \in DOMAIN d : e2[i] = d[i]
          /\ DOMAIN e2 = DOMAIN d \cup {n} /\ \A i \in DOMAIN d : i < n
      BY <1>t, <2>6, <3>0, <3>1, <3>2
    <3>4. e.src = u /\ e.rej = rejectedCmdCount
      BY <3>1
    <3>5. Sampled(e.src, e.rej)'
      <4>1. Even(u) /\ u < nextTelemetry' /\ u <= now'
        BY <1>0, <2>1, <2>2, <3>1 DEF ClockInv, TimersOnTime
      <4>2. \A r \in Rows : events[r].t < u
        <5>1. \A t \in Nat : t <= u /\ Odd(t) => t < u
          BY <4>1 DEF Even, Odd
        <5> QED BY <3>1, <5>1, RowTyped DEF ClockInv, FilesOnTime
      <4>3. RejectedBefore(u) = {r \in DOMAIN events : ~events[r].accepted}
        BY <4>2 DEF RejectedBefore, Rows
      <4>4. RejectedBefore(u)' = RejectedBefore(u)
        BY <2>1 DEF RejectedBefore, Rows
      <4> QED BY <3>4, <4>1, <4>3, <4>4 DEF Sampled, rejectedCmdCount
    <3>6. HoldsIn(e2)'
      BY <2>3, <3>3, <3>5 DEF HoldsIn
    <3>7. SamplesHold'
      BY <1>o, <2>1, <2>3, <3>2, <3>6 DEF SamplesHold, HoldsIn, Sampled, RejectedBefore
    <3>8. /\ \A i \in DOMAIN d : d[i].src < u
          /\ \A i \in DOMAIN o : o[i].src < u
      BY <1>h, <2>1, <3>1 DEF HoldsIn, Sampled
    <3>9. SamplesOrdered'
      <4>1. /\ \A i, j \in DOMAIN d : i < j => d[i].src < d[j].src
            /\ \A i, j \in DOMAIN o : i < j => o[i].src < o[j].src
            /\ \A i \in DOMAIN o, j \in DOMAIN d : o[i].src < d[j].src
        BY <1>9, <1>d, <1>o DEF SamplesOrdered
      <4>2. \A i, j \in DOMAIN e2 : i < j => e2[i].src < e2[j].src
        <5> SUFFICES ASSUME NEW i \in DOMAIN e2, NEW j \in DOMAIN e2, i < j
                     PROVE  e2[i].src < e2[j].src
          OBVIOUS
        <5>1. i \in DOMAIN d
          BY <1>t, <3>1, <3>3
        <5>2. CASE j = n
          BY <3>3, <3>4, <3>8, <5>1, <5>2
        <5>3. CASE j \in DOMAIN d
          BY <3>3, <4>1, <5>1, <5>3
        <5> QED BY <3>3, <5>2, <5>3
      <4>3. \A i \in DOMAIN o, j \in DOMAIN e2 : o[i].src < e2[j].src
        BY <3>3, <3>4, <3>8, <4>1
      <4> QED BY <1>o, <2>1, <3>2, <4>1, <4>2, <4>3 DEF SamplesOrdered
    <3> QED BY <2>4, <3>7, <3>9 DEF TelemetryInv
  <2>7. \/ downlink' = downlink
        \/ downlink' = Append(d, [src |-> now, rej |-> rejectedCmdCount, due |-> now + Transit])
    BY <1>5, <1>d DEF SendTelemetry
  <2> QED BY <2>5, <2>6, <2>7
<1>6. CASE ReceiveTelemetry
  <2>1. /\ d # << >> /\ downlink' = Tail(d) /\ UNCHANGED <<now, nextTelemetry, events>>
        /\ observed' = Append(o, [src |-> Head(d).src, recv |-> now, rej |-> Head(d).rej,
                                  alarm |-> Head(d).rej # expectedRejectedCount])
    BY <1>6, <1>d, <1>o DEF ReceiveTelemetry
  <2>2. HoldsIn(d)' /\ HoldsIn(o)'
    <3>1. now <= now' /\ nextTelemetry <= nextTelemetry' /\ events' = events
      BY <1>0, <2>1
    <3> QED BY <1>0, <1>t, <1>h, <3>1, HoldKept
  <2>3. PICK n \in Nat, e \in Observation :
          /\ n = Len(o) + 1
          /\ e = [src |-> Head(d).src, recv |-> now, rej |-> Head(d).rej,
                  alarm |-> Head(d).rej # expectedRejectedCount]
    <3>1. Head(d) \in Sample
      BY <1>t, <2>1
    <3>2. [src |-> Head(d).src, recv |-> now, rej |-> Head(d).rej,
           alarm |-> Head(d).rej # expectedRejectedCount] \in Observation
      BY <1>0, <3>1 DEF Sample, Observation
    <3> QED BY <1>t, <3>2
  <2>4. PICK p, q : p = observed' /\ q = downlink'
    OBVIOUS
  <2>5. /\ p[n] = e /\ \A i \in DOMAIN o : p[i] = o[i]
        /\ DOMAIN p = DOMAIN o \cup {n} /\ \A i \in DOMAIN o : i < n
    BY <1>t, <2>1, <2>3, <2>4
  <2>6. /\ Head(d) = d[1] /\ 1 \in DOMAIN d
        /\ \A i \in DOMAIN q : i \in Nat /\ i # 0 /\ i + 1 \in DOMAIN d /\ q[i] = d[i + 1]
    BY <1>t, <2>1, <2>4
  <2>7. e.src = d[1].src /\ e.rej = d[1].rej /\ e.alarm = (d[1].rej # expectedRejectedCount)
    BY <2>3, <2>6
  <2>8. SamplesHold'
    <3>1. HoldsIn(p)'
      BY <2>2, <2>5, <2>6, <2>7 DEF HoldsIn
    <3>2. HoldsIn(q)'
      BY <2>2, <2>6 DEF HoldsIn
    <3> QED BY <2>4, <3>1, <3>2 DEF SamplesHold, HoldsIn, Sampled, RejectedBefore
  <2>9. SamplesOrdered'
    <3>1. /\ \A i, j \in DOMAIN d : i < j => d[i].src < d[j].src
          /\ \A i, j \in DOMAIN o : i < j => o[i].src < o[j].src
          /\ \A i \in DOMAIN o, j \in DOMAIN d : o[i].src < d[j].src
      BY <1>9, <1>d, <1>o DEF SamplesOrdered
    <3>2. \A i, j \in DOMAIN p : i < j => p[i].src < p[j].src
      <4> SUFFICES ASSUME NEW i \in DOMAIN p, NEW j \in DOMAIN p, i < j PROVE p[i].src < p[j].src
        OBVIOUS
      <4>1. i \in DOMAIN o
        BY <2>3, <2>5, <1>t
      <4>2. CASE j = n
        BY <2>5, <2>6, <2>7, <3>1, <4>1, <4>2
      <4>3. CASE j \in DOMAIN o
        BY <2>5, <3>1, <4>1, <4>3
      <4> QED BY <2>5, <4>2, <4>3
    <3>3. \A i, j \in DOMAIN q : i < j => q[i].src < q[j].src
      <4> SUFFICES ASSUME NEW i \in DOMAIN q, NEW j \in DOMAIN q, i < j PROVE q[i].src < q[j].src
        OBVIOUS
      <4>1. i + 1 < j + 1
        BY <2>6
      <4> QED BY <2>6, <3>1, <4>1
    <3>4. \A i \in DOMAIN p, j \in DOMAIN q : p[i].src < q[j].src
      <4> SUFFICES ASSUME NEW i \in DOMAIN p, NEW j \in DOMAIN q PROVE p[i].src < q[j].src
        OBVIOUS
      <4>1. j + 1 \in DOMAIN d /\ q[j] = d[j + 1] /\ 1 < j + 1
        BY <2>6
      <4>2. CASE i = n
        BY <2>5, <2>6, <2>7, <3>1, <4>1, <4>2
      <4>3. CASE i \in DOMAIN o
        BY <2>5, <3>1, <4>1, <4>3
      <4> QED BY <2>5, <4>2, <4>3
    <3> QED BY <2>4, <3>2, <3>3, <3>4 DEF SamplesOrdered
  <2>10. AlarmsHold'
    <3>1. \A i \in DOMAIN o : o[i].alarm = (o[i].rej # (IF i = 1 THEN 0 ELSE o[i - 1].rej))
      BY <1>9, <1>o DEF AlarmsHold, Expected
    <3>2. expectedRejectedCount = IF n = 1 THEN 0 ELSE o[n - 1].rej
      <4>1. n = 1 <=> o = << >>
        BY <1>t, <2>3
      <4>2. n - 1 = Len(o)
        BY <1>t, <2>3
      <4> QED BY <1>o, <4>1, <4>2 DEF expectedRejectedCount, Last
    <3>3. ASSUME NEW i \in DOMAIN p
          PROVE  p[i].alarm = (p[i].rej # (IF i = 1 THEN 0 ELSE p[i - 1].rej))
      <4>1. i # 1 => i - 1 \in DOMAIN o
        BY <1>t, <2>3, <2>5
      <4>2. i # 1 => p[i - 1] = o[i - 1]
        BY <2>5, <4>1
      <4>3. CASE i \in DOMAIN o
        BY <2>5, <3>1, <4>2, <4>3
      <4>4. CASE i = n
        BY <2>5, <2>7, <3>2, <4>2, <4>4
      <4> QED BY <2>5, <4>3, <4>4
    <3> QED BY <2>4, <3>3 DEF AlarmsHold, Expected
  <2> QED BY <2>8, <2>9, <2>10 DEF TelemetryInv
<1> QED BY <1>2, <1>3, <1>4, <1>5, <1>6 DEF Next

-----------------------------------------------------------------------------
(* The reporting is true *)

Rejected == {x \in Rows : ~events[x].accepted}

\* The rejected rows are those that the actions are credited with.
LEMMA RejectedAre ==
  ASSUME TypeInv, CopyInv, \A a \in Actions : match(a) = Own(a),
         \A x \in Rejected : events[x].act # 0
  PROVE  /\ \A a \in ActionsWith("rejected") : match(a) \in Rejected
         /\ \A x \in Rejected : \E a \in ActionsWith("rejected") : match(a) = x
<1>0. Files
  BY DEF TypeInv
<1>1. ASSUME NEW a \in Actions, outcome(a) = "rejected"
      PROVE  match(a) \in Rejected
  <2>1. match(a) # 0 /\ ~events[match(a)].accepted
    BY <1>0, <1>1, OutcomeOf
  <2>2. match(a) \in Rows
    BY <1>0, <2>1, MatchIsAnOutcome DEF Outcomes, Rows
  <2> QED BY <2>1, <2>2 DEF Rejected
<1>2. ASSUME NEW r \in Rejected
      PROVE  \E a \in Actions : outcome(a) = "rejected" /\ match(a) = r
  <2>1. r \in Rows /\ ~events[r].accepted /\ r # 0 /\ events[r].act # 0
    BY RowTyped DEF Rejected
  <2> DEFINE a == events[r].act
             S == {q \in Rows : events[q].act = a}
  <2>2. a \in Actions
    BY <2>1 DEF CopyInv, RowCopies, Copy
  <2>3. S = {r}
    BY <2>1 DEF CopyInv, Once
  <2>4. First(S) \in S
    <3>1. S \in SUBSET Rows /\ S # {}
      BY <2>3
    <3> HIDE DEF S
    <3> QED BY <1>0, <3>1, FirstOf
  <2>5. match(a) = r
    BY <2>2, <2>3, <2>4 DEF Own
  <2> HIDE DEF a
  <2>6. outcome(a) = "rejected"
    BY <2>1, <2>5 DEF outcome
  <2> QED BY <2>2, <2>5, <2>6
<1> QED BY <1>1, <1>2 DEF ActionsWith

LEMMA PrecedingIs ==
  ASSUME TypeInv, NEW o,
         \A a \in ActionsWith("rejected") : match(a) \in Rejected,
         \A x \in Rejected : \E a \in ActionsWith("rejected") : match(a) = x
  PROVE  Preceding(o) = Cardinality(RejectedBefore(o.src))
<1>0. Files
  BY DEF TypeInv
<1> DEFINE S == {a \in ActionsWith("rejected") : events[match(a)].t < o.src}
           T == RejectedBefore(o.src)
           f == [a \in S |-> match(a)]
<1>1. S \subseteq Actions /\ \A a \in S : match(a) \in Rows /\ match(a) # 0
  BY RowTyped DEF ActionsWith, Rejected
<1>2. IsFiniteSet(S)
  BY <1>0, <1>1, ActionsFinite
<1>3. f \in [S -> T]
  BY DEF RejectedBefore, Rejected
<1>4. \A x, y \in S : f[x] = f[y] => x = y
  BY <1>0, <1>1, MatchIsInjective
<1>5. \A y \in T : \E x \in S : f[x] = y
  BY DEF RejectedBefore, Rejected
<1>6. Preceding(o) = Cardinality(S)
  BY DEF Preceding
<1> HIDE DEF S, T, f
<1>7. Cardinality(T) = Cardinality(S)
  BY <1>2, <1>3, <1>4, <1>5, SameSize
<1> QED BY <1>6, <1>7 DEF T

LEMMA ReportingHolds ==
  ASSUME TypeInv, ClockInv, CopyInv, OrderInv, TelemetryInv, MatchIsTrue
  PROVE  ReportingIsTrue
<1> SUFFICES ASSUME f4_applicable, Undisturbed, NEW r \in Rejected
             PROVE  LET first == events[Min(Rejected)]
                        after == {i \in DOMAIN observed : observed[i].src > events[r].t}
                    IN /\ events[r].act # 0
                       /\ secondary_reporting(events[r].t) =
                            IF after = {} THEN "no_reporting_opportunity"
                            ELSE IF first.t < observed[1].src THEN "unresolved" ELSE "reported"
  BY DEF ReportingIsTrue, Rejected
<1>0. \A x \in Rejected : /\ x \in Rows /\ x \in Nat /\ x # 0
                          /\ events[x].t \in Nat /\ Odd(events[x].t)
  BY RowTyped DEF Rejected, ClockInv, FilesOnTime
<1>1. \A x \in Rejected : events[x].act # 0
  BY DEF OrderInv, f4_applicable, Undisturbed, Rejected
<1>2. /\ \A a \in ActionsWith("rejected") : match(a) \in Rejected
      /\ \A x \in Rejected : \E a \in ActionsWith("rejected") : match(a) = x
  BY <1>1, RejectedAre DEF MatchIsTrue
<1>3. RejectionTimes = {events[x].t : x \in Rejected}
  BY <1>2 DEF RejectionTimes
<1> DEFINE first == events[Min(Rejected)]
           t == events[r].t
           after == Eligible(t)
<1>4. first.t \in Nat /\ first.t \in RejectionTimes /\ \A x \in Rejected : first.t <= events[x].t
  <2>1. Rejected \in SUBSET Nat
    BY <1>0
  <2> DEFINE m == Min(Rejected)
  <2>2. m \in Rejected /\ \A x \in Rejected : m <= x
    BY <2>1, LeastOf
  <2> HIDE DEF m
  <2>3. ASSUME NEW x \in Rejected PROVE events[m].t <= events[x].t
    <3>1. m = x \/ m < x
      BY <1>0, <2>2
    <3>2. CASE m < x
      BY <1>0, <2>2, <3>2 DEF ClockInv, FilesOnTime
    <3> QED BY <1>0, <3>1, <3>2
  <2> QED BY <1>0, <1>3, <2>2, <2>3 DEF m
<1> HIDE DEF first
<1>5. \A i \in DOMAIN observed :
        /\ i \in Nat /\ i # 0 /\ observed[i].src \in Nat /\ Even(observed[i].src)
        /\ observed[i].rej = Cardinality(RejectedBefore(observed[i].src))
        /\ observed[i].alarm = (observed[i].rej # Expected(i))
  BY TelemetryTyped DEF TelemetryInv, SamplesHold, HoldsIn, Sampled, AlarmsHold
<1>6. CASE after = {}
  BY <1>1, <1>6 DEF secondary_reporting, Eligible
<1>7. CASE after # {}
  <2> DEFINE j == Min(after)
  <2>1. j \in after /\ \A i \in after : j <= i
    <3>1. after \in SUBSET Nat
      BY <1>5 DEF Eligible
    <3> QED BY <1>7, <3>1, LeastOf
  <2>2. /\ secondary_reporting(t) =
              LET o == observed[j]
              IN IF baseline = Unset \/ o.rej # baseline + Preceding(o) THEN "unresolved"
                 ELSE IF o.alarm THEN "reported" ELSE "not_reported"
    BY <1>7 DEF secondary_reporting
  <2> HIDE DEF j
  <2>3. j \in DOMAIN observed /\ observed[j].src > t /\ 1 \in DOMAIN observed
    BY <2>1, TelemetryTyped DEF Eligible
  <2> DEFINE before == {i \in DOMAIN observed : \A u \in RejectionTimes : observed[i].src < u}
  <2>4. CASE first.t < observed[1].src
    <3>1. before = {}
      <4> SUFFICES ASSUME NEW i \in DOMAIN observed, observed[i].src < first.t PROVE FALSE
        BY <1>4
      <4>1. i = 1 \/ 1 < i
        BY <1>5
      <4>2. 1 < i => observed[1].src < observed[i].src
        BY <2>3 DEF TelemetryInv, SamplesOrdered
      <4>3. observed[i].src \in Nat /\ observed[1].src \in Nat
        BY <1>5, <2>3
      <4> QED BY <1>4, <2>4, <4>1, <4>2, <4>3
    <3>2. baseline = Unset
      BY <3>1 DEF baseline
    <3>3. secondary_reporting(t) = "unresolved"
      BY <2>2, <3>2
    <3> QED BY <1>1, <1>7, <2>4, <3>3 DEF first, Eligible
  <2>5. CASE ~(first.t < observed[1].src)
    <3>1. observed[1].src < first.t
      <4>1. observed[1].src \in Nat /\ Even(observed[1].src) /\ Odd(first.t)
        BY <1>0, <1>3, <1>4, <1>5, <2>3
      <4> QED BY <1>4, <2>5, <4>1 DEF Even, Odd
    <3>2. 1 \in before
      <4> SUFFICES ASSUME NEW x \in Rejected PROVE observed[1].src < events[x].t
        BY <1>3, <2>3
      <4>1. events[x].t \in Nat /\ first.t <= events[x].t /\ observed[1].src \in Nat
        BY <1>0, <1>4, <1>5, <2>3
      <4> QED BY <1>4, <3>1, <4>1
    <3> DEFINE b == Max(before)
    <3>3. b \in before
      <4>1. before \in SUBSET (1..Len(observed)) /\ Len(observed) \in Nat
        BY TelemetryTyped
      <4> HIDE DEF before
      <4> QED BY <3>2, <4>1, GreatestOf
    <3>4. baseline = observed[b].rej
      BY <3>2 DEF baseline
    <3> HIDE DEF b
    <3>5. RejectedBefore(observed[b].src) = {}
      <4> SUFFICES ASSUME NEW x \in Rejected, events[x].t < observed[b].src PROVE FALSE
        BY DEF RejectedBefore, Rejected
      <4>1. observed[b].src < events[x].t
        BY <1>3, <3>3
      <4>2. events[x].t \in Nat /\ observed[b].src \in Nat
        BY <1>0, <1>5, <3>3
      <4> QED BY <4>1, <4>2
    <3>6. baseline = 0
      BY <1>5, <3>3, <3>4, <3>5, FS_EmptySet
    <3>7. Preceding(observed[j]) = observed[j].rej /\ observed[j].rej \in Nat
      BY <1>2, <1>5, <2>3, PrecedingIs, TelemetryTyped
    <3>8. observed[j].alarm
      <4>1. j # 1 /\ j - 1 \in DOMAIN observed /\ j \in Nat
        <5>1. j # 1
          <6>1. first.t <= t /\ observed[1].src \in Nat /\ t \in Nat
            BY <1>0, <1>4, <1>5, <2>3
          <6> QED BY <1>4, <2>3, <3>1, <6>1
        <5> QED BY <2>3, <5>1, TelemetryTyped
      <4> DEFINE p == j - 1
      <4>2. observed[p].src < observed[j].src
        BY <2>3, <4>1 DEF TelemetryInv, SamplesOrdered
      <4>3. ~(observed[p].src > t)
        BY <2>1, <4>1 DEF Eligible
      <4>4. /\ observed[p].src \in Nat /\ observed[j].src \in Nat /\ t \in Nat
            /\ observed[p].rej = Cardinality(RejectedBefore(observed[p].src))
            /\ observed[j].rej = Cardinality(RejectedBefore(observed[j].src))
            /\ Expected(j) = observed[p].rej
        BY <1>0, <1>5, <2>3, <4>1 DEF Expected
      <4> HIDE DEF p
      <4> DEFINE P == RejectedBefore(observed[p].src)
                 J == RejectedBefore(observed[j].src)
      <4>5. P \subseteq J
        <5>1. \A x \in Rows : events[x].t \in Nat
          BY RowTyped
        <5> QED BY <4>2, <4>4, <5>1 DEF RejectedBefore
      <4>6. r \in J /\ r \notin P
        <5>1. r \in J
          BY <2>3, <4>4, <1>0 DEF RejectedBefore, Rejected
        <5>2. r \notin P
          BY <4>3, <4>4 DEF RejectedBefore
        <5> QED BY <5>1, <5>2
      <4>7. IsFiniteSet(J)
        <5>1. J \in SUBSET Rows /\ Files
          BY DEF RejectedBefore, TypeInv
        <5> QED BY <5>1, RowsFinite
      <4>8. Cardinality(P) # Cardinality(J)
        <5> HIDE DEF P, J
        <5> QED BY <4>5, <4>6, <4>7, FS_Subset
      <4> QED BY <1>5, <2>3, <4>4, <4>8
    <3>9. secondary_reporting(t) = "reported"
      <4>1. baseline # Unset /\ observed[j].rej = baseline + Preceding(observed[j])
        BY <3>6, <3>7 DEF Unset
      <4> QED BY <2>2, <3>8, <4>1
    <3> QED BY <1>1, <1>7, <2>5, <3>9 DEF first, Eligible
  <2> QED BY <2>4, <2>5
<1> QED BY <1>6, <1>7

-----------------------------------------------------------------------------
(* The theorems *)

ScorerInv ==
  /\ TypeInv /\ ClockInv /\ NumberInv /\ CopyInv /\ OwnInv /\ ReplayInv
  /\ OrderInv /\ TelemetryInv

\* ScorerInv is inductive: no step of the ground, the relay, the link, the satellite, its
\* telemetry or the clock breaks what the three theorems on the scorer rest on.
THEOREM ScorerInvariant == Spec => []ScorerInv
<1>1. Init => ScorerInv
  BY InitTyped, ClockInit, NumberInit, CopyInit, OwnInit, ReplayInit, OrderInit, TelemetryInit
     DEF ScorerInv
<1>2. ScorerInv /\ [Next]_vars => ScorerInv'
  BY TypeStep, ClockStep, NumberStep, CopyStep, OwnKept, ReplayKept, OrderStep, TelemetryStep
     DEF ScorerInv
<1> QED BY <1>1, <1>2, PTL DEF Spec

\* families.py: every delivery is of an outcome of its own, the two effects add up to the
\* hostile acceptances, and each change of state opens one effect window.
THEOREM FamiliesAlwaysAgree == Spec => []FamiliesAgree
<1>1. ScorerInv => FamiliesAgree
  BY FamiliesAddUp DEF ScorerInv, TypeInv
<1> QED BY <1>1, ScorerInvariant, PTL

\* matching.py: when no copy met its original in flight and no outcome older than its action
\* was credited, every action is credited with the outcome of its own command, and with none
\* when there is none.
THEOREM MatchIsAlwaysTrue == Spec => []MatchIsTrue
<1>1. ScorerInv => MatchIsTrue
  BY MatchIsOwn DEF ScorerInv
<1> QED BY <1>1, ScorerInvariant, PTL

\* state.py: in a replay run, an effect window is open exactly while the parameter has a value
\* that a hostile command put there.
THEOREM ExposureIsAlwaysInAWindow == Spec => []ExposureIsInAWindow
<1>1. ScorerInv => ExposureIsInAWindow
  BY MatchIsOwn, ExposureIsTrue DEF ScorerInv
<1> QED BY <1>1, ScorerInvariant, PTL

\* families.py, F4: D1 turns down hostile commands alone, and the evidence of each rejection is
\* reported by the first packet sampled after it, the one the twin alarms on, unless there is no
\* such packet or there was no telemetry before the first rejection.
THEOREM ReportingIsAlwaysTrue == Spec => []ReportingIsTrue
<1>1. ScorerInv => ReportingIsTrue
  BY MatchIsOwn, ReportingHolds DEF ScorerInv
<1> QED BY <1>1, ScorerInvariant, PTL
=============================================================================
