---------------------------- MODULE LogVerified -----------------------------
(***************************************************************************)
(* What the anchor gives, for any number of records and of edits: a log    *)
(* that the verifier passes is the log that was written.  The chain of the *)
(* file plays no part in it, since it can be rewritten: the argument rests *)
(* on the head that only the run itself moves.                             *)
(*                                                                         *)
(* And what the chain gives where it was not rewritten: every row carries  *)
(* the digest of a prefix of what was written, so that a row that fits the *)
(* records above it stands where the run wrote it.                         *)
(***************************************************************************)
EXTENDS ForensicLog, SequenceTheorems, WellFoundedInduction, TLAPS

\* The head is what was written, and stands in the anchor once the run is over.
AnchorInv ==
  /\ head \in Seq(Record) /\ written = head
  /\ phase = "finished" => anchor = head

LEMMA AnchorInit == Init => AnchorInv
BY DEF Init, AnchorInv

\* The steps of the run.
LEMMA AnchorRun ==
  ASSUME AnchorInv, \/ \E e \in Event : LogEvent(e)
                    \/ Finish \/ Crash
  PROVE  AnchorInv'
<1>1. ASSUME NEW e \in Event, LogEvent(e) PROVE AnchorInv'
  <2>1. Len(head) \in 0..(MaxRecords - 1)
    BY <1>1, LogAssumption DEF AnchorInv, LogEvent
  <2>2. [idx |-> Len(head), event |-> e] \in Record
    BY <2>1 DEF Record
  <2> QED
    BY <1>1, <2>2 DEF AnchorInv, LogEvent
<1>2. ASSUME Finish PROVE AnchorInv'
  BY <1>2 DEF AnchorInv, Finish
<1>3. ASSUME Crash PROVE AnchorInv'
  BY <1>3 DEF AnchorInv, Crash
<1> QED
  BY <1>1, <1>2, <1>3

\* Nothing that is done to the file reaches the head or the anchor.
LEMMA AnchorEdits ==
  ASSUME AnchorInv, Delete \/ Alter \/ Exchange \/ Rechain
  PROVE  AnchorInv'
<1>1. UNCHANGED <<head, anchor, phase, written>>
  BY DEF Delete, Alter, Exchange, Rechain, Edit
<1> QED
  BY <1>1 DEF AnchorInv

\* The invariant holds in every state.
THEOREM Anchored == Spec => []AnchorInv
<1>1. ASSUME AnchorInv, [Next]_vars PROVE AnchorInv'
  <2>1. CASE UNCHANGED vars
    BY <1>1, <2>1 DEF AnchorInv, vars
  <2>2. CASE Next
    BY <1>1, <2>2, AnchorRun, AnchorEdits DEF Next
  <2> QED
    BY <1>1, <2>1, <2>2
<1> QED
  BY <1>1, AnchorInit, PTL DEF Spec

\* A log that verifies against its anchor is the log the run wrote
\* (Collector.cc, finish; verify_chain.py, cmd_verify).
THEOREM VerifiedLog == Spec => []VerifiedIsWritten
<1>1. AnchorInv => VerifiedIsWritten
  <2>1. SUFFICES ASSUME AnchorInv, phase = "finished", Verify(file, anchor)
                 PROVE  Records(file) = written
    BY DEF VerifiedIsWritten
  <2>2. anchor # NoAnchor
    BY <2>1, LogAssumption DEF AnchorInv
  <2> QED
    BY <2>1, <2>2 DEF AnchorInv, Verify, ComputedHead
<1> QED
  BY <1>1, Anchored, PTL

-----------------------------------------------------------------------------
(* Above the break                                                         *)

Row == [record : Record, prev : Seq(Record), chain : Seq(Record)]

\* The chain value of every row is the digest of a prefix of what was written.
OfPrefix(row, s) == \E m \in 1..Len(s) : row.chain = SubSeq(s, 1, m)

RowsInv ==
  /\ file \in Seq(Row)
  /\ ~rechained => \A k \in DOMAIN file : OfPrefix(file[k], written)

LEMMA RowTyped ==
  ASSUME NEW rows \in Seq(Row), NEW k \in 1..Len(rows)
  PROVE  /\ rows[k] \in Row /\ rows[k].record \in Record
         /\ rows[k].prev \in Seq(Record) /\ rows[k].chain \in Seq(Record)
<1>1. rows[k] \in Row
  OBVIOUS
<1> QED BY <1>1 DEF Row

LEMMA RecordsTyped ==
  ASSUME NEW rows \in Seq(Row)
  PROVE  /\ Records(rows) \in Seq(Record) /\ Len(Records(rows)) = Len(rows)
         /\ \A k \in DOMAIN rows : Records(rows)[k] = rows[k].record
         /\ \A n \in 0..Len(rows) : /\ SubSeq(Records(rows), 1, n) \in Seq(Record)
                                    /\ Len(SubSeq(Records(rows), 1, n)) = n
                                    /\ \A k \in 1..n : SubSeq(Records(rows), 1, n)[k] = rows[k].record
<1>1. \A k \in 1..Len(rows) : rows[k] \in Row /\ rows[k].record \in Record
  BY RowTyped
<1>2. Records(rows) \in Seq(Record)
  <2>1. Len(rows) \in Nat /\ Records(rows) \in [1..Len(rows) -> Record]
    BY <1>1 DEF Records
  <2> QED BY <2>1, SeqDef
<1>3. Len(Records(rows)) = Len(rows) /\ \A k \in DOMAIN rows : Records(rows)[k] = rows[k].record
  BY <1>2 DEF Records
<1>4. ASSUME NEW n \in 0..Len(rows)
      PROVE  /\ SubSeq(Records(rows), 1, n) \in Seq(Record)
             /\ Len(SubSeq(Records(rows), 1, n)) = n
             /\ \A k \in 1..n : SubSeq(Records(rows), 1, n)[k] = rows[k].record
  <2> DEFINE r == Records(rows)
  <2>1. r \in Seq(Record) /\ Len(r) = Len(rows) /\ \A k \in 1..n : r[k] = rows[k].record
    BY <1>2, <1>3
  <2> HIDE DEF r
  <2>2. SubSeq(r, 1, n) \in Seq(Record) /\ Len(SubSeq(r, 1, n)) = n
        /\ \A k \in 1..n : SubSeq(r, 1, n)[k] = r[k]
    BY <2>1
  <2> QED BY <2>1, <2>2 DEF r
<1> QED BY <1>2, <1>3, <1>4

LEMMA PrefixTyped ==
  ASSUME NEW s \in Seq(Record), NEW n \in 0..Len(s)
  PROVE  /\ SubSeq(s, 1, n) \in Seq(Record) /\ Len(SubSeq(s, 1, n)) = n
         /\ \A k \in 1..n : SubSeq(s, 1, n)[k] = s[k]
OBVIOUS

LEMMA WithoutRows ==
  ASSUME NEW rows \in Seq(Row), NEW d \in DOMAIN rows
  PROVE  /\ Without(rows, d) \in Seq(Row) /\ Len(Without(rows, d)) = Len(rows) - 1
         /\ \A k \in DOMAIN Without(rows, d) :
              LET j == IF k < d THEN k ELSE k + 1
              IN  j \in DOMAIN rows /\ Without(rows, d)[k] = rows[j]
<1> DEFINE above == SubSeq(rows, 1, d - 1)
           below == SubSeq(rows, d + 1, Len(rows))
<1>1. Len(rows) \in Nat /\ d \in 1..Len(rows) /\ \A k \in 1..Len(rows) : rows[k] \in Row
  OBVIOUS
<1>2. above \in Seq(Row) /\ Len(above) = d - 1 /\ \A k \in 1..(d - 1) : above[k] = rows[k]
  BY <1>1
<1>3. /\ below \in Seq(Row) /\ Len(below) = Len(rows) - d
      /\ \A k \in 1..(Len(rows) - d) : below[k] = rows[d + k]
  BY <1>1, SubSeqProperties
<1>4. Without(rows, d) = above \o below
  BY DEF Without
<1> HIDE DEF above, below
<1>5. /\ above \o below \in Seq(Row) /\ Len(above \o below) = Len(rows) - 1
      /\ \A k \in 1..(Len(rows) - 1) : (above \o below)[k] =
            IF k <= d - 1 THEN above[k] ELSE below[k - (d - 1)]
  BY <1>1, <1>2, <1>3, ConcatProperties
<1>6. ASSUME NEW k \in 1..(Len(rows) - 1)
      PROVE  LET j == IF k < d THEN k ELSE k + 1
             IN  j \in 1..Len(rows) /\ (above \o below)[k] = rows[j]
  <2>1. CASE k < d
    BY <1>1, <1>2, <1>5, <2>1
  <2>2. CASE ~(k < d)
    <3>1. k - (d - 1) \in 1..(Len(rows) - d) /\ d + (k - (d - 1)) = k + 1
      BY <1>1, <2>2
    <3> QED BY <1>1, <1>3, <1>5, <2>2, <3>1
  <2> QED BY <2>1, <2>2
<1>7. DOMAIN (above \o below) = 1..(Len(rows) - 1) /\ DOMAIN rows = 1..Len(rows)
  BY <1>1, <1>5
<1> QED BY <1>4, <1>5, <1>6, <1>7

\* Rows that were taken from the file, in any order, keep their chain values.
LEMMA RowsMoved ==
  ASSUME RowsInv, UNCHANGED <<written, rechained>>, file' \in Seq(Row),
         \A k \in DOMAIN file' : \E j \in DOMAIN file : file'[k].chain = file[j].chain
  PROVE  RowsInv'
BY DEF RowsInv, OfPrefix

LEMMA RowsStep ==
  ASSUME AnchorInv, RowsInv, [Next]_vars
  PROVE  RowsInv'
<1> USE DEF RowsInv
<1>1. ASSUME NEW e \in Event, LogEvent(e) PROVE RowsInv'
  <2> DEFINE record == [idx |-> Len(head), event |-> e]
             row == [record |-> record, prev |-> head, chain |-> head']
  <2>1. /\ head' = Append(head, record) /\ written' = Append(written, record)
        /\ file' = Append(file, row) /\ UNCHANGED rechained
        /\ Len(head) < MaxRecords
    BY <1>1 DEF LogEvent
  <2>2. record \in Record /\ head \in Seq(Record) /\ written = head
    BY <2>1, LogAssumption DEF AnchorInv, Record
  <2> HIDE DEF record
  <2>3. head' \in Seq(Record) /\ written' = head' /\ Len(written') = Len(written) + 1
    BY <2>1, <2>2
  <2>4. row \in Row
    BY <2>2, <2>3 DEF Row
  <2>5. \A m \in 1..Len(written) : SubSeq(written', 1, m) = SubSeq(written, 1, m)
    BY <2>1, <2>2
  <2>6. SubSeq(written', 1, Len(written')) = head'
    BY <2>3
  <2> HIDE DEF row
  <2>7. file' \in Seq(Row) /\ Len(file') = Len(file) + 1 /\ file'[Len(file')] = row
        /\ \A k \in DOMAIN file : file'[k] = file[k]
    BY <2>1, <2>4
  <2>8. row.chain = head'
    BY DEF row
  <2>9. Len(written) \in Nat
    BY <2>2
  <2>10. ASSUME ~rechained, NEW k \in DOMAIN file PROVE OfPrefix(file'[k], written')
    BY <2>3, <2>5, <2>7, <2>9, <2>10 DEF OfPrefix
  <2>11. OfPrefix(file'[Len(file')], written')
    BY <2>3, <2>6, <2>7, <2>8, <2>9 DEF OfPrefix
  <2> QED BY <2>1, <2>7, <2>10, <2>11
<1>2. CASE Finish \/ UNCHANGED vars
  BY <1>2 DEF Finish, vars, OfPrefix
<1>3. CASE Crash
  <2>1. PICK n \in 0..Len(file) : file' = SubSeq(file, 1, n)
    BY <1>3 DEF Crash
  <2>2. file' \in Seq(Row) /\ \A k \in DOMAIN file' : k \in DOMAIN file /\ file'[k] = file[k]
    BY <2>1
  <2> QED BY <1>3, <2>2, RowsMoved DEF Crash
<1>4. CASE Delete
  <2>1. PICK d \in DOMAIN file : file' = Without(file, d) /\ UNCHANGED <<written, rechained>>
    BY <1>4 DEF Delete, Edit
  <2>2. /\ file' \in Seq(Row)
        /\ \A k \in DOMAIN file' : file'[k] = file[IF k < d THEN k ELSE k + 1]
                                   /\ (IF k < d THEN k ELSE k + 1) \in DOMAIN file
    BY <2>1, WithoutRows
  <2> QED BY <2>1, <2>2, RowsMoved
<1>5. CASE Alter
  <2>1. PICK a \in DOMAIN file, e \in Event :
           file' = [file EXCEPT ![a].record.event = e] /\ UNCHANGED <<written, rechained>>
    BY <1>5 DEF Alter, Edit
  <2>2. file' \in Seq(Row) /\ DOMAIN file' = DOMAIN file
        /\ \A k \in DOMAIN file : file'[k].chain = file[k].chain
    <3> DEFINE altered == [file[a] EXCEPT !.record.event = e]
    <3>1. file' = [file EXCEPT ![a] = altered]
      BY <2>1
    <3>2. altered \in Row /\ altered.chain = file[a].chain
      <4>1. file[a] \in Row /\ e \in Event
        BY RowTyped
      <4>2. [file[a].record EXCEPT !.event = e] \in Record
        BY <4>1 DEF Row, Record
      <4> QED BY <4>1, <4>2 DEF Row
    <3> HIDE DEF altered
    <3> QED BY <3>1, <3>2
  <2> QED BY <2>1, <2>2, RowsMoved
<1>6. CASE Exchange
  <2>1. PICK x \in DOMAIN file \ {1} :
           /\ file' = [file EXCEPT ![x - 1] = file[x], ![x] = file[x - 1]]
           /\ UNCHANGED <<written, rechained>>
    BY <1>6 DEF Exchange, Edit
  <2>2. x - 1 \in DOMAIN file
    OBVIOUS
  <2>3. file' \in Seq(Row) /\ DOMAIN file' = DOMAIN file
        /\ \A k \in DOMAIN file : file'[k] \in {file[k], file[x], file[x - 1]}
    BY <2>1, <2>2
  <2> QED BY <2>1, <2>2, <2>3, RowsMoved
<1>7. CASE Rechain
  <2>1. \A k \in DOMAIN file : /\ SubSeq(Records(file), 1, k - 1) \in Seq(Record)
                               /\ SubSeq(Records(file), 1, k) \in Seq(Record)
                               /\ file[k].record \in Record
    <3> SUFFICES ASSUME NEW k \in DOMAIN file
                 PROVE  /\ SubSeq(Records(file), 1, k - 1) \in Seq(Record)
                        /\ SubSeq(Records(file), 1, k) \in Seq(Record)
                        /\ file[k].record \in Record
      OBVIOUS
    <3>1. k \in 1..Len(file) /\ k \in 0..Len(file) /\ k - 1 \in 0..Len(file)
      OBVIOUS
    <3> QED BY <3>1, RecordsTyped, RowTyped
  <2>2. rechained' /\ file' \in [1..Len(file) -> Row] /\ Len(file) \in Nat
    BY <1>7, <2>1 DEF Rechain, Row
  <2>3. file' \in Seq(Row)
    BY <2>2, SeqDef
  <2> QED BY <2>2, <2>3
<1> QED BY <1>1, <1>2, <1>3, <1>4, <1>5, <1>6, <1>7 DEF Next

LEMMA LeastExists ==
  ASSUME NEW S \in SUBSET Nat, S # {}
  PROVE  \E x \in S : \A y \in S : x <= y
<1>1. PICK x \in S : \A y \in S : ~(<<y, x>> \in OpToRel(<, Nat))
  BY NatLessThanWellFounded, WFMin
<1>2. ASSUME NEW y \in S PROVE x <= y
  <2>1. <<y, x>> \in Nat \X Nat
    OBVIOUS
  <2>2. ~(y < x)
    BY <1>1, <2>1 DEF OpToRel
  <2> QED BY <2>2
<1> QED BY <1>2

\* The rows above the first break are not broken.
LEMMA Unbroken ==
  ASSUME NEW rows \in Seq(Row)
  PROVE  /\ FirstBreak(rows) \in 0..Len(rows)
         /\ FirstBreak(rows) = 0 => \A k \in 1..Len(rows) : ~Broken(rows, k)
         /\ FirstBreak(rows) # 0 => /\ Broken(rows, FirstBreak(rows))
                                    /\ \A k \in 1..(FirstBreak(rows) - 1) : ~Broken(rows, k)
<1> DEFINE broken == {k \in DOMAIN rows : Broken(rows, k)}
<1>1. Len(rows) \in Nat /\ broken \subseteq 1..Len(rows) /\ \A k \in 1..Len(rows) : k \in broken <=> Broken(rows, k)
  OBVIOUS
<1>2. FirstBreak(rows) = IF broken = {} THEN 0
                         ELSE CHOOSE k \in broken : \A j \in broken : k <= j
  BY DEF FirstBreak
<1> HIDE DEF broken
<1>3. CASE broken = {}
  BY <1>1, <1>2, <1>3
<1>4. CASE broken # {}
  <2>1. \E k \in broken : \A j \in broken : k <= j
    BY <1>1, <1>4, LeastExists
  <2>2. FirstBreak(rows) \in broken /\ \A j \in broken : FirstBreak(rows) <= j
    BY <1>2, <1>4, <2>1
  <2>3. FirstBreak(rows) \in 1..Len(rows) /\ Broken(rows, FirstBreak(rows))
    BY <1>1, <2>2
  <2>4. ASSUME NEW k \in 1..(FirstBreak(rows) - 1) PROVE ~Broken(rows, k)
    BY <1>1, <2>2, <2>3
  <2> QED BY <1>1, <2>3, <2>4
<1> QED BY <1>3, <1>4

LEMMA SoundRows ==
  ASSUME AnchorInv, RowsInv,
         ~rechained => \A k \in DOMAIN file : ~Broken(file, k) =>
                         k <= Len(written) /\ file[k].record = written[k]
  PROVE  AboveTheBreak
<1> SUFFICES ASSUME ~rechained PROVE AboveTheBreak
  BY DEF AboveTheBreak
<1> DEFINE sound == IF FirstBreak(file) = 0 THEN Len(file) ELSE FirstBreak(file) - 1
<1>1. /\ sound \in 0..Len(file) /\ Len(written) \in Nat /\ Len(file) \in Nat
      /\ \A k \in 1..sound : k \in DOMAIN file /\ ~Broken(file, k)
  BY Unbroken DEF RowsInv, AnchorInv
<1> HIDE DEF sound
<1>2. \A k \in 1..sound : k <= Len(written) /\ file[k].record = written[k]
  BY <1>1
<1>3. sound <= Len(written)
  BY <1>1, <1>2
<1> QED BY <1>2, <1>3 DEF AboveTheBreak, sound

\* Whatever was deleted, altered or exchanged, the rows above the first break are
\* those that the run wrote there (verify_chain.py, recompute).
THEOREM SoundAbove == Spec => []AboveTheBreak
<1>1. Init => RowsInv
  BY DEF Init, RowsInv
<1>2. AnchorInv /\ RowsInv => AboveTheBreak
  <2>1. SUFFICES ASSUME AnchorInv, RowsInv, ~rechained,
                        NEW k \in DOMAIN file, ~Broken(file, k)
                 PROVE  k <= Len(written) /\ file[k].record = written[k]
    BY SoundRows
  <2>2. PICK m \in 1..Len(written) : file[k].chain = SubSeq(written, 1, m)
    BY <2>1 DEF RowsInv, OfPrefix
  <2>3. file[k].chain = SubSeq(Records(file), 1, k) /\ k \in 1..Len(file)
    BY <2>1 DEF Broken, RowsInv
  <2>4. Len(SubSeq(written, 1, m)) = m /\ SubSeq(written, 1, m)[m] = written[m]
    BY <2>1, PrefixTyped DEF AnchorInv
  <2>5. Len(file[k].chain) = k /\ file[k].chain[k] = file[k].record
    BY <2>1, <2>3, RecordsTyped DEF RowsInv
  <2> QED BY <2>2, <2>4, <2>5
<1> QED BY <1>1, <1>2, RowsStep, Anchored, PTL DEF Spec

-----------------------------------------------------------------------------
(* One edit                                                                *)

\* The rows of a run whose file was not touched.
Genuine ==
  /\ Len(file) <= Len(written)
  /\ \A k \in DOMAIN file : /\ file[k].record = written[k]
                            /\ file[k].prev = SubSeq(written, 1, k - 1)
                            /\ file[k].chain = SubSeq(written, 1, k)

Kinds == {"delete", "alter", "exchange", "rechain"}

EditsInv ==
  /\ edits \in Seq([kind : Kinds, at : Int])
  /\ phase = "running" => edits = << >> /\ Len(file) = Len(written)
  /\ edits = << >> => Genuine
  /\ EditLocalises

LEMMA BreakAt ==
  ASSUME NEW rows \in Seq(Row), NEW b \in 1..Len(rows), Broken(rows, b),
         \A k \in 1..(b - 1) : ~Broken(rows, k)
  PROVE  FirstBreak(rows) = b
<1> DEFINE first == FirstBreak(rows)
<1>1. /\ first \in 0..Len(rows) /\ Len(rows) \in Nat
      /\ first = 0 => \A k \in 1..Len(rows) : ~Broken(rows, k)
      /\ first # 0 => Broken(rows, first) /\ \A k \in 1..(first - 1) : ~Broken(rows, k)
  BY Unbroken
<1> HIDE DEF first
<1>2. ~(first < b) /\ ~(first > b)
  BY <1>1
<1> QED BY <1>1, <1>2 DEF first

\* Rows that say what was written up to n are digested to the same prefix.
LEMMA SamePrefix ==
  ASSUME NEW rows \in Seq(Row), NEW s \in Seq(Record), NEW n \in 0..Len(rows), n <= Len(s),
         \A k \in 1..n : rows[k].record = s[k]
  PROVE  SubSeq(Records(rows), 1, n) = SubSeq(s, 1, n)
<1> DEFINE r == SubSeq(Records(rows), 1, n)
           t == SubSeq(s, 1, n)
<1>1. r \in Seq(Record) /\ Len(r) = n /\ \A k \in 1..n : r[k] = rows[k].record
  BY RecordsTyped
<1>2. t \in Seq(Record) /\ Len(t) = n /\ \A k \in 1..n : t[k] = s[k]
  BY PrefixTyped
<1> HIDE DEF r, t
<1>3. r = t
  BY <1>1, <1>2, SeqEqual
<1> QED BY <1>3 DEF r, t

\* Rows that were not touched fit, as far as none above them was.
LEMMA FitAbove ==
  ASSUME NEW s \in Seq(Record), NEW rows \in Seq(Row), NEW b \in Nat, b <= Len(rows), b <= Len(s),
         \A k \in 1..b : /\ rows[k].record = s[k]
                         /\ rows[k].prev = SubSeq(s, 1, k - 1)
                         /\ rows[k].chain = SubSeq(s, 1, k)
  PROVE  \A k \in 1..b : ~Broken(rows, k)
<1> SUFFICES ASSUME NEW k \in 1..b PROVE ~Broken(rows, k)
  OBVIOUS
<1>1. Len(rows) \in Nat /\ Len(s) \in Nat
  OBVIOUS
<1>2. SubSeq(Records(rows), 1, k) = SubSeq(s, 1, k)
  <2>1. k \in 0..Len(rows) /\ k <= Len(s) /\ \A j \in 1..k : rows[j].record = s[j]
    BY <1>1
  <2> QED BY <2>1, SamePrefix
<1>3. SubSeq(Records(rows), 1, k - 1) = SubSeq(s, 1, k - 1)
  <2>1. k - 1 \in 0..Len(rows) /\ k - 1 <= Len(s) /\ \A j \in 1..(k - 1) : rows[j].record = s[j]
    BY <1>1
  <2> QED BY <2>1, SamePrefix
<1> QED BY <1>2, <1>3 DEF Broken

LEMMA OneEdit ==
  ASSUME AnchorInv, RowsInv, EditsInv, RowsInv', edits = << >>, Delete \/ Alter \/ Exchange
  PROVE  EditLocalises'
<1>1. /\ written \in Seq(Record) /\ file \in Seq(Row) /\ file' \in Seq(Row) /\ written' = written
      /\ Len(file) \in Nat /\ Len(written) \in Nat /\ Len(file) <= Len(written)
      /\ DOMAIN file = 1..Len(file)
      /\ \A k \in 1..Len(file) : /\ file[k].record = written[k]
                                 /\ file[k].prev = SubSeq(written, 1, k - 1)
                                 /\ file[k].chain = SubSeq(written, 1, k)
  <2>1. written' = written
    BY DEF Delete, Alter, Exchange, Edit
  <2>2. Genuine
    BY DEF EditsInv
  <2>3. written \in Seq(Record) /\ file \in Seq(Row) /\ file' \in Seq(Row)
    BY DEF AnchorInv, RowsInv
  <2> QED BY <2>1, <2>2, <2>3 DEF Genuine
\* It is enough that the row is broken, the ones above having been left alone.
<1>2. ASSUME NEW b \in 1..Len(file'), edits'[1].at = b,
             \A k \in 1..(b - 1) : k \in 1..Len(file) /\ file'[k] = file[k],
             Broken(file', b)
      PROVE  EditLocalises'
  <2>1. \A k \in 1..(b - 1) : ~Broken(file', k)
    <3>1. b - 1 \in Nat /\ b - 1 <= Len(file') /\ b - 1 <= Len(written)
      BY <1>1, <1>2
    <3> QED BY <1>1, <1>2, <3>1, FitAbove
  <2>2. FirstBreak(file') = b
    BY <1>1, <1>2, <2>1, BreakAt
  <2> QED BY <1>2, <2>2 DEF EditLocalises
<1>3. ASSUME NEW b \in 1..Len(file'), file'[b].prev = SubSeq(written, 1, b), b <= Len(written)
      PROVE  Broken(file', b)
  <2>1. Len(SubSeq(written, 1, b)) = b
    BY <1>1, <1>3, PrefixTyped
  <2>2. b - 1 \in 0..Len(file') /\ b - 1 # b
    BY <1>1
  <2>3. Len(SubSeq(Records(file'), 1, b - 1)) = b - 1
    BY <1>1, <2>2, RecordsTyped
  <2> QED BY <1>3, <2>1, <2>2, <2>3 DEF Broken
<1>4. CASE Delete
  <2>1. PICK d \in DOMAIN file : /\ file' = Without(file, d)
                                 /\ edits' = Append(edits, [kind |-> "delete", at |-> d])
                                 /\ edits'[1].kind = "delete" /\ edits'[1].at = d
    BY <1>4 DEF Delete, Edit
  <2>2. /\ Len(file') = Len(file) - 1
        /\ \A k \in 1..(Len(file) - 1) : /\ k < d => file'[k] = file[k]
                                         /\ k >= d => file'[k] = file[k + 1]
    <3>1. Len(Without(file, d)) = Len(file) - 1 /\ Without(file, d) \in Seq(Row)
      BY <1>1, WithoutRows
    <3>2. DOMAIN Without(file, d) = 1..(Len(file) - 1)
      BY <3>1
    <3>3. \A k \in 1..(Len(file) - 1) : Without(file, d)[k] = file[IF k < d THEN k ELSE k + 1]
      BY <1>1, <3>2, WithoutRows
    <3>4. file' = Without(file, d)
      BY <2>1
    <3>5. ASSUME NEW k \in 1..(Len(file) - 1)
          PROVE  (k < d => file'[k] = file[k]) /\ (k >= d => file'[k] = file[k + 1])
      <4>1. file'[k] = file[IF k < d THEN k ELSE k + 1]
        BY <3>3, <3>4
      <4>2. d \in Int
        BY <1>1
      <4> QED BY <4>1, <4>2
    <3> QED BY <3>1, <3>4, <3>5
  <2>3. CASE d = Len(file)
    <3>1. edits'[1].kind = "delete" /\ edits'[1].at = Len(file') + 1
      BY <1>1, <2>1, <2>2, <2>3
    <3> QED BY <3>1 DEF EditLocalises
  <2>4. CASE d # Len(file)
    <3>1. d \in 1..Len(file') /\ d + 1 \in 1..Len(file) /\ (d + 1) - 1 = d
      BY <1>1, <2>2, <2>4
    <3>2. file'[d] = file[d + 1] /\ file[d + 1].prev = SubSeq(written, 1, (d + 1) - 1)
      BY <1>1, <2>2, <3>1
    <3>3. Broken(file', d)
      <4>1. file'[d].prev = SubSeq(written, 1, d) /\ d <= Len(written)
        BY <1>1, <3>1, <3>2
      <4> QED BY <1>3, <3>1, <4>1
    <3>4. \A k \in 1..(d - 1) : k \in 1..Len(file) /\ file'[k] = file[k]
      BY <1>1, <2>2
    <3> QED BY <1>2, <2>1, <3>1, <3>3, <3>4
  <2> QED BY <2>3, <2>4
<1>5. CASE Alter
  <2>1. PICK a \in DOMAIN file, e \in Event :
           /\ file' = [file EXCEPT ![a].record.event = e] /\ e # file[a].record.event
           /\ edits' = Append(edits, [kind |-> "alter", at |-> a])
    BY <1>5 DEF Alter, Edit
  <2>10. edits'[1].at = a
    BY <2>1
  <2>2. file[a].record \in Record /\ file[a] \in Row
    BY <1>1, RowTyped
  <2>3. /\ Len(file') = Len(file) /\ \A k \in 1..Len(file) : k # a => file'[k] = file[k]
        /\ file'[a].chain = file[a].chain /\ file'[a].record.event = e
    BY <1>1, <2>1, <2>2 DEF Row, Record
  <2>4. a \in 1..Len(file') /\ a <= Len(written) /\ a \in 0..Len(file') /\ a \in 1..a
    BY <1>1, <2>3
  <2>5. SubSeq(written, 1, a)[a] = written[a]
    BY <1>1, <2>4, PrefixTyped
  <2>6. SubSeq(Records(file'), 1, a)[a] = file'[a].record
    BY <1>1, <2>4, RecordsTyped
  <2>7. file'[a].record # written[a]
    BY <1>1, <2>1, <2>3
  <2>8. Broken(file', a)
    BY <1>1, <2>3, <2>5, <2>6, <2>7 DEF Broken
  <2>9. \A k \in 1..(a - 1) : k \in 1..Len(file) /\ file'[k] = file[k]
    BY <1>1, <2>3
  <2> QED BY <1>2, <2>4, <2>8, <2>9, <2>10
<1>6. CASE Exchange
  <2>1. PICK x \in DOMAIN file \ {1} :
           /\ file' = [file EXCEPT ![x - 1] = file[x], ![x] = file[x - 1]]
           /\ edits' = Append(edits, [kind |-> "exchange", at |-> x - 1])
    BY <1>6 DEF Exchange, Edit
  <2>6. edits'[1].at = x - 1
    BY <2>1
  <2>2. x \in 1..Len(file) /\ x - 1 \in 1..Len(file) /\ x - 1 # x
    BY <1>1
  <2>3. /\ Len(file') = Len(file) /\ file'[x - 1] = file[x]
        /\ \A k \in 1..Len(file) : k \notin {x - 1, x} => file'[k] = file[k]
    BY <1>1, <2>1, <2>2
  <2>4. Broken(file', x - 1)
    <3>1. file'[x - 1].prev = SubSeq(written, 1, x - 1)
      BY <1>1, <2>2, <2>3
    <3>2. x - 1 \in 1..Len(file') /\ x - 1 <= Len(written)
      BY <1>1, <2>2, <2>3
    <3> QED BY <1>3, <3>1, <3>2
  <2>5. \A k \in 1..((x - 1) - 1) : k \in 1..Len(file) /\ file'[k] = file[k]
    <3>1. Len(file) \in Nat /\ x \in Int
      BY <1>1, <2>2
    <3>2. \A k \in 1..((x - 1) - 1) : k \in 1..Len(file) /\ k \notin {x - 1, x}
      BY <2>2, <3>1
    <3> QED BY <2>3, <3>2
  <2> QED BY <1>2, <2>2, <2>3, <2>4, <2>5, <2>6
<1> QED BY <1>4, <1>5, <1>6

LEMMA EditsStep ==
  ASSUME AnchorInv, RowsInv, EditsInv, RowsInv', [Next]_vars
  PROVE  EditsInv'
<1>1. written \in Seq(Record) /\ file \in Seq(Row)
  BY DEF AnchorInv, RowsInv
<1>2. ASSUME NEW e \in Event, LogEvent(e) PROVE EditsInv'
  <2> DEFINE record == [idx |-> Len(head), event |-> e]
             row == [record |-> record, prev |-> head, chain |-> head']
  <2>1. /\ head' = Append(head, record) /\ written' = Append(written, record)
        /\ file' = Append(file, row) /\ UNCHANGED <<edits, phase, rechained>>
        /\ phase = "running" /\ Len(head) < MaxRecords
    BY <1>2 DEF LogEvent
  <2>2. record \in Record /\ written = head
    BY <2>1, LogAssumption DEF AnchorInv, Record
  <2>3. edits = << >> /\ Genuine /\ Len(file) = Len(written)
    BY <2>1 DEF EditsInv
  <2>4. row.record = record /\ row.prev = written /\ row.chain = written'
    BY <2>1, <2>2
  <2> HIDE DEF record, row
  <2>5. /\ Len(written') = Len(written) + 1 /\ written'[Len(written')] = record
        /\ \A n \in 0..Len(written) : SubSeq(written', 1, n) = SubSeq(written, 1, n)
        /\ SubSeq(written', 1, Len(written)) = written
        /\ SubSeq(written', 1, Len(written')) = written'
        /\ \A n \in 1..Len(written) : written'[n] = written[n]
    <3>1. written' \in Seq(Record) /\ written' = Append(written, record)
      BY <1>1, <2>1, <2>2
    <3>2. /\ Len(written') = Len(written) + 1 /\ written'[Len(written')] = record
          /\ \A n \in 1..Len(written) : written'[n] = written[n]
      BY <1>1, <2>2, <3>1
    <3>3. ASSUME NEW n \in 0..Len(written)
          PROVE  SubSeq(written', 1, n) = SubSeq(written, 1, n)
      BY <1>1, <3>1, <3>2
    <3>4. SubSeq(written, 1, Len(written)) = written
      BY <1>1
    <3>5. SubSeq(written', 1, Len(written')) = written'
      BY <3>1
    <3>6. Len(written) \in 0..Len(written)
      BY <1>1
    <3> QED BY <3>2, <3>3, <3>4, <3>5, <3>6
  <2>6. /\ Len(file') = Len(file) + 1 /\ file'[Len(file')] = row
        /\ \A k \in 1..Len(file) : file'[k] = file[k]
        /\ Len(file) \in Nat /\ DOMAIN file' = 1..Len(file')
    BY <1>1, <2>1
  <2>7. Genuine'
    <3> SUFFICES ASSUME NEW k \in 1..Len(file')
                 PROVE  /\ file'[k].record = written'[k]
                        /\ file'[k].prev = SubSeq(written', 1, k - 1)
                        /\ file'[k].chain = SubSeq(written', 1, k)
      BY <2>3, <2>5, <2>6 DEF Genuine
    <3>1. CASE k = Len(file')
      BY <2>3, <2>4, <2>5, <2>6, <3>1
    <3>2. CASE k # Len(file')
      <4>1. k \in 1..Len(file) /\ k - 1 \in 0..Len(written) /\ k \in 0..Len(written)
        BY <2>3, <2>6, <3>2
      <4>2. /\ file[k].record = written[k] /\ file[k].prev = SubSeq(written, 1, k - 1)
            /\ file[k].chain = SubSeq(written, 1, k)
        <5>1. k \in DOMAIN file
          BY <1>1, <4>1
        <5> QED BY <2>3, <5>1 DEF Genuine
      <4>3. /\ SubSeq(written', 1, k) = SubSeq(written, 1, k)
            /\ SubSeq(written', 1, k - 1) = SubSeq(written, 1, k - 1)
            /\ written'[k] = written[k] /\ file'[k] = file[k]
        BY <2>3, <2>5, <2>6, <4>1
      <4> QED BY <4>2, <4>3
    <3> QED BY <3>1, <3>2
  <2> QED BY <2>1, <2>3, <2>5, <2>6, <2>7 DEF EditsInv, EditLocalises
<1>3. CASE Finish
  BY <1>3 DEF Finish, EditsInv, Genuine, EditLocalises
<1>4. CASE UNCHANGED vars
  BY <1>4 DEF vars, EditsInv, Genuine, EditLocalises
<1>5. CASE Crash
  <2>1. PICK n \in 0..Len(file) : file' = SubSeq(file, 1, n)
    BY <1>5 DEF Crash
  <2>2. /\ Len(file') = n /\ DOMAIN file' \subseteq DOMAIN file
        /\ \A k \in DOMAIN file' : file'[k] = file[k]
    BY <1>1, <2>1
  <2>3. edits = << >> /\ Genuine /\ UNCHANGED <<written, edits>> /\ phase' = "crashed"
    BY <1>5 DEF Crash, EditsInv
  <2>4. Genuine'
    BY <1>1, <2>2, <2>3 DEF Genuine
  <2> QED BY <2>3, <2>4 DEF EditsInv, EditLocalises
<1>6. CASE Delete \/ Alter \/ Exchange \/ Rechain
  <2> DEFINE Entry == [kind : Kinds, at : Int]
             Done == /\ phase # "running" /\ phase' = phase /\ edits' \in Seq(Entry)
                     /\ edits' # << >> /\ Len(edits') = Len(edits) + 1
  <2>1. ASSUME NEW kind \in Kinds, NEW place \in Int, Edit(kind, place)
        PROVE  Done
    <3>1. edits \in Seq(Entry) /\ [kind |-> kind, at |-> place] \in Entry
      BY DEF EditsInv
    <3>2. edits' = Append(edits, [kind |-> kind, at |-> place])
      BY <2>1 DEF Edit
    <3> HIDE DEF Entry
    <3> QED BY <2>1, <3>1, <3>2 DEF Edit
  <2>2. Done
    <3>1. \A k \in DOMAIN file : k \in Int /\ k - 1 \in Int
      BY <1>1
    <3> HIDE DEF Done
    <3> QED BY <1>6, <2>1, <3>1 DEF Kinds, Delete, Alter, Exchange, Rechain
  <2>3. CASE edits = << >> /\ ~Rechain
    BY <1>6, <2>1, <2>2, <2>3, OneEdit DEF EditsInv
  <2>4. CASE edits # << >>
    <3>1. Len(edits') # 1
      BY <2>2, <2>4 DEF EditsInv
    <3> QED BY <2>1, <2>2, <3>1 DEF EditsInv, EditLocalises
  <2>5. CASE Rechain
    BY <2>1, <2>2, <2>5 DEF EditsInv, EditLocalises, Rechain
  <2> QED BY <2>3, <2>4, <2>5
<1> QED BY <1>2, <1>3, <1>4, <1>5, <1>6 DEF Next

\* One edit without a rewritten chain is found at its record, for a log of any
\* length, the deletion of the last record excepted.
THEOREM EditFound == Spec => []EditLocalises
<1>1. Init => RowsInv /\ EditsInv
  BY DEF Init, RowsInv, EditsInv, Genuine, EditLocalises
<1>2. AnchorInv /\ RowsInv /\ EditsInv /\ [Next]_vars => RowsInv' /\ EditsInv'
  BY RowsStep, EditsStep
<1>3. EditsInv => EditLocalises
  BY DEF EditsInv
<1> QED BY <1>1, <1>2, <1>3, Anchored, PTL DEF Spec
=============================================================================
