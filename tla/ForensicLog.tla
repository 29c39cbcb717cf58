----------------------------- MODULE ForensicLog ----------------------------
(***************************************************************************)
(* The forensic log of a run: the collector that chains every event        *)
(* (Collector.cc, HashChain.h), what may happen to the file after the run  *)
(* (the deletions, edits and reorderings of scenario A7, with or without   *)
(* the chain values written anew), and the verifier (verify_chain.py).     *)
(*                                                                         *)
(* SHA-256 has no collisions here: a chain value is the sequence of the    *)
(* records that were hashed into it.                                       *)
(***************************************************************************)
EXTENDS Integers, Sequences, FiniteSets

CONSTANTS Event,       \* time, category and fields of a record
          MaxRecords,  \* bound on the records of a run
          MaxEdits,    \* bound on the edits of the file
          NoAnchor

Record == [idx : 0..(MaxRecords - 1), event : Event]

ASSUME LogAssumption ==
  /\ MaxRecords \in Nat /\ MaxEdits \in Nat
  /\ NoAnchor \notin Seq(Record)

VARIABLES head,      \* the chain value of the collector
          file,      \* the rows of -events.csv
          anchor,    \* chainHead in -anchor.txt
          phase,
          written,   \* the records the run logged
          edits,     \* what was done to the file, in order
          rechained  \* chain values were written anew

vars == <<head, file, anchor, phase, written, edits, rechained>>

Records(rows) == [k \in 1..Len(rows) |-> rows[k].record]

Init ==
  /\ head = << >> /\ file = << >> /\ anchor = NoAnchor /\ phase = "running"
  /\ written = << >> /\ edits = << >> /\ rechained = FALSE

-----------------------------------------------------------------------------
(* The run                                                                 *)

\* Fault: the row carries the chain value before the record.
LogEventStale(e) ==
  LET record == [idx |-> Len(head), event |-> e]
  IN  /\ phase = "running" /\ Len(head) < MaxRecords
      /\ head' = Append(head, record)
      /\ file' = Append(file, [record |-> record, prev |-> head, chain |-> head])
      /\ written' = Append(written, record)
      /\ UNCHANGED <<anchor, phase, edits, rechained>>

LogEvent(e) ==
  LET record == [idx |-> Len(head), event |-> e]
  IN  /\ phase = "running" /\ Len(head) < MaxRecords
      /\ head' = Append(head, record)
      /\ file' = Append(file, [record |-> record, prev |-> head, chain |-> head'])
      /\ written' = Append(written, record)
      /\ UNCHANGED <<anchor, phase, edits, rechained>>

\* finish: the file is closed and the head of the chain anchored beside it.
Finish ==
  /\ phase = "running"
  /\ phase' = "finished" /\ anchor' = head
  /\ UNCHANGED <<head, file, written, edits, rechained>>

\* A run that stops on an error has no anchor, and of the file only what was
\* flushed.
Crash ==
  /\ phase = "running"
  /\ phase' = "crashed"
  /\ \E n \in 0..Len(file) : file' = SubSeq(file, 1, n)
  /\ UNCHANGED <<head, anchor, written, edits, rechained>>

-----------------------------------------------------------------------------
(* The file afterwards                                                     *)

Without(rows, k) == SubSeq(rows, 1, k - 1) \o SubSeq(rows, k + 1, Len(rows))

Edit(kind, at) ==
  /\ phase # "running" /\ Len(edits) < MaxEdits
  /\ edits' = Append(edits, [kind |-> kind, at |-> at])
  /\ UNCHANGED <<head, anchor, phase, written>>

\* A7a: a record is deleted.
Delete ==
  \E k \in DOMAIN file :
     Edit("delete", k) /\ file' = Without(file, k) /\ UNCHANGED rechained

\* A7b: a record is altered in place.
Alter ==
  \E k \in DOMAIN file, e \in Event :
     /\ e # file[k].record.event
     /\ Edit("alter", k) /\ file' = [file EXCEPT ![k].record.event = e]
     /\ UNCHANGED rechained

\* Two records are exchanged, each with its chain values.
Exchange ==
  \E k \in DOMAIN file \ {1} :
     /\ Edit("exchange", k - 1)
     /\ file' = [file EXCEPT ![k - 1] = file[k], ![k] = file[k - 1]]
     /\ UNCHANGED rechained

\* The chain values of the file are written anew, to fit its records.
Rechain ==
  /\ Edit("rechain", 1) /\ rechained' = TRUE
  /\ file' = [k \in DOMAIN file |->
                [record |-> file[k].record, prev |-> SubSeq(Records(file), 1, k - 1),
                 chain |-> SubSeq(Records(file), 1, k)]]

Next ==
  \/ \E e \in Event : LogEvent(e)
  \/ Finish \/ Crash
  \/ Delete \/ Alter \/ Exchange \/ Rechain

Spec == Init /\ [][Next]_vars

-----------------------------------------------------------------------------
(* The verifier                                                            *)

ComputedHead(rows) == Records(rows)

\* Fault: only the link to the row before is compared.
BrokenPrevOnly(rows, k) == rows[k].prev # SubSeq(Records(rows), 1, k - 1)

\* recompute: the row does not fit the records above it.
Broken(rows, k) ==
  \/ rows[k].prev # SubSeq(Records(rows), 1, k - 1)
  \/ rows[k].chain # SubSeq(Records(rows), 1, k)

FirstBreak(rows) ==
  LET broken == {k \in DOMAIN rows : Broken(rows, k)}
  IN  IF broken = {} THEN 0 ELSE CHOOSE k \in broken : \A j \in broken : k <= j

\* Fault: the anchor is not compared.
VerifyChainOnly(rows, kept) == FirstBreak(rows) = 0

\* cmd_verify: the anchor when there is one, then the chain.
Verify(rows, kept) ==
  /\ kept # NoAnchor => kept = ComputedHead(rows)
  /\ FirstBreak(rows) = 0

-----------------------------------------------------------------------------

\* A log that the verifier passes against its anchor is the log that was
\* written, whatever was done to the file, rewriting its chain included.
VerifiedIsWritten ==
  phase = "finished" /\ Verify(file, anchor) => Records(file) = written

\* Without a rewritten chain, what stands above the first break is what the run
\* wrote, in its order: the events can be reconstructed up to that point.
AboveTheBreak ==
  ~rechained =>
     LET sound == IF FirstBreak(file) = 0 THEN Len(file) ELSE FirstBreak(file) - 1
     IN  /\ sound <= Len(written)
         /\ \A k \in 1..sound : file[k].record = written[k]

\* One edit is found at the record that was edited, the deletion of the last
\* record excepted.
EditLocalises ==
  Len(edits) = 1 /\ ~rechained /\ ~(edits[1].kind = "delete" /\ edits[1].at = Len(file) + 1) =>
     FirstBreak(file) = edits[1].at

=============================================================================
