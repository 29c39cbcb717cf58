----------------------------- MODULE JoinGuards -----------------------------
(***************************************************************************)
(* The guards that the repair package puts around the repaired join of the *)
(* random alarms (tools/p4_checks.py, p4_reference_oracle.py,              *)
(* p4_rawtotals.py), and the suite that damages a log, or what was made of *)
(* it, and expects the guard that owns the damage to refuse it             *)
(* (p4_mutations.py, run_phase4_suite.py).  The suite does so on one run   *)
(* of the corpus; here it is put to every run that FlowRun has, cut where  *)
(* it may be cut.                                                          *)
(***************************************************************************)
EXTENDS FlowRun

(* A guard returns the detectors of its findings                           *)
Finding(id, bad) == IF bad THEN {id} ELSE {}

-----------------------------------------------------------------------------
(* What the binding says of itself                                         *)

DISPOSITIONS ==
  {"matched", "unmatched_missing_ordinal_field", "unmatched_malformed_ordinal",
   "unmatched_ordinal_out_of_range", "unmatched_duplicate_ordinal"}

UnmatchedIn(counts) ==
  counts["unmatched_missing_ordinal_field"] + counts["unmatched_malformed_ordinal"]
  + counts["unmatched_ordinal_out_of_range"] + counts["unmatched_duplicate_ordinal"]

conservation(rows) ==
  LET counts == [d \in DISPOSITIONS |->
                   Cardinality({i \in DOMAIN rows : rows[i].disposition = d})] IN
  [by_disposition |-> counts,
   matched |-> counts["matched"],
   unmatched |-> UnmatchedIn(counts),
   raw_alarm_rows |-> Len(rows),
   matched_time_inconsistent |->
     Cardinality({i \in DOMAIN rows : rows[i].disposition = "matched" /\ ~rows[i].consistent})]

(* The rows are counted in the log again: books from which rows were       *)
(* filtered balance                                                        *)
check_conservation(c, log) ==
  Finding("CONSERVATION",
    \/ Len(log.alarms) # c.raw_alarm_rows
    \/ c.raw_alarm_rows # c.matched + c.unmatched
    \/ c.by_disposition["matched"] + UnmatchedIn(c.by_disposition) # c.raw_alarm_rows)

check_dispositions(rows) ==
  Finding("DISPOSITION", \E i \in DOMAIN rows : rows[i].disposition \notin DISPOSITIONS)

check_ordinal_health(c) ==
  Finding("ORDINAL-RANGE", c.by_disposition["unmatched_ordinal_out_of_range"] > 0)
  \cup Finding("ORDINAL-DUPLICATE", c.by_disposition["unmatched_duplicate_ordinal"] > 0)

check_time_witness_late(c) == Finding("TIME-WITNESS", c.matched_time_inconsistent > 1)
check_time_witness(c) == Finding("TIME-WITNESS", c.matched_time_inconsistent > 0)

-----------------------------------------------------------------------------
(* The join key                                                            *)

PRODUCER == {"n"}
PROVENANCE_ONLY == {"ageS", "mode", "rej", "seq", "vbat"}

check_field_registry(producer, provenance) ==
  Finding("JOIN-KEY", "n" \notin producer \/ "tmSeq" \in producer \/ "seq" \notin provenance)

(* The old scorer read a field that no alarm has                           *)
legacy_alarmed(log) ==
  {k \in DOMAIN log.received :
     \E i \in DOMAIN log.alarms : log.received[k].seq = NoField}

check_join_is_ordinal(log, alarmed) ==
  Finding("JOIN-KEY", alarmed # UNION {Ordinal(log, i) : i \in DOMAIN log.alarms})

-----------------------------------------------------------------------------
(* The oracle joins by the time and never reads the ordinal                *)

Candidates(log, i) == {k \in DOMAIN log.received : log.received[k].t = log.alarms[i].t}
bind_by_time(log) ==
  LET resolved == {i \in DOMAIN log.alarms : Cardinality(Candidates(log, i)) = 1} IN
  [pairs |-> UNION {Candidates(log, i) : i \in resolved},
   ambiguous |-> {i \in DOMAIN log.alarms : Cardinality(Candidates(log, i)) > 1}]

confusion(log) == Confusion(log.received, bind_by_time(log).pairs)

compare(log, alarmed, block) ==
  Finding("ORACLE-AMBIGUOUS", bind_by_time(log).ambiguous # {})
  \cup Finding("ORACLE-AGREEMENT", bind_by_time(log).pairs # alarmed \/ confusion(log) # block)

-----------------------------------------------------------------------------
(* The totals, counted from the rows again, and the texts that state them  *)

recount(log) ==
  [alarm_rows |-> Len(log.alarms), observations |-> Len(log.received),
   seq_equals_n |->
     Cardinality({i \in DOMAIN log.alarms :
                    \E k \in Ordinal(log, i) : log.received[k].seq = log.alarms[i].n})]

check_scope(identities, corpus) == Finding("RAW-TOTAL", identities # corpus)

(* An artefact that states no total cannot be checked                      *)
check_claims(claims, totals) ==
  Finding("RAW-TOTAL", \E a \in DOMAIN claims : claims[a] = {} \/ claims[a] # {totals})

-----------------------------------------------------------------------------
(* What the validator finds in a log, and what the suite finds in it       *)

\* Fault: the oracle is not asked.
GuardsWithoutOracle(log, rows, alarmed, block) ==
  LET c == conservation(rows) IN
  check_conservation(c, log) \cup check_dispositions(rows) \cup check_ordinal_health(c)
  \cup check_time_witness(c) \cup check_join_is_ordinal(log, alarmed)

Guards(log, rows, alarmed, block) ==
  LET c == conservation(rows) IN
  check_conservation(c, log) \cup check_dispositions(rows) \cup check_ordinal_health(c)
  \cup check_time_witness(c) \cup check_join_is_ordinal(log, alarmed)
  \cup compare(log, alarmed, block)

scan_corpus(log) ==
  LET rows == bind(log)
      alarmed == alarmed_ordinals(rows)
  IN Guards(log, rows, alarmed, Confusion(log.received, alarmed))

green_stage == scan_corpus(Log) \cup check_field_registry(PRODUCER, PROVENANCE_ONLY)

bind_and_check(log) ==
  LET rows == bind(log)
      c == conservation(rows)
  IN check_conservation(c, log) \cup check_dispositions(rows) \cup check_ordinal_health(c)
     \cup check_time_witness(c) \cup check_join_is_ordinal(log, alarmed_ordinals(rows))

-----------------------------------------------------------------------------
(* The mutants.  They take the first alarm, or the first packet that was   *)
(* alarmed on, of a run that has one                                       *)

Alarmed == alarmed_ordinals(bind(Log))
FirstAlarm(n) == [Log EXCEPT !.alarms[1].n = n]

red_stage == check_join_is_ordinal(Log, legacy_alarmed(Log))
mut_consumer_reads_tmseq == red_stage

mut_ordinal_shift == check_join_is_ordinal(Log, {k - 1 : k \in Alarmed \ {1}})

mut_duplicate_ordinal ==
  bind_and_check([Log EXCEPT !.alarms = InsertAt(@, 2, [t |-> @[1].t + 1, n |-> @[1].n])])

mut_missing_observation ==
  bind_and_check([Log EXCEPT !.received = RemoveAt(@, Min(Alarmed))])

mut_ordinal_out_of_range == bind_and_check(FirstAlarm(Len(received) + 1))

mut_silent_drop ==
  LET log == FirstAlarm(Horizon + 1)
      kept == {i \in DOMAIN bind(log) : bind(log)[i].disposition = "matched"}
      rows == [j \in 1..Cardinality(kept) |->
                 bind(log)[CHOOSE i \in kept : Cardinality(kept \cap (1..i)) = j]]
  IN check_conservation(conservation(rows), log)

FirstDisposition(log, d) == [bind(log) EXCEPT ![1].disposition = d]
mut_missing_ordinal_field ==
  LET log == FirstAlarm(NoField) IN
  IF \E i \in DOMAIN bind(log) : bind(log)[i].disposition = "unmatched_missing_ordinal_field"
  THEN check_dispositions(FirstDisposition(log, "None")) ELSE {}

mut_undeclared_disposition == check_dispositions(FirstDisposition(Log, "probably_fine"))

mut_oracle_disagreement == compare(Log, Alarmed \cup {7}, direct_detection_rnd)

mut_registry_declares_tmseq == check_field_registry(PRODUCER \cup {"tmSeq"}, PROVENANCE_ONLY)
mut_registry_seq_as_key == check_field_registry(PRODUCER, PROVENANCE_ONLY \ {"seq"})

mut_oracle_ambiguous ==
  LET log == [Log EXCEPT !.received = InsertAt(@, Min(Alarmed) + 1, @[Min(Alarmed)])] IN
  compare(log, alarmed_ordinals(bind(log)), [tp |-> 0, fn |-> 0, fp |-> 0, tn |-> 0])

mut_stale_corpus_total ==
  LET totals == recount(Log) IN
  check_claims([report |-> {[totals EXCEPT !.alarm_rows = @ + 16]}], totals)
mut_no_checkable_total == check_claims([report |-> {}], recount(Log))
mut_overglob_scope == check_scope({"A1-D3-s00-r0", "A6s-safe"}, {"A1-D3-s00-r0"})

(* What each mutant fires, and the detector that must be among it          *)
MUTANTS ==
  {<<mut_consumer_reads_tmseq, "JOIN-KEY">>, <<mut_ordinal_shift, "JOIN-KEY">>,
   <<mut_duplicate_ordinal, "ORDINAL-DUPLICATE">>,
   <<mut_missing_observation, "TIME-WITNESS">>,
   <<mut_ordinal_out_of_range, "ORDINAL-RANGE">>, <<mut_silent_drop, "CONSERVATION">>,
   <<mut_missing_ordinal_field, "DISPOSITION">>,
   <<mut_undeclared_disposition, "DISPOSITION">>,
   <<mut_oracle_disagreement, "ORACLE-AGREEMENT">>,
   <<mut_registry_declares_tmseq, "JOIN-KEY">>, <<mut_registry_seq_as_key, "JOIN-KEY">>,
   <<mut_oracle_ambiguous, "ORACLE-AMBIGUOUS">>,
   <<mut_stale_corpus_total, "RAW-TOTAL">>, <<mut_no_checkable_total, "RAW-TOTAL">>,
   <<mut_overglob_scope, "RAW-TOTAL">>}

escaped == {m \in MUTANTS : m[2] \notin m[1]}

(***************************************************************************)
(* Properties.  They are about the log, and only looked at when it has     *)
(* just grown.                                                             *)
(***************************************************************************)
Grown == lastArrival = now

(* rndjoin.py, validate_phase4.py:52-94: on every run the join by arrival  *)
(* ordinal credits the packets that the detector was looking at, although  *)
(* packets are lost, overtaken and late, and no guard finds anything in it *)
(* - above all not the oracle, which joins by time alone                   *)
RandomAlarmsJoinTheirPackets ==
  /\ Alarmed = setting.fires \cap DOMAIN received
  /\ direct_detection_rnd.tp + direct_detection_rnd.fp = Len(rndAlarms)
  /\ Grown => green_stage = {}

(* One row of a log is damaged: an observation is gone, or comes twice, or *)
(* an alarm names another observation than its own, or none                *)
Damaged ==
  {[Log EXCEPT !.received = RemoveAt(@, k)] : k \in DOMAIN received}
  \cup {[Log EXCEPT !.received = InsertAt(@, k, @[k])] : k \in DOMAIN received}
  \cup {[Log EXCEPT !.alarms[i].n = n] :
          i \in DOMAIN rndAlarms, n \in {NoField} \cup 0..(Len(received) + 1)}

Credited(log) == {log.received[k].seq : k \in alarmed_ordinals(bind(log))}

(* p4_checks.py, p4_reference_oracle.py: no such damage changes which      *)
(* packets the random detector is credited with unless a guard finds it.   *)
(* An alarm row that is gone altogether is the business of the totals.     *)
NoDamageEscapes ==
  Grown => \A log \in Damaged : scan_corpus(log) = {} => Credited(log) = Credited(Log)

(* p4_mutations.py, run_phase4_suite.py: which runs the suite can be put   *)
(* to.  Every mutant is refused by its owner exactly on a run with an      *)
(* alarm, whose first is not on the last packet (else the missing          *)
(* observation shows as an ordinal out of range and not by its time) and   *)
(* none of which is on the seventh (which the oracle's mutant credits).    *)
SuiteNeedsItsFixture ==
  Grown /\ Alarmed # {} =>
    (escaped = {} <=> Min(Alarmed) < Len(received) /\ 7 \notin Alarmed)
=============================================================================
