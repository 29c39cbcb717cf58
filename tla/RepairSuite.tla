----------------------------- MODULE RepairSuite ----------------------------
(***************************************************************************)
(* The mutants of p4_mutations.py that damage the two packages, the        *)
(* settlement or the executables of a copy of the root, each with the      *)
(* guard that must refuse it.  They are put to every root that the         *)
(* validator found conformant.  Those that damage the log of one run are   *)
(* in JoinGuards.                                                          *)
(***************************************************************************)
EXTENDS ResultChain

\* A mapping with one entry more.
Added(f, key, value) ==
  [k \in DOMAIN f \cup {key} |-> IF k = key THEN value ELSE f[k]]

-----------------------------------------------------------------------------
(* The packages                                                            *)

Before == package["historical"].results
After == package["successor"].results

\* The first cell stands for any; the number is one nobody has.
mut_non_random_estimand_moved == compare(Before, [After EXCEPT ![0].plain = "-1.0"])

\* The whole random estimand, with the arm that the join does not feed.
mut_repair_did_not_reach_output ==
  compare(Before, [i \in DOMAIN After |-> [Before[i] EXCEPT !.plain = After[i].plain]])

\* One alarm more than the anchor, or perhaps the anchor if it was missed before.
OneMore(alarms) ==
  IF alarms = "none" THEN "none" ELSE IF alarms = "pinned" THEN "other" ELSE "pinned"
mut_anchor_mismatch ==
  compare(Before, [i \in DOMAIN After |-> [After[i] EXCEPT !.alarms = OneMore(@)]])

mut_corpus_substituted ==
  check_corpus_identity([package["historical"].inputs EXCEPT ![0]["events"] = "ffff"])

mut_historical_package_changed == check_historical_untouched([historical EXCEPT ![1] = <<>>])

-----------------------------------------------------------------------------
(* The settlement.  The copy of the root has its own, settled anew over    *)
(* the live executables, and is loaded with the digest of what it is       *)

Resettled == settlement(LiveScorer, scan(Executables), Cardinality(Identity))
Loaded(file, pin) == load(file, pin, LiveScorer)
LoadedAs(payload) == Loaded(Holding(payload), Holding(payload))

set_no_pin == Loaded(Holding(Resettled), {})
set_wrong_pin == Loaded(Holding(Resettled), NotAnObject)
set_absent == Loaded({}, Holding(Resettled))
set_array_root == Loaded(NotAnObject, NotAnObject)
set_extra_key == LoadedAs(Added(Resettled, "convenience_override", Plain(TRUE)))
set_short_digest == LoadedAs([Resettled EXCEPT !["old_raw_tree"] = Plain("deadbeef")])
set_seal_binding == LoadedAs([Resettled EXCEPT !["historical_seal"] = Sha256("bbbb", "b")])
set_scorer_not_repaired == LoadedAs([Resettled EXCEPT !["repaired_scorer"] = EXPECT("pre_repair_scorer")])
set_two_members ==
  LoadedAs([Resettled EXCEPT !["successor_canonical_paths"] = Plain(<<"successor", "second">>)])

-----------------------------------------------------------------------------
(* The executables                                                         *)

StageInventory == {scan(Executables)}

idn_scorer_edited ==
  verify([Executables EXCEPT !["scoring/rndjoin.py"] = "edited"], StageInventory, StageInventory)
idn_bytecode ==
  verify(Added(Executables, "scoring/rndjoin.pyc", "zeros"), StageInventory, StageInventory)
idn_inventory_not_settled == verify(Executables, StageInventory, {Sha256("zeros", "zeros").sha256})

-----------------------------------------------------------------------------

MUTANTS ==
  {<<mut_non_random_estimand_moved, "INVARIANCE">>,
   <<mut_repair_did_not_reach_output, "REPAIR-EFFECT">>,
   <<mut_anchor_mismatch, "ANCHOR">>, <<mut_corpus_substituted, "CORPUS-IDENTITY">>,
   <<mut_historical_package_changed, "HISTORICAL-IMMUTABLE">>,
   <<set_no_pin, "SETTLEMENT-PIN">>, <<set_wrong_pin, "SETTLEMENT-PIN">>,
   <<set_absent, "SETTLEMENT-PRESENT">>, <<set_array_root, "SETTLEMENT-MALFORMED">>,
   <<set_short_digest, "SETTLEMENT-MALFORMED">>, <<set_extra_key, "SETTLEMENT-KEYS">>,
   <<set_seal_binding, "SETTLEMENT-BINDING">>,
   <<set_scorer_not_repaired, "SCORER-IDENTITY">>,
   <<set_two_members, "MEMBERSHIP-SINGLE">>,
   <<idn_scorer_edited, "WRAPPER-EXECUTABLE-IDENTITY">>,
   <<idn_bytecode, "WRAPPER-EXECUTABLE-IDENTITY">>,
   <<idn_inventory_not_settled, "WRAPPER-EXECUTABLE-IDENTITY">>}

escaped == {m \in MUTANTS : m[2] \notin m[1]}

(* What the validator finds in a root whose settlement is another one than *)
(* was settled, when whoever pins it pins that.  A successor that is not   *)
(* there cannot be read.                                                   *)
judged(payload) ==
  LET early == Opened(Holding(payload), Holding(payload))
  IN IF early # {} THEN early
     ELSE verify(Executables, Inventory, {payload.wrapper_executable_inventory.sha256})
          \cup check_historical_untouched(historical)
          \cup check_corpus_identity(package["historical"].inputs)
          \cup Finding("CORPUS-IDENTITY",
                       payload.expected_run_count # Plain(Cardinality(Identity)))
          \cup Finding("unreadable",
                       payload.successor_canonical_paths # Plain(<<"successor">>))

\* Bound in the settlement and compared with nothing.
Unbound ==
  {"expected_manifest", "phase4_contract", "historical_package_digests", "manifest_path", "rule"}

\* No digest, or another one; or another count, schema or path.
Wrong(key, value) ==
  IF IsDigest(value) THEN {Plain("deadbeef"), Sha256("wrong", "wrong")}
  ELSE {Plain([expected_run_count |-> 0, schema |-> "other",
               successor_canonical_paths |-> <<"other">>][key])}

\* p4_settlement.py:79-86, p4_mutations.py: on a root that was found conformant the suite
\* finds its guards awake - each damage it does is refused by its owner, whatever was
\* altered before without being found.  And a settlement with one wrong value, pinned as
\* it is, is refused unless the value is one of the five that nothing is compared with.
SuiteRefusesEachDamage ==
  check.at = "CONFORMANT" =>
    /\ escaped = {}
    /\ \A f \in settled, key \in CLOSED_KEY_SET \ Unbound :
         \A value \in Wrong(key, f.object[key]) : judged([f.object EXCEPT ![key] = value]) # {}
=============================================================================
