---------------------------- MODULE RepairGuards ----------------------------
(***************************************************************************)
(* What the repair package checks before it trusts its successor of the    *)
(* corrected package (tools/p4_settlement.py, p4_identity.py,              *)
(* p4_invariance.py): the settlement, the executables of its root, and the *)
(* two packages against each other.  Guards return the detectors that      *)
(* fire.  A digest is what it was computed from.                           *)
(***************************************************************************)
EXTENDS Naturals, Sequences, FiniteSets

Finding(id, bad) == IF bad THEN {id} ELSE {}

-----------------------------------------------------------------------------
(* The settlement                                                          *)

Sha256(what, version) == [sha256 |-> [w \in {what} |-> version]]
Plain(value) == [text |-> value]
IsDigest(value) == "sha256" \in DOMAIN value

\* The keys that are pinned in the code of the repair package.
AUTHORITY ==
  {"historical_contract_json", "historical_seal", "pre_repair_scorer", "old_raw_tree",
   "rerun_tree"}
DIGEST_BINDINGS ==
  AUTHORITY \cup {"expected_manifest", "phase4_contract", "repaired_scorer",
                  "wrapper_executable_inventory"}
CLOSED_KEY_SET ==
  DIGEST_BINDINGS \cup {"expected_run_count", "historical_package_digests", "manifest_path",
                        "rule", "schema", "successor_canonical_paths"}

EXPECT(key) == Sha256(key, "pinned")

\* p4_settlement.build: the pins, and what is found on the disk.
settlement(scorer, inventory, runs) ==
  [key \in CLOSED_KEY_SET |->
     CASE key \in AUTHORITY -> EXPECT(key)
       [] key \in {"expected_manifest", "phase4_contract"} -> Sha256(key, "live")
       [] key = "repaired_scorer" -> scorer
       [] key = "wrapper_executable_inventory" -> [sha256 |-> inventory]
       [] key = "expected_run_count" -> Plain(runs)
       [] key = "successor_canonical_paths" -> Plain(<<"successor">>)
       [] OTHER -> Plain(key)]

\* Nothing, or the content of the file: an object, or something else.
Holding(payload) == {[object |-> payload]}
NotAnObject == {[array |-> "not an object"]}

\* Fault: the bindings are not compared with the pins.
BoundToAnything(payload, scorer) ==
  IF DOMAIN payload # CLOSED_KEY_SET \/ payload.schema # Plain("schema")
  THEN {"SETTLEMENT-KEYS"}
  ELSE IF \E key \in DIGEST_BINDINGS : ~IsDigest(payload[key]) THEN {"SETTLEMENT-MALFORMED"}
  ELSE IF payload.repaired_scorer \notin {scorer} \ {payload.pre_repair_scorer}
  THEN {"SCORER-IDENTITY"}
  ELSE Finding("MEMBERSHIP-SINGLE", Len(payload.successor_canonical_paths.text) # 1)

\* p4_settlement.load stops at the first finding.
Bound(payload, scorer) ==
  IF DOMAIN payload # CLOSED_KEY_SET \/ payload.schema # Plain("schema")
  THEN {"SETTLEMENT-KEYS"}
  ELSE IF \E key \in DIGEST_BINDINGS : ~IsDigest(payload[key]) THEN {"SETTLEMENT-MALFORMED"}
  ELSE IF \E key \in AUTHORITY : payload[key] # EXPECT(key) THEN {"SETTLEMENT-BINDING"}
  ELSE IF payload.repaired_scorer \notin {scorer} \ {payload.pre_repair_scorer}
  THEN {"SCORER-IDENTITY"}
  ELSE Finding("MEMBERSHIP-SINGLE", Len(payload.successor_canonical_paths.text) # 1)

load(file, pin, scorer) ==
  IF pin = {} THEN {"SETTLEMENT-PIN"}
  ELSE IF file = {} THEN {"SETTLEMENT-PRESENT"}
  ELSE IF file # pin THEN {"SETTLEMENT-PIN"}
  ELSE UNION {IF "object" \in DOMAIN f THEN Bound(f.object, scorer)
              ELSE {"SETTLEMENT-MALFORMED"} : f \in file}

-----------------------------------------------------------------------------
(* The executables of the root, a function of their paths                  *)

IsBytecode(path) == path = "scoring/rndjoin.pyc"
scan(files) == [path \in {p \in DOMAIN files : ~IsBytecode(p)} |-> files[path]]

\* The inventory and what the settlement binds are empty, or the one file.
verify(files, inventory, expected) ==
  Finding("WRAPPER-EXECUTABLE-IDENTITY",
    \/ inventory = {}
    \/ expected # {} /\ inventory # expected
    \/ \E path \in DOMAIN files : IsBytecode(path)
    \/ inventory # {scan(files)})

-----------------------------------------------------------------------------
(* The packages, functions of the cells.  Of the estimands of a cell there *)
(* are those that do not read the random detector (plain), and of the one  *)
(* that does the arm that follows from the times of the alarms (timed), the*)
(* arms that the join feeds (random), and the number of alarms that the    *)
(* precision has as its denominator.                                       *)

JoinFed(node) == <<node.random, node.alarms>>

check_plan_anchors(after) ==
  Finding("ANCHOR", \E cell \in DOMAIN after : after[cell].alarms # "pinned")

\* An arm that is undefined on both sides has nothing that could move.
compare(before, after) ==
  LET both == DOMAIN before \cap DOMAIN after IN
  Finding("INVARIANCE",
    \/ DOMAIN before # DOMAIN after
    \/ \E cell \in both : \/ before[cell].plain # after[cell].plain
                         \/ before[cell].timed # after[cell].timed)
  \cup Finding("REPAIR-EFFECT",
    \/ \E cell \in both : /\ JoinFed(before[cell]) = JoinFed(after[cell])
                          /\ after[cell].random # "undefined"
    \/ \A cell \in both : before[cell] = after[cell])
  \cup check_plan_anchors(after)
=============================================================================
