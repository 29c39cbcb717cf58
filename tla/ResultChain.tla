----------------------------- MODULE ResultChain ----------------------------
(***************************************************************************)
(* What becomes of the reruns: the corrected package of results that is    *)
(* scored from them and from the raw tree of July (analysis/               *)
(* build_corrected_package_v1.py), the successor of that package by the    *)
(* repaired scorer (the copy of the builder in candidate_scorer), its      *)
(* settlement, and the judgement of it (tools/ of the repair package).     *)
(* Each program reads files that an earlier one wrote, checks digests of   *)
(* some of them, and is not alone on the disk.                             *)
(***************************************************************************)
EXTENDS FleetDriver, RepairGuards

CONSTANTS MaxAlterations  \* bound on the files that are changed from outside

ASSUME ChainAssumption == {"events", "truth"} \subseteq Suffix /\ MaxAlterations \in Nat

Package == {"historical", "successor"}

\* Runs of the plan were simulated again, run 0 stands for those that were not.
Identity == {0} \cup Run
SourceTree(i) == IF i \in Run THEN "rerun" ELSE "results"

Input == {"events", "truth"}
RawFile == ({"results"} \X Identity \X Input) \cup ({"rerun"} \X Run \X Input)
Scorer(p) == <<"scorer", p>>  \* of July for the historical package, repaired for the other
Settlement == <<"PHASE4_SETTLEMENT">>

VARIABLES accepted,    \* the trees of the pins, and the fleet verified as GREEN
          content,     \* of the raw files, the two scorers and the settlement
          build,       \* per package, where its builder is and what it holds
          package,     \* per package, the files in its root
          settled,     \* the settlement that was written and pinned, if it was
          check,       \* where validate_phase4 is, and whether it found anything
          alterations,
          exposed      \* history: packages whose results were altered before they were signed

chainVars == <<accepted, content, build, package, settled, check, alterations, exposed>>

Absent == [results |-> <<>>, inputs |-> <<>>, verdict |-> "none", sums |-> <<>>]
NoBuild == [at |-> "idle", scores |-> <<>>, alike |-> FALSE, inputs |-> <<>>]

ChainInit ==
  /\ Init
  /\ accepted = FALSE /\ settled = {} /\ alterations = 0 /\ exposed = {}
  /\ content = [f \in RawFile \cup {Scorer(p) : p \in Package} \cup {Settlement} |-> "pinned"]
  /\ build = [p \in Package |-> NoBuild]
  /\ package = [p \in Package |-> Absent]
  /\ check = [at |-> "idle", clean |-> TRUE]

\* The fleet was verified, and what lies in the trees is what the pins say.
AcceptFleet ==
  /\ ~accepted /\ manifest.verdict = "GREEN" /\ manifest.checked
  /\ accepted' = TRUE
  /\ UNCHANGED <<content, build, package, settled, check, alterations, exposed>>

-----------------------------------------------------------------------------
(* Scoring                                                                 *)

\* The scores of a run follow from the bytes of its two files and from the
\* scorer.  The old one joins no random alarm, whatever the files say.  An altered
\* log may have as many alarms as before.
score_run(p, tree, i) ==
  LET got == {content[<<tree, i, s>>] : s \in Input} IN
  [plain  |-> IF "altered" \in got THEN "other" ELSE "pinned",
   timed  |-> IF got = {"pinned"} THEN "pinned" ELSE "other",
   random |-> IF p = "historical" THEN "none"
              ELSE IF got = {"pinned"} THEN "pinned" ELSE "other",
   alarms |-> IF p = "historical" THEN "none" ELSE "pinned"]

Digests == [i \in Identity |-> [s \in Input |-> content[<<SourceTree(i), i, s>>]]]

-----------------------------------------------------------------------------
(* The builder                                                             *)

Advance(p, from, to, new) ==
  /\ build[p].at = from
  /\ build' = [build EXCEPT ![p] = [new EXCEPT !.at = to]]
  /\ UNCHANGED <<accepted, content, settled, check, alterations, exposed>>

\* An output root that exists is refused, also that of a build which was killed.
\* The repair starts from a package that is complete.
Begin(p) ==
  /\ package[p] = Absent
  /\ p = "successor" => package["historical"].sums # <<>>
  /\ Advance(p, "idle", "begun", NoBuild) /\ UNCHANGED package

PinsHold(p) ==
  /\ accepted /\ \A f \in RawFile : content[f] = "pinned"
  /\ content[Scorer(p)] = "pinned"

VerifyPins(p) ==
  /\ Advance(p, "begun", IF PinsHold(p) THEN "verified" ELSE "idle", NoBuild)
  /\ UNCHANGED package

ScoreCorpus(p) ==
  /\ Advance(p, "verified", "scored",
             [build[p] EXCEPT !.scores = [i \in Identity |-> score_run(p, SourceTree(i), i)]])
  /\ UNCHANGED package

\* Fault: the scores of the rerun tree are compared with themselves.
CompareTreesWithItself(p) ==
  /\ Advance(p, "scored", "compared",
             [build[p] EXCEPT !.alike =
                \A r \in Run : score_run(p, "rerun", r) = build[p].scores[r]])
  /\ UNCHANGED package

\* G8: the reruns must score as the raw tree does.
CompareTrees(p) ==
  /\ Advance(p, "scored", "compared",
             [build[p] EXCEPT !.alike =
                \A r \in Run : score_run(p, "results", r) = build[p].scores[r]])
  /\ UNCHANGED package

DigestInputs(p) ==
  /\ Advance(p, "compared", "digested", [build[p] EXCEPT !.inputs = Digests])
  /\ UNCHANGED package

WriteResults(p) ==
  /\ Advance(p, "digested", "written", build[p])
  /\ package' = [package EXCEPT ![p].results = build[p].scores, ![p].inputs = build[p].inputs]

\* The events are read back, the truth is not.  The totals of the corpus that
\* the checks expect may differ once a file was altered.
Validated(p) ==
  /\ build[p].alike
  /\ \A i \in Identity :
       content[<<SourceTree(i), i, "events">>] = build[p].inputs[i]["events"]

Validate(p) ==
  /\ Advance(p, "written", "validated", build[p])
  /\ \E totals \in {TRUE} \cup {alterations = 0} :
       package' = [package EXCEPT ![p].verdict = IF Validated(p) /\ totals THEN "GREEN" ELSE "RED"]

Contents(p) == <<package[p].results, package[p].inputs, package[p].verdict>>

Sign(p) ==
  /\ Advance(p, "validated", "idle", NoBuild)
  /\ package' = [package EXCEPT ![p].sums = Contents(p)]

\* A builder that is killed leaves what it has written.
KillBuild(p) ==
  /\ build[p].at # "idle"
  /\ Advance(p, build[p].at, "idle", NoBuild) /\ UNCHANGED package

-----------------------------------------------------------------------------
(* The settlement and the judgement                                        *)

\* The digest of a scorer and the executables of the root, as they are now.
LiveScorer == Sha256("repaired_scorer", content[Scorer("successor")])
Executables ==
  [path \in {"tools/p4_checks.py", "scoring/rndjoin.py"} |->
     IF path = "scoring/rndjoin.py" THEN content[Scorer("successor")] ELSE "pinned"]

\* The results of the successor are enough, its verdict and its digests need
\* not be there.
Settle ==
  /\ settled = {}
  /\ package["successor"].results # <<>> /\ package["historical"].sums # <<>>
  /\ settled' = Holding(settlement(LiveScorer, scan(Executables), Cardinality(Identity)))
  /\ UNCHANGED <<accepted, content, build, package, check, alterations, exposed>>

\* The files of the root.  The inventory was written with the settlement.
SettlementFile ==
  {[object |-> IF content[Settlement] = "pinned" THEN f.object
               ELSE [f.object EXCEPT !["manifest_path"] = Plain("altered")]] : f \in settled}
Inventory == {f.object.wrapper_executable_inventory.sha256 : f \in settled}

Look(from, to, found) ==
  /\ settled # {} /\ check.at = from
  /\ check' = [at |-> to, clean |-> check.clean /\ found = {}]
  /\ UNCHANGED <<accepted, content, build, package, settled, alterations, exposed>>

\* The executables, the settlement, and the executables that it binds; without the
\* first two the validator stops.
Opened(file, pin) ==
  verify(Executables, Inventory, {}) \cup load(file, pin, LiveScorer)
Open ==
  LET found == Opened(SettlementFile, settled) IN
  Look("idle", IF found = {} THEN "open" ELSE "RED", found)

\* The digests of the rollback target are taken and compared in one process; those
\* of the settlement are compared with nothing.
historical == Contents("historical")
check_historical_untouched(digests) ==
  Finding("HISTORICAL-IMMUTABLE",
          digests # Contents("historical") \/ content[Scorer("historical")] # "pinned")

\* Every raw file is the one that the historical package names.
verify_run_inputs(i, row) == {s \in Input : content[<<SourceTree(i), i, s>>] # row[s]}
check_corpus_identity(runs) ==
  Finding("CORPUS-IDENTITY", \E i \in DOMAIN runs : verify_run_inputs(i, runs[i]) # {})

CheckCorpus ==
  Look("open", "corpus",
       check_historical_untouched(historical)
       \cup check_corpus_identity(package["historical"].inputs))

\* The recount of the alarms may differ once a file was altered.
Compare ==
  \E recounted \in {{}} \cup {IF alterations = 0 THEN {} ELSE {"RAW-TOTAL"}} :
     LET found == recounted \cup compare(package["historical"].results,
                                       package["successor"].results) IN
     Look("corpus", IF check.clean /\ found = {} THEN "CONFORMANT" ELSE "RED", found)

-----------------------------------------------------------------------------
(* What the programs do not control                                        *)

\* A file of the raw trees, of the repair or of a package is changed.  In events it
\* may be the random alarms alone.
AlterContent ==
  \E f \in DOMAIN content, c \in {"altered", "alarms"} :
     /\ content[f] = "pinned"
     /\ c = "alarms" => f \in RawFile /\ f[3] = "events"
     /\ f = Settlement => settled # {}
     /\ content' = [content EXCEPT ![f] = c] /\ UNCHANGED <<package, exposed>>

\* Also between the writing and the signing: the digests are taken from the disk at
\* the end, and what was altered before then is signed.
AlterPackage ==
  \E p \in Package, i \in Identity :
     /\ package[p].results # <<>>
     /\ \/ /\ \E arm \in {"plain", "timed", "random", "alarms"} :
                package' = [package EXCEPT ![p].results[i][arm] = "other"]
           /\ exposed' = IF build[p].at = "idle" THEN exposed ELSE exposed \cup {p}
        \/ /\ \E s \in Input : package' = [package EXCEPT ![p].inputs[i][s] = "other"]
           /\ UNCHANGED exposed
     /\ UNCHANGED content

\* Once it has judged nobody looks, and what happens then is not modelled.
Alter ==
  /\ accepted /\ alterations < MaxAlterations
  /\ check.at \notin {"RED", "CONFORMANT"}
  /\ alterations' = alterations + 1
  /\ AlterContent \/ AlterPackage
  /\ UNCHANGED <<accepted, build, settled, check>>

BuildStep(p) ==
  \/ Begin(p) \/ VerifyPins(p) \/ ScoreCorpus(p) \/ CompareTrees(p) \/ DigestInputs(p)
  \/ WriteResults(p) \/ Validate(p) \/ Sign(p) \/ KillBuild(p)

ChainNext ==
  \/ Next /\ UNCHANGED chainVars
  \/ /\ \/ AcceptFleet \/ Settle \/ Open \/ CheckCorpus \/ Compare \/ Alter
        \/ \E p \in Package : BuildStep(p)
     /\ UNCHANGED vars

ChainSpec ==
  /\ ChainInit /\ [][ChainNext]_<<vars, chainVars>>
  /\ \A d \in Driver : WF_vars(DriverStep(d))

-----------------------------------------------------------------------------

Signed(p) == package[p].sums # <<>> /\ package[p].sums = Contents(p)

\* What is published of the reruns is what the accepted trees say.  A package that is
\* GREEN and still carries its own digests has the true values of every run that was
\* simulated again, although a file was altered while it was built; a successor found
\* conformant has the true value of every score that the repair does not touch, even
\* if a result was altered, at whatever moment, and the true random ones unless they
\* were.  Results altered between their writing and the digests are signed as they are
\* (build_corrected_package_v1.py:743-758), and then the digests say nothing of them.
PublishedIsPinned ==
  /\ \A p \in Package \ exposed : Signed(p) /\ package[p].verdict = "GREEN" =>
       \A r \in Run : /\ package[p].results[r].plain = "pinned"
                      /\ package[p].results[r].timed = "pinned"
                      /\ package[p].results[r].random \in {"none", "pinned"}
  /\ check.at = "CONFORMANT" =>
       \A i \in Identity :
          /\ package["successor"].results[i].plain = "pinned"
          /\ package["successor"].results[i].timed = "pinned"
          /\ Signed("successor") /\ "successor" \notin exposed =>
               package["successor"].results[i].random = "pinned"
=============================================================================
