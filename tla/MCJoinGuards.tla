----------------------------- MODULE MCJoinGuards -----------------------------
(* The instance of JoinGuards that TLC checks: packets that breach no channel  *)
(* of the twin, one, the one that is not scored, two and all three of them.    *)
EXTENDS JoinGuards

Verdict(random, physical, logical, security) ==
  [random |-> random, physical |-> physical, logical |-> logical, security |-> security]

MCVerdicts ==
  {Verdict({}, {}, {}, {1, 2, 3, 4, 5}),
   Verdict({1, 3}, {1, 3}, {3}, {}),
   Verdict({2}, {}, {2}, {1, 2}),
   Verdict({4, 5}, {4, 5}, {4, 5}, {4}),
   Verdict({6}, {5, 6}, {2, 3, 6}, {6}),
   Verdict({7}, {7}, {}, {}),
   Verdict({3, 8}, {3}, {8}, {3})}
=============================================================================
