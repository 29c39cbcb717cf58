\* Two cells and three releases; in the first both runs fail, each in its way, and in the
\* third a run that did not fail is refused.
SPECIFICATION FairSpec
CONSTANTS
  c1 = c1
  c2 = c2
  Cells <- MCCells
  EventRows = 2
  Unfinished <- MCUnfinished
  Unapplied <- MCUnapplied
  Refused <- MCRefused
  MaxRelease = 3
  MaxFaults = 3
INVARIANTS
  RestsOnWholeRuns
  ChainIsOneBuild
PROPERTIES
  FreshBuildSettles
