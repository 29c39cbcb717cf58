SPECIFICATION Spec
CONSTANTS
  Interval = 4
  WindowSize = 12
  Transit = 1
  AddedDelays = {2, 14, 22}
  Starts = {0, 12, 16}
  Spans = {12}
  PassEnds = {28, 36}
  PpsTolerance = 1
  IatTolerance = 2
  Verdicts <- MCVerdicts
  Horizon = 60
CHECK_DEADLOCK FALSE
INVARIANTS
  DisturbedWindowsAreTruth
  TwinScoreIsTrue
  RandomAlarmsJoinTheirPackets
  NoDamageEscapes
  SuiteNeedsItsFixture
