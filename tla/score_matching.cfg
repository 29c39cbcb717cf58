SPECIFICATION Spec
CONSTANTS
  Scenarios = {"A1", "A2", "A2v", "A3"}
  Levels = 3
  ParamDelta = 2
  ForgedBase = 9000
  ForgedValue = 99
  CommandInterval = 6
  InjectionInterval = 4
  TelemetryInterval = 10
  AddedDelays = {2, 8}
  Transit = 3
  Period = 28
  PassEnds = {9, 16}
  Starts = {2, 10}
  Spans = {9, 15}
  Horizon = 48
CHECK_DEADLOCK FALSE
INVARIANTS
  MatchIsTrue
  FamiliesAgree
  ExposureIsInAWindow
  ReportingIsTrue
