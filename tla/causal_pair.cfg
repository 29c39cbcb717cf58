SPECIFICATION Spec
CONSTANTS
  Interval = 6
  MinContact = 20
  DelayTarget = 18
  EclipseSteps = 2
  ModeDuration = 15
  ReplayWindow = 3
  RobustnessArms = {"RB-third-cause"}
  Transits = {1, 2}
  Horizon = 83
  Pairs = {"SP1", "SP2", "SP3", "SP4", "SP5", "SP6"}
  Skies <- AllSkies
  OnsetOffsets = {0, 7, 14, 20, 55}
CHECK_DEADLOCK FALSE
INVARIANTS
  OneEpisode
  HeldFramesShowAlike
  ArmsShareTarget
  
