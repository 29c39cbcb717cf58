SPECIFICATION FairSpec
CONSTANTS
  Unset = Unset
  NoTag = NoTag
  KeySeq <- MCKeySeq
  CommandAuthEnabled = TRUE
  SignCommands = TRUE
  GainCycle = 2
  ProposeUpdates = TRUE
  TwinValidation = TRUE
  UpdateKey = "dischargeRate"
  UpdateValue = 7
  MaxCommands = 3
  MaxInFlight = 1
  ParamDelta = 10
  ForgedBase <- MCForgedBase
  ForgedValue = 99
  MaxInterference = 1
  Scenarios = {"B0", "A3", "A7c"}
  PhysicalVerdicts = {FALSE}
  MaxTime = 0
INVARIANTS
  NoPhantomAlarm
  NeverAheadOfSatellite
  RejectionsCountedOnce
PROPERTIES
  EstimateConverges
CHECK_DEADLOCK FALSE
