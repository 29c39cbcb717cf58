SPECIFICATION Spec
CONSTANTS
  Unset = Unset
  NoTag = NoTag
  KeySeq <- MCKeySeq
  CommandAuthEnabled = TRUE
  SignCommands = TRUE
  GainCycle = 2
  ProposeUpdates = TRUE
  TwinValidation = TRUE
  UpdateKey = "dischargeRate"
  UpdateValue = 7
  MaxCommands = 3
  MaxInFlight = 1
  ParamDelta = 10
  ForgedBase <- MCForgedBase
  ForgedValue = 99
  MaxInterference = 0
  Scenarios = {"B0"}
  PhysicalVerdicts = {FALSE}
  MaxTime = 1
INVARIANTS
  NoLogicalAlarm
CHECK_DEADLOCK FALSE
