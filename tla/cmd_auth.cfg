\* D1 on, every scenario in which the relay has no key; lossy link.
SPECIFICATION Spec
CONSTANTS
  Unset = Unset
  NoTag = NoTag
  KeySeq <- MCKeySeq
  CommandAuthEnabled = TRUE
  SignCommands = TRUE
  GainCycle = 2
  ProposeUpdates = TRUE
  TwinValidation = TRUE
  UpdateKey = "dischargeRate"
  UpdateValue = 7
  MaxCommands = 2
  MaxInFlight = 1
  ParamDelta = 10
  ForgedBase <- MCForgedBase
  ForgedValue = 99
  MaxInterference = 2
  Scenarios <- KeylessScenarios
  PhysicalVerdicts = {FALSE}
  MaxTime = 1
INVARIANTS
  TypeOK
  AcceptedInOrderOnce
  EffectsAppliedOnce
  LinkIsForeign
PROPERTIES
  ImplementsInOrderExecution
  PrefixNeverMovesBack
CHECK_DEADLOCK FALSE
