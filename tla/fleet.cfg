SPECIFICATION ChainSpec
CONSTANTS
  Driver = {d1, d2}
  NumRuns = 3
  Suffix = {"events", "truth"}
  MaxConcurrency = 2
  MaxDisturbances = 1
  Nobody = Nobody
  MaxAlterations = 1
CHECK_DEADLOCK FALSE
INVARIANTS
  OneOwner
  GreenIsWhole
  StopHaltsNewWork
  PublishedIsPinned
  SuiteRefusesEachDamage
PROPERTIES
  FleetEnds
