\* One build after another, and a cell whose run fails.
SPECIFICATION Spec
CONSTANTS
  c1 = c1
  c2 = c2
  Cells <- MCCells
  EventRows = 2
  Unfinished = {}
  Unapplied <- MCUnapplied
  Refused = {}
  MaxRelease = 2
  MaxFaults = 0
INVARIANTS
  FailedRunsAreOut
