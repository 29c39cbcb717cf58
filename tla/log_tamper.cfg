SPECIFICATION Spec
CONSTANTS
  Event = {e1, e2}
  MaxRecords = 4
  MaxEdits = 2
  NoAnchor = NoAnchor
CHECK_DEADLOCK FALSE
INVARIANTS
  VerifiedIsWritten
  AboveTheBreak
  EditLocalises
