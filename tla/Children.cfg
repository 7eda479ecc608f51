SPECIFICATION ReaderSpec
CONSTANTS
  Children = {a}
  Leads = {l1, l2, l3}
  MaxClock = 3
  None = None
SYMMETRY Symmetry
INVARIANTS
  ReaderOK
  OnlyRunningCounted
  CountedAfterEnd
  ClearCovers
PROPERTY
  LeavesOnEvidence
\* The clock and the lead's hooks are bounded, so the system runs out of steps.
CHECK_DEADLOCK FALSE
