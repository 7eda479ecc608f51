SPECIFICATION Spec
\* What may happen is bounded, so the system runs out of steps.
CHECK_DEADLOCK FALSE
CONSTANTS
  Binding = {b1, b2}
  Legacy = {b1}
  Run = {r1, r2}
  Interval = 1
  Age = 0
  Cap = 1
  MaxTime = 5
  MaxRuns = 2
  MaxEvents = 2
  MaxWrong = 1
  None = None
SYMMETRY Runs
INVARIANTS
  AbsencesOK
  IndexNamesEveryBinding
PROPERTY
  RunningBindingIsKept
