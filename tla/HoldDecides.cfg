SPECIFICATION HoldSpec
\* What may happen is bounded, so the system runs out of steps.
CHECK_DEADLOCK FALSE
CONSTANTS
  s1 = s1
  s2 = s2
  o1 = o1
  o2 = o2
  Stops = {s1, s2}
  Others = {o1, o2}
  Providers = {"claude", "codex"}
  Unsettled = TRUE
  None = None
SYMMETRY HookSymmetry
INVARIANTS
  NotesAreTrue
  QuietSawEveryEvent
PROPERTY
  DecisionStands
