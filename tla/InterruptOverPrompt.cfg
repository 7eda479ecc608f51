SPECIFICATION Spec
CONSTANTS
  Hooks = {h1, h2, h3, h4}
  Kinds = {"prompt", "interrupt"}
  MaxTurn = 1
  MaxClock = 3
  Limit = 1
  None = None
SYMMETRY Symmetry
PROPERTY
  NewerPromptSupersedes
\* Commands and clock are bounded, so the system runs out of steps.
CHECK_DEADLOCK FALSE
