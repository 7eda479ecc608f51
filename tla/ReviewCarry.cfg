SPECIFICATION Spec
CONSTANTS
  Pane = {a, b, c}
  Launch = {l1, l2}
  First = l1
  Hook = {h1, h2}
  MaxTime = 2
  MaxActs = 2
  MaxTakes = 1
  None = None
SYMMETRY Alike
INVARIANT
  FlagsOK
PROPERTIES
  LivePaneKeepsItsFlag
  NoFallbackToOlderPane
\* What may happen is bounded, so the system runs out of steps.
CHECK_DEADLOCK FALSE
