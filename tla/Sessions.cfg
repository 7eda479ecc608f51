SPECIFICATION InspectSpec
CONSTANTS
  p1 = p1
  p2 = p2
  s1 = s1
  s2 = s2
  h1 = h1
  h2 = h2
  Process = {p1, p2}
  Hook = {h1, h2}
  MaxHooks = 3
  None = None
  Session = {s1, s2}
  ProviderOf <- BothCodex
  Ephemeral = {s2}
  Proved = {p1, p2}
SYMMETRY Alike
INVARIANTS
  RecordsOK
  InspectionWasRight
PROPERTIES
  SelectionMovesForward
  EndedUntilLaterStart
  FreshAgentTakesNoLivePane
  HostIsKept
\* What may happen is bounded, so the system runs out of steps.
CHECK_DEADLOCK FALSE
