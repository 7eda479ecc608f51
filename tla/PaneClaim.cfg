SPECIFICATION Spec
CONSTANTS
  Claimers = {c1}
  Hooks = {h1, h2}
  Publishers = {p1}
  Pids = {k1}
  Ttys = {tp, tx}
  PaneTty = tp
  MaxLife = 2
  MaxClock = 1
  None = None
SYMMETRY Symmetry
INVARIANTS
  FencedWrites
  SelfOwnedLaunchHasOneWriter
  ExportedLaunchIsShells
  SettledTerminal
PROPERTIES
  LiveOwnerKeepsPane
  DelayedShellClaimLoses
\* Every command is one process that ends, and processes and clock are bounded.
CHECK_DEADLOCK FALSE
