SPECIFICATION ReaderSpec
CONSTANTS
  Hooks = {h1, h2, h3}
  Kinds = {"prompt", "childask", "held", "note", "interrupt", "timed", "unmark", "return", "ack"}
  MaxTurn = 0
  MaxClock = 3
  Limit = 1
  None = None
SYMMETRY Symmetry
INVARIANTS
  TurnEndIsLatest
  ReaderOK
PROPERTIES
  ScreenMovesOn
  LatestWordShows
\* Commands and clock are bounded, so the system runs out of steps.
CHECK_DEADLOCK FALSE
