SPECIFICATION Spec
\* What may happen is bounded, so the system runs out of steps.
CHECK_DEADLOCK FALSE
CONSTANTS
  Kinds = {"prompt", "stop", "ask"}
  Turn = {1}
  Question = {q1}
  PoolMax = 2
  MaxHooks = 3
  MaxReads = 3
  MaxDamage = 1
  Ties = TRUE
  MaxPointer = 1
  None = None
  Damaged = Damaged
INVARIANTS
  RecordsOK
  NoEventIsLost
PROPERTY
  DeliversOnce
