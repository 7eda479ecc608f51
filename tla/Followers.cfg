SPECIFICATION FairSpec
\* What may happen is bounded, so the system runs out of steps.
CHECK_DEADLOCK FALSE
CONSTANTS
  MaxTurns = 3
  MaxHooks = 2
  MaxDeaths = 1
  MaxReviews = 1
INVARIANT
  FailuresInPlace
PROPERTY
  FailureIsRecorded
