SPECIFICATION FairSpec
CONSTANT MaxChanges = 4
INVARIANT
  LookIsRight
PROPERTY
  GoneIsFound
