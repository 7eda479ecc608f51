SPECIFICATION FairSpec
CONSTANTS
  x1 = x1
  x2 = x2
  l1 = l1
  s1 = s1
  s2 = s2
  Process = {x1, x2}
  Panes = 2
  Launch = {l1}
  Session = {s1, s2}
  MaxUnlinks = 1
INVARIANTS
  LocksOK
  NoCircularWait

  
