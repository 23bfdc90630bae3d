SPECIFICATION Spec
CONSTANTS
  Session = {s1, s2}
  Pair = {p1}
  MaxConnections = 2
  Idle = 1
  Control = 1
  LastSlot = 0
  Margin = 1
  MaxBoots = 2
  NoFrame = NoFrame
SYMMETRY Symmetry
INVARIANTS
  PermitsConserved
  SameBootServes
  CleanRetry
VIEW View
