SPECIFICATION FairSpec
CONSTANTS
  Session = {s1, s2}
  Pair = {p1}
  MaxConnections = 1
  Idle = 1
  Control = 1
  LastSlot = 0
  Margin = 1
  MaxBoots = 1
  NoFrame = NoFrame
INVARIANTS
  BoundedHold
PROPERTY EverySessionEnds
