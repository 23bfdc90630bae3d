SPECIFICATION Spec
CONSTANTS
  Session = {s1, s2}
  Pair = {p1}
  MaxConnections = 1
  Idle = 1
  Control = 1
  LastSlot = 1
  Margin = 1
  MaxBoots = 2
  NoFrame = NoFrame
INVARIANT RetryCanSucceed
