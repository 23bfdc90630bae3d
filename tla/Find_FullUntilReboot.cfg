SPECIFICATION Spec
CONSTANTS
  Call = {r1, r2}
  Pair = {p1, p2}
  Limit = 1
  Pipeline <- MCOnePipeline
  ResponseSlots <- MCLateSlot
  QueueTimeout = 1
  ResetGrace = 1
  Horizon = 3
  NoPair = NoPair
PROPERTY FullUntilReboot
