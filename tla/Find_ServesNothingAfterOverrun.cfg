SPECIFICATION Spec
CONSTANTS
  Call = {r1, r2}
  Pair = {p1, p2}
  Limit = 2
  Pipeline <- MCOnePipeline
  ResponseSlots <- MCLateSlot
  QueueTimeout = 2
  ResetGrace = 1
  Horizon = 3
  NoPair = NoPair
PROPERTY ServesNothingAfterOverrun
