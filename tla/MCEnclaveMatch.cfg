SPECIFICATION Spec
CONSTANTS
  Call = {r1, r2}
  Pair = {p1, p2, p3}
  Limit = 2
  Pipeline <- MCPipeline
  ResponseSlots <- MCSlots
  QueueTimeout = 1
  ResetGrace = 1
  Horizon = 4
  NoPair = NoPair
SYMMETRY Symmetry
INVARIANTS
  TypeOK
  FullIffAtLimit
  WorkerExclusive
  ReservationOwned
  OneStatementPerPair
  NoEarlyAnswer
PROPERTIES
  OverrunIsGenuine
  BusyIsRetryable
  RefinesAtMostOnce
