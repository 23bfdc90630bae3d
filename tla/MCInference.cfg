SPECIFICATION Spec
CONSTANTS
  One = 32
  Grain = 4
  Threshold <- MCThreshold
  Payload <- MCPayload
  Failure <- MCFailure
  Raw <- MCRaw
  MaxImage = 3
  MaxRequest = 8
  MaxTotal = 9
  Overhead = 2
  MaxId = 3
  MaxWire = 2
  Strictness = {1}
  None = None
INVARIANTS
  VerdictIsEarned
  LayoutExact
  PromisesKept
  HonestWorkerSurvives
  RunnerIsUnderstood
