SPECIFICATION FairSpec
CONSTANTS
  e1 = e1
  e2 = e2
  g1 = g1
  x1 = x1
  y1 = y1
  r1 = r1
  r2 = r2
  p1 = p1
  p2 = p2
  Exchange = {e1, e2}
  Boot = {g1, x1, y1}
  Genuine = {g1}
  Release = {r1, r2}
  Pair = {p1, p2}
  Image = {"image", "other"}
  MaxAttestationAge = 1
  Pcr <- MCPcr
  Request <- MCRequest
  Configs <- MCConfigs
  Jsons <- MCJsons
  Ages = {1, 2}
  Timeouts = {0}
  Lists <- MCLists
  Code = {"reassign_required", "busy"}
  Reason = {"internal"}
  WorkerReport = {4, 8, 12}
  StatementLen = 10
  EnvelopeLen = 20
  MaxReport = 10
  AvailableLen = 2
  NotProducedLen = 1
  OmittedLen = 3
  MaxReplies = 2
  None = None
INVARIANTS
  AcceptedIsAttested
  AcceptedWasServed
  OneResultPerPair
  SealedToVerified
  PhaseBounded
  ReplyFaithful
  NoVerdictLost
PROPERTIES
  CallsEnd
CHECK_DEADLOCK FALSE
