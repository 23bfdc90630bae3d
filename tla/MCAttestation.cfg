SPECIFICATION RouteSpec
CONSTANTS
  Key = {channel, signing}
  MaxAge = 2
  MaxServable = 4
  NsmMax = 1
  Manifest = {m1, m2, m3, m4}
  Valid = {m1, m2, m3}
  Bundle = {m1, m2, m4}
  None = None
INVARIANTS
  BoundedStaleness
  LoadsAgree
  ListedIsTimed
  AckedIsListed
PROPERTIES
  FailureEndsService
  StopTakesDown
CHECK_DEADLOCK FALSE
