SPECIFICATION FairSpec
CONSTANTS
  Absent = Absent
  Malformed = Malformed
  TooLarge = TooLarge
  IdLen = 2
  MaxPayload = 2
  MaxReportLen = 1
  Utf8 <- Ascii
  LengthLen = 2
  MaxWrite = 10
  MaxRead = 9
  Item <- MCItem
  Capacity = 3
  MaxItems = 3
INVARIANTS
  CleanEndIsWhole
  DecodesCanonically
  DecodesWhatWasSent
PROPERTIES
  ImplementsDelivery
  FlushedIsRead
CHECK_DEADLOCK FALSE
