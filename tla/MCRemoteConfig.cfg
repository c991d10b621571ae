SPECIFICATION Spec
CHECK_DEADLOCK FALSE
CONSTANTS
  ByteBits = 2
  V4 = 2
  V6 = 4
  Mapped = 3
  Options <- MCOptions
  DefHostname = "localhost.local"
  MaxRuns = 3
INVARIANTS
  TypeOK
  TornRecordWasReported
  URLsWereChecked
  GatewayWasChecked
PROPERTIES
  ImplementsHostRecord
