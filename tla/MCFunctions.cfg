SPECIFICATION Spec
CHECK_DEADLOCK FALSE
CONSTANTS
  ByteBits = 2
  V4 = 2
  V6 = 4
  Mapped = 3
  PubSize = 32
  SeedSize = 32
  Magic <- MCMagic
  None <- MCNone
  Algo <- MCAlgo
INVARIANTS
  MaxHostIsLastUsable
  GatewayInNetwork
  GatewayParses
  TypedIsMeant
  OmittedMask
  KeyFileFormat
