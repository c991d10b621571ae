SPECIFICATION ProvSpec
CHECK_DEADLOCK FALSE
CONSTANTS
  Local = {l1}
  Conn <- MCConn
  Request <- MCRequest
  EntropyOf <- MCEntropyOf
  AddressOf <- MCAddressOf
  KeyFiles <- MCNoFiles
  Entropy = {l1}
  Zero = Zero
  LocalCIDR <- MCLocalCIDR
  Unparsable = {}
  BasicAuthPassword = "otp"
  EntropyBytes = 32
  NoRequest = NoRequest
  NoUDS = NoUDS
  NoResponse = NoResponse
  EOF = EOF
  NoKey = NoKey
  OldKey = OldKey
INVARIANTS
  InformedAfterPersisted
