SPECIFICATION ProvFairSpec
CHECK_DEADLOCK FALSE
CONSTANTS
  Local = {l1}
  Conn <- MCConn
  Request <- MCRequest
  EntropyOf <- MCEntropyOf
  AddressOf <- MCAddressOf
  KeyFiles <- MCKeyFiles
  Entropy = {l1}
  Zero = Zero
  LocalCIDR <- MCLocalCIDR
  Unparsable = {}
  BasicAuthPassword = "otp"
  EntropyBytes = 32
  NoRequest = NoRequest
  NoUDS = NoUDS
  NoResponse = NoResponse
  EOF = EOF
  NoKey = NoKey
  OldKey = OldKey
INVARIANTS
  ProvTypeOK
  SoloEntropy
  NamedKeysAreProvisioned
PROPERTIES
  LocalEnds
  PrintedEndsListen
