SPECIFICATION FairSpec
CHECK_DEADLOCK FALSE
CONSTANTS
  Conn = {c1, c2, c3}
  e1 = e1
  First = c1
  Last = c3
  Entropy <- MCEntropy
  Zero = Zero
  LocalCIDR <- MCLocalCIDR
  Unparsable = {}
  BasicAuthPassword = "otp"
  EntropyBytes = 32
  NoRequest = NoRequest
  NoUDS = NoUDS
  NoResponse = NoResponse
  EOF = EOF
  Request <- AllEndpoints
CONSTRAINT CommitsOrPair
PROPERTIES
  RunTerminates
  CommitsFinish
