SPECIFICATION FairSpec
CHECK_DEADLOCK FALSE
CONSTANTS
  Conn = {c1}
  e1 = e1
  First = c1
  Last = c1
  Entropy <- MCEntropy
  Zero = Zero
  LocalCIDR <- MCLocalCIDR
  Unparsable = {}
  BasicAuthPassword = "otp"
  EntropyBytes = 32
  NoRequest = NoRequest
  NoUDS = NoUDS
  NoResponse = NoResponse
  EOF = EOF
  Request <- ValidRequests
PROPERTIES
  DeadlineEndsRequest
