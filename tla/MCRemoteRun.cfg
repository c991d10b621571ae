SPECIFICATION RemoteSpec
CHECK_DEADLOCK FALSE
CONSTANTS
  Conn = {c1, c2, c3}
  e1 = e1
  e2 = e2
  Entropy <- MCEntropy
  Zero = Zero
  LocalCIDR <- MCLocalCIDR
  Unparsable <- MCUnparsable
  BasicAuthPassword = "otp"
  EntropyBytes = 32
  NoRequest = NoRequest
  NoUDS = NoUDS
  NoResponse = NoResponse
  EOF = EOF
  NoKey = NoKey
  OldKey = OldKey
  Request <- MCRequest
SYMMETRY Symmetry
INVARIANTS
  TypeOK
  CleanReturnHasUDS
  CommitOKStopsServer
  DrainedBeforeReturn
  Provenance
  SoleCommitWins
  RemoteTypeOK
  WriteHasSecret
PROPERTIES
  ImplementsCeremony
