SPECIFICATION Spec
CHECK_DEADLOCK FALSE
CONSTANTS
  Conn = {c1, c2}
  k1 = k1
  k2 = k2
  Key = {k1, k2}
  Request <- MCRequest
  Factory = Factory
  Empty = Empty
  NoRequest = NoRequest
  NoResponse = NoResponse
SYMMETRY Symmetry
INVARIANTS
  TypeOK
  SignedByHierarchy
  OwnersAuthorised
  SuccessIsComplete
  MenuRequested
