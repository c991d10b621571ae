---------------------------- MODULE MCApiServer ----------------------------
(***************************************************************************)
(* Small instances of ApiServer for the liveness of the server; its safety *)
(* is checked under MCRemoteRun.                                           *)
(***************************************************************************)
EXTENDS ApiServer

CONSTANTS e1, First, Last

MCEntropy == {e1}
MCLocalCIDR == {"10.0.0.2"}

ValidReq(endpoint) ==
  [endpoint |-> endpoint, method |-> MethodOf(endpoint), from |-> "10.0.0.2",
   password |-> "otp", json |-> TRUE, len |-> EntropyBytes, entropy |-> e1,
   timestamp |-> 1]

\* Accepted requests only, for the runs about the order of their steps
ValidRequests == {ValidReq("add-data"), ValidReq("commit")}

AllEndpoints == {ValidReq(endpoint) : endpoint \in Endpoint}

\* Three commits, or a commit and a request of any kind.  This limits what peers send,
\* of whom no fairness is assumed, and disables no step of the server.
CommitsOrPair ==
  LET Other(c) == req[c] # NoRequest /\ req[c].endpoint # "commit"
  IN  /\ \A c \in Conn \ {Last} : ~Other(c)
      /\ Other(Last) => pc[First] = "none"
=============================================================================
