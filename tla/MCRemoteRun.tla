----------------------------- MODULE MCRemoteRun -----------------------------
(***************************************************************************)
(* RemoteRun with an open environment: any peer, good and bad requests.    *)
(***************************************************************************)
EXTENDS RemoteRun, TLC

CONSTANTS e1, e2

MCEntropy == {e1, e2}
MCLocalCIDR == {"10.0.0.2"}
MCUnparsable == {"fe80::1%eth0"}
Symmetry == Permutations(Conn)

ValidReq(endpoint, e) ==
  [endpoint |-> endpoint, method |-> MethodOf(endpoint), from |-> "10.0.0.2",
   password |-> "otp", json |-> TRUE, len |-> EntropyBytes, entropy |-> e,
   timestamp |-> 1]

\* Requests that are accepted, and such as are refused for the length, the timestamp,
\* the password, the method or the network: whatever sends e2 lacks something
MCRequest ==
  {ValidReq("add-data", e1), ValidReq("commit", e1),
   [ValidReq("add-data", e2) EXCEPT !.len = EntropyBytes - 1],
   [ValidReq("add-data", e2) EXCEPT !.timestamp = -1],
   [ValidReq("add-data", e2) EXCEPT !.password = "guess"],
   [ValidReq("commit", e2) EXCEPT !.method = "POST"],
   [ValidReq("commit", e2) EXCEPT !.from = "192.0.2.9"],
   [ValidReq("commit", e2) EXCEPT !.from = "fe80::1%eth0"]}
=============================================================================
