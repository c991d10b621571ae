--------------------------- MODULE MCProvisioning ---------------------------
(***************************************************************************)
(* Provisioning with one or two executions of stprov local.                *)
(***************************************************************************)
EXTENDS Provisioning, TLC

\* Every local run draws another entropy: the run stands for it
MCEntropyOf == [l \in Local |-> l]
MCAddressOf == [l \in Local |-> "10.0.0.2"]
MCLocalCIDR == {"10.0.0.2"}
MCConn == Local \X Use
MCRequest == {RequestOn(c) : c \in Conn}

Symmetry == Permutations(Local)

\* No Secure Boot files; or, in the runs with one local run, also the required ones,
\* and too few
MCNoFiles == {{}}
MCKeyFiles == {{}, Required, {"PK", "dbx"}}

\* Bounds of the runs with two local runs: at most one connection is lost, and no
\* commit is replayed
Bounded ==
  /\ Cardinality({c \in Conn : sock[c] = "gone"}) <= 1
  /\ \A l \in Local : lpc[l] # "retry"
=============================================================================
