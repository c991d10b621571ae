---------------------------- MODULE MCSecureBoot ----------------------------
(***************************************************************************)
(* SecureBoot with two owners, one of whom also sends faulty requests.     *)
(***************************************************************************)
EXTENDS SecureBoot, TLC

CONSTANTS k1, k2

D(key, by) == [key |-> key, by |-> by]

\* One owner uses a single key pair, so db and dbx are signed by the same key
Owned(k) ==
  [json |-> TRUE, reboot |-> TRUE, pk |-> D(k, k), kek |-> D(k, k),
   db |-> D(k, k), dbx |-> D(k, k)]

MCRequest ==
  {Owned(k1), Owned(k2),
   [Owned(k1) EXCEPT !.dbx = Empty, !.reboot = FALSE],
   [Owned(k1) EXCEPT !.kek = D(k2, k2)],  \* KEK is not signed by PK
   [Owned(k2) EXCEPT !.kek = D(k1, k2), !.db = D(k2, k1)],
   [Owned(k2) EXCEPT !.pk = D(k2, k1)],   \* PK of k2, signed by k1
   [Owned(k1) EXCEPT !.db = Empty],
   [Owned(k1) EXCEPT !.json = FALSE]}

Symmetry == Permutations(Conn)
=============================================================================
