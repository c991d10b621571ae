---------------------------- MODULE MCLinkSelect ----------------------------
(***************************************************************************)
(* LinkSelect with three links and two executions of the program.          *)
(***************************************************************************)
EXTENDS LinkSelect

\* No speed, one that the driver does not know, and a known one
MCSpeeds == {Unreadable, -1, 10}
=============================================================================
