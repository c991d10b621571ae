------------------------------ MODULE HostRecord ------------------------------
(***************************************************************************)
(* What the two EFI variables of "stprov remote static" and "dhcp" promise *)
(* together, whatever fails: executions are numbered, and a variable is    *)
(* the number of the execution that wrote it last, 0 before the first one. *)
(*                                                                         *)
(* The configuration follows the name, it never gets ahead of it and never *)
(* goes back; success is only reported of what both variables hold.  This  *)
(* is the order of the code: docs/stprov-system.md, lines 138 and 139, has *)
(* the configuration (1.2) written before the name (1.3), and thereby the  *)
(* opposite of this specification.                                         *)
(***************************************************************************)
EXTENDS Integers

VARIABLES
  name,   \* STHostName
  config, \* the host configuration
  told    \* the last execution that reported success

record == <<name, config, told>>

Init == name = 0 /\ config = 0 /\ told = 0

\* A later execution persists its host name
Rename == name' \in Int /\ name' > name /\ UNCHANGED <<config, told>>

\* The execution whose name is there persists its configuration
Complete == config < name /\ config' = name /\ UNCHANGED <<name, told>>

\* ... and tells the operator, once
Report == told < config /\ config = name /\ told' = config /\ UNCHANGED <<name, config>>

Next == Rename \/ Complete \/ Report

Spec == Init /\ [][Next]_record
=============================================================================
