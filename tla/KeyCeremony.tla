----------------------------- MODULE KeyCeremony -----------------------------
(***************************************************************************)
(* What provisioning promises about the SSH host key, with the server, the *)
(* clients and the network left out: keys are offered, the operator        *)
(* confirms once, one of the keys offered by then is the one that is       *)
(* persisted, and nothing else ever changes the persisted key.  RemoteRun  *)
(* implements this specification.                                          *)
(***************************************************************************)
CONSTANTS Key,  \* the host keys that may be derived
          NoKey, \* none was chosen
          Old    \* what EFI NVRAM may hold before

VARIABLES offered, \* the keys some stprov local was told, or is being told
          chosen,  \* the key the confirmation of the operator settled on
          hostKey, \* the key in EFI NVRAM
          phase    \* "collect", "confirmed" or "over"

vars == <<offered, chosen, hostKey, phase>>

\* An earlier provisioning may have left a key behind
Init ==
  /\ offered = {} /\ chosen = NoKey /\ phase = "collect"
  /\ hostKey \in Old

\* Another key is offered; this may also happen after the confirmation
Offer(k) ==
  /\ phase # "over" /\ k \notin offered
  /\ offered' = offered \cup {k}
  /\ UNCHANGED <<chosen, hostKey, phase>>

Confirm(k) ==
  /\ phase = "collect" /\ k \in offered
  /\ chosen' = k /\ phase' = "confirmed"
  /\ UNCHANGED <<offered, hostKey>>

Persist ==
  /\ phase = "confirmed"
  /\ hostKey' = chosen /\ phase' = "over"
  /\ UNCHANGED <<offered, chosen>>

\* An error, the operator's ctrl+c or a power cut: the old key stays
GiveUp ==
  /\ phase # "over" /\ phase' = "over"
  /\ UNCHANGED <<offered, chosen, hostKey>>

Next == (\E k \in Key : Offer(k) \/ Confirm(k)) \/ Persist \/ GiveUp

Spec == Init /\ [][Next]_vars
=============================================================================
