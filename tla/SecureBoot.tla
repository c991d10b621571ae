------------------------------ MODULE SecureBoot ------------------------------
(***************************************************************************)
(* The add-secure-boot handler: handleAddSecureBoot of internal/api and    *)
(* package internal/sb, on the EFI variables of the platform.              *)
(*                                                                         *)
(* Handlers of several requests run concurrently.  Each EFI variable is    *)
(* read or written by one call into the firmware; between the calls of one *)
(* handler anything may happen to the variables.  What the firmware does   *)
(* with an authenticated write is external, SetVariable of UEFI: in Setup  *)
(* Mode it takes anything but a PK that is not self-signed, in user mode   *)
(* what the PK of the platform signed (a new PK or a KEK) or what its KEK  *)
(* signed (db and dbx).                                                    *)
(***************************************************************************)
EXTENDS Naturals

CONSTANTS
  Conn,      \* the connections that carry an add-secure-boot request
  Request,   \* the requests: [json, pk, kek, db, dbx, reboot]
  Key,       \* signing keys
  Factory,   \* a descriptor that was there before, by an unknown signer
  Empty,     \* an empty descriptor in a request, an absent EFI variable
  NoRequest, NoResponse

\* An authentication_v2 descriptor: the key that it installs, and its signer
Descriptor == [key : Key, by : Key]

RequestType ==
  [json : BOOLEAN, reboot : BOOLEAN, pk : Descriptor \cup {Empty},
   kek : Descriptor \cup {Empty}, db : Descriptor \cup {Empty},
   dbx : Descriptor \cup {Empty}]

ASSUME SecureBootAssumption ==
  /\ Request \subseteq RequestType
  /\ Factory \notin Descriptor /\ Empty \notin Descriptor /\ Factory # Empty
  /\ NoRequest \notin Request /\ NoResponse \notin Nat

Names == {"pk", "kek", "db", "dbx"}

VARIABLES
  efi,       \* the variables PK, KEK, db and dbx
  setupMode, \* the variable SetupMode
  indications, \* OsIndications: the set of its bits
  pc,        \* per connection: the next step of its handler
  req,       \* per connection: the request
  read,      \* per connection: OsIndications as RequestRebootIntoUEFIMenu read it
  code,      \* per connection: the status that the handler returns
  menu,      \* per connection: what was logged about the UEFI menu
  enrolled   \* per connection: the variables it wrote (history)

efiVars  == <<efi, setupMode, indications>>
connVars == <<pc, req, read, code, menu, enrolled>>
vars     == <<efiVars, connVars>>

\* PK is absent exactly in Setup Mode; the other variables may have survived
\* what removed it
Init ==
  /\ efi \in [Names -> {Empty, Factory}]
  /\ setupMode = (efi["pk"] = Empty)
  /\ indications \in {{}, {"other"}}
  /\ pc = [c \in Conn |-> "idle"]
  /\ req = [c \in Conn |-> NoRequest]
  /\ read = [c \in Conn |-> {}]
  /\ code = [c \in Conn |-> NoResponse]
  /\ menu = [c \in Conn |-> "silent"]
  /\ enrolled = [c \in Conn |-> {}]
-----------------------------------------------------------------------------
(* The firmware *)

\* The variable whose key has to have signed a descriptor
Signer(name) == IF name \in {"pk", "kek"} THEN efi["pk"] ELSE efi["kek"]

\* The signature of d, for variable name, is one that the firmware accepts now: in
\* Setup Mode any, except that a PK signs itself, in user mode the signer's, which
\* for a new PK is the old one
Accepts(name, d) ==
  \/ setupMode /\ (name = "pk" => d.by = d.key)
  \/ ~setupMode /\ Signer(name) \in Descriptor /\ Signer(name).key = d.by

\* An authenticated write that succeeds; enrolling a PK ends Setup Mode
Enrolls(name, d) ==
  /\ Accepts(name, d)
  /\ efi' = [efi EXCEPT ![name] = d]
  /\ setupMode' = (setupMode /\ name # "pk")
  /\ UNCHANGED indications
-----------------------------------------------------------------------------
(* handleAddSecureBoot *)

\* An early return: the deferred function finds its flag unset
Rejects(c, status) ==
  /\ pc' = [pc EXCEPT ![c] = "done"]
  /\ code' = [code EXCEPT ![c] = status]
  /\ UNCHANGED <<efiVars, read, menu, enrolled>>

\* IsSetupMode fails or says yes, and the handler goes on to read the body ...
Begins(c, r) ==
  /\ pc[c] = "idle"
  /\ pc' = [pc EXCEPT ![c] = "unpack"]
  /\ req' = [req EXCEPT ![c] = r]
  /\ UNCHANGED <<efiVars, read, code, menu, enrolled>>

\* ... or says no
NotInSetupMode(c, r) ==
  /\ pc[c] = "idle" /\ ~setupMode
  /\ req' = [req EXCEPT ![c] = r]
  /\ Rejects(c, 403)

\* Faulty variant: PK last, as one would do it by hand in Setup Mode
AfterPKLast(name, r) ==
  CASE name = "unpack" -> "kek"
    [] name = "kek" -> "db"
    [] name = "db" -> IF r.dbx # Empty THEN "dbx" ELSE "pk"
    [] name = "dbx" -> "pk"
    [] name = "pk" -> "deferred"

\* Faulty variant: dbx is never written
AfterWithoutDbx(name, r) ==
  CASE name = "unpack" -> "pk"
    [] name = "pk" -> "kek"
    [] name = "kek" -> "db"
    [] name \in {"db", "dbx"} -> "deferred"

\* The order of sb.Provision
After(name, r) ==
  CASE name = "unpack" -> "pk"
    [] name = "pk" -> "kek"
    [] name = "kek" -> "db"
    [] name = "db" -> IF r.dbx # Empty THEN "dbx" ELSE "deferred"
    [] name = "dbx" -> "deferred"

\* AddSecureBootRequest.Check
Check(r) == Empty \notin {r.pk, r.kek, r.db}

\* The body does not arrive, does not parse, or lacks a descriptor
BadRequest(c) ==
  /\ pc[c] = "unpack"
  /\ Rejects(c, 400)
  /\ UNCHANGED req

Unpacks(c) ==
  /\ pc[c] = "unpack" /\ req[c].json /\ Check(req[c])
  /\ pc' = [pc EXCEPT ![c] = After("unpack", req[c])]
  /\ UNCHANGED <<efiVars, req, read, code, menu, enrolled>>

\* Provision writes the next variable
Provisions(c) ==
  /\ pc[c] \in Names
  /\ Enrolls(pc[c], req[c][pc[c]])
  /\ pc' = [pc EXCEPT ![c] = After(pc[c], req[c])]
  /\ code' = [code EXCEPT ![c] = IF pc'[c] = "deferred" THEN 200 ELSE @]
  /\ enrolled' = [enrolled EXCEPT ![c] = @ \cup {pc[c]}]
  /\ UNCHANGED <<req, read, menu>>

\* Faulty variant: the flag of the deferred function is set after Provision
ProvisionFailsSilently(c) ==
  /\ pc[c] \in Names
  /\ Rejects(c, 400)
  /\ UNCHANGED req

\* The firmware rejects the write, or the write fails: what was written stays
ProvisionFails(c) ==
  /\ pc[c] \in Names
  /\ pc' = [pc EXCEPT ![c] = "deferred"]
  /\ code' = [code EXCEPT ![c] = 400]
  /\ UNCHANGED <<efiVars, req, read, menu, enrolled>>

\* The deferred function.  An error of the read counts as "no bit is set"; a
\* variable of another length is an error.
ReadsIndications(c) ==
  /\ pc[c] = "deferred" /\ req[c].reboot
  /\ \E bits \in {indications, {}} :
       IF "ui" \in bits
       THEN /\ pc' = [pc EXCEPT ![c] = "done"]
            /\ menu' = [menu EXCEPT ![c] = "requested"]
            /\ UNCHANGED read
       ELSE /\ pc' = [pc EXCEPT ![c] = "indicate"]
            /\ read' = [read EXCEPT ![c] = bits]
            /\ UNCHANGED menu
  /\ UNCHANGED <<efiVars, req, code, enrolled>>

\* Faulty variant: another bit of OsIndications is set
WritesWrongBit(c) ==
  /\ pc[c] = "indicate"
  /\ pc' = [pc EXCEPT ![c] = "done"]
  /\ menu' = [menu EXCEPT ![c] = "requested"]
  /\ indications' = read[c] \cup {"capsule"}
  /\ UNCHANGED <<efi, setupMode, req, read, code, enrolled>>

WritesIndications(c) ==
  /\ pc[c] = "indicate"
  /\ pc' = [pc EXCEPT ![c] = "done"]
  /\ menu' = [menu EXCEPT ![c] = "requested"]
  /\ indications' = read[c] \cup {"ui"}
  /\ UNCHANGED <<efi, setupMode, req, read, code, enrolled>>

MenuFails(c) ==
  /\ pc[c] \in {"deferred", "indicate"} /\ req[c].reboot
  /\ pc' = [pc EXCEPT ![c] = "done"]
  /\ menu' = [menu EXCEPT ![c] = "failed"]
  /\ UNCHANGED <<efiVars, req, read, code, enrolled>>

NoMenu(c) ==
  /\ pc[c] = "deferred" /\ ~req[c].reboot
  /\ pc' = [pc EXCEPT ![c] = "done"]
  /\ UNCHANGED <<efiVars, req, read, code, menu, enrolled>>

\* The process ends or the platform loses power, and is started again: no handler
\* survives and every EFI variable does; a boot that goes to the UEFI menu clears
\* the request for it
Restart ==
  /\ \E c \in Conn : pc[c] \notin {"idle", "over"}
  /\ pc' = [c \in Conn |-> IF pc[c] = "idle" THEN "idle" ELSE "over"]
  /\ indications' \in {indications, indications \ {"ui"}}
  /\ UNCHANGED <<efi, setupMode, req, read, code, menu, enrolled>>

Handler(c) ==
  \/ \E r \in Request : Begins(c, r) \/ NotInSetupMode(c, r)
  \/ BadRequest(c) \/ Unpacks(c) \/ Provisions(c) \/ ProvisionFails(c)
  \/ ReadsIndications(c) \/ WritesIndications(c) \/ MenuFails(c) \/ NoMenu(c)

Next == Restart \/ \E c \in Conn : Handler(c)

Spec == Init /\ [][Next]_vars
-----------------------------------------------------------------------------
(* Properties *)

Blob == Descriptor \cup {Empty, Factory}

TypeOK ==
  /\ efi \in [Names -> Blob]
  /\ setupMode \in BOOLEAN
  /\ indications \subseteq {"ui", "other"}
  /\ pc \in [Conn -> Names \cup {"idle", "unpack", "deferred", "indicate", "done", "over"}]
  /\ req \in [Conn -> Request \cup {NoRequest}]
  /\ read \in [Conn -> SUBSET {"ui", "other"}]
  /\ code \in [Conn -> {200, 400, 403, NoResponse}]
  /\ menu \in [Conn -> {"silent", "requested", "failed"}]
  /\ enrolled \in [Conn -> SUBSET Names]

Wrote == {c \in Conn : enrolled[c] # {}}

\* A request put a PK there that another key had signed for
Replaces(c) == "pk" \in enrolled[c] /\ req[c].pk.by # req[c].pk.key

\* Keys "signed according to the Secure Boot key hierarchy", although Setup Mode
\* takes anything and other requests write in between: a KEK that a request put
\* there is signed by a PK that was enrolled, and by the one of the platform unless
\* that was replaced with its own signature; db and dbx by a KEK that was enrolled.
SignedByHierarchy ==
  /\ efi["kek"] \in Descriptor =>
       \E c \in Conn :
         /\ "pk" \in enrolled[c] /\ efi["kek"].by = req[c].pk.key
         /\ efi["pk"].key = req[c].pk.key \/ \E d \in Conn : Replaces(d)
  /\ \A name \in {"db", "dbx"} : efi[name] \in Descriptor =>
       \E c \in Conn : "kek" \in enrolled[c] /\ efi[name].by = req[c].kek.key

\* Of the requests that all saw Setup Mode, those that wrote anything trace back to
\* one of them: no group without that one got in on its own signatures, so that two
\* owners who know nothing of each other cannot both enrol a part of their keys.
OwnersAuthorised ==
  Wrote # {} => \E first \in Wrote : \A group \in SUBSET (Wrote \ {first}) :
    group # {} =>
      \E c \in group : \E d \in Wrote \ group : req[c].pk.by = req[d].pk.key

\* A 200 is complete: every descriptor of the request is in its variable, unless
\* another request wrote as well.
SuccessIsComplete ==
  \A c \in Conn : code[c] = 200 /\ (\A d \in Conn \ {c} : enrolled[d] = {}) =>
    \A name \in Names : req[c][name] # Empty => efi[name] = req[c][name]

\* "On Secure Boot provisioning (successful or not)": a request that changed a key
\* and returned has asked for the UEFI menu, or has logged that it could not, and
\* what one request asked for the next one does not take back.
MenuRequested ==
  \A c \in Conn :
    /\ enrolled[c] # {} /\ pc[c] = "done" /\ req[c].reboot => menu[c] # "silent"
    /\ pc[c] = "done" /\ menu[c] = "requested" => "ui" \in indications
=============================================================================
