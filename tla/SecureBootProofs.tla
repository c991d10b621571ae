--------------------------- MODULE SecureBootProofs ---------------------------
(***************************************************************************)
(* Theorems about SecureBoot, for any number of concurrent requests with   *)
(* any descriptors, and any signing keys.                                  *)
(*                                                                         *)
(* What is enrolled follows from one inductive invariant, HandlerInv: what *)
(* a handler has written when it is at a given variable, what that says    *)
(* about Setup Mode, and what the variables hold because of it.  MenuInv   *)
(* is the one for OsIndications.                                           *)
(***************************************************************************)
EXTENDS SecureBoot, TLAPS

\* A handler beyond Check has a request with the three required descriptors
Checked(c) ==
  /\ pc[c] = "idle" <=> req[c] = NoRequest
  /\ pc[c] \in Names \cup {"deferred", "indicate"} \/ enrolled[c] # {} => Check(req[c])
  /\ pc[c] \in {"idle", "unpack"} => enrolled[c] = {}
  /\ pc[c] = "dbx" => req[c].dbx # Empty
RequestChecked == \A c \in Conn : Checked(c)

\* What a handler has written by the time it is at a variable of sb.Provision,
\* and what a 200 stands for
Written(c) ==
  /\ pc[c] = "pk" => enrolled[c] = {}
  /\ pc[c] = "kek" => enrolled[c] = {"pk"}
  /\ pc[c] = "db" => enrolled[c] = {"pk", "kek"}
  /\ pc[c] = "dbx" => enrolled[c] = {"pk", "kek", "db"}
  /\ pc[c] \in Names \cup {"idle", "unpack"} => code[c] = NoResponse
  /\ code[c] = 200 => {name \in Names : req[c][name] # Empty} \subseteq enrolled[c]
WrittenSoFar == \A c \in Conn : Written(c)

\* Setup Mode is the absence of PK, and whoever wrote anything wrote a PK first
PKFirst ==
  /\ setupMode <=> efi["pk"] = Empty
  /\ Wrote # {} => efi["pk"] \in Descriptor
  /\ \A c \in Conn : enrolled[c] # {} => "pk" \in enrolled[c]

\* A descriptor that was not there at boot is that of a request that wrote it
FromRequests == \A name \in Names : efi[name] \in Descriptor =>
  \E c \in Conn : name \in enrolled[c] /\ efi[name] = req[c][name]

\* As long as no PK replaced another one, every owner is that of the platform's
SameOwner ==
  (\A d \in Conn : ~Replaces(d)) => \A c \in Wrote : efi["pk"].key = req[c].pk.key

OwnerInv == PKFirst /\ FromRequests /\ SameOwner /\ SignedByHierarchy /\ OwnersAuthorised

\* What one handler alone wrote is still there
KeptAlone == \A c \in Conn : \A name \in enrolled[c] :
  (\A d \in Conn \ {c} : name \notin enrolled[d]) => efi[name] = req[c][name]

\* Only a handler that returned says that the menu was requested
MenuOf(c) ==
  /\ enrolled[c] # {} /\ pc[c] = "done" /\ req[c].reboot => menu[c] # "silent"
  /\ pc[c] = "done" /\ menu[c] = "requested" => "ui" \in indications
  /\ menu[c] = "requested" => pc[c] \in {"done", "over"}
MenuInv == \A c \in Conn : MenuOf(c)

TypeInv == TypeOK /\ RequestChecked
HandlerInv == TypeInv /\ WrittenSoFar /\ OwnerInv /\ KeptAlone
-----------------------------------------------------------------------------
(* Types *)

\* A request that passed the check names a descriptor for the variable that its
\* handler is at
LEMMA NamesDescriptor ==
  ASSUME TypeInv, NEW c \in Conn, pc[c] \in Names
  PROVE  /\ req[c] \in Request /\ req[c] \in RequestType
         /\ req[c][pc[c]] \in Descriptor
         /\ req[c].pk \in Descriptor
         /\ req[c].pk # Empty /\ req[c].kek # Empty /\ req[c].db # Empty
<1>1. req[c] \in Request /\ req[c] \in RequestType
  BY SecureBootAssumption DEF TypeInv, TypeOK, RequestChecked, Checked, Names
<1>2. req[c].pk # Empty /\ req[c].kek # Empty /\ req[c].db # Empty
  BY DEF TypeInv, RequestChecked, Checked, Check, Names
<1>3. pc[c] = "dbx" => req[c].dbx # Empty
  BY DEF TypeInv, RequestChecked, Checked
<1> QED BY <1>1, <1>2, <1>3 DEF RequestType, Names

\* The next variable, or the end of Provision
LEMMA AfterType ==
  ASSUME NEW r, NEW name \in Names \cup {"unpack"}
  PROVE  /\ After(name, r) \in Names \cup {"deferred"}
         /\ After(name, r) = "pk" <=> name = "unpack"
         /\ After(name, r) = "kek" <=> name = "pk"
         /\ After(name, r) = "db" <=> name = "kek"
         /\ After(name, r) = "dbx" <=> name = "db" /\ r.dbx # Empty
         /\ After(name, r) = "deferred" <=> name = "dbx" \/ (name = "db" /\ r.dbx = Empty)
  BY DEF After, Names

\* Before the first request
LEMMA InitType == Init => TypeInv
<1> SUFFICES ASSUME Init PROVE TypeInv
  OBVIOUS
<1>1. efi \in [Names -> Blob]
  BY DEF Init, Blob
<1>2. TypeOK
  BY <1>1 DEF Init, TypeOK
<1>3. RequestChecked
  BY DEF Init, RequestChecked, Checked, Names
<1> QED BY <1>2, <1>3 DEF TypeInv

\* No step of a handler breaks a type or goes on with a request that lacks a
\* required descriptor
LEMMA StepType == TypeInv /\ [Next]_vars => TypeInv'
<1> SUFFICES ASSUME TypeInv, [Next]_vars PROVE TypeInv'
  OBVIOUS
<1> USE DEF TypeInv, TypeOK, RequestChecked, Checked
<1>1. CASE UNCHANGED vars
  BY <1>1 DEF vars, efiVars, connVars, Check
<1>2. CASE Restart
  BY <1>2 DEF Restart, Check, Names
<1>3. ASSUME NEW c \in Conn, NEW r \in Request, Begins(c, r)
      PROVE  TypeInv'
  <2>1. r # NoRequest
    BY SecureBootAssumption
  <2>2. TypeOK'
    BY <1>3 DEF Begins, efiVars
  <2>3. ASSUME NEW d \in Conn PROVE Checked(d)'
    BY <1>3, <2>1 DEF Begins, Check, Names
  <2> QED BY <2>2, <2>3
<1>4. ASSUME NEW c \in Conn, NEW r \in Request, NotInSetupMode(c, r)
      PROVE  TypeInv'
  <2>1. r # NoRequest
    BY SecureBootAssumption
  <2>2. TypeOK'
    BY <1>4 DEF NotInSetupMode, Rejects, efiVars
  <2>3. ASSUME NEW d \in Conn PROVE Checked(d)'
    BY <1>4, <2>1 DEF NotInSetupMode, Rejects, Check, Names
  <2> QED BY <2>2, <2>3
<1>5. ASSUME NEW c \in Conn, BadRequest(c)
      PROVE  TypeInv'
  BY <1>5 DEF BadRequest, Rejects, efiVars, Check, Names
<1>6. ASSUME NEW c \in Conn, Unpacks(c)
      PROVE  TypeInv'
  BY <1>6, AfterType DEF Unpacks, efiVars, Check, Names
<1>7. ASSUME NEW c \in Conn, Provisions(c)
      PROVE  TypeInv'
  <2>1. efi' \in [Names -> Blob] /\ setupMode' \in BOOLEAN
    BY <1>7, NamesDescriptor DEF Provisions, Enrolls, Blob
  <2>2. pc' \in [Conn -> Names \cup {"idle", "unpack", "deferred", "indicate", "done", "over"}]
    <3>1. After(pc[c], req[c]) \in Names \cup {"deferred"}
      BY <1>7, AfterType DEF Provisions
    <3>2. pc' = [pc EXCEPT ![c] = After(pc[c], req[c])]
      BY <1>7 DEF Provisions
    <3> HIDE DEF RequestChecked
    <3> QED BY <3>1, <3>2
  <2>3. enrolled' \in [Conn -> SUBSET Names]
    BY <1>7 DEF Provisions
  <2>4. TypeOK'
    BY <1>7, <2>1, <2>2, <2>3 DEF Provisions, Enrolls
  <2>5. RequestChecked'
    <3>1. pc'[c] \in Names \cup {"deferred"} /\ (pc'[c] = "dbx" => req[c].dbx # Empty)
      BY <1>7, AfterType DEF Provisions
    <3>2. Check(req[c])
      BY <1>7 DEF Provisions
    <3>3. \A d \in Conn \ {c} : pc'[d] = pc[d] /\ enrolled'[d] = enrolled[d]
      BY <1>7 DEF Provisions
    <3>4. req' = req /\ pc[c] # "idle"
      BY <1>7 DEF Provisions, Names
    <3> QED BY <3>1, <3>2, <3>3, <3>4 DEF Check, Names
  <2> QED BY <2>4, <2>5
<1>8. ASSUME NEW c \in Conn, ProvisionFails(c)
      PROVE  TypeInv'
  BY <1>8 DEF ProvisionFails, efiVars, Check, Names
<1>9. ASSUME NEW c \in Conn, ReadsIndications(c)
      PROVE  TypeInv'
  <2>1. TypeOK'
    <3>1. PICK bits \in {indications, {}} :
            IF "ui" \in bits
            THEN /\ pc' = [pc EXCEPT ![c] = "done"]
                 /\ menu' = [menu EXCEPT ![c] = "requested"]
                 /\ UNCHANGED read
            ELSE /\ pc' = [pc EXCEPT ![c] = "indicate"]
                 /\ read' = [read EXCEPT ![c] = bits]
                 /\ UNCHANGED menu
      BY <1>9 DEF ReadsIndications
    <3>2. bits \in SUBSET {"ui", "other"}
      OBVIOUS
    <3> HIDE DEF RequestChecked
    <3>3. pc' \in [Conn -> Names \cup {"idle", "unpack", "deferred", "indicate", "done", "over"}]
      <4>1. pc' \in {pc, [pc EXCEPT ![c] = "done"], [pc EXCEPT ![c] = "indicate"]}
        BY <1>9, <3>1 DEF ReadsIndications
      <4> QED BY <4>1
    <3>4. read' \in [Conn -> SUBSET {"ui", "other"}]
      <4>1. read' \in {read, [read EXCEPT ![c] = bits]}
        BY <3>1
      <4>2. read \in [Conn -> SUBSET {"ui", "other"}]
        BY DEF TypeInv, TypeOK
      <4> HIDE DEF TypeInv, TypeOK
      <4> QED BY <3>2, <4>1, <4>2
    <3>5. menu' \in [Conn -> {"silent", "requested", "failed"}]
      BY <3>1
    <3> QED BY <1>9, <3>3, <3>4, <3>5 DEF ReadsIndications, efiVars
  <2>2. ASSUME NEW d \in Conn PROVE Checked(d)'
    BY <1>9 DEF ReadsIndications, Check, Names
  <2> QED BY <2>1, <2>2
<1>10. ASSUME NEW c \in Conn, WritesIndications(c)
       PROVE  TypeInv'
  BY <1>10 DEF WritesIndications, Check, Names
<1>11. ASSUME NEW c \in Conn, MenuFails(c)
       PROVE  TypeInv'
  BY <1>11 DEF MenuFails, efiVars, Check, Names
<1>12. ASSUME NEW c \in Conn, NoMenu(c)
       PROVE  TypeInv'
  BY <1>12 DEF NoMenu, efiVars, Check, Names
<1> QED BY <1>1, <1>2, <1>3, <1>4, <1>5, <1>6, <1>7, <1>8, <1>9, <1>10, <1>11, <1>12
        DEF Next, Handler

\* Every variable keeps its type, for any connections and requests
THEOREM TypeCorrect == Spec => []TypeOK
<1> QED BY InitType, StepType, PTL DEF Spec, TypeInv
-----------------------------------------------------------------------------
(* What is enrolled *)

\* Only a write of sb.Provision touches the variables of Secure Boot, and the
\* request of a handler that wrote one is the same from then on
LEMMA OnlyProvisionsWrite ==
  ASSUME TypeInv, [Next]_vars, \A c \in Conn : ~Provisions(c)
  PROVE  /\ UNCHANGED <<efi, setupMode, enrolled>>
         /\ \A c \in Conn : enrolled[c] # {} => req'[c] = req[c]
<1> USE DEF TypeInv, TypeOK, RequestChecked, Checked
<1>1. CASE UNCHANGED vars
  BY <1>1 DEF vars, efiVars, connVars
<1>2. CASE Restart
  BY <1>2 DEF Restart
<1>3. ASSUME NEW c \in Conn, NEW r \in Request, Begins(c, r)
      PROVE  /\ UNCHANGED <<efi, setupMode, enrolled>>
             /\ \A d \in Conn : enrolled[d] # {} => req'[d] = req[d]
  BY <1>3 DEF Begins, efiVars
<1>4. ASSUME NEW c \in Conn, NEW r \in Request, NotInSetupMode(c, r)
      PROVE  /\ UNCHANGED <<efi, setupMode, enrolled>>
             /\ \A d \in Conn : enrolled[d] # {} => req'[d] = req[d]
  BY <1>4 DEF NotInSetupMode, Rejects, efiVars
<1>5. ASSUME NEW c \in Conn,
             \/ BadRequest(c) \/ Unpacks(c) \/ ProvisionFails(c)
             \/ ReadsIndications(c) \/ WritesIndications(c) \/ MenuFails(c) \/ NoMenu(c)
      PROVE  UNCHANGED <<efi, setupMode, enrolled, req>>
  BY <1>5 DEF BadRequest, Rejects, Unpacks, ProvisionFails, ReadsIndications,
              WritesIndications, MenuFails, NoMenu, efiVars
<1> QED BY <1>1, <1>2, <1>3, <1>4, <1>5 DEF Next, Handler

\* A write of sb.Provision: the descriptor that it wrote, and everything else that
\* it left alone
LEMMA ProvisionsWrites ==
  ASSUME TypeInv, NEW c \in Conn, Provisions(c)
  PROVE  /\ pc[c] \in Names /\ req[c][pc[c]] \in Descriptor
         /\ Accepts(pc[c], req[c][pc[c]])
         /\ efi'[pc[c]] = req[c][pc[c]]
         /\ \A name \in Names \ {pc[c]} : efi'[name] = efi[name]
         /\ setupMode' = (setupMode /\ pc[c] # "pk")
         /\ enrolled'[c] = enrolled[c] \cup {pc[c]}
         /\ \A d \in Conn \ {c} : enrolled'[d] = enrolled[d] /\ pc'[d] = pc[d] /\ code'[d] = code[d]
         /\ req' = req
         /\ pc'[c] = After(pc[c], req[c])
         /\ code'[c] = IF pc'[c] = "deferred" THEN 200 ELSE code[c]
<1> USE DEF TypeInv, TypeOK
<1>1. pc[c] \in Names /\ req[c][pc[c]] \in Descriptor
  BY NamesDescriptor DEF Provisions
<1>2. efi' = [efi EXCEPT ![pc[c]] = req[c][pc[c]]] /\ Accepts(pc[c], req[c][pc[c]])
  BY DEF Provisions, Enrolls
<1>3. setupMode' = (setupMode /\ pc[c] # "pk")
  BY DEF Provisions, Enrolls
<1>4. enrolled'[c] = enrolled[c] \cup {pc[c]} /\ req' = req /\ pc'[c] = After(pc[c], req[c])
  BY DEF Provisions
<1>5. code'[c] = IF pc'[c] = "deferred" THEN 200 ELSE code[c]
  BY DEF Provisions
<1>6. \A d \in Conn \ {c} : enrolled'[d] = enrolled[d] /\ pc'[d] = pc[d] /\ code'[d] = code[d]
  BY DEF Provisions
<1> QED BY <1>1, <1>2, <1>3, <1>4, <1>5, <1>6

\* The factory's variables are signed by nobody that a request could name
LEMMA InitHandler == Init => HandlerInv
<1> SUFFICES ASSUME Init PROVE HandlerInv
  OBVIOUS
<1>1. TypeInv
  BY InitType
<1>2. \A name \in Names : efi[name] \notin Descriptor
  BY SecureBootAssumption DEF Init
<1>3. ASSUME NEW c \in Conn
      PROVE  Written(c)
  <2>1. NoResponse # 200
    BY SecureBootAssumption
  <2> QED BY <2>1 DEF Init, Written, Names
<1>4. Wrote = {}
  BY DEF Init, Wrote
<1>5. OwnerInv
  BY <1>2, <1>4 DEF Init, OwnerInv, PKFirst, FromRequests, SameOwner, SignedByHierarchy,
     OwnersAuthorised, Names
<1>6. KeptAlone
  BY DEF Init, KeptAlone
<1> QED BY <1>1, <1>3, <1>5, <1>6 DEF HandlerInv, WrittenSoFar

\* Handlers get from variable to variable in the order of sb.Provision, and only
\* the last one makes a 200
LEMMA StepWritten == TypeInv /\ WrittenSoFar /\ [Next]_vars => WrittenSoFar'
<1> SUFFICES ASSUME TypeInv, WrittenSoFar, [Next]_vars, NEW d \in Conn PROVE Written(d)'
  BY DEF WrittenSoFar
<1>1. Written(d) /\ NoResponse # 200 /\ NoRequest \notin Request
  BY SecureBootAssumption DEF WrittenSoFar
<1> USE DEF TypeInv, TypeOK, RequestChecked, Checked
<1>2. CASE UNCHANGED vars
  BY <1>1, <1>2 DEF vars, efiVars, connVars, Written
<1>3. CASE Restart
  BY <1>1, <1>3 DEF Restart, Written, Names
<1>4. ASSUME NEW c \in Conn, NEW r \in Request, Begins(c, r)
      PROVE  Written(d)'
  BY <1>1, <1>4 DEF Begins, Written, Names
<1>5. ASSUME NEW c \in Conn, NEW r \in Request, NotInSetupMode(c, r)
      PROVE  Written(d)'
  BY <1>1, <1>5 DEF NotInSetupMode, Rejects, Written, Names
<1>6. ASSUME NEW c \in Conn, BadRequest(c)
      PROVE  Written(d)'
  BY <1>1, <1>6 DEF BadRequest, Rejects, Written, Names
<1>7. ASSUME NEW c \in Conn, Unpacks(c)
      PROVE  Written(d)'
  <2>1. After("unpack", req[c]) = "pk"
    BY AfterType
  <2> QED BY <1>1, <1>7, <2>1 DEF Unpacks, Written, Names
<1>8. ASSUME NEW c \in Conn, Provisions(c)
      PROVE  Written(d)'
  <2>1. CASE d # c
    BY <1>1, <1>8, <2>1, ProvisionsWrites DEF Written
  <2>2. CASE d = c /\ pc[c] \in {"pk", "kek"}
    <3>1. pc'[c] = (IF pc[c] = "pk" THEN "kek" ELSE "db")
      BY <1>8, <2>2, ProvisionsWrites, AfterType
    <3> QED BY <1>1, <1>8, <2>2, <3>1, ProvisionsWrites DEF Written, Names
  <2>3. CASE d = c /\ pc[c] \in {"db", "dbx"}
    <3>1. pc'[c] = (IF pc[c] = "db" /\ req[c].dbx # Empty THEN "dbx" ELSE "deferred")
      BY <1>8, <2>3, ProvisionsWrites, AfterType
    <3> QED BY <1>1, <1>8, <2>3, <3>1, ProvisionsWrites DEF Written, Names
  <2> QED BY <1>8, <2>1, <2>2, <2>3, ProvisionsWrites DEF Names
<1>9. ASSUME NEW c \in Conn, ProvisionFails(c)
      PROVE  Written(d)'
  BY <1>1, <1>9 DEF ProvisionFails, Written, Names
<1>10. ASSUME NEW c \in Conn, ReadsIndications(c)
       PROVE  Written(d)'
  BY <1>1, <1>10 DEF ReadsIndications, Written, Names
<1>11. ASSUME NEW c \in Conn, WritesIndications(c)
       PROVE  Written(d)'
  BY <1>1, <1>11 DEF WritesIndications, Written, Names
<1>12. ASSUME NEW c \in Conn, MenuFails(c) \/ NoMenu(c)
       PROVE  Written(d)'
  BY <1>1, <1>12 DEF MenuFails, NoMenu, Written, Names
<1> QED BY <1>2, <1>3, <1>4, <1>5, <1>6, <1>7, <1>8, <1>9, <1>10, <1>11, <1>12 DEF Next, Handler

\* A step that writes no variable leaves the owners as they are
LEMMA OwnersStay ==
  ASSUME TypeInv, OwnerInv, UNCHANGED <<efi, setupMode, enrolled>>,
         \A c \in Conn : enrolled[c] # {} => req'[c] = req[c]
  PROVE  OwnerInv'
<1>1. Wrote' = Wrote /\ Wrote \subseteq Conn /\ \A c \in Wrote : req'[c] = req[c]
  BY DEF Wrote
<1>2. \A c \in Conn : Replaces(c)' <=> Replaces(c)
  BY DEF Replaces
<1>3. PKFirst'
  BY <1>1 DEF OwnerInv, PKFirst
<1>4. FromRequests'
  BY DEF OwnerInv, FromRequests
<1>5. SameOwner'
  BY <1>1, <1>2 DEF OwnerInv, SameOwner
<1>6. SignedByHierarchy'
  BY <1>2 DEF OwnerInv, SignedByHierarchy
<1>7. OwnersAuthorised'
  BY <1>1 DEF OwnerInv, OwnersAuthorised
<1> QED BY <1>3, <1>4, <1>5, <1>6, <1>7 DEF OwnerInv

\* The handler that writes PK: the first one of all, in Setup Mode, or with the
\* signature of an owner who wrote before
LEMMA StepPK ==
  ASSUME TypeInv, WrittenSoFar, OwnerInv, NEW c \in Conn, Provisions(c), pc[c] = "pk"
  PROVE  OwnerInv'
<1> DEFINE pk == req[c].pk
<1>1. /\ pk \in Descriptor /\ Accepts("pk", pk) /\ efi'["pk"] = pk /\ ~setupMode'
      /\ \A name \in Names \ {"pk"} : efi'[name] = efi[name]
      /\ enrolled'[c] = enrolled[c] \cup {"pk"} /\ req' = req
      /\ \A d \in Conn \ {c} : enrolled'[d] = enrolled[d]
  BY ProvisionsWrites
<1>2. enrolled[c] = {} /\ Empty \notin Descriptor
  BY SecureBootAssumption DEF WrittenSoFar, Written
<1>3. c \notin Wrote /\ Wrote' = Wrote \cup {c} /\ Wrote \subseteq Conn
  BY <1>1, <1>2 DEF Wrote
<1>4. \A d \in Conn \ {c} : Replaces(d)' <=> Replaces(d)
  BY <1>1 DEF Replaces
<1>5. Replaces(c)' <=> pk.by # pk.key
  BY <1>1 DEF Replaces
<1>6. PKFirst'
  BY <1>1, <1>2, <1>3 DEF OwnerInv, PKFirst
<1>7. FromRequests'
  BY <1>1 DEF OwnerInv, FromRequests, Names
<1>8. CASE setupMode
  <2>1. Wrote = {} /\ Wrote' = {c}
    BY <1>2, <1>3, <1>8 DEF OwnerInv, PKFirst
  <2>2. SameOwner'
    BY <1>1, <2>1 DEF SameOwner
  <2>3. OwnersAuthorised'
    BY <2>1 DEF OwnersAuthorised
  <2>4. \A name \in Names : efi[name] \notin Descriptor
    BY <2>1 DEF OwnerInv, FromRequests, Wrote
  <2>5. SignedByHierarchy'
    BY <1>1, <2>4 DEF SignedByHierarchy, Names
  <2> QED BY <1>6, <1>7, <2>2, <2>3, <2>5 DEF OwnerInv
<1>9. CASE ~setupMode
  <2>1. efi["pk"] \in Descriptor /\ efi["pk"].key = pk.by
    BY <1>1, <1>9 DEF Accepts, Signer
  <2>2. PICK owner \in Conn : "pk" \in enrolled[owner] /\ efi["pk"] = req[owner].pk
    BY <2>1 DEF OwnerInv, FromRequests, Names
  <2>3. owner \in Wrote /\ owner # c
    BY <1>2, <2>2 DEF Wrote
  <2>4. SameOwner'
    <3> SUFFICES ASSUME \A d \in Conn : ~Replaces(d)', NEW e \in Wrote'
                 PROVE  efi'["pk"].key = req'[e].pk.key
      BY DEF SameOwner
    <3>1. pk.by = pk.key /\ \A d \in Conn : ~Replaces(d)
      BY <1>2, <1>4, <1>5 DEF Replaces
    <3>2. \A d \in Wrote : efi["pk"].key = req[d].pk.key
      BY <3>1 DEF OwnerInv, SameOwner
    <3> QED BY <1>1, <1>3, <2>1, <3>1, <3>2
  <2>5. OwnersAuthorised'
    <3>1. PICK first \in Wrote : \A group \in SUBSET (Wrote \ {first}) : group # {} =>
            \E a \in group : \E b \in Wrote \ group : req[a].pk.by = req[b].pk.key
      BY <2>3 DEF OwnerInv, OwnersAuthorised
    <3>2. ASSUME NEW group \in SUBSET (Wrote' \ {first}), group # {}
          PROVE  \E a \in group : \E b \in Wrote' \ group : req[a].pk.by = req[b].pk.key
      <4>1. CASE group \ {c} = {}
        <5>1. c \in group /\ owner \in Wrote' \ group
          BY <1>3, <2>3, <3>2, <4>1
        <5> QED BY <2>1, <2>2, <5>1
      <4>2. CASE group \ {c} # {}
        <5>1. group \ {c} \in SUBSET (Wrote \ {first})
          BY <1>3
        <5>2. PICK a \in group \ {c} : \E b \in Wrote \ (group \ {c}) :
                req[a].pk.by = req[b].pk.key
          BY <3>1, <4>2, <5>1
        <5>3. Wrote \ (group \ {c}) \subseteq Wrote' \ group
          BY <1>3
        <5> QED BY <5>2, <5>3
      <4> QED BY <4>1, <4>2
    <3>3. first \in Wrote'
      BY <1>3
    <3> QED BY <1>1, <3>2, <3>3 DEF OwnersAuthorised
  <2>6. SignedByHierarchy'
    <3>1. ASSUME efi'["kek"] \in Descriptor
          PROVE  \E e \in Conn :
                   /\ "pk" \in enrolled'[e] /\ efi'["kek"].by = req'[e].pk.key
                   /\ efi'["pk"].key = req'[e].pk.key \/ \E d \in Conn : Replaces(d)'
      <4>1. PICK e \in Conn :
              /\ "pk" \in enrolled[e] /\ efi["kek"].by = req[e].pk.key
              /\ efi["pk"].key = req[e].pk.key \/ \E d \in Conn : Replaces(d)
        BY <1>1, <3>1 DEF OwnerInv, SignedByHierarchy, Names
      <4>2. "pk" \in enrolled'[e] /\ efi'["kek"].by = req'[e].pk.key
        BY <1>1, <4>1 DEF Names
      <4>3. CASE \E d \in Conn : Replaces(d)
        <5>1. PICK d \in Conn : Replaces(d)
          BY <4>3
        <5>2. d # c
          BY <1>2, <5>1 DEF Replaces
        <5> QED BY <1>4, <4>2, <5>1, <5>2
      <4>4. CASE efi["pk"].key = req[e].pk.key
        <5>1. CASE pk.by = pk.key
          BY <1>1, <2>1, <4>2, <4>4, <5>1
        <5>2. CASE pk.by # pk.key
          BY <1>5, <4>2, <5>2
        <5> QED BY <5>1, <5>2
      <4> QED BY <4>1, <4>3, <4>4
    <3>2. ASSUME NEW name \in {"db", "dbx"}, efi'[name] \in Descriptor
          PROVE  \E e \in Conn : "kek" \in enrolled'[e] /\ efi'[name].by = req'[e].kek.key
      BY <1>1, <3>2 DEF OwnerInv, SignedByHierarchy, Names
    <3> QED BY <3>1, <3>2 DEF SignedByHierarchy
  <2> QED BY <1>6, <1>7, <2>4, <2>5, <2>6 DEF OwnerInv
<1> QED BY <1>8, <1>9

\* The handler that writes another variable wrote a PK before, so it is not Setup
\* Mode any more, and the firmware checks the signature
LEMMA StepUnderPK ==
  ASSUME TypeInv, WrittenSoFar, OwnerInv, NEW c \in Conn, Provisions(c), pc[c] # "pk"
  PROVE  OwnerInv'
<1> DEFINE d == req[c][pc[c]]
<1>1. /\ pc[c] \in Names /\ d \in Descriptor /\ Accepts(pc[c], d)
      /\ efi'[pc[c]] = d /\ \A name \in Names \ {pc[c]} : efi'[name] = efi[name]
      /\ setupMode' = (setupMode /\ pc[c] # "pk")
      /\ enrolled'[c] = enrolled[c] \cup {pc[c]} /\ req' = req
      /\ \A e \in Conn \ {c} : enrolled'[e] = enrolled[e]
  BY ProvisionsWrites
<1>2. enrolled[c] # {} /\ efi'["pk"] = efi["pk"]
  BY <1>1 DEF Names, WrittenSoFar, Written
<1>3. c \in Wrote /\ Wrote' = Wrote
  BY <1>1, <1>2 DEF Wrote
<1>4. \A e \in Conn : /\ Replaces(e)' <=> Replaces(e)
                      /\ "pk" \in enrolled'[e] <=> "pk" \in enrolled[e]
  BY <1>1 DEF Replaces
<1>5. ~setupMode
  BY <1>3, SecureBootAssumption DEF OwnerInv, PKFirst
<1>6. Signer(pc[c]) \in Descriptor /\ Signer(pc[c]).key = d.by
  BY <1>1, <1>5 DEF Accepts
<1>7. PKFirst'
  BY <1>1, <1>2, <1>3 DEF OwnerInv, PKFirst
<1>8. FromRequests'
  BY <1>1 DEF OwnerInv, FromRequests
<1>9. SameOwner'
  BY <1>1, <1>2, <1>3, <1>4 DEF OwnerInv, SameOwner
<1>10. OwnersAuthorised'
  BY <1>1, <1>3 DEF OwnerInv, OwnersAuthorised
<1>11. ASSUME efi'["kek"] \in Descriptor
       PROVE  \E e \in Conn :
                /\ "pk" \in enrolled'[e] /\ efi'["kek"].by = req'[e].pk.key
                /\ efi'["pk"].key = req'[e].pk.key \/ \E f \in Conn : Replaces(f)'
  <2>1. CASE pc[c] = "kek"
    <3>1. efi["pk"] \in Descriptor /\ efi["pk"].key = d.by /\ efi'["kek"] = d
      BY <1>1, <1>6, <2>1 DEF Signer
    <3>2. PICK e \in Conn : "pk" \in enrolled[e] /\ efi["pk"] = req[e].pk
      BY <3>1 DEF OwnerInv, FromRequests, Names
    <3> QED BY <1>1, <1>2, <1>4, <3>1, <3>2
  <2>2. CASE pc[c] # "kek"
    <3>1. efi'["kek"] = efi["kek"]
      BY <1>1, <2>2 DEF Names
    <3>2. PICK e \in Conn :
            /\ "pk" \in enrolled[e] /\ efi["kek"].by = req[e].pk.key
            /\ efi["pk"].key = req[e].pk.key \/ \E f \in Conn : Replaces(f)
      BY <1>11, <3>1 DEF OwnerInv, SignedByHierarchy
    <3> QED BY <1>1, <1>2, <1>4, <3>1, <3>2
  <2> QED BY <2>1, <2>2
<1>12. ASSUME NEW name \in {"db", "dbx"}, efi'[name] \in Descriptor
       PROVE  \E e \in Conn : "kek" \in enrolled'[e] /\ efi'[name].by = req'[e].kek.key
  <2>1. CASE pc[c] = name
    <3>1. efi["kek"] \in Descriptor /\ efi["kek"].key = d.by /\ efi'[name] = d
      BY <1>1, <1>6, <2>1 DEF Signer
    <3>2. PICK e \in Conn : "kek" \in enrolled[e] /\ efi["kek"] = req[e].kek
      BY <3>1 DEF OwnerInv, FromRequests, Names
    <3> QED BY <1>1, <3>1, <3>2
  <2>2. CASE pc[c] # name
    <3>1. efi'[name] = efi[name]
      BY <1>1, <2>2 DEF Names
    <3> QED BY <1>1, <1>12, <3>1 DEF OwnerInv, SignedByHierarchy
  <2> QED BY <2>1, <2>2
<1>13. SignedByHierarchy'
  BY <1>11, <1>12 DEF SignedByHierarchy
<1> QED BY <1>7, <1>8, <1>9, <1>10, <1>13 DEF OwnerInv

\* Whoever writes, the owners that were there have signed for it, but for the first
LEMMA StepOwner == TypeInv /\ WrittenSoFar /\ OwnerInv /\ [Next]_vars => OwnerInv'
<1> SUFFICES ASSUME TypeInv, WrittenSoFar, OwnerInv, [Next]_vars PROVE OwnerInv'
  OBVIOUS
<1>1. CASE \A c \in Conn : ~Provisions(c)
  BY <1>1, OnlyProvisionsWrite, OwnersStay
<1>2. ASSUME NEW c \in Conn, Provisions(c)
      PROVE  OwnerInv'
  BY <1>2, StepPK, StepUnderPK
<1> QED BY <1>1, <1>2

\* A variable that only one handler wrote holds the descriptor of its request
LEMMA StepKept ==
  ASSUME TypeInv, KeptAlone, [Next]_vars
  PROVE  KeptAlone'
<1>1. CASE \A c \in Conn : ~Provisions(c)
  <2>1. /\ UNCHANGED <<efi, setupMode, enrolled>>
        /\ \A c \in Conn : enrolled[c] # {} => req'[c] = req[c]
    BY <1>1, OnlyProvisionsWrite
  <2> QED BY <2>1 DEF KeptAlone
<1>2. ASSUME NEW c \in Conn, Provisions(c)
      PROVE  KeptAlone'
  <2> SUFFICES ASSUME NEW d \in Conn, NEW name \in enrolled'[d],
                      \A e \in Conn \ {d} : name \notin enrolled'[e]
               PROVE  efi'[name] = req'[d][name]
    BY DEF KeptAlone
  <2>1. /\ efi'[pc[c]] = req[c][pc[c]] /\ req' = req
        /\ \A n \in Names \ {pc[c]} : efi'[n] = efi[n]
        /\ enrolled'[c] = enrolled[c] \cup {pc[c]}
        /\ \A e \in Conn \ {c} : enrolled'[e] = enrolled[e]
    BY <1>2, ProvisionsWrites
  <2>2. CASE name = pc[c]
    BY <2>1, <2>2
  <2>3. CASE name # pc[c]
    <3>1. name \in enrolled[d] /\ \A e \in Conn \ {d} : name \notin enrolled[e]
      BY <2>1, <2>3
    <3>2. name \in Names
      BY <3>1 DEF TypeInv, TypeOK
    <3> QED BY <2>1, <2>3, <3>1, <3>2 DEF KeptAlone
  <2> QED BY <2>2, <2>3
<1> QED BY <1>1, <1>2

\* The invariant of sb.Provision is inductive ...
LEMMA StepHandler == HandlerInv /\ [Next]_vars => HandlerInv'
<1> QED BY StepType, StepWritten, StepOwner, StepKept DEF HandlerInv

\* ... and holds in every state of every interleaving
LEMMA HandlerInvariant == Spec => []HandlerInv
<1> QED BY InitHandler, StepHandler, PTL DEF Spec

\* What requests put into KEK, db and dbx is signed along the hierarchy, whatever
\* other requests write in between: sb.Provision writes PK first, and from then on
\* the firmware checks
THEOREM HierarchyHolds == Spec => []SignedByHierarchy
<1>1. HandlerInv => SignedByHierarchy
  BY DEF HandlerInv, OwnerInv
<1> QED BY <1>1, HandlerInvariant, PTL

\* Of the requests that all saw Setup Mode, those that wrote anything trace back to
\* the first PK: every other one was signed for by somebody who wrote before
THEOREM OwnersTraceBack == Spec => []OwnersAuthorised
<1>1. HandlerInv => OwnersAuthorised
  BY DEF HandlerInv, OwnerInv
<1> QED BY <1>1, HandlerInvariant, PTL

\* What a 200 of handleAddSecureBoot says: the whole request is enrolled, if no
\* other request wrote
THEOREM SuccessMeansEnrolled == Spec => []SuccessIsComplete
<1>1. HandlerInv => SuccessIsComplete
  <2> SUFFICES ASSUME HandlerInv, NEW c \in Conn, code[c] = 200,
                      \A d \in Conn \ {c} : enrolled[d] = {},
                      NEW name \in Names, req[c][name] # Empty
               PROVE  efi[name] = req[c][name]
    BY DEF SuccessIsComplete
  <2>1. name \in enrolled[c]
    BY DEF HandlerInv, WrittenSoFar, Written
  <2> QED BY <2>1 DEF HandlerInv, KeptAlone
<1> QED BY <1>1, HandlerInvariant, PTL

-----------------------------------------------------------------------------
(* The UEFI menu *)

\* Nobody has asked for the UEFI menu yet
LEMMA InitMenu == Init => MenuInv
<1> QED BY DEF Init, MenuInv, MenuOf

\* No handler takes the bit away that another one has set, and who has written a
\* variable does not return past the deferred function
LEMMA StepMenu == TypeInv /\ MenuInv /\ [Next]_vars => MenuInv'
<1> SUFFICES ASSUME TypeInv, MenuInv, [Next]_vars, NEW d \in Conn PROVE MenuOf(d)'
  BY DEF MenuInv
<1>1. MenuOf(d)
  BY DEF MenuInv
<1> USE DEF TypeInv, TypeOK, RequestChecked, Checked
<1>2. CASE UNCHANGED vars
  BY <1>1, <1>2 DEF vars, efiVars, connVars, MenuOf
<1>3. CASE Restart
  <2>1. pc'[d] # "done" /\ (pc[d] \in {"done", "over"} => pc'[d] = "over") /\ menu' = menu
    BY <1>3 DEF Restart
  <2> QED BY <1>1, <2>1 DEF MenuOf
<1>4. ASSUME NEW c \in Conn, NEW r \in Request, Begins(c, r)
      PROVE  MenuOf(d)'
  BY <1>1, <1>4 DEF Begins, efiVars, MenuOf
<1>5. ASSUME NEW c \in Conn, NEW r \in Request, NotInSetupMode(c, r)
      PROVE  MenuOf(d)'
  BY <1>1, <1>5 DEF NotInSetupMode, Rejects, efiVars, MenuOf
<1>6. ASSUME NEW c \in Conn, BadRequest(c)
      PROVE  MenuOf(d)'
  BY <1>1, <1>6 DEF BadRequest, Rejects, efiVars, MenuOf
<1>7. ASSUME NEW c \in Conn, Unpacks(c)
      PROVE  MenuOf(d)'
  <2>1. After("unpack", req[c]) = "pk"
    BY AfterType
  <2> QED BY <1>1, <1>7, <2>1 DEF Unpacks, efiVars, MenuOf
<1>8. ASSUME NEW c \in Conn, Provisions(c)
      PROVE  MenuOf(d)'
  <2>1. pc'[c] \in Names \cup {"deferred"}
    BY <1>8, ProvisionsWrites, AfterType
  <2>2. menu' = menu /\ indications' = indications
    BY <1>8 DEF Provisions, Enrolls
  <2>3. pc[c] \in Names
    BY <1>8 DEF Provisions
  <2>4. CASE d = c
    BY <1>1, <2>1, <2>2, <2>3, <2>4 DEF MenuOf, Names
  <2>5. CASE d # c
    BY <1>1, <1>8, <2>2, <2>5, ProvisionsWrites DEF MenuOf
  <2> QED BY <2>4, <2>5
<1>9. ASSUME NEW c \in Conn, ProvisionFails(c)
      PROVE  MenuOf(d)'
  BY <1>1, <1>9 DEF ProvisionFails, efiVars, Names, MenuOf
<1>10. ASSUME NEW c \in Conn, ReadsIndications(c)
       PROVE  MenuOf(d)'
  BY <1>1, <1>10 DEF ReadsIndications, efiVars, MenuOf
<1>11. ASSUME NEW c \in Conn, WritesIndications(c)
       PROVE  MenuOf(d)'
  BY <1>1, <1>11 DEF WritesIndications, MenuOf
<1>12. ASSUME NEW c \in Conn, MenuFails(c)
       PROVE  MenuOf(d)'
  BY <1>1, <1>12 DEF MenuFails, efiVars, MenuOf
<1>13. ASSUME NEW c \in Conn, NoMenu(c)
       PROVE  MenuOf(d)'
  BY <1>1, <1>13 DEF NoMenu, efiVars, MenuOf
<1> QED BY <1>2, <1>3, <1>4, <1>5, <1>6, <1>7, <1>8, <1>9, <1>10, <1>11, <1>12, <1>13
        DEF Next, Handler

\* "On Secure Boot provisioning (successful or not)": a request that changed a key
\* and returned asked for the UEFI menu or logged that it could not, and requests
\* that read and write OsIndications at once do not undo each other
THEOREM MenuIsRequested == Spec => []MenuRequested
<1>1. MenuInv => MenuRequested
  BY DEF MenuInv, MenuOf, MenuRequested
<1> QED BY <1>1, InitType, StepType, InitMenu, StepMenu, PTL DEF Spec

=============================================================================
