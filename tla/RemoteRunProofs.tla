--------------------------- MODULE RemoteRunProofs ---------------------------
(***************************************************************************)
(* Theorems about RemoteRun, for every set of connections and requests.    *)
(*                                                                         *)
(* The server keeps its invariants under whatever the main goroutine does, *)
(* for that only reads its variables; what the main goroutine may rely on  *)
(* follows from those and from where it is.                                *)
(***************************************************************************)
EXTENDS RemoteRun, ApiServerProofs

\* What ApiServerProofs found to be invariant
ServerInv ==
  TypeInv /\ SecretBeforeStop /\ SecretsDerived /\ Winner /\ TokenBeforeAnswer /\ Drained

\* The host keys that some peer may have been told
Offered == {SSH(uds[c]) : c \in Published}

\* Once Run returned nil there is a secret, listen() returns it only when the
\* operator has confirmed, and it is one that was offered
MainInv ==
  /\ main \in {"confirm", "write", "ok"} => UDS # NoUDS
  /\ main \in {"listen", "confirm"} => chosen = NoUDS
  /\ main = "write" => SSH(chosen) \in Offered
  /\ main = "ok" => hostKey \in Offered
  /\ WriteHasSecret

RemoteInv == ServerInv /\ RemoteTypeOK /\ MainInv
-----------------------------------------------------------------------------
(* The server inside of stprov remote run *)

\* Before the server listens
LEMMA InitServer == Init => ServerInv
<1> SUFFICES ASSUME Init PROVE ServerInv
  OBVIOUS
<1>1. TypeInv
  BY InitType
<1>2. SecretBeforeStop /\ Drained
  BY DEF Init, SecretBeforeStop, InShutdown, Drained
<1>3. SecretsDerived /\ Winner
  BY DEF Init, SecretsDerived, SentByLocal, Winner, Published
<1>4. TokenBeforeAnswer
  BY DEF Init, TokenBeforeAnswer
<1> QED BY <1>1, <1>2, <1>3, <1>4 DEF ServerInv

\* A step of the server, or one that leaves it alone
LEMMA StepServer == ServerInv /\ [Next]_vars => ServerInv'
<1> QED BY StepType, StepSecret, StepDerived, StepWinner, StepAnswer, StepDrained
        DEF ServerInv

\* Main, and what ends the process, only read the variables of the server
LEMMA RemoteStepsServer == [RemoteNext]_allVars => [Next]_vars
<1> QED BY DEF RemoteNext, Server, Main, Aborts, ListenReturns, ListenFails, Confirm,
           WriteHostKey, allVars

\* Every goroutine of the server keeps s.UDS once it is there
LEMMA SecretStays ==
  ASSUME ServerInv, [Next]_vars, UDS # NoUDS
  PROVE  UDS' # NoUDS
<1>1. ASSUME NEW c \in Conn, CommitPublishes(c)
      PROVE  UDS' # NoUDS
  BY <1>1, SecretNotNil DEF CommitPublishes, ServerInv, TypeInv, HoldsSecret
<1>2. CASE ~\E c \in Conn : CommitPublishes(c)
  BY <1>2 DEF Next, Run, Listen, ServeReturns, CloseCommit, RunReturns, Await,
     AwaitCommit, ShutdownDrained, ShutdownTimeout, ServerDies, Handler, Peer,
     CloseIdleConn, DropConn, Connect, PeerGone, ServeHTTP, AddDataRejects,
     AddDataStores, AddDataCopied, CommitDerives, CommitDerived, CommitFails,
     CommitSends, CommitPanics, Respond, SecureBootReturns, vars, serverData
<1> QED BY <1>1, <1>2

\* A commit that published its secret keeps it, and no other step of the server
\* publishes one
LEMMA PublishedStays ==
  ASSUME ServerInv, [Next]_vars, \A c \in Conn : ~CommitPublishes(c)
  PROVE  Published' = Published /\ \A c \in Published : uds'[c] = uds[c]
<1> USE DEF Published, ServerInv, TypeInv, TypeOK, Winner
<1>1. CASE UNCHANGED <<pc, uds>>
  BY <1>1
<1>2. ASSUME NEW c \in Conn, CommitSends(c) \/ CommitPanics(c) \/ Respond(c)
      PROVE  Published' = Published /\ UNCHANGED uds
  <2>1. /\ pc[c] \in {"send", "reply"} /\ pc'[c] \in {"reply", "done"}
        /\ \A d \in Conn \ {c} : pc'[d] = pc[d]
        /\ UNCHANGED uds
    BY <1>2 DEF CommitSends, CommitPanics, Respond, Answer, HangUp, serverData
  <2> QED BY <2>1
<1>3. ASSUME NEW c \in Conn, CommitDerives(c) \/ CommitDerived(c) \/ CommitFails(c)
      PROVE  Published' = Published /\ \A d \in Published : uds'[d] = uds[d]
  <2>1. /\ pc[c] \in {"derive", "derive2", "publish"}
        /\ pc'[c] \in {"derive2", "publish", "reply"}
        /\ pc'[c] = "reply" => uds'[c] = NoUDS
        /\ \A d \in Conn \ {c} : uds'[d] = uds[d] /\ pc'[d] = pc[d]
    BY <1>3 DEF CommitDerives, CommitDerived, CommitFails, Answer
  <2> QED BY <2>1
<1>4. ASSUME NEW c \in Conn, Handler(c) \/ Peer(c) \/ CloseIdleConn(c) \/ DropConn(c),
             ~CommitSends(c), ~CommitPanics(c), ~Respond(c),
             ~CommitDerives(c), ~CommitDerived(c), ~CommitFails(c)
      PROVE  Published' = Published /\ UNCHANGED uds
  <2>1. UNCHANGED uds
    BY <1>4 DEF Handler, Peer, CloseIdleConn, DropConn, Connect, PeerGone, ServeHTTP,
       AddDataRejects, AddDataStores, AddDataCopied, SecureBootReturns
  <2>2. UNCHANGED pc \/ /\ pc[c] \in {"none", "conn", "body", "copy", "sb"}
                        /\ \A d \in Conn \ {c} : pc'[d] = pc[d]
    BY <1>4 DEF Handler, Peer, CloseIdleConn, DropConn, Connect, PeerGone,
       ServeHTTP, AddDataRejects, AddDataStores, AddDataCopied, SecureBootReturns,
       Answer, HangUp
  <2> QED BY <2>1, <2>2
<1>5. Run \/ Await \/ ServerDies \/ UNCHANGED vars => UNCHANGED <<pc, uds>>
  BY DEF Run, Listen, ServeReturns, CloseCommit, RunReturns, Await, AwaitCommit,
     ShutdownDrained, ShutdownTimeout, ServerDies, vars, connVars
<1> QED BY <1>1, <1>2, <1>3, <1>4, <1>5 DEF Next

\* The secret that CommitPublishes adds is that of its connection alone
LEMMA PublishesOne ==
  ASSUME ServerInv, NEW c \in Conn, CommitPublishes(c)
  PROVE  /\ uds' = uds /\ Published' = Published \cup {c}
         /\ uds[c] \in Secret /\ uds[c] \notin {uds[d] : d \in Published}
<1>1. uds[c] \in Secret /\ uds[c] # NoUDS /\ uds[c].loc = c
  BY SecretNotNil DEF CommitPublishes, ServerInv, TypeInv, HoldsSecret, SecretsDerived
<1>2. \A d \in Published : uds[d].loc = d
  BY DEF Published, ServerInv, SecretsDerived
<1>3. c \notin Published /\ uds' = uds /\ pc' = [pc EXCEPT ![c] = "send"]
  BY DEF CommitPublishes, Published
<1>4. Published' = Published \cup {c}
  BY <1>1, <1>3 DEF Published, ServerInv, TypeInv, TypeOK
<1> QED BY <1>1, <1>2, <1>3, <1>4
-----------------------------------------------------------------------------
(* The main goroutine *)

\* A platform that is provisioned for the first time or again
LEMMA InitRemote == RemoteInit => RemoteInv
<1> SUFFICES ASSUME RemoteInit PROVE RemoteInv
  OBVIOUS
<1>1. ServerInv
  BY InitServer DEF RemoteInit
<1>2. RemoteTypeOK
  BY DEF RemoteInit, RemoteTypeOK, Buffer
<1>3. MainInv
  BY DEF RemoteInit, MainInv, WriteHasSecret
<1> QED BY <1>1, <1>2, <1>3 DEF RemoteInv

\* A key that was offered stays offered
LEMMA OfferedStays ==
  ASSUME ServerInv, [Next]_vars
  PROVE  Offered \subseteq Offered'
<1>1. ASSUME NEW c \in Conn, CommitPublishes(c)
      PROVE  Offered \subseteq Offered'
  BY <1>1, PublishesOne DEF Offered, SSH
<1>2. CASE \A c \in Conn : ~CommitPublishes(c)
  BY <1>2, PublishedStays DEF Offered, SSH
<1> QED BY <1>1, <1>2

\* Where the main goroutine is says what it has read from the server ...
LEMMA StepRemote == RemoteInv /\ [RemoteNext]_allVars => RemoteInv'
<1> SUFFICES ASSUME RemoteInv, [RemoteNext]_allVars PROVE RemoteInv'
  OBVIOUS
<1>1. ServerInv' /\ (UDS # NoUDS => UDS' # NoUDS) /\ Offered \subseteq Offered'
  BY StepServer, RemoteStepsServer, SecretStays, OfferedStays DEF RemoteInv
<1> USE DEF RemoteInv, RemoteTypeOK, MainInv, WriteHasSecret
<1>2. CASE Server \/ UNCHANGED allVars
  BY <1>1, <1>2 DEF Server, allVars, mainVars
<1>3. CASE ListenReturns
  <2>1. UDS # NoUDS
    BY <1>3 DEF ListenReturns, ServerInv, SecretBeforeStop
  <2> QED BY <1>1, <1>3, <2>1 DEF ListenReturns, ServerInv, TypeInv, TypeOK
<1>4. CASE ListenFails \/ Aborts
  BY <1>1, <1>4 DEF ListenFails, Aborts
<1>5. CASE Confirm
  <2>1. UDS \in Secret /\ UDS # NoUDS
    BY <1>5 DEF Confirm, ServerInv, TypeInv, TypeOK
  <2>2. SSH(UDS) \in Offered
    BY <2>1 DEF ServerInv, Winner, Offered, SSH
  <2> QED BY <1>1, <1>5, <2>1, <2>2 DEF Confirm, SSH
<1>6. CASE WriteHostKey
  BY <1>1, <1>6 DEF WriteHostKey, SSH
<1> QED BY <1>2, <1>3, <1>4, <1>5, <1>6 DEF RemoteNext, Main

\* ... in every interleaving of handlers, main goroutine and operator
LEMMA RemoteInvariant == RemoteSpec => []RemoteInv
<1> QED BY InitRemote, StepRemote, PTL DEF RemoteSpec

\* The server is one part of stprov remote run: whatever holds of it on its own
\* holds inside the program
THEOREM RemoteRunsServer == RemoteSpec => Spec
<1>1. RemoteInit => Init
  BY DEF RemoteInit
<1> QED BY <1>1, RemoteStepsServer, PTL DEF RemoteSpec, Spec

\* What listen shows and returns, and what is persisted, has its type
THEOREM RemoteTypeCorrect == RemoteSpec => []RemoteTypeOK
<1>1. RemoteInv => RemoteTypeOK
  BY DEF RemoteInv
<1> QED BY <1>1, RemoteInvariant, PTL

\* writeHostKey dereferences a secret: Run that returned nil left one in the
\* server, and handlers that outlive it only replace it by another
THEOREM WriteFindsSecret == RemoteSpec => []WriteHasSecret
<1>1. RemoteInv => WriteHasSecret
  BY DEF RemoteInv, MainInv
<1> QED BY <1>1, RemoteInvariant, PTL
-----------------------------------------------------------------------------
(* RemoteRun implements KeyCeremony *)

\* Nothing is offered at first
LEMMA InitCeremony == RemoteInit => Ceremony!Init
<1> SUFFICES ASSUME RemoteInit PROVE Ceremony!Init
  OBVIOUS
<1>1. Published = {}
  BY DEF RemoteInit, Init, Published
<1> QED BY <1>1 DEF RemoteInit, Ceremony!Init

\* Each step is an offer, the confirmation, the write, the end, or nothing that
\* the ceremony tells apart
LEMMA StepCeremony ==
  ASSUME RemoteInv, [RemoteNext]_allVars
  PROVE  [Ceremony!Next]_(Ceremony!vars)
<1> USE DEF Offered
<1>1. [Next]_vars
  BY RemoteStepsServer
<1>2. CASE UNCHANGED allVars
  <2>1. UNCHANGED <<uds, pc, mainVars>>
    BY <1>2 DEF allVars, vars, connVars
  <2>2. Offered' = Offered
    BY <2>1 DEF Published, SSH
  <2> QED BY <2>1, <2>2 DEF Ceremony!vars, mainVars
<1>3. CASE Server
  <2>1. UNCHANGED <<main, shown, chosen, hostKey>> /\ main \notin {"ok", "failed"}
    BY <1>3 DEF Server, Running, mainVars
  <2>2. CASE \A c \in Conn : ~CommitPublishes(c)
    <3>1. Published' = Published /\ \A c \in Published : uds'[c] = uds[c]
      BY <1>1, <2>2, PublishedStays DEF RemoteInv
    <3>2. Offered' = Offered
      BY <3>1 DEF SSH
    <3> QED BY <2>1, <3>2 DEF Ceremony!vars
  <2>3. ASSUME NEW c \in Conn, CommitPublishes(c)
        PROVE  Ceremony!Next
    <3>1. /\ uds' = uds /\ Published' = Published \cup {c}
          /\ uds[c] \in Secret /\ uds[c] \notin Offered
      BY <2>3, PublishesOne DEF RemoteInv, SSH
    <3>2. Offered' = Offered \cup {uds[c]}
      BY <3>1 DEF SSH
    <3>3. Ceremony!Offer(uds[c])
      BY <2>1, <3>1, <3>2 DEF Ceremony!Offer, RemoteInv, RemoteTypeOK
    <3> QED BY <3>1, <3>3 DEF Ceremony!Next
  <2> QED BY <2>2, <2>3
<1>4. CASE Main \/ Aborts
  <2>1. UNCHANGED <<uds, pc, UDS>>
    BY <1>4 DEF Main, Aborts, ListenReturns, ListenFails, Confirm, WriteHostKey,
       vars, connVars, serverData
  <2>2. Offered' = Offered
    BY <2>1 DEF Published, SSH
  <2>3. CASE ListenReturns
    BY <2>2, <2>3 DEF ListenReturns, Ceremony!vars
  <2>4. CASE ListenFails \/ Aborts
    <3>1. Ceremony!GiveUp
      BY <2>2, <2>4 DEF ListenFails, Aborts, Running, Ceremony!GiveUp, RemoteInv, RemoteTypeOK
    <3> QED BY <3>1 DEF Ceremony!Next
  <2>5. CASE Confirm
    <3>1. UDS \in Secret /\ UDS # NoUDS
      BY <2>5 DEF Confirm, RemoteInv, MainInv, ServerInv, TypeInv, TypeOK
    <3>2. UDS \in Offered
      BY <3>1 DEF RemoteInv, ServerInv, Winner, SSH
    <3>3. Ceremony!Confirm(UDS)
      BY <2>2, <2>5, <3>1, <3>2 DEF Confirm, Ceremony!Confirm, SSH
    <3> QED BY <3>1, <3>3 DEF Ceremony!Next
  <2>6. CASE WriteHostKey
    <3>1. chosen # NoUDS
      BY <2>6 DEF WriteHostKey, RemoteInv, MainInv, WriteHasSecret
    <3>2. Ceremony!Persist
      BY <2>2, <2>6, <3>1 DEF WriteHostKey, Ceremony!Persist, SSH
    <3> QED BY <3>2 DEF Ceremony!Next
  <2> QED BY <1>4, <2>3, <2>4, <2>5, <2>6 DEF Main
<1> QED BY <1>2, <1>3, <1>4 DEF RemoteNext

\* The host key in NVRAM is one that a handler offered to its peer, written at
\* most once and after the confirmation, whatever handlers do meanwhile
THEOREM RemoteRefinesCeremony == RemoteSpec => ImplementsCeremony
<1> QED BY InitCeremony, StepCeremony, RemoteInvariant, PTL
        DEF RemoteSpec, ImplementsCeremony, Ceremony!Spec
=============================================================================
