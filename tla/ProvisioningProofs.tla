-------------------------- MODULE ProvisioningProofs --------------------------
(***************************************************************************)
(* Theorems about Provisioning, for any number of executions of stprov     *)
(* local against one stprov remote run.                                    *)
(*                                                                         *)
(* A local run is one of the peers that RemoteRun leaves open, so what is  *)
(* proved of RemoteRun holds here.  What is added is the order in which a  *)
(* local run sends its requests, and what that says about the entropy in   *)
(* the memory of the server when a commit reads it.                        *)
(***************************************************************************)
EXTENDS Provisioning, RemoteRunProofs

\* A connection carries the request that its local run sends on it
OwnRequests == \A c \in Conn : req[c] \in {NoRequest, RequestOn(c)}

\* A 200 waits in the buffer or was sent
Says200(c) == 200 \in {wrote[c], resp[c]}

\* A 200 was written by the handler of the request, and that of a commit has kept
\* the secret behind the answer
Answers200 == \A c \in Conn : Says200(c) =>
  /\ pc[c] \in {"reply", "done"} /\ req[c] = RequestOn(c)
  /\ req[c].endpoint = "commit" => uds[c] \in Secret

\* Where a local run is says what it has read and sent
KeysInv(l) ==
  /\ named[l] \in KeyFiles
  /\ lpc[l] = "options" => \A use \in Use : req[<<l, use>>] = NoRequest
  /\ lpc[l] \in Use => read[l] = {} \/ Required \subseteq read[l]
  /\ (lpc[l] \in {"commit", "retry"}
       \/ (\E use \in {"commit", "retry"} : req[<<l, use>>] # NoRequest))
       => read[l] = {} \/ (Required \subseteq read[l] /\ resp[<<l, "add-secure-boot">>] = 200)
SentInOrder == \A l \in Local : KeysInv(l)

Mixed == entropy.lo # Zero /\ entropy.hi # Zero

\* Both halves of Server.Entropy were sent by a peer before any commit begins
EntropyInv ==
  /\ \A c \in Conn : pc[c] = "copy" => entropy.lo # Zero
  /\ \A c \in Conn : Says200(c) /\ req[c].endpoint = "add-data" => Mixed
  /\ \A c \in Conn : req[c] # NoRequest /\ req[c].endpoint = "commit" => Mixed
  /\ \A l \in Local : lpc[l] \in {"add-secure-boot", "commit", "retry"} => Mixed
  /\ \A c \in Conn : uds[c] # NoUDS =>
       uds[c].lo # Zero /\ (pc[c] # "derive2" => uds[c].hi # Zero)

\* What the operator was shown is what some peer sent
ShownInv == main \in {"confirm", "write", "ok"} =>
  /\ shown.lo # Zero /\ shown.hi # Zero
  /\ SentByLocal(shown.lo) /\ SentByLocal(shown.hi)

SystemInv == RemoteInv /\ OwnRequests /\ Answers200
ProvInv ==
  SystemInv /\ ProvTypeOK /\ SentInOrder /\ EntropyInv /\ ShownInv /\ MixesLocalEntropy
-----------------------------------------------------------------------------
(* Provisioning is a special case of RemoteRun *)

\* The connections of a local run, and what is sent on them
LEMMA ConnOf ==
  ASSUME NEW l \in Local, NEW use \in Use
  PROVE  /\ <<l, use>> \in Conn
         /\ RequestOn(<<l, use>>) \in Request /\ RequestOn(<<l, use>>) # NoRequest
         /\ RequestOn(<<l, use>>).endpoint = (IF use = "retry" THEN "commit" ELSE use)
         /\ RequestOn(<<l, use>>).entropy = EntropyOf[l]
<1>1. <<l, use>> \in Conn
  BY LocalAssumption
<1>2. RequestOn(<<l, use>>) \in Request
  BY <1>1, LocalAssumption
<1> QED BY <1>1, <1>2, ApiAssumption DEF RequestOn

\* Every step of a local run is one that a peer may take, or none of the server's
LEMMA ProvStepsRemote == [ProvNext]_sysVars => [RemoteNext]_allVars
<1> SUFFICES ASSUME [ProvNext]_sysVars PROVE [RemoteNext]_allVars
  OBVIOUS
<1>1. CASE UNCHANGED sysVars
  BY <1>1 DEF sysVars
<1>2. CASE ServerStep
  <2>1. Next
    BY <1>2 DEF ServerStep, HandlerSteps, Next, Peer
  <2> QED BY <1>2, <2>1 DEF ServerStep, OnlyServer, RemoteNext, Server
<1>3. CASE OperatorStep
  BY <1>3 DEF OperatorStep, RemoteNext
<1>4. ASSUME NEW l \in Local, Dial(l) \/ Send(l) \/ ConnectionLost(l)
      PROVE  RemoteNext
  <2>1. PICK c \in Conn : Peer(c)
    <3>1. CASE Dial(l)
      BY <3>1, ConnOf DEF Dial, Peer
    <3>2. CASE Send(l)
      BY <3>2, ConnOf DEF Send, Peer
    <3>3. CASE ConnectionLost(l)
      BY <3>3, ConnOf DEF ConnectionLost, Peer
    <3> QED BY <1>4, <3>1, <3>2, <3>3
  <2>2. Next
    BY <2>1 DEF Next
  <2> QED BY <1>4, <2>2 DEF Dial, Send, ConnectionLost, OnlyServer, RemoteNext, Server
<1>5. ASSUME NEW l \in Local,
             \/ ReadOptions(l) \/ AddedData(l) \/ AddedSecureBootKeys(l)
             \/ Committed(l) \/ Retries(l) \/ LocalFails(l)
      PROVE  UNCHANGED allVars
  BY <1>5 DEF ReadOptions, AddedData, AddedSecureBootKeys, Committed, Retries,
     LocalFails, Answered
<1> QED BY <1>1, <1>2, <1>3, <1>4, <1>5 DEF ProvNext, LocalStep

\* Only a local run that sends one of its requests puts a request on a connection
LEMMA OnlySends ==
  ASSUME [ProvNext]_sysVars
  PROVE  \/ UNCHANGED req
         \/ \E l \in Local : Send(l)
<1>1. ServerStep => UNCHANGED req
  BY DEF ServerStep, Run, Listen, ServeReturns, CloseCommit, RunReturns, Await,
     AwaitCommit, ShutdownDrained, ShutdownTimeout, ServerDies, HandlerSteps, Handler,
     CloseIdleConn, DropConn, AddDataRejects, AddDataStores,
     AddDataCopied, CommitDerives, CommitDerived, CommitFails, CommitPublishes,
     CommitSends, CommitPanics, Respond, SecureBootReturns, connVars
<1>2. OperatorStep => UNCHANGED req
  BY DEF OperatorStep, Main, Aborts, ListenReturns, ListenFails, Confirm, WriteHostKey,
     vars, connVars
<1>3. ASSUME NEW l \in Local, LocalStep(l), ~Send(l)
      PROVE  UNCHANGED req
  BY <1>3 DEF LocalStep, Dial, ConnectionLost, Connect, PeerGone, ReadOptions, AddedData,
     AddedSecureBootKeys, Committed, Retries, LocalFails, Answered, allVars, vars, connVars
<1>4. UNCHANGED sysVars => UNCHANGED req
  BY DEF sysVars, allVars, vars, connVars
<1> QED BY <1>1, <1>2, <1>3, <1>4 DEF ProvNext

\* An execution of both programs is one of stprov remote run
THEOREM ProvRunsRemote == ProvSpec => RemoteSpec
<1>1. ProvInit => RemoteInit
  BY DEF ProvInit
<1> QED BY <1>1, ProvStepsRemote, PTL DEF ProvSpec, RemoteSpec
-----------------------------------------------------------------------------
(* What a step of the server does to one connection *)

\* A response that was sent stays, and a 200 is written by one of three handlers
LEMMA ResponseStep ==
  ASSUME TypeInv, [Next]_vars, NEW c \in Conn
  PROVE  /\ resp[c] = 200 => resp'[c] = 200
         /\ Says200(c) => pc'[c] \in {pc[c], "done"} /\ req'[c] = req[c]
         /\ Says200(c)' /\ ~Says200(c) =>
              AddDataCopied(c) \/ CommitSends(c) \/ SecureBootReturns(c, 200)
<1> DEFINE Goal ==
      /\ resp[c] = 200 => resp'[c] = 200
      /\ Says200(c) => pc'[c] \in {pc[c], "done"} /\ req'[c] = req[c]
      /\ Says200(c)' /\ ~Says200(c) =>
           AddDataCopied(c) \/ CommitSends(c) \/ SecureBootReturns(c, 200)
<1> SUFFICES Goal
  OBVIOUS
<1>1. NoResponse # 200 /\ EOF # 200
  BY ApiAssumption
<1> USE DEF TypeInv, TypeOK, HandlerOfRequest, Says200
\* the answers and the request stay
<1>2. ASSUME wrote'[c] = wrote[c], resp'[c] = resp[c],
             Says200(c) => pc'[c] = pc[c] /\ req'[c] = req[c]
      PROVE  Goal
  BY <1>2
\* the handler was still at work, and answers something else
<1>3. ASSUME resp[c] = NoResponse, wrote[c] = NoResponse, resp'[c] # 200, wrote'[c] # 200
      PROVE  Goal
  BY <1>1, <1>3
<1>4. CASE UNCHANGED vars \/ Run \/ Await \/ ServerDies
  <2>1. UNCHANGED <<wrote, resp, pc, req>>
    BY <1>4 DEF Run, Listen, ServeReturns, CloseCommit, RunReturns, Await, AwaitCommit,
       ShutdownDrained, ShutdownTimeout, ServerDies, vars, connVars
  <2> QED BY <1>2, <2>1
<1>5. ASSUME NEW d \in Conn, d # c, Handler(d) \/ Peer(d) \/ CloseIdleConn(d) \/ DropConn(d)
      PROVE  Goal
  <2>1. wrote'[c] = wrote[c] /\ resp'[c] = resp[c] /\ pc'[c] = pc[c] /\ req'[c] = req[c]
    <3>1. CASE Handler(d)
      BY <1>5, <3>1 DEF Handler, AddDataRejects, AddDataCopied, CommitDerives,
         CommitDerived, CommitFails, CommitPublishes, CommitSends, CommitPanics, Respond,
         Answer, HangUp
    <3>2. CASE Peer(d)
      BY <1>5, <3>2 DEF Peer, Connect, PeerGone, ServeHTTP, AddDataRejects, AddDataStores,
         SecureBootReturns, Answer
    <3> QED BY <1>5, <3>1, <3>2 DEF CloseIdleConn, DropConn, HangUp
  <2> QED BY <1>2, <2>1
<1>6. CASE Handler(c) \/ CloseIdleConn(c) \/ DropConn(c)
  <2>1. CASE AddDataRejects(c) \/ CommitFails(c) \/ CommitPanics(c) \/ DropConn(c)
    <3>1. resp[c] = NoResponse /\ wrote[c] = NoResponse /\ resp'[c] # 200 /\ wrote'[c] # 200
      BY <1>1, <2>1 DEF AddDataRejects, CommitFails, CommitPanics, DropConn, Answer, HangUp
    <3> QED BY <1>3, <3>1
  <2>2. CASE CommitDerives(c) \/ CommitDerived(c) \/ CommitPublishes(c)
    <3>1. resp[c] = NoResponse /\ wrote[c] = NoResponse /\ UNCHANGED <<wrote, resp>>
      BY <2>2 DEF CommitDerives, CommitDerived, CommitPublishes
    <3> QED BY <1>1, <1>3, <3>1
  <2>3. CASE CloseIdleConn(c)
    BY <1>2, <2>3 DEF CloseIdleConn
  <2>4. CASE AddDataCopied(c) \/ CommitSends(c)
    <3>1. resp[c] = NoResponse /\ wrote[c] = NoResponse
      BY <2>4 DEF AddDataCopied, CommitSends
    <3> QED BY <1>1, <2>4, <3>1
  <2>5. CASE Respond(c)
    <3>1. /\ pc[c] = "reply" /\ resp[c] = NoResponse /\ req' = req /\ pc'[c] = "done"
          /\ wrote'[c] = NoResponse /\ resp'[c] \in {wrote[c], EOF}
      BY <2>5 DEF Respond
    <3> QED BY <1>1, <3>1
  <2> HIDE DEF Goal
  <2> QED BY <1>6, <2>1, <2>2, <2>3, <2>4, <2>5 DEF Handler
<1>7. CASE Peer(c)
  <2>1. CASE Connect(c) \/ AddDataStores(c)
    <3>1. resp[c] = NoResponse /\ wrote[c] = NoResponse /\ UNCHANGED <<wrote, resp>>
      BY <2>1 DEF Connect, AddDataStores
    <3> QED BY <1>1, <1>3, <3>1
  <2>2. CASE PeerGone(c)
    BY <1>2, <2>2 DEF PeerGone
  <2>3. ASSUME NEW r \in Request, ServeHTTP(c, r)
        PROVE  Goal
    <3>1. resp[c] = NoResponse /\ wrote[c] = NoResponse /\ UNCHANGED resp
      BY <2>3 DEF ServeHTTP
    <3>2. wrote'[c] # 200
      BY <1>1, <2>3, <3>1 DEF ServeHTTP, Answer
    <3> QED BY <1>1, <1>3, <3>1, <3>2
  <2>4. CASE AddDataRejects(c)
    <3>1. resp[c] = NoResponse /\ wrote[c] = NoResponse /\ resp' = resp /\ wrote'[c] = 400
      BY <2>4 DEF AddDataRejects, Answer
    <3> QED BY <1>1, <1>3, <3>1
  <2>5. ASSUME NEW code \in {200, 400, 403}, SecureBootReturns(c, code)
        PROVE  Goal
    <3>1. resp[c] = NoResponse /\ wrote[c] = NoResponse /\ resp' = resp /\ wrote'[c] = code
      BY <2>5 DEF SecureBootReturns, Answer
    <3>2. CASE code = 200
      BY <1>1, <2>5, <3>1, <3>2
    <3>3. CASE code # 200
      BY <1>1, <1>3, <3>1, <3>3
    <3> QED BY <3>2, <3>3
  <2> HIDE DEF Goal
  <2> QED BY <1>7, <2>1, <2>2, <2>3, <2>4, <2>5 DEF Peer
<1> HIDE DEF Goal
<1> QED BY <1>4, <1>5, <1>6, <1>7 DEF Next

\* The secret of a handler changes in the four steps of handleCommit that make it
LEMMA SecretStep ==
  ASSUME TypeInv, [Next]_vars, NEW c \in Conn
  PROVE  \/ uds'[c] = NoUDS
         \/ uds'[c] = uds[c] /\ (pc[c] = "derive2" <=> pc'[c] = "derive2")
         \/ CommitDerives(c) \/ CommitDerived(c)
<1> USE DEF TypeInv, TypeOK
<1>1. CASE UNCHANGED vars \/ Run \/ Await \/ ServerDies
  BY <1>1 DEF Run, Listen, ServeReturns, CloseCommit, RunReturns, Await, AwaitCommit,
     ShutdownDrained, ShutdownTimeout, ServerDies, vars, connVars
<1>2. ASSUME NEW d \in Conn, Handler(d) \/ CloseIdleConn(d) \/ DropConn(d)
      PROVE  \/ uds'[c] = NoUDS
             \/ uds'[c] = uds[c] /\ (pc[c] = "derive2" <=> pc'[c] = "derive2")
             \/ CommitDerives(c) \/ CommitDerived(c)
  BY <1>2 DEF Handler, AddDataRejects, AddDataCopied, CommitDerives, CommitDerived,
     CommitFails, CommitPublishes, CommitSends, CommitPanics, Respond, CloseIdleConn,
     DropConn, Answer, HangUp
<1>3. ASSUME NEW d \in Conn, Peer(d)
      PROVE  uds' = uds /\ (pc[c] = "derive2" <=> pc'[c] = "derive2")
  <2>1. ASSUME NEW r \in Request, ServeHTTP(d, r)
        PROVE  uds' = uds /\ (pc[c] = "derive2" <=> pc'[c] = "derive2")
    <3>1. Entry(r.endpoint) # "derive2"
      BY ApiAssumption DEF RequestType, Endpoint, Entry
    <3> QED BY <2>1, <3>1 DEF ServeHTTP, Answer
  <2> QED BY <1>3, <2>1 DEF Peer, Connect, PeerGone, AddDataRejects, AddDataStores,
             SecureBootReturns, Answer
<1> QED BY <1>1, <1>2, <1>3 DEF Next

\* A half of Server.Entropy that some peer sent is only replaced by another one
LEMMA MixedStays ==
  ASSUME TypeInv, [Next]_vars
  PROVE  /\ entropy.lo # Zero => entropy'.lo # Zero
         /\ entropy.hi # Zero => entropy'.hi # Zero
         /\ \A c \in Conn : AddDataStores(c) => entropy'.lo # Zero
         /\ \A c \in Conn : AddDataCopied(c) =>
              entropy'.hi # Zero /\ entropy'.lo = entropy.lo
<1> USE DEF TypeInv, TypeOK
<1>1. ASSUME NEW c \in Conn, AddDataStores(c)
      PROVE  entropy'.lo # Zero /\ entropy'.hi = entropy.hi
  <2>1. req[c].entropy # Zero
    BY <1>1, ApiAssumption DEF AddDataStores, HandlerOfRequest, RequestType
  <2> QED BY <1>1, <2>1 DEF AddDataStores
<1>2. ASSUME NEW c \in Conn, AddDataCopied(c)
      PROVE  entropy'.hi # Zero /\ entropy'.lo = entropy.lo
  <2>1. req[c].entropy # Zero
    BY <1>2, ApiAssumption DEF AddDataCopied, HandlerOfRequest, RequestType
  <2> QED BY <1>2, <2>1 DEF AddDataCopied
<1>3. CASE ~\E c \in Conn : AddDataStores(c) \/ AddDataCopied(c)
  <2>1. UNCHANGED entropy
    BY <1>3 DEF Next, Run, Listen, ServeReturns, CloseCommit, RunReturns, Await,
       AwaitCommit, ShutdownDrained, ShutdownTimeout, ServerDies, Handler, Peer,
       CloseIdleConn, DropConn, Connect, PeerGone, ServeHTTP, AddDataRejects,
       CommitDerives, CommitDerived, CommitFails, CommitPublishes,
       CommitSends, CommitPanics, Respond, SecureBootReturns, vars, serverData
  <2> QED BY <1>3, <2>1
<1> QED BY <1>1, <1>2, <1>3
-----------------------------------------------------------------------------
(* The order of the requests *)

\* Before the options are read
LEMMA InitProv == ProvInit => ProvInv
<1> SUFFICES ASSUME ProvInit PROVE ProvInv
  OBVIOUS
<1>1. RemoteInv
  BY InitRemote DEF ProvInit
<1>2. NoResponse # 200
  BY ApiAssumption
<1>3. OwnRequests /\ Answers200
  BY <1>2 DEF ProvInit, RemoteInit, Init, OwnRequests, Answers200, Says200
<1>4. ProvTypeOK
  BY DEF ProvInit, ProvTypeOK
<1>5. ASSUME NEW l \in Local PROVE KeysInv(l)
  BY <1>5, ConnOf DEF ProvInit, RemoteInit, Init, KeysInv, Use
<1>6. EntropyInv /\ ShownInv /\ MixesLocalEntropy
  BY <1>2, <1>3 DEF ProvInit, RemoteInit, Init, EntropyInv, Says200, ShownInv, MixesLocalEntropy,
     Use, OwnRequests
<1> QED BY <1>1, <1>3, <1>4, <1>5, <1>6 DEF ProvInv, SystemInv, SentInOrder

\* A connection that carries a request carries that of its local run
LEMMA StepOwn ==
  ASSUME SystemInv, [ProvNext]_sysVars
  PROVE  OwnRequests'
<1>1. ASSUME NEW l \in Local, Send(l)
      PROVE  OwnRequests'
  BY <1>1, ConnOf DEF Send, ServeHTTP, OwnRequests, SystemInv, RemoteInv, ServerInv,
     TypeInv, TypeOK
<1>2. CASE UNCHANGED req
  BY <1>2 DEF OwnRequests, SystemInv
<1> QED BY <1>1, <1>2, OnlySends

\* The three handlers that answer 200 have the request of their endpoint, and
\* handleCommit has a secret
LEMMA StepAnswers ==
  ASSUME SystemInv, [ProvNext]_sysVars
  PROVE  Answers200'
<1> SUFFICES ASSUME NEW c \in Conn, Says200(c)'
             PROVE  /\ pc'[c] \in {"reply", "done"} /\ req'[c] = RequestOn(c)
                    /\ req'[c].endpoint = "commit" => uds'[c] \in Secret
  BY DEF Answers200
<1>1. TypeInv /\ [Next]_vars /\ OwnRequests /\ NoResponse # 200
  BY ProvStepsRemote, RemoteStepsServer, ApiAssumption DEF SystemInv, RemoteInv, ServerInv
<1>2. CASE Says200(c)
  <2>1. pc'[c] \in {pc[c], "done"} /\ req'[c] = req[c]
    BY <1>1, <1>2, ResponseStep
  <2>2. /\ pc[c] \in {"reply", "done"} /\ req[c] = RequestOn(c)
        /\ req[c].endpoint = "commit" => uds[c] \in Secret
    BY <1>2 DEF SystemInv, Answers200
  <2>3. uds[c] \in Secret => uds'[c] = uds[c]
    <3>1. CASE \A d \in Conn : ~CommitPublishes(d)
      BY <1>1, <2>2, <3>1, PublishedStays, SecretNotNil DEF SystemInv, RemoteInv, Published
    <3>2. ASSUME NEW d \in Conn, CommitPublishes(d)
          PROVE  uds' = uds
      BY <3>2 DEF CommitPublishes
    <3> QED BY <3>1, <3>2
  <2> QED BY <2>1, <2>2, <2>3
<1>3. CASE ~Says200(c)
  <2>1. AddDataCopied(c) \/ CommitSends(c) \/ SecureBootReturns(c, 200)
    BY <1>1, <1>3, ResponseStep
  <2> USE DEF TypeInv, TypeOK, HandlerOfRequest
  <2>2. req[c] = RequestOn(c) /\ req' = req
    BY <1>1, <2>1, ApiAssumption DEF AddDataCopied, CommitSends, SecureBootReturns, OwnRequests
  <2>3. pc'[c] = "reply"
    BY <1>1, <2>1 DEF AddDataCopied, CommitSends, SecureBootReturns, Answer
  <2>4. req[c].endpoint = "commit" => uds'[c] \in Secret
    BY <1>1, <2>1 DEF AddDataCopied, CommitSends, SecureBootReturns, HoldsSecret
  <2> QED BY <2>2, <2>3, <2>4
<1> QED BY <1>2, <1>3

\* Together they are inductive
LEMMA StepSystem == SystemInv /\ [ProvNext]_sysVars => SystemInv'
<1> QED BY ProvStepsRemote, StepRemote, StepOwn, StepAnswers DEF SystemInv

\* A local run does one thing at a time, and nobody else does it
LEMMA LocalSteps ==
  ASSUME [ProvNext]_sysVars, ProvTypeOK, NEW l \in Local
  PROVE  \/ ReadOptions(l) \/ AddedData(l) \/ AddedSecureBootKeys(l)
         \/ Committed(l) \/ Retries(l) \/ LocalFails(l)
         \/ lpc'[l] = lpc[l] /\ read'[l] = read[l] /\ named'[l] = named[l]
              /\ printed'[l] = printed[l]
<1> USE DEF ProvTypeOK
<1>1. ServerStep \/ OperatorStep \/ UNCHANGED sysVars => UNCHANGED localVars
  BY DEF ServerStep, OnlyServer, OperatorStep, sysVars
<1>2. ASSUME NEW m \in Local, Dial(m) \/ Send(m) \/ ConnectionLost(m)
      PROVE  UNCHANGED localVars
  BY <1>2 DEF Dial, Send, ConnectionLost, OnlyServer
<1>3. ASSUME NEW m \in Local, m # l,
             \/ ReadOptions(m) \/ AddedData(m) \/ AddedSecureBootKeys(m)
             \/ Committed(m) \/ Retries(m) \/ LocalFails(m)
      PROVE  lpc'[l] = lpc[l] /\ read'[l] = read[l] /\ named' = named /\ printed'[l] = printed[l]
  BY <1>3 DEF ReadOptions, AddedData, AddedSecureBootKeys, Committed, Retries, LocalFails, options
<1> QED BY <1>1, <1>2, <1>3 DEF ProvNext, LocalStep, localVars, options

\* The key that a local run prints is the secret of its commit
LEMMA PrintsSecret ==
  ASSUME SystemInv, NEW l \in Local, Committed(l)
  PROVE  /\ <<l, lpc[l]>> \in Conn
         /\ req[<<l, lpc[l]>>] # NoRequest /\ req[<<l, lpc[l]>>].endpoint = "commit"
         /\ pc[<<l, lpc[l]>>] = "done"
         /\ uds[<<l, lpc[l]>>] \in Secret
<1> DEFINE c == <<l, lpc[l]>>
<1>1. lpc[l] \in {"commit", "retry"} /\ resp[c] = 200
  BY DEF Committed, Answered
<1>2. c \in Conn /\ RequestOn(c).endpoint = "commit" /\ RequestOn(c) # NoRequest
  <2>1. lpc[l] \in Use
    BY <1>1 DEF Use
  <2>2. c \in Conn /\ RequestOn(c) # NoRequest
    BY <2>1, ConnOf
  <2>3. RequestOn(c).endpoint = (IF lpc[l] = "retry" THEN "commit" ELSE lpc[l])
    BY <2>1, ConnOf
  <2> QED BY <1>1, <2>2, <2>3
<1>3. req[c] = RequestOn(c) /\ (req[c].endpoint = "commit" => uds[c] \in Secret)
  BY <1>1, <1>2 DEF SystemInv, Answers200, Says200
<1>4. pc[c] = "done"
  <2>1. HandlerOfRequest /\ NoResponse # 200
    BY ApiAssumption DEF SystemInv, RemoteInv, ServerInv, TypeInv
  <2> QED BY <1>1, <1>2, <2>1 DEF HandlerOfRequest
<1> QED BY <1>2, <1>3, <1>4

\* What a local run has read and printed keeps its type
LEMMA StepProvType ==
  ASSUME SystemInv, ProvTypeOK, SentInOrder, [ProvNext]_sysVars
  PROVE  ProvTypeOK'
<1> USE DEF ProvTypeOK
<1>1. ServerStep \/ OperatorStep \/ UNCHANGED sysVars => UNCHANGED localVars
  BY DEF ServerStep, OnlyServer, OperatorStep, sysVars
<1>2. CASE UNCHANGED localVars
  BY <1>2 DEF localVars, options
<1>3. ASSUME NEW l \in Local, LocalStep(l)
      PROVE  ProvTypeOK'
  <2>1. CASE Dial(l) \/ Send(l) \/ ConnectionLost(l)
    BY <1>2, <2>1 DEF Dial, Send, ConnectionLost, OnlyServer
  <2>2. CASE ReadOptions(l)
    <3>1. named[l] \subseteq Required \cup {"dbx"}
      <4>1. KeysInv(l)
        BY DEF SentInOrder
      <4>2. named[l] \in KeyFiles
        BY Zenon, <4>1 DEF KeysInv
      <4>3. KeyFiles \subseteq SUBSET (Required \cup {"dbx"})
        BY LocalAssumption
      <4> QED BY Zenon, <4>2, <4>3
    <3>2. PICK there \in SUBSET named[l] :
            /\ read' = [read EXCEPT ![l] = there]
            /\ lpc' = [lpc EXCEPT ![l] =
                         IF there # {} /\ ~(Required \subseteq there)
                         THEN "failed" ELSE "add-data"]
      BY <2>2 DEF ReadOptions
    <3>3. there \in SUBSET (Required \cup {"dbx"})
      BY <3>1
    <3>4. read' \in [Local -> SUBSET (Required \cup {"dbx"})]
      BY <3>2, <3>3
    <3>5. lpc' \in [Local -> Use \cup {"options", "ok", "failed"}]
      BY <3>2 DEF Use
    <3> QED BY <2>2, <3>4, <3>5 DEF ReadOptions
  <2>3. CASE AddedData(l) \/ AddedSecureBootKeys(l) \/ Retries(l) \/ LocalFails(l)
    BY <2>3 DEF AddedData, AddedSecureBootKeys, Retries, LocalFails, options, Use
  <2>4. CASE Committed(l)
    <3>1. SSH(uds[<<l, lpc[l]>>]) \in Secret
      BY <2>4, PrintsSecret DEF SSH
    <3> QED BY <2>4, <3>1 DEF Committed, options
  <2> QED BY <1>3, <2>1, <2>2, <2>3, <2>4 DEF LocalStep
<1> QED BY <1>1, <1>2, <1>3 DEF ProvNext

\* The Secure Boot keys of a local run were answered 200 before it commits, and an
\* answer that was given stays
LEMMA StepOrder ==
  ASSUME SystemInv, ProvTypeOK, SentInOrder, [ProvNext]_sysVars
  PROVE  SentInOrder'
<1> SUFFICES ASSUME NEW l \in Local PROVE KeysInv(l)'
  BY DEF SentInOrder
<1>1. TypeInv /\ [Next]_vars /\ KeysInv(l) /\ NoResponse # 200
  BY ProvStepsRemote, RemoteStepsServer, ApiAssumption
     DEF SystemInv, RemoteInv, ServerInv, SentInOrder
<1>2. resp[<<l, "add-secure-boot">>] = 200 => resp'[<<l, "add-secure-boot">>] = 200
  <2>1. <<l, "add-secure-boot">> \in Conn
    BY ConnOf DEF Use
  <2> QED BY <1>1, <2>1, ResponseStep
<1>3. ASSUME Send(l)
      PROVE  \A use \in Use \ {lpc[l]} : req'[<<l, use>>] = req[<<l, use>>]
  BY <1>1, <1>3, ConnOf DEF Send, ServeHTTP, TypeInv, TypeOK
<1>4. ASSUME ~Send(l)
      PROVE  \A use \in Use : req'[<<l, use>>] = req[<<l, use>>]
  <2>1. ASSUME NEW m \in Local, m # l, Send(m)
        PROVE  \A use \in Use : req'[<<l, use>>] = req[<<l, use>>]
    BY <1>1, <2>1, ConnOf DEF Send, ServeHTTP, TypeInv, TypeOK
  <2> QED BY <1>4, <2>1, OnlySends
<1>5. CASE Send(l)
  <2>1. lpc[l] \in Use /\ UNCHANGED localVars
    BY <1>5 DEF Send, OnlyServer
  <2>2. lpc[l] # "options"
    BY <2>1 DEF Use
  <2>3. \A use \in {"commit", "retry"} :
          lpc[l] \notin {"commit", "retry"} => req'[<<l, use>>] = req[<<l, use>>]
    BY <1>3, <1>5 DEF Use
  <2> QED BY <1>1, <1>2, <2>1, <2>2, <2>3 DEF KeysInv, localVars, options
<1>6. CASE ~Send(l)
  <2>1. \A use \in Use : req'[<<l, use>>] = req[<<l, use>>]
    BY <1>4, <1>6
  <2>2. \A use \in {"commit", "retry"} : req'[<<l, use>>] = req[<<l, use>>]
    BY <2>1 DEF Use
  <2> USE DEF KeysInv, ProvTypeOK
  <2>3. CASE ReadOptions(l)
    <3>1. lpc'[l] \in {"failed", "add-data"} /\ named' = named
          /\ (lpc'[l] = "add-data" => read'[l] = {} \/ Required \subseteq read'[l])
      BY <2>3 DEF ReadOptions
    <3>2. \A use \in {"commit", "retry"} : req'[<<l, use>>] = NoRequest
      BY <1>1, <2>2, <2>3 DEF ReadOptions, Use
    <3> QED BY <1>1, <3>1, <3>2 DEF Use
  <2>4. CASE AddedData(l)
    <3>1. /\ UNCHANGED <<read, named>>
          /\ lpc'[l] = IF read[l] # {} THEN "add-secure-boot" ELSE "commit"
      BY <2>4 DEF AddedData, HaveKeys, options
    <3>2. lpc[l] \in Use
      BY <2>4 DEF AddedData, Use
    <3> QED BY <1>1, <1>2, <2>2, <3>1, <3>2 DEF Use
  <2>5. CASE AddedSecureBootKeys(l)
    <3>1. /\ UNCHANGED <<read, named>> /\ lpc'[l] = "commit"
          /\ resp[<<l, "add-secure-boot">>] = 200
      BY <2>5 DEF AddedSecureBootKeys, Answered, options
    <3>2. lpc[l] \in Use
      BY <2>5 DEF AddedSecureBootKeys, Use
    <3> QED BY <1>1, <1>2, <2>2, <3>1, <3>2 DEF Use
  <2>6. CASE Committed(l) \/ Retries(l) \/ LocalFails(l)
    <3>1. /\ UNCHANGED <<read, named>> /\ lpc'[l] \in {"ok", "retry", "failed"}
          /\ lpc'[l] = "retry" => lpc[l] = "commit"
      BY <2>6 DEF Committed, Retries, LocalFails, options
    <3> QED BY <1>1, <1>2, <2>2, <3>1 DEF Use
  <2>7. CASE lpc'[l] = lpc[l] /\ read'[l] = read[l] /\ named'[l] = named[l]
    BY <1>1, <1>2, <2>1, <2>2, <2>7
  <2> QED BY <2>3, <2>4, <2>5, <2>6, <2>7, LocalSteps
<1> QED BY <1>5, <1>6
-----------------------------------------------------------------------------
(* The entropy *)

\* A commit is sent after an add-data was answered, which stored both halves of its
\* buffer; what others store over it is not zero either
LEMMA StepEntropy ==
  ASSUME SystemInv, ProvTypeOK, EntropyInv, [ProvNext]_sysVars
  PROVE  EntropyInv'
<1>1. TypeInv /\ [Next]_vars /\ OwnRequests /\ SystemInv' /\ NoResponse # 200
  BY ProvStepsRemote, RemoteStepsServer, StepSystem, ApiAssumption
     DEF SystemInv, RemoteInv, ServerInv
<1>2. Mixed => Mixed'
  BY <1>1, MixedStays DEF Mixed
<1>3. ASSUME NEW c \in Conn, pc'[c] = "copy"
      PROVE  entropy'.lo # Zero
  <2>1. pc[c] = "copy" \/ AddDataStores(c)
    <3>1. ASSUME NEW r \in Request, NEW d \in Conn, ServeHTTP(d, r)
          PROVE  pc'[c] = "copy" => pc[c] = "copy"
      <4>1. Entry(r.endpoint) # "copy"
        BY ApiAssumption DEF RequestType, Endpoint, Entry
      <4> QED BY <1>1, <3>1, <4>1 DEF ServeHTTP, Answer, TypeInv, TypeOK
    <3>2. ASSUME NEW d \in Conn, Handler(d) \/ CloseIdleConn(d) \/ DropConn(d)
          PROVE  pc'[c] = "copy" => pc[c] = "copy"
      BY <1>1, <3>2 DEF Handler, AddDataRejects, AddDataCopied, CommitDerives,
         CommitDerived, CommitFails, CommitPublishes, CommitSends, CommitPanics, Respond,
         CloseIdleConn, DropConn, Answer, HangUp, TypeInv, TypeOK
    <3>3. ASSUME NEW d \in Conn, \/ Connect(d) \/ PeerGone(d) \/ AddDataRejects(d)
                                 \/ \E code \in {200, 400, 403} : SecureBootReturns(d, code)
          PROVE  pc'[c] = "copy" => pc[c] = "copy"
      BY <1>1, <3>3 DEF Connect, PeerGone, AddDataRejects, SecureBootReturns, Answer,
         TypeInv, TypeOK
    <3>4. ASSUME NEW d \in Conn, d # c, AddDataStores(d)
          PROVE  pc'[c] = pc[c]
      BY <1>1, <3>4 DEF AddDataStores, TypeInv, TypeOK
    <3>5. Run \/ Await \/ ServerDies \/ UNCHANGED vars => UNCHANGED pc
      BY DEF Run, Listen, ServeReturns, CloseCommit, RunReturns, Await, AwaitCommit,
         ShutdownDrained, ShutdownTimeout, ServerDies, vars, connVars
    <3> QED BY <1>1, <1>3, <3>1, <3>2, <3>3, <3>4, <3>5 DEF Next, Peer
  <2> QED BY <1>1, <2>1, MixedStays DEF EntropyInv
<1>4. ASSUME NEW c \in Conn, Says200(c)', req'[c].endpoint = "add-data"
      PROVE  Mixed'
  <2>1. CASE Says200(c)
    <3>1. req'[c] = req[c]
      BY <1>1, <2>1, ResponseStep
    <3> QED BY <1>2, <1>4, <2>1, <3>1 DEF EntropyInv
  <2>2. CASE ~Says200(c)
    <3>1. AddDataCopied(c) \/ CommitSends(c) \/ SecureBootReturns(c, 200)
      BY <1>1, <1>4, <2>2, ResponseStep
    <3>2. AddDataCopied(c)
      BY <1>1, <1>4, <3>1 DEF CommitSends, SecureBootReturns, TypeInv, HandlerOfRequest
    <3>3. entropy.lo # Zero
      BY <3>2 DEF AddDataCopied, EntropyInv
    <3> QED BY <1>1, <3>2, <3>3, MixedStays DEF Mixed
  <2> QED BY <2>1, <2>2
<1>5. ASSUME NEW c \in Conn, req'[c] # NoRequest, req'[c].endpoint = "commit"
      PROVE  Mixed'
  <2>1. CASE req'[c] = req[c]
    BY <1>2, <1>5, <2>1 DEF EntropyInv
  <2>2. ASSUME NEW l \in Local, Send(l), req'[c] # req[c]
        PROVE  Mixed
    <3>1. lpc[l] \in Use /\ req' = [req EXCEPT ![<<l, lpc[l]>>] = RequestOn(<<l, lpc[l]>>)]
      BY <2>2 DEF Send, ServeHTTP
    <3>2. c = <<l, lpc[l]>> /\ req'[c] = RequestOn(c)
      BY <1>1, <2>2, <3>1 DEF TypeInv, TypeOK
    <3>3. RequestOn(c).endpoint = (IF lpc[l] = "retry" THEN "commit" ELSE lpc[l])
      BY <3>1, <3>2, ConnOf
    <3>4. lpc[l] \in {"commit", "retry"}
      BY <1>5, <3>2, <3>3
    <3> QED BY <3>4 DEF EntropyInv
  <2> QED BY <1>2, <2>1, <2>2, OnlySends
<1>6. ASSUME NEW l \in Local, lpc'[l] \in {"add-secure-boot", "commit", "retry"}
      PROVE  Mixed'
  <2>1. CASE lpc[l] \in {"add-secure-boot", "commit", "retry"}
    BY <1>2, <2>1 DEF EntropyInv
  <2>2. CASE AddedData(l)
    <3> DEFINE c == <<l, "add-data">>
    <3>1. resp[c] = 200
      BY <2>2 DEF AddedData, Answered
    <3>2. c \in Conn /\ RequestOn(c).endpoint = "add-data"
      BY ConnOf DEF Use
    <3>3. Says200(c) /\ req[c] = RequestOn(c)
      BY <3>1, <3>2 DEF SystemInv, Answers200, Says200
    <3> QED BY <1>2, <3>2, <3>3 DEF EntropyInv
  <2>3. CASE ReadOptions(l) \/ AddedSecureBootKeys(l) \/ Committed(l) \/ Retries(l) \/ LocalFails(l)
    BY <1>6, <2>1, <2>3 DEF ReadOptions, AddedSecureBootKeys, Committed, Retries, LocalFails,
       ProvTypeOK
  <2> QED BY <1>6, <2>1, <2>2, <2>3, LocalSteps
<1>7. ASSUME NEW c \in Conn, uds'[c] # NoUDS
      PROVE  uds'[c].lo # Zero /\ (pc'[c] # "derive2" => uds'[c].hi # Zero)
  <2>1. CASE uds'[c] = uds[c] /\ (pc[c] = "derive2" <=> pc'[c] = "derive2")
    BY <1>7, <2>1 DEF EntropyInv
  <2>2. CASE CommitDerives(c) \/ CommitDerived(c)
    <3>1. req[c] # NoRequest /\ req[c].endpoint = "commit"
      BY <1>1, <2>2, ApiAssumption DEF CommitDerives, CommitDerived, TypeInv, HandlerOfRequest
    <3>2. Mixed
      BY <3>1 DEF EntropyInv
    <3>3. CASE CommitDerives(c)
      BY <1>1, <3>2, <3>3 DEF CommitDerives, Mixed, TypeInv, TypeOK
    <3>4. CASE CommitDerived(c)
      <4>1. uds[c] \in Secret /\ uds[c].lo # Zero
        BY <1>1, <3>4, SecretNotNil DEF CommitDerived, TypeInv, HoldsSecret, EntropyInv
      <4>2. uds'[c] = [uds[c] EXCEPT !.hi = entropy.hi]
        BY <1>1, <3>4 DEF CommitDerived, TypeInv, TypeOK
      <4> QED BY <3>2, <4>1, <4>2 DEF Mixed, Secret
    <3> QED BY <2>2, <3>3, <3>4
  <2> QED BY <1>1, <1>7, <2>1, <2>2, SecretStep
<1> QED BY <1>3, <1>4, <1>5, <1>6, <1>7 DEF EntropyInv, Mixed

\* A local run prints the secret of an answered commit, as it was when it was sent
LEMMA StepPrinted ==
  ASSUME SystemInv, ProvTypeOK, EntropyInv, MixesLocalEntropy, [ProvNext]_sysVars
  PROVE  MixesLocalEntropy'
<1> SUFFICES ASSUME NEW l \in Local, printed'[l] # NoKey
             PROVE  Zero \notin {printed'[l].lo, printed'[l].hi}
  BY DEF MixesLocalEntropy
<1>1. CASE Committed(l)
  <2>1. printed'[l] = uds[<<l, lpc[l]>>]
    BY <1>1 DEF Committed, ProvTypeOK, SSH
  <2> QED BY <1>1, <2>1, PrintsSecret, SecretNotNil DEF EntropyInv
<1>2. CASE printed'[l] = printed[l]
  BY <1>2 DEF MixesLocalEntropy
<1>3. ReadOptions(l) \/ AddedData(l) \/ AddedSecureBootKeys(l) \/ Retries(l) \/ LocalFails(l)
        => printed' = printed
  BY DEF ReadOptions, AddedData, AddedSecureBootKeys, Retries, LocalFails
<1> QED BY <1>1, <1>2, <1>3, LocalSteps

\* s.UDS was derived when both halves had been sent, so they are still when listen
\* shows them to the operator
LEMMA StepShown ==
  ASSUME SystemInv, EntropyInv, ShownInv, [ProvNext]_sysVars
  PROVE  ShownInv'
<1>1. /\ TypeInv /\ [Next]_vars /\ [RemoteNext]_allVars /\ SecretsDerived
  BY ProvStepsRemote, RemoteStepsServer DEF SystemInv, RemoteInv, ServerInv
<1>2. ASSUME UNCHANGED <<main, shown>>
      PROVE  ShownInv'
  BY <1>1, <1>2, SentStays DEF ShownInv, SentByLocal
<1>3. CASE ListenReturns
  <2>1. UDS # NoUDS /\ UNCHANGED <<vars, req>> /\ shown' = entropy
    BY <1>3 DEF ListenReturns, SystemInv, RemoteInv, ServerInv, SecretBeforeStop, vars, connVars
  <2>2. PICK c \in Conn : req[c] # NoRequest /\ req[c].endpoint = "commit"
    BY <1>1, <2>1, ApiAssumption DEF SecretsDerived, Derived, TypeInv, TypeOK, Secret
  <2>3. Mixed /\ SentByLocal(entropy.lo) /\ SentByLocal(entropy.hi)
    BY <1>1, <2>2 DEF EntropyInv, SecretsDerived
  <2> QED BY <2>1, <2>3 DEF ShownInv, Mixed, SentByLocal
<1>4. CASE ListenFails \/ Aborts
  BY <1>4 DEF ListenFails, Aborts, ShownInv
<1>5. CASE Confirm \/ WriteHostKey
  <2>1. main \in {"confirm", "write"} /\ UNCHANGED <<vars, shown>>
    BY <1>5 DEF Confirm, WriteHostKey
  <2> QED BY <2>1 DEF ShownInv, SentByLocal, vars, connVars
<1>6. Server \/ UNCHANGED allVars => UNCHANGED <<main, shown>>
  BY DEF Server, allVars, mainVars
<1> QED BY <1>1, <1>2, <1>3, <1>4, <1>5, <1>6 DEF RemoteNext, Main

\* The invariant of the composition is inductive ...
LEMMA StepProv == ProvInv /\ [ProvNext]_sysVars => ProvInv'
<1> QED BY StepSystem, StepProvType, StepOrder, StepEntropy, StepShown, StepPrinted DEF ProvInv

\* ... and holds in every interleaving of the two programs
LEMMA ProvInvariant == ProvSpec => []ProvInv
<1> QED BY InitProv, StepProv, PTL DEF ProvSpec
-----------------------------------------------------------------------------
(* Theorems *)

\* Every variable of the local runs keeps its type: in particular what is printed
\* is the key of a secret
THEOREM ProvTypeCorrect == ProvSpec => []ProvTypeOK
<1>1. ProvInv => ProvTypeOK
  BY DEF ProvInv
<1> QED BY <1>1, ProvInvariant, PTL

\* Secure Boot keys that were found reach the platform before the commit: the
\* order in Main of stprov local, whatever else happens to its answers
THEOREM KeysBeforeCommit == ProvSpec => []NamedKeysAreProvisioned
<1>1. ProvInv => NamedKeysAreProvisioned
  BY DEF ProvInv, SentInOrder, KeysInv, NamedKeysAreProvisioned
<1> QED BY <1>1, ProvInvariant, PTL

\* The key that a local run prints mixes entropy that was sent, in both halves,
\* although handleAddData and handleCommit share it with no lock
THEOREM PrintedKeysAreMixed == ProvSpec => []MixesLocalEntropy
<1>1. ProvInv => MixesLocalEntropy
  BY DEF ProvInv
<1> QED BY <1>1, ProvInvariant, PTL

\* A persisted key that a local run did not print was told to somebody else: the
\* two programs disagree only about which commit came last
THEOREM MismatchIsAnotherCommit == ProvSpec => []MismatchNeedsTwoCommits
<1>1. ProvInv => MismatchNeedsTwoCommits
  BY DEF ProvInv, SystemInv, RemoteInv, MainInv, Offered, MismatchNeedsTwoCommits
<1> QED BY <1>1, ProvInvariant, PTL

\* A half that was sent while only l sent anything is l's
LEMMA SentAlone ==
  ASSUME OwnRequests, NEW l \in Local, Alone(l), NEW half, SentByLocal(half), half # Zero
  PROVE  half = EntropyOf[l]
<1>1. PICK c \in Conn : req[c] # NoRequest /\ req[c].entropy = half
  BY DEF SentByLocal
<1>2. PICK m \in Local, use \in Use : c = <<m, use>>
  BY LocalAssumption
<1>3. m = l
  BY <1>1, <1>2 DEF Alone
<1>4. req[c] = RequestOn(<<l, use>>)
  BY <1>1, <1>2, <1>3 DEF OwnRequests
<1> QED BY <1>1, <1>4, ConnOf

\* A local run that has the platform for itself sees its entropy on the terminal
\* of the platform, and the secret that is persisted mixes exactly this entropy
THEOREM SoloSeesItsEntropy == ProvSpec => []SoloEntropy
<1>1. ProvInv => SoloEntropy
  <2> SUFFICES ASSUME ProvInv, NEW l \in Local, Alone(l), main \in {"confirm", "write", "ok"}
               PROVE  /\ shown = [lo |-> EntropyOf[l], hi |-> EntropyOf[l]]
                      /\ UDS.lo = EntropyOf[l] /\ UDS.hi = EntropyOf[l]
    BY DEF SoloEntropy
  <2>1. OwnRequests
    BY DEF ProvInv, SystemInv
  <2>2. shown.lo = EntropyOf[l] /\ shown.hi = EntropyOf[l]
    BY <2>1, SentAlone DEF ProvInv, ShownInv
  <2>3. shown \in [lo : Buffer, hi : Buffer]
    BY DEF ProvInv, SystemInv, RemoteInv, RemoteTypeOK
  <2>4. UDS # NoUDS /\ Winner /\ SecretsDerived
    BY DEF ProvInv, SystemInv, RemoteInv, ServerInv, MainInv
  <2>5. UDS.loc \in Published /\ uds[UDS.loc] = UDS
    BY <2>4 DEF Winner
  <2>6. UDS.lo # Zero /\ UDS.hi # Zero
    BY <2>4, <2>5 DEF ProvInv, EntropyInv, Published
  <2>7. SentByLocal(UDS.lo) /\ SentByLocal(UDS.hi)
    BY <2>4 DEF SecretsDerived, Derived
  <2>8. UDS.lo = EntropyOf[l] /\ UDS.hi = EntropyOf[l]
    BY <2>1, <2>6, <2>7, SentAlone
  <2> QED BY <2>2, <2>3, <2>8
<1> QED BY <1>1, ProvInvariant, PTL

\* The composition of the two programs implements the ceremony: the key in NVRAM
\* is one that stprov remote offered to some stprov local
THEOREM ProvRefinesCeremony == ProvSpec => ImplementsCeremony
<1> QED BY ProvRunsRemote, RemoteRefinesCeremony
=============================================================================
