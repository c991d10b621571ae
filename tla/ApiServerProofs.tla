--------------------------- MODULE ApiServerProofs ---------------------------
(***************************************************************************)
(* Theorems about ApiServer, for every set of connections, every set of    *)
(* requests and every CIDR range.                                          *)
(*                                                                         *)
(* The inductive invariant says in six named parts what a goroutine may    *)
(* rely on at each of its steps; each property of ApiServer follows from   *)
(* some of them.                                                           *)
(***************************************************************************)
EXTENDS ApiServer, TLAPS

\* handleCommit holds a secret from the moment it was derived
HoldsSecret == \A c \in Conn :
  pc[c] \in {"derive2", "publish", "send"} => uds[c] \in Secret

\* A goroutine runs the handler of the endpoint its request names, and only
\* after every check passed; its answer waits for its return, and is sent after it.
HandlerOfRequest == \A c \in Conn :
  /\ pc[c] \in {"none", "conn"} => req[c] = NoRequest
  /\ pc[c] # "done" => resp[c] = NoResponse
  /\ pc[c] # "reply" => wrote[c] = NoResponse
  /\ pc[c] \in {"body", "copy"} =>
       req[c] \in Request /\ req[c].endpoint = "add-data" /\ Authorized(req[c])
  /\ pc[c] = "copy" => ValidData(req[c])
  /\ pc[c] = "sb" => req[c] \in Request /\ req[c].endpoint = "add-secure-boot"
  /\ pc[c] \in {"derive", "derive2", "publish", "send"} =>
       req[c] \in Request /\ req[c].endpoint = "commit" /\ Authorized(req[c])

\* A secret was stored before anything that stops the server without an error
SecretBeforeStop ==
  /\ commit.closed => run \in {"closed", "done"}
  /\ \A c \in Conn : pc[c] = "send" => UDS # NoUDS
  /\ commit.buf > 0 => UDS # NoUDS
  /\ run \in {"start", "serving"} /\ InShutdown => UDS # NoUDS
  /\ run \in {"served", "closed", "done"} /\ ~runErr => UDS # NoUDS

\* The token precedes the 200 of a commit, which waits in a buffer or was sent
TokenBeforeAnswer == \A c \in Conn :
  req[c] # NoRequest /\ req[c].endpoint = "commit" /\ 200 \in {wrote[c], resp[c]}
    => commit.buf > 0 \/ InShutdown

\* Shutdown that did not time out left no connection open, and Run waits for it
Drained ==
  /\ run = "done" => await = "done"
  /\ await = "done" /\ ~timedOut =>
       \A c \in Conn : (Active(c) \/ pc[c] = "conn") => sock[c] = "closed"

\* Provenance holds of every secret a handler is working on as well
Derived(s) ==
  /\ req[s.loc] \in Request /\ req[s.loc].endpoint = "commit"
  /\ Authorized(req[s.loc])
  /\ SentByLocal(s.lo) /\ SentByLocal(s.hi)

SecretsDerived ==
  /\ SentByLocal(entropy.lo) /\ SentByLocal(entropy.hi)
  /\ \A c \in Conn : uds[c] # NoUDS => Derived(uds[c]) /\ uds[c].loc = c
  /\ UDS # NoUDS => Derived(UDS)

\* s.UDS is the secret of a commit that published it, and every commit that
\* published left one there; a handler has none before it derives
Winner ==
  /\ \A c \in Conn : pc[c] \in {"none", "conn", "body", "copy", "sb", "derive"}
                       => uds[c] = NoUDS
  /\ UDS # NoUDS => UDS.loc \in Published /\ uds[UDS.loc] = UDS
  /\ Published # {} => UDS # NoUDS

TypeInv == TypeOK /\ HoldsSecret /\ HandlerOfRequest
-----------------------------------------------------------------------------
(* Facts about the constants *)

\* NoUDS is the nil pointer: no secret is equal to it
LEMMA SecretNotNil == \A s \in Secret : s # NoUDS
  BY ApiAssumption DEF Secret, Buffer

\* The answer of a check is one of the codes the handlers use, and 200 exactly
\* for a request that is authorised
LEMMA VerdictCodes ==
  ASSUME NEW r \in Request
  PROVE  /\ Verdict(r) \in {200, 400, 403, 405, 500}
         /\ Verdict(r) = 200 <=> Authorized(r)
  BY SMT DEF Verdict, VerifyMethod, VerifyNetwork, AuthenticateUser, Authorized

\* Answer leaves the code in the buffer, HangUp ends the goroutine without one
LEMMA AnswerType ==
  ASSUME TypeOK, NEW c \in Conn, NEW code \in {200, 400, 403, 405, 500},
         (Answer(c, code) /\ UNCHANGED resp) \/ HangUp(c)
  PROVE  /\ pc' \in [Conn -> {"none", "conn", "body", "copy", "sb", "derive",
                              "derive2", "publish", "send", "reply", "done"}]
         /\ wrote' \in [Conn -> {200, 400, 403, 405, 500, NoResponse}]
         /\ resp' \in [Conn -> {200, 400, 403, 405, 500, EOF, NoResponse}]
         /\ \A d \in Conn \ {c} :
              pc'[d] = pc[d] /\ wrote'[d] = wrote[d] /\ resp'[d] = resp[d]
         /\ \/ pc'[c] = "reply" /\ wrote'[c] = code /\ resp'[c] = resp[c]
            \/ pc'[c] = "done" /\ wrote'[c] = wrote[c] /\ resp'[c] = EOF
  BY DEF TypeOK, Answer, HangUp

-----------------------------------------------------------------------------
(* Type correctness *)

\* NewServer leaves the fields of Server zero, and no goroutine has begun
LEMMA InitType == Init => TypeInv
<1> SUFFICES ASSUME Init PROVE TypeInv
  OBVIOUS
<1>1. commit \in [buf : 0..CommitCapacity, closed : BOOLEAN]
  BY DEF Init, CommitCapacity
<1>2. entropy \in [lo : Buffer, hi : Buffer]
  BY DEF Init, Buffer
<1>3. /\ sock \in [Conn -> {"none", "open", "gone", "closed"}]
      /\ req \in [Conn -> Request \cup {NoRequest}]
      /\ uds \in [Conn -> Secret \cup {NoUDS}]
  BY DEF Init
<1>4. /\ wrote \in [Conn -> {200, 400, 403, 405, 500, NoResponse}]
      /\ resp \in [Conn -> {200, 400, 403, 405, 500, EOF, NoResponse}]
  BY DEF Init
<1>5. pc \in [Conn -> {"none", "conn", "body", "copy", "sb", "derive",
                       "derive2", "publish", "send", "reply", "done"}]
  BY DEF Init
<1>6. /\ run \in {"start", "serving", "served", "closed", "done"} /\ runErr \in BOOLEAN
      /\ await \in {"select", "shutdown", "done"} /\ timedOut \in BOOLEAN
      /\ timestamp \in Nat /\ UDS \in Secret \cup {NoUDS}
  BY DEF Init
<1>7. TypeOK
  BY <1>1, <1>2, <1>3, <1>4, <1>5, <1>6 DEF TypeOK
<1>8. HoldsSecret /\ HandlerOfRequest
  BY DEF Init, HoldsSecret, HandlerOfRequest
<1> QED BY <1>7, <1>8 DEF TypeInv

\* No statement of a goroutine stores a value of another type, and a handler past
\* its derivation holds the secret it is going to publish
LEMMA StepType == TypeInv /\ [Next]_vars => TypeInv'
<1> SUFFICES ASSUME TypeInv, [Next]_vars PROVE TypeInv'
  OBVIOUS
<1> USE DEF TypeInv, TypeOK, HoldsSecret, HandlerOfRequest
<1>1. CASE UNCHANGED vars
  BY <1>1 DEF vars, runVars, connVars, serverData, ValidData
<1>2. CASE Run \/ Await \/ ServerDies
  <2>1. UNCHANGED <<connVars, serverData>>
    BY <1>2 DEF Run, Listen, ServeReturns, CloseCommit, RunReturns, Await,
         AwaitCommit, ShutdownDrained, ShutdownTimeout, ServerDies
  <2>2. /\ run' \in {"start", "serving", "served", "closed", "done"}
        /\ runErr' \in BOOLEAN
        /\ await' \in {"select", "shutdown", "done"}
        /\ timedOut' \in BOOLEAN
    <3>1. CASE Listen \/ ServeReturns \/ CloseCommit \/ RunReturns
      BY <3>1 DEF Listen, ServeReturns, CloseCommit, RunReturns
    <3>2. CASE AwaitCommit
      BY <3>2 DEF AwaitCommit
    <3>3. CASE ShutdownDrained
      BY <3>3 DEF ShutdownDrained
    <3>4. CASE ShutdownTimeout
      BY <3>4 DEF ShutdownTimeout
    <3>5. CASE ServerDies
      BY <3>5 DEF ServerDies
    <3> QED BY <1>2, <3>1, <3>2, <3>3, <3>4, <3>5 DEF Run, Await
  <2>3. CASE UNCHANGED commit
    BY <2>1, <2>2, <2>3 DEF connVars, serverData
  <2>4. CASE CloseCommit
    <3>1. commit' \in [buf : 0..CommitCapacity, closed : BOOLEAN]
      BY <2>4 DEF CloseCommit
    <3> QED BY <2>1, <2>2, <3>1 DEF connVars, serverData
  <2>5. CASE AwaitCommit
    <3>1. commit' \in [buf : 0..CommitCapacity, closed : BOOLEAN]
      BY <2>5 DEF AwaitCommit, CommitCapacity
    <3> QED BY <2>1, <2>2, <3>1 DEF connVars, serverData
  <2> QED
    BY <1>2, <2>3, <2>4, <2>5 DEF Run, Listen, ServeReturns, RunReturns, Await,
       ShutdownDrained, ShutdownTimeout, ServerDies
<1>3. ASSUME NEW c \in Conn, Handler(c) \/ Peer(c) \/ CloseIdleConn(c) \/ DropConn(c)
      PROVE  TypeInv'
  <2> USE DEF runVars, serverData
  <2>1. CASE CloseIdleConn(c) \/ Connect(c) \/ PeerGone(c)
    BY <2>1 DEF CloseIdleConn, Connect, PeerGone
  <2>2. CASE DropConn(c)
    BY <2>2, AnswerType DEF DropConn
  <2>3. ASSUME NEW r \in Request, ServeHTTP(c, r) PROVE TypeInv'
    <3>1. CASE Verdict(r) = 200
      <4>1. Authorized(r)
        BY <3>1, VerdictCodes
      <4>2. /\ r.endpoint \in Endpoint
            /\ pc' = [pc EXCEPT ![c] = Entry(r.endpoint)]
            /\ req' = [req EXCEPT ![c] = r]
            /\ UNCHANGED <<runVars, sock, wrote, resp, uds, serverData>>
        BY <2>3, <3>1, ApiAssumption DEF ServeHTTP, RequestType
      <4>3. CASE r.endpoint = "add-data"
        BY <4>1, <4>2, <4>3, <2>3 DEF Entry, ServeHTTP
      <4>4. CASE r.endpoint = "add-secure-boot"
        BY <4>1, <4>2, <4>4, <2>3 DEF Entry, ServeHTTP
      <4>5. CASE r.endpoint = "commit"
        BY <4>1, <4>2, <4>5, <2>3 DEF Entry, ServeHTTP
      <4> QED BY <4>2, <4>3, <4>4, <4>5 DEF Endpoint
    <3>2. CASE Verdict(r) # 200
      <4>1. Answer(c, Verdict(r)) /\ UNCHANGED resp
        BY <2>3, <3>2 DEF ServeHTTP
      <4> QED BY <2>3, <4>1, VerdictCodes, AnswerType DEF ServeHTTP
    <3> QED BY <3>1, <3>2
  <2>4. CASE AddDataRejects(c)
    BY <2>4, AnswerType DEF AddDataRejects
  <2>5. CASE AddDataStores(c)
    <3>1. req[c] \in RequestType /\ ValidData(req[c])
      BY <2>5, ApiAssumption DEF AddDataStores
    <3>2. req[c].timestamp \in Nat /\ req[c].entropy \in Buffer
      BY <3>1 DEF ValidData, RequestType, Buffer
    <3>3. timestamp' \in Nat /\ entropy' \in [lo : Buffer, hi : Buffer]
      BY <2>5, <3>2 DEF AddDataStores
    <3> QED BY <2>5, <3>1, <3>3 DEF AddDataStores
  <2>6. CASE AddDataCopied(c)
    <3>1. req[c].entropy \in Buffer
      BY <2>6, ApiAssumption DEF AddDataCopied, RequestType, Buffer
    <3>2. entropy' \in [lo : Buffer, hi : Buffer]
      BY <2>6, <3>1 DEF AddDataCopied
    <3> QED BY <2>6, <3>2, AnswerType DEF AddDataCopied
  <2>7. CASE CommitDerives(c)
    <3>1. [loc |-> c, lo |-> entropy.lo, hi |-> Zero] \in Secret
      BY DEF Secret, Buffer
    <3> QED BY <2>7, <3>1 DEF CommitDerives
  <2>8. CASE CommitDerived(c)
    <3>1. [uds[c] EXCEPT !.hi = entropy.hi] \in Secret
      BY <2>8 DEF CommitDerived, Secret
    <3> QED BY <2>8, <3>1 DEF CommitDerived
  <2>9. CASE CommitFails(c)
    BY <2>9, AnswerType DEF CommitFails
  <2>10. CASE CommitPublishes(c)
    BY <2>10 DEF CommitPublishes
  <2>11. CASE CommitSends(c)
    <3>1. commit' \in [buf : 0..CommitCapacity, closed : BOOLEAN]
      BY <2>11 DEF CommitSends, CommitCapacity
    <3> QED BY <2>11, <3>1, AnswerType DEF CommitSends
  <2>12. CASE CommitPanics(c)
    BY <2>12, AnswerType DEF CommitPanics
  <2>13. ASSUME NEW code \in {200, 400, 403}, SecureBootReturns(c, code) PROVE TypeInv'
    BY <2>13, AnswerType DEF SecureBootReturns
  <2>14. CASE Respond(c)
    BY <2>14 DEF Respond
  <2> QED
    BY <1>3, <2>1, <2>2, <2>3, <2>4, <2>5, <2>6, <2>7, <2>8, <2>9, <2>10, <2>11,
       <2>12, <2>13, <2>14 DEF Handler, Peer
<1> QED BY <1>1, <1>2, <1>3 DEF Next

\* Every variable of the server has its type, whatever the peers do
THEOREM TypeCorrect == Spec => []TypeOK
<1>1. Init => TypeInv
  BY InitType
<1>2. TypeInv /\ [Next]_vars => TypeInv'
  BY StepType
<1>3. TypeInv => TypeOK
  BY DEF TypeInv
<1> QED BY <1>1, <1>2, <1>3, PTL DEF Spec
-----------------------------------------------------------------------------
(* The secret is stored before the server stops *)

\* While a handler works, Run and await change nothing but the channel
LEMMA ConnectionStep ==
  ASSUME TypeOK, NEW c \in Conn,
         Handler(c) \/ Peer(c) \/ CloseIdleConn(c) \/ DropConn(c)
  PROVE  UNCHANGED <<run, runErr, await, timedOut, commit.closed>>
<1> USE DEF runVars, TypeOK
<1>1. CASE Handler(c)
  BY <1>1 DEF Handler, AddDataRejects, AddDataCopied, CommitDerives, CommitDerived,
       CommitFails, CommitPublishes, CommitSends, CommitPanics, Respond
<1>2. CASE Peer(c)
  BY <1>2 DEF Peer, Connect, PeerGone, ServeHTTP, AddDataRejects, AddDataStores,
       SecureBootReturns
<1> QED BY <1>1, <1>2 DEF CloseIdleConn, DropConn

\* handleCommit assigns Server.UDS before it sends the token, and only a token or
\* an error of the listener starts the shutdown without an error
LEMMA StepSecret == TypeInv /\ SecretBeforeStop /\ [Next]_vars => SecretBeforeStop'
<1> SUFFICES ASSUME TypeInv, SecretBeforeStop, [Next]_vars PROVE SecretBeforeStop'
  OBVIOUS
<1> USE DEF SecretBeforeStop, InShutdown
<1>1. CASE UNCHANGED vars
  BY <1>1 DEF vars, runVars, connVars, serverData
<1>2. CASE Run
  BY <1>2 DEF Run, Listen, ServeReturns, CloseCommit, RunReturns, connVars,
       serverData, TypeInv, TypeOK
<1>3. CASE Await
  <2>1. CASE AwaitCommit
    BY <2>1 DEF AwaitCommit, connVars, serverData, TypeInv, TypeOK, CommitCapacity
  <2>2. CASE ShutdownDrained \/ ShutdownTimeout
    BY <2>2 DEF ShutdownDrained, ShutdownTimeout, connVars, serverData
  <2> QED BY <1>3, <2>1, <2>2 DEF Await
<1>4. CASE ServerDies
  BY <1>4 DEF ServerDies, connVars, serverData
<1>5. ASSUME NEW c \in Conn, Handler(c) \/ Peer(c) \/ CloseIdleConn(c) \/ DropConn(c)
      PROVE  SecretBeforeStop'
  <2>1. UNCHANGED <<run, runErr, await, commit.closed>>
    BY <1>5, ConnectionStep DEF TypeInv
  <2>2. CASE CommitPublishes(c)
    <3>1. UDS' # NoUDS
      BY <2>2, SecretNotNil DEF CommitPublishes, TypeInv, HoldsSecret
    <3> QED BY <2>1, <3>1
  <2>3. CASE CommitSends(c)
    <3>1. UDS # NoUDS /\ UDS' = UDS
      BY <2>3 DEF CommitSends, serverData
    <3> QED BY <2>1, <3>1
  <2>4. ASSUME ~CommitPublishes(c), ~CommitSends(c)
        PROVE  /\ UNCHANGED <<UDS, commit>>
               /\ \A d \in Conn : pc'[d] = "send" => pc[d] = "send"
    <3>1. CASE Handler(c)
      BY <2>4, <3>1 DEF Handler, AddDataRejects, AddDataCopied, CommitDerives,
           CommitDerived, CommitFails, CommitPanics, Respond, Answer, HangUp, runVars, serverData,
           TypeInv, TypeOK
    <3>2. CASE CloseIdleConn(c) \/ DropConn(c)
      BY <3>2 DEF CloseIdleConn, DropConn, HangUp, runVars, serverData, TypeInv, TypeOK
    <3>3. CASE Peer(c)
      <4>1. ASSUME NEW r \in Request, ServeHTTP(c, r)
            PROVE  /\ UNCHANGED <<UDS, commit>>
                   /\ \A d \in Conn : pc'[d] = "send" => pc[d] = "send"
        <5>1. Entry(r.endpoint) # "send"
          BY ApiAssumption DEF RequestType, Endpoint, Entry
        <5> QED BY <4>1, <5>1 DEF ServeHTTP, Answer, runVars, serverData, TypeInv, TypeOK
      <4> QED
        BY <3>3, <4>1 DEF Peer, Connect, PeerGone, AddDataRejects, AddDataStores,
           SecureBootReturns, Answer, runVars, serverData, TypeInv, TypeOK
    <3> QED BY <1>5, <3>1, <3>2, <3>3
  <2> QED BY <2>1, <2>2, <2>3, <2>4
<1> QED BY <1>1, <1>2, <1>3, <1>4, <1>5 DEF Next

\* A Run that returns nil has left a secret in s.UDS: listen() may return it
\* and writeHostKey may dereference it
THEOREM ReturnHasUDS == Spec => []CleanReturnHasUDS
<1>1. Init => TypeInv
  BY InitType
<1>2. TypeInv /\ [Next]_vars => TypeInv'
  BY StepType
<1>3. Init => SecretBeforeStop
  BY DEF Init, SecretBeforeStop, InShutdown
<1>4. TypeInv /\ SecretBeforeStop /\ [Next]_vars => SecretBeforeStop'
  BY StepSecret
<1>5. SecretBeforeStop => CleanReturnHasUDS
  BY DEF SecretBeforeStop, CleanReturnHasUDS
<1> QED BY <1>1, <1>2, <1>3, <1>4, <1>5, PTL DEF Spec
-----------------------------------------------------------------------------
(* An answered commit stops the server *)

\* The 200 of handleCommit follows its send on commit, and await takes the token
\* before it begins the shutdown
LEMMA StepAnswer == TypeInv /\ TokenBeforeAnswer /\ [Next]_vars => TokenBeforeAnswer'
<1> SUFFICES ASSUME TypeInv, TokenBeforeAnswer, [Next]_vars
             PROVE  TokenBeforeAnswer'
  OBVIOUS
<1> USE DEF TokenBeforeAnswer, InShutdown
<1>1. CASE UNCHANGED vars
  BY <1>1 DEF vars, runVars, connVars, serverData
<1>2. CASE Run \/ ServerDies
  BY <1>2 DEF Run, Listen, ServeReturns, CloseCommit, RunReturns, ServerDies,
       connVars, TypeInv, TypeOK
<1>3. CASE Await
  BY <1>3 DEF Await, AwaitCommit, ShutdownDrained, ShutdownTimeout, connVars
<1>4. ASSUME NEW c \in Conn, Handler(c) \/ Peer(c) \/ CloseIdleConn(c) \/ DropConn(c)
      PROVE  TokenBeforeAnswer'
  <2>1. UNCHANGED await
    BY <1>4, ConnectionStep DEF TypeInv
  <2>2. CASE CommitSends(c)
    BY <2>2 DEF CommitSends, TypeInv, TypeOK
  <2>3. ASSUME ~CommitSends(c),
               NEW d \in Conn, req'[d] # NoRequest, req'[d].endpoint = "commit",
               200 \in {wrote'[d], resp'[d]}
        PROVE  req[d] = req'[d] /\ 200 \in {wrote[d], resp[d]}
    <3>1. EOF # 200 /\ NoResponse # 200
      BY ApiAssumption
    <3> USE DEF TypeInv, TypeOK, HandlerOfRequest
    <3>2. CASE Handler(c)
      BY <2>3, <3>1, <3>2 DEF Handler, AddDataRejects, AddDataCopied, CommitDerives,
         CommitDerived, CommitFails, CommitPublishes, CommitPanics, Respond, Answer, HangUp
    <3>3. CASE CloseIdleConn(c) \/ DropConn(c)
      BY <2>3, <3>1, <3>3 DEF CloseIdleConn, DropConn, HangUp
    <3>4. CASE \E r \in Request : ServeHTTP(c, r)
      BY <2>3, <3>1, <3>4 DEF ServeHTTP, Answer
    <3>5. CASE Peer(c) /\ ~\E r \in Request : ServeHTTP(c, r)
      BY <2>3, <3>1, <3>5 DEF Peer, Connect, PeerGone, AddDataRejects, AddDataStores,
         SecureBootReturns, Answer
    <3> QED BY <1>4, <3>2, <3>3, <3>4, <3>5
  <2>4. ASSUME ~CommitSends(c) PROVE UNCHANGED commit
    BY <1>4, <2>4 DEF Handler, AddDataRejects, AddDataCopied, CommitDerives,
       CommitDerived, CommitFails, CommitPublishes, CommitPanics, Respond, CloseIdleConn,
       DropConn, Peer, Connect, PeerGone, ServeHTTP, AddDataStores,
       SecureBootReturns, runVars
  <2> QED BY <2>1, <2>2, <2>3, <2>4
<1> QED BY <1>1, <1>2, <1>3, <1>4 DEF Next

\* A peer whose commit got 200 has made the server stop: the token it sent is
\* in the channel, or await has received one
THEOREM AnswerStops == Spec => []CommitOKStopsServer
<1>1. Init => TypeInv
  BY InitType
<1>2. TypeInv /\ [Next]_vars => TypeInv'
  BY StepType
<1>3. Init => TokenBeforeAnswer
  BY DEF Init, TokenBeforeAnswer
<1>4. TypeInv /\ TokenBeforeAnswer /\ [Next]_vars => TokenBeforeAnswer'
  BY StepAnswer
<1>5. TokenBeforeAnswer => CommitOKStopsServer
  BY DEF TokenBeforeAnswer, CommitOKStopsServer
<1> QED BY <1>1, <1>2, <1>3, <1>4, <1>5, PTL DEF Spec
-----------------------------------------------------------------------------
(* Run waits for the requests in flight *)

\* Once Shutdown has returned without its timeout, no connection with a peer has a
\* handler, and no new one is accepted
LEMMA StepDrained == TypeInv /\ Drained /\ [Next]_vars => Drained'
<1> SUFFICES ASSUME TypeInv, Drained, [Next]_vars PROVE Drained'
  OBVIOUS
<1> USE DEF Drained, Active
<1>1. CASE UNCHANGED vars
  BY <1>1 DEF vars, runVars, connVars
<1>2. CASE Run \/ ServerDies
  BY <1>2 DEF Run, Listen, ServeReturns, CloseCommit, RunReturns, ServerDies, connVars
<1>3. CASE Await
  BY <1>3 DEF Await, AwaitCommit, ShutdownDrained, ShutdownTimeout, connVars
<1>4. ASSUME NEW c \in Conn, Handler(c) \/ Peer(c) \/ CloseIdleConn(c) \/ DropConn(c)
      PROVE  Drained'
  <2>1. UNCHANGED <<run, await, timedOut>>
    BY <1>4, ConnectionStep DEF TypeInv
  <2>2. CASE Connect(c)
    BY <2>1, <2>2 DEF Connect, InShutdown
  <2>3. ASSUME ~Connect(c), NEW d \in Conn, Active(d)' \/ pc'[d] = "conn"
        PROVE  /\ Active(d) \/ pc[d] = "conn"
               /\ sock[d] = "closed" => sock'[d] = "closed"
    <3> USE DEF TypeInv, TypeOK
    <3>1. CASE Handler(c)
      BY <2>3, <3>1 DEF Handler, AddDataRejects, AddDataCopied, CommitDerives,
         CommitDerived, CommitFails, CommitPublishes, CommitSends, CommitPanics, Respond,
         Answer, HangUp
    <3>2. CASE CloseIdleConn(c) \/ DropConn(c)
      BY <2>3, <3>2 DEF CloseIdleConn, DropConn, HangUp
    <3>3. CASE \E r \in Request : ServeHTTP(c, r)
      BY <2>3, <3>3 DEF ServeHTTP, Answer
    <3>4. CASE Peer(c) /\ ~\E r \in Request : ServeHTTP(c, r)
      BY <2>3, <3>4 DEF Peer, PeerGone, AddDataRejects, AddDataStores,
         SecureBootReturns, Answer
    <3> QED BY <1>4, <3>1, <3>2, <3>3, <3>4
  <2> QED BY <2>1, <2>2, <2>3
<1> QED BY <1>1, <1>2, <1>3, <1>4 DEF Next

\* When Run returns and Shutdown did not time out, no handler is at work whose
\* connection could still carry an answer
THEOREM Drains == Spec => []DrainedBeforeReturn
<1>1. Init => TypeInv
  BY InitType
<1>2. TypeInv /\ [Next]_vars => TypeInv'
  BY StepType
<1>3. Init => Drained
  BY DEF Init, Drained
<1>4. TypeInv /\ Drained /\ [Next]_vars => Drained'
  BY StepDrained
<1>5. Drained => DrainedBeforeReturn
  BY DEF Drained, DrainedBeforeReturn
<1> QED BY <1>1, <1>2, <1>3, <1>4, <1>5, PTL DEF Spec
-----------------------------------------------------------------------------
(* What is committed comes from authorised peers *)

\* A connection that carried a request keeps it
LEMMA RequestStays ==
  ASSUME TypeInv, [Next]_vars, NEW c \in Conn, req[c] # NoRequest
  PROVE  req'[c] = req[c]
<1> USE DEF TypeInv, TypeOK, HandlerOfRequest
<1>1. CASE UNCHANGED req
  BY <1>1
<1>2. CASE \E d \in Conn, r \in Request : ServeHTTP(d, r)
  BY <1>2 DEF ServeHTTP
<1>3. CASE ~\E d \in Conn, r \in Request : ServeHTTP(d, r)
  BY <1>3 DEF Next, Run, Listen, ServeReturns, CloseCommit, RunReturns, Await,
     AwaitCommit, ShutdownDrained, ShutdownTimeout, ServerDies, Handler, Peer,
     CloseIdleConn, DropConn, Connect, PeerGone, AddDataRejects, AddDataStores,
     AddDataCopied, CommitDerives, CommitDerived, CommitFails, CommitPublishes,
     CommitSends, CommitPanics, Respond, SecureBootReturns, vars, connVars
<1> QED BY <1>2, <1>3

\* What a client has sent to add-data stays sent
LEMMA SentStays ==
  ASSUME TypeInv, [Next]_vars, NEW half, SentByLocal(half)
  PROVE  SentByLocal(half)'
<1>1. CASE half = Zero
  BY <1>1 DEF SentByLocal
<1>2. CASE half # Zero
  <2>1. PICK c \in Conn :
          /\ req[c] # NoRequest /\ req[c].entropy = half
          /\ req[c].endpoint = "add-data" /\ Authorized(req[c])
          /\ req[c].len = EntropyBytes /\ req[c].json /\ req[c].timestamp >= 0
    BY <1>2 DEF SentByLocal
  <2>2. req'[c] = req[c]
    BY <2>1, RequestStays
  <2> QED BY <2>1, <2>2 DEF SentByLocal
<1> QED BY <1>1, <1>2

\* Where a secret was derived from does not change afterwards
LEMMA DerivedStays ==
  ASSUME TypeInv, [Next]_vars, NEW s \in Secret, Derived(s)
  PROVE  Derived(s)'
<1>1. s.loc \in Conn /\ req[s.loc] # NoRequest
  BY ApiAssumption DEF Derived, Secret
<1>2. req'[s.loc] = req[s.loc]
  BY <1>1, RequestStays
<1>3. SentByLocal(s.lo)' /\ SentByLocal(s.hi)'
  BY SentStays DEF Derived
<1> QED BY <1>2, <1>3 DEF Derived

\* handleAddData copies what an authorised client sent, and handleCommit derives
\* from what was copied
LEMMA StepDerived == TypeInv /\ SecretsDerived /\ [Next]_vars => SecretsDerived'
<1> SUFFICES ASSUME TypeInv, SecretsDerived, [Next]_vars PROVE SecretsDerived'
  OBVIOUS
<1> USE DEF SecretsDerived
<1>1. \A half : SentByLocal(half) => SentByLocal(half)'
  BY SentStays
<1>2. UNCHANGED entropy => SentByLocal(entropy.lo)' /\ SentByLocal(entropy.hi)'
  BY <1>1 DEF SentByLocal
<1>3. \A s \in Secret : Derived(s) => Derived(s)'
  BY DerivedStays
<1>4. ASSUME NEW c \in Conn, uds'[c] = uds[c], uds'[c] # NoUDS
      PROVE  Derived(uds[c])' /\ uds'[c].loc = c
  <2>1. uds[c] \in Secret
    BY <1>4 DEF TypeInv, TypeOK
  <2> QED BY <1>3, <1>4, <2>1 DEF Derived, SentByLocal
<1>5. ASSUME UNCHANGED UDS, UDS # NoUDS PROVE Derived(UDS)'
  <2>1. UDS \in Secret
    BY <1>5 DEF TypeInv, TypeOK
  <2> QED BY <1>3, <1>5, <2>1 DEF Derived, SentByLocal
<1>6. CASE UNCHANGED <<entropy, uds, UDS>>
  BY <1>2, <1>4, <1>5, <1>6
<1>7. ASSUME NEW c \in Conn, AddDataStores(c) \/ AddDataCopied(c)
      PROVE  SecretsDerived'
  <2>1. /\ req[c] # NoRequest /\ req[c].endpoint = "add-data" /\ Authorized(req[c])
        /\ req[c].json /\ req[c].len = EntropyBytes /\ req[c].timestamp >= 0
    BY <1>7, ApiAssumption DEF AddDataStores, AddDataCopied, TypeInv,
       HandlerOfRequest, ValidData
  <2>2. SentByLocal(req[c].entropy) /\ req' = req
    BY <1>7, <2>1 DEF SentByLocal, AddDataStores, AddDataCopied
  <2>3. /\ UNCHANGED <<uds, UDS>>
        /\ entropy'.lo \in {entropy.lo, req[c].entropy}
        /\ entropy'.hi \in {entropy.hi, req[c].entropy}
    BY <1>7 DEF AddDataStores, AddDataCopied, TypeInv, TypeOK
  <2>4. SentByLocal(entropy'.lo) /\ SentByLocal(entropy'.hi)
    BY <2>2, <2>3
  <2>5. SentByLocal(entropy.lo)' /\ SentByLocal(entropy.hi)'
    BY <2>2, <2>4 DEF SentByLocal
  <2> QED BY <1>4, <1>5, <2>3, <2>5
<1>8. ASSUME NEW c \in Conn, CommitDerives(c) \/ CommitDerived(c)
      PROVE  SecretsDerived'
  <2>1. req[c] \in Request /\ req[c].endpoint = "commit" /\ Authorized(req[c])
    BY <1>8 DEF CommitDerives, CommitDerived, TypeInv, HandlerOfRequest
  <2>2. UNCHANGED <<entropy, UDS, req>> /\ \A d \in Conn \ {c} : uds'[d] = uds[d]
    BY <1>8 DEF CommitDerives, CommitDerived, serverData, TypeInv, TypeOK
  <2>3. /\ uds'[c].loc = c
        /\ SentByLocal(uds'[c].lo) /\ SentByLocal(uds'[c].hi)
    <3>1. CASE CommitDerives(c)
      BY <3>1 DEF CommitDerives, TypeInv, TypeOK, SentByLocal
    <3>2. CASE CommitDerived(c)
      <4>1. uds[c] \in Secret /\ Derived(uds[c]) /\ uds[c].loc = c
        BY <3>2, SecretNotNil DEF CommitDerived, TypeInv, HoldsSecret
      <4>2. uds'[c] = [uds[c] EXCEPT !.hi = entropy.hi]
        BY <3>2 DEF CommitDerived, TypeInv, TypeOK
      <4> QED BY <4>1, <4>2 DEF Derived, Secret
    <3> QED BY <1>8, <3>1, <3>2
  <2>4. Derived(uds[c])'
    BY <2>1, <2>2, <2>3 DEF Derived, SentByLocal
  <2> QED BY <1>2, <1>4, <1>5, <2>2, <2>3, <2>4
<1>9. ASSUME NEW c \in Conn, CommitFails(c) PROVE SecretsDerived'
  BY <1>2, <1>4, <1>5, <1>9 DEF CommitFails, serverData, TypeInv, TypeOK
<1>10. ASSUME NEW c \in Conn, CommitPublishes(c) PROVE SecretsDerived'
  <2>1. uds[c] \in Secret /\ Derived(uds[c])
    BY <1>10, SecretNotNil DEF CommitPublishes, TypeInv, HoldsSecret
  <2>2. UNCHANGED <<entropy, uds, req>> /\ UDS' = uds[c]
    BY <1>10 DEF CommitPublishes
  <2>3. Derived(UDS)'
    BY <2>1, <2>2 DEF Derived, SentByLocal
  <2> QED BY <1>2, <1>4, <2>2, <2>3
<1>11. ASSUME NEW c \in Conn, Handler(c) \/ Peer(c) \/ CloseIdleConn(c) \/ DropConn(c)
       PROVE  \/ UNCHANGED <<entropy, uds, UDS>>
              \/ AddDataStores(c) \/ AddDataCopied(c) \/ CommitDerives(c)
              \/ CommitDerived(c) \/ CommitFails(c) \/ CommitPublishes(c)
  BY <1>11 DEF Handler, Peer, CloseIdleConn, DropConn, Connect, PeerGone, ServeHTTP,
     AddDataRejects, CommitSends, CommitPanics, Respond, SecureBootReturns, serverData
<1>12. Run \/ Await \/ ServerDies \/ UNCHANGED vars => UNCHANGED <<entropy, uds, UDS>>
  BY DEF Run, Listen, ServeReturns, CloseCommit, RunReturns, Await, AwaitCommit,
     ShutdownDrained, ShutdownTimeout, ServerDies, vars, connVars, serverData
<1> QED
  BY <1>6, <1>7, <1>8, <1>9, <1>10, <1>11, <1>12 DEF Next

\* However requests are interleaved, and whatever fails, s.UDS was derived by an
\* authorised commit from entropy that authorised add-data requests sent
THEOREM UDSProvenance == Spec => []Provenance
<1>1. Init => TypeInv
  BY InitType
<1>2. TypeInv /\ [Next]_vars => TypeInv'
  BY StepType
<1>3. Init => SecretsDerived
  BY DEF Init, SecretsDerived, SentByLocal
<1>4. TypeInv /\ SecretsDerived /\ [Next]_vars => SecretsDerived'
  BY StepDerived
<1>5. SecretsDerived => Provenance
  BY ApiAssumption DEF SecretsDerived, Provenance, Derived
<1> QED BY <1>1, <1>2, <1>3, <1>4, <1>5, PTL DEF Spec
-----------------------------------------------------------------------------
(* One commit, one secret *)

\* Server.UDS is the last published secret, so it is the only one if there is one
LEMMA StepWinner ==
  TypeInv /\ SecretsDerived /\ Winner /\ [Next]_vars => Winner'
<1> SUFFICES ASSUME TypeInv, SecretsDerived, Winner, [Next]_vars PROVE Winner'
  OBVIOUS
<1> USE DEF Winner, Published
<1>1. CASE UNCHANGED <<pc, uds, UDS>>
  BY <1>1
<1>2. ASSUME NEW c \in Conn, CommitPublishes(c) PROVE Winner'
  <2>1. uds[c] \in Secret /\ uds[c] # NoUDS /\ uds[c].loc = c
    BY <1>2, SecretNotNil DEF CommitPublishes, TypeInv, HoldsSecret, SecretsDerived
  <2>2. UNCHANGED uds /\ UDS' = uds[c] /\ pc' = [pc EXCEPT ![c] = "send"]
    BY <1>2 DEF CommitPublishes
  <2> QED BY <2>1, <2>2 DEF TypeInv, TypeOK
<1>3. ASSUME NEW c \in Conn, CommitSends(c) \/ CommitPanics(c) \/ Respond(c)
      PROVE  Winner'
  <2>1. /\ pc[c] \in {"send", "reply"} /\ pc'[c] \in {"reply", "done"}
        /\ pc' = [pc EXCEPT ![c] = pc'[c]]
        /\ UNCHANGED <<uds, UDS>>
    BY <1>3 DEF CommitSends, CommitPanics, Respond, Answer, HangUp, serverData,
       TypeInv, TypeOK
  <2>2. Published' = Published
    BY <2>1 DEF TypeInv, TypeOK
  <2> QED BY <2>1, <2>2 DEF TypeInv, TypeOK
<1>4. ASSUME NEW c \in Conn, CommitDerives(c) \/ CommitDerived(c) \/ CommitFails(c)
      PROVE  Winner'
  <2>1. /\ pc[c] \in {"derive", "derive2", "publish"}
        /\ pc' = [pc EXCEPT ![c] = pc'[c]]
        /\ pc'[c] \in {"derive2", "publish", "reply"}
        /\ pc'[c] = "reply" => uds'[c] = NoUDS
        /\ \A d \in Conn \ {c} : uds'[d] = uds[d]
        /\ UNCHANGED UDS
    BY <1>4 DEF CommitDerives, CommitDerived, CommitFails, Answer, serverData,
       TypeInv, TypeOK
  <2>2. Published' = Published
    BY <2>1 DEF TypeInv, TypeOK
  <2>3. UDS # NoUDS => UDS.loc # c
    BY <2>1
  <2> QED BY <2>1, <2>2, <2>3 DEF TypeInv, TypeOK
<1>5. ASSUME NEW c \in Conn, Handler(c) \/ Peer(c) \/ CloseIdleConn(c) \/ DropConn(c),
             ~CommitPublishes(c), ~CommitSends(c), ~CommitPanics(c), ~Respond(c),
             ~CommitDerives(c), ~CommitDerived(c), ~CommitFails(c)
      PROVE  Winner'
  <2>1. UNCHANGED <<uds, UDS>>
    BY <1>5 DEF Handler, Peer, CloseIdleConn, DropConn, Connect, PeerGone, ServeHTTP,
       AddDataRejects, AddDataStores, AddDataCopied, SecureBootReturns, serverData
  <2>2. UNCHANGED pc \/ /\ pc[c] \in {"none", "conn", "body", "copy", "sb"}
                        /\ pc'[c] \in {"conn", "body", "copy", "sb", "derive", "reply", "done"}
                        /\ \A d \in Conn \ {c} : pc'[d] = pc[d]
    <3>1. ASSUME NEW r \in Request PROVE Entry(r.endpoint) \in {"body", "sb", "derive"}
      BY ApiAssumption DEF RequestType, Endpoint, Entry
    <3> QED
      BY <1>5, <3>1 DEF Handler, Peer, CloseIdleConn, DropConn, Connect, PeerGone,
         ServeHTTP, AddDataRejects, AddDataStores, AddDataCopied, SecureBootReturns,
         Answer, HangUp, TypeInv, TypeOK
  <2>3. Published' = Published
    BY <2>1, <2>2
  <2> QED BY <2>1, <2>2, <2>3
<1>6. Run \/ Await \/ ServerDies \/ UNCHANGED vars => UNCHANGED <<pc, uds, UDS>>
  BY DEF Run, Listen, ServeReturns, CloseCommit, RunReturns, Await, AwaitCommit,
     ShutdownDrained, ShutdownTimeout, ServerDies, vars, connVars, serverData
<1> QED BY <1>1, <1>2, <1>3, <1>4, <1>5, <1>6 DEF Next

\* When a single handleCommit got as far as storing its secret, that secret is
\* the one the server keeps, whatever other commits failed before or after it
THEOREM SoleCommit == Spec => []SoleCommitWins
<1>1. Init => TypeInv /\ SecretsDerived
  BY InitType DEF Init, SecretsDerived, SentByLocal
<1>2. TypeInv /\ SecretsDerived /\ [Next]_vars => (TypeInv /\ SecretsDerived)'
  BY StepType, StepDerived
<1>3. Init => Winner
  BY DEF Init, Winner, Published
<1>4. TypeInv /\ SecretsDerived /\ Winner /\ [Next]_vars => Winner'
  BY StepWinner
<1>5. Winner => SoleCommitWins
  BY DEF Winner, SoleCommitWins, Published
<1> QED BY <1>1, <1>2, <1>3, <1>4, <1>5, PTL DEF Spec
=============================================================================
