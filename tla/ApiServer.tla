------------------------------ MODULE ApiServer ------------------------------
(***************************************************************************)
(* The HTTPS server of "stprov remote run": package internal/api.          *)
(*                                                                         *)
(* Server.Run starts one goroutine, await, that blocks on the channel      *)
(* commit and then calls http.Server.Shutdown; Run itself blocks in        *)
(* ListenAndServeTLS, and on the way out closes commit and waits for await *)
(* (two deferred calls, in that order).  net/http runs every request in a  *)
(* goroutine of its own, and the handlers share Entropy, Timestamp and UDS *)
(* of the Server with no lock.                                             *)
(*                                                                         *)
(* The environment is open: any peer may connect, disconnect, send any     *)
(* request of Request, or stall in the middle of a body.  A connection     *)
(* carries one request; a kept-alive connection is a connection that was   *)
(* opened early and that has not been used yet.                            *)
(***************************************************************************)
EXTENDS Naturals, Integers, FiniteSets

CONSTANTS
  Conn,              \* the connections that may be opened
  Request,           \* the requests a peer may send on one
  Entropy,           \* the values of a 256-bit buffer sent by stprov local
  Zero,              \* the initial, all-zero contents of Server.Entropy
  LocalCIDR,         \* the addresses inside ServerConfig.LocalCIDR
  Unparsable,        \* the remote addresses net.ParseIP rejects (zoned IPv6)
  BasicAuthPassword, \* derived from the one-time password
  EntropyBytes,      \* secrets.EntropyBytes
  NoRequest, NoUDS, NoResponse, EOF

Endpoint == {"add-data", "add-secure-boot", "commit"}

\* What a request says: where it comes from, its Basic credentials, and the
\* part of its body that the add-data handler looks at.
RequestType ==
  [endpoint : Endpoint, method : STRING, from : STRING, password : STRING,
   json : BOOLEAN, len : Nat, entropy : Entropy, timestamp : Int]

ASSUME ApiAssumption ==
  /\ Request \subseteq RequestType
  /\ Zero \notin Entropy
  /\ NoRequest \notin Request
  /\ NoUDS \notin [loc : Conn, lo : Entropy \cup {Zero}, hi : Entropy \cup {Zero}]
  /\ NoResponse \notin Nat /\ EOF \notin Nat /\ NoResponse # EOF

VARIABLES
  run,        \* where the goroutine of Server.Run is
  runErr,     \* ListenAndServeTLS returned something else than ErrServerClosed
  await,      \* where the goroutine of await is
  timedOut,   \* Shutdown gave up on its Timeout
  commit,     \* the channel Server.commit: [buf, closed]
  pc,         \* per connection: where its goroutine is
  sock,       \* per connection: the state of the TCP connection
  req,        \* per connection: the request that was read from it
  uds,        \* per connection: the local variable uds of handleCommit
  wrote,      \* per connection: the status its handler wrote, not yet sent
  resp,       \* per connection: what the peer got back
  entropy,    \* Server.Entropy, in two halves: copy() is not atomic
  timestamp,  \* Server.Timestamp
  UDS         \* Server.UDS

runVars    == <<run, runErr, await, timedOut, commit>>
connVars   == <<pc, sock, req, uds, wrote, resp>>
serverData == <<entropy, timestamp, UDS>>
vars       == <<runVars, connVars, serverData>>

-----------------------------------------------------------------------------
(* Server.Run and await *)

Buffer == Entropy \cup {Zero}
Secret == [loc : Conn, lo : Buffer, hi : Buffer]

Init ==
  /\ run = "start" /\ runErr = FALSE
  /\ await = "select" /\ timedOut = FALSE
  /\ commit = [buf |-> 0, closed |-> FALSE]
  /\ pc   = [c \in Conn |-> "none"]
  /\ sock = [c \in Conn |-> "none"]
  /\ req  = [c \in Conn |-> NoRequest]
  /\ uds  = [c \in Conn |-> NoUDS]
  /\ wrote = [c \in Conn |-> NoResponse]
  /\ resp = [c \in Conn |-> NoResponse]
  /\ entropy = [lo |-> Zero, hi |-> Zero]
  /\ timestamp = 0
  /\ UDS = NoUDS

InShutdown == await # "select"

\* make(chan struct{}, 1)
CommitCapacity == 1

Listen ==
  /\ run = "start" /\ run' = "serving"
  /\ UNCHANGED <<runErr, await, timedOut, commit, connVars, serverData>>

\* net.Listen fails, or Accept does for good: "server died".  Once Shutdown
\* has begun, an Accept error is reported as ErrServerClosed instead.
ServerDies ==
  /\ run \in {"start", "serving"} /\ ~InShutdown
  /\ run' = "served" /\ runErr' = TRUE
  /\ UNCHANGED <<await, timedOut, commit, connVars, serverData>>

\* ListenAndServeTLS returns as soon as Shutdown has closed the listener; it
\* does not wait for the requests in flight.
ServeReturns ==
  /\ run = "serving" /\ InShutdown
  /\ run' = "served"
  /\ UNCHANGED <<runErr, await, timedOut, commit, connVars, serverData>>

\* Faulty variant: the two deferred calls in the other order
CloseCommitAfterWait ==
  /\ run = "served" /\ await = "done" /\ run' = "closed"
  /\ commit' = [commit EXCEPT !.closed = TRUE]
  /\ UNCHANGED <<runErr, await, timedOut, connVars, serverData>>

\* Faulty variant: the channel is never closed
CloseCommitMissing ==
  /\ run = "served" /\ run' = "closed"
  /\ UNCHANGED <<runErr, await, timedOut, commit, connVars, serverData>>

\* defer close(srv.commit), deferred last and hence run first
CloseCommit ==
  /\ run = "served" /\ run' = "closed"
  /\ commit' = [commit EXCEPT !.closed = TRUE]
  /\ UNCHANGED <<runErr, await, timedOut, connVars, serverData>>

\* Faulty variant: no wait group
RunReturnsAtOnce ==
  /\ run = "closed" /\ run' = "done"
  /\ UNCHANGED <<runErr, await, timedOut, commit, connVars, serverData>>

\* defer wg.Wait()
RunReturns ==
  /\ run = "closed" /\ await = "done"
  /\ run' = "done"
  /\ UNCHANGED <<runErr, await, timedOut, commit, connVars, serverData>>

\* case <-commit: a token, or the zero value of a closed channel.  The other
\* case, <-ctx.Done(), cannot fire: listen() cancels ctx after Run returned.
AwaitCommit ==
  /\ await = "select"
  /\ commit.buf > 0 \/ commit.closed
  /\ await' = "shutdown"
  /\ commit' = [commit EXCEPT !.buf = IF @ > 0 THEN @ - 1 ELSE 0]
  /\ UNCHANGED <<run, runErr, timedOut, connVars, serverData>>

\* A goroutine that is inside ServeHTTP
Active(c) == pc[c] \notin {"none", "conn", "done"}

\* Shutdown closes a connection on which it sees no request.  The goroutine of
\* that connection may have read one in the meantime: see ServeHTTP.
CloseIdleConn(c) ==
  /\ await = "shutdown" /\ pc[c] = "conn" /\ sock[c] # "closed"
  /\ sock' = [sock EXCEPT ![c] = "closed"]
  /\ UNCHANGED <<runVars, pc, req, uds, wrote, resp, serverData>>

\* Every tracked connection is idle and closed: Shutdown returns nil
ShutdownDrained ==
  /\ await = "shutdown"
  /\ \A c \in Conn : (Active(c) \/ pc[c] = "conn") => sock[c] = "closed"
  /\ await' = "done"
  /\ UNCHANGED <<run, runErr, timedOut, commit, connVars, serverData>>

\* ServerConfig.Timeout passes; the error that Shutdown returns is dropped
ShutdownTimeout ==
  /\ await = "shutdown"
  /\ await' = "done" /\ timedOut' = TRUE
  /\ UNCHANGED <<run, runErr, commit, connVars, serverData>>

-----------------------------------------------------------------------------
(* Connections, and the checks every handler starts with *)

Connect(c) ==
  /\ run = "serving" /\ ~InShutdown /\ pc[c] = "none"
  /\ pc' = [pc EXCEPT ![c] = "conn"]
  /\ sock' = [sock EXCEPT ![c] = "open"]
  /\ UNCHANGED <<runVars, req, uds, wrote, resp, serverData>>

\* The peer goes away, or the network does.  The handler is not interrupted.
PeerGone(c) ==
  /\ pc[c] # "none" /\ sock[c] = "open"
  /\ sock' = [sock EXCEPT ![c] = "gone"]
  /\ UNCHANGED <<runVars, pc, req, uds, wrote, resp, serverData>>

\* The handler writes its response, which is shorter than net/http's buffer, and
\* returns
Answer(c, code) ==
  /\ pc' = [pc EXCEPT ![c] = "reply"]
  /\ wrote' = [wrote EXCEPT ![c] = code]

\* net/http flushes the buffer, and only then is the connection idle for Shutdown
Respond(c) ==
  /\ pc[c] = "reply"
  /\ pc' = [pc EXCEPT ![c] = "done"]
  /\ wrote' = [wrote EXCEPT ![c] = NoResponse]
  /\ resp' = [resp EXCEPT ![c] = IF sock[c] = "open" THEN wrote[c] ELSE EOF]
  /\ UNCHANGED <<runVars, sock, req, uds, serverData>>

\* The connection ends without a response
HangUp(c) ==
  /\ pc' = [pc EXCEPT ![c] = "done"]
  /\ resp' = [resp EXCEPT ![c] = EOF]
  /\ UNCHANGED wrote

\* No request was read from a connection that is gone or closed
DropConn(c) ==
  /\ pc[c] = "conn" /\ sock[c] # "open"
  /\ HangUp(c)
  /\ UNCHANGED <<runVars, sock, req, uds, serverData>>

MethodOf(endpoint) == IF endpoint = "commit" THEN "GET" ELSE "POST"

VerifyMethod(r) ==
  IF r.method = MethodOf(r.endpoint) THEN 200
  ELSE IF r.method \in {"GET", "POST"} THEN 405 ELSE 400

VerifyNetwork(r) ==
  IF r.from \in Unparsable THEN 500 ELSE IF r.from \in LocalCIDR THEN 200 ELSE 403

AuthenticateUser(r) == IF r.password = BasicAuthPassword THEN 200 ELSE 403

\* Faulty variant: the result of authenticateUser is ignored
VerdictOfNetwork(r) == IF VerifyMethod(r) # 200 THEN VerifyMethod(r) ELSE VerifyNetwork(r)

\* The first check that fails decides
Verdict(r) ==
  IF VerifyMethod(r) # 200 THEN VerifyMethod(r)
  ELSE IF VerifyNetwork(r) # 200 THEN VerifyNetwork(r)
  ELSE AuthenticateUser(r)

Entry(endpoint) ==
  CASE endpoint = "add-data" -> "body"
    [] endpoint = "add-secure-boot" -> "sb"
    [] endpoint = "commit" -> "derive"

\* A request is read.  A connection that Shutdown closed can still get here,
\* when the request was read before the close; so can one whose peer is gone.
ServeHTTP(c, r) ==
  /\ pc[c] = "conn"
  /\ req' = [req EXCEPT ![c] = r]
  /\ IF Verdict(r) = 200
     THEN pc' = [pc EXCEPT ![c] = Entry(r.endpoint)] /\ UNCHANGED wrote
     ELSE Answer(c, Verdict(r))
  /\ UNCHANGED <<runVars, sock, uds, resp, serverData>>

-----------------------------------------------------------------------------
(* The handlers *)

\* Faulty variant: negative timestamps are let through
ValidEntropy(r) == r.json /\ r.len = EntropyBytes

ValidData(r) == r.json /\ r.len = EntropyBytes /\ r.timestamp >= 0

\* handleAddData: the body is read (which takes as long as the peer likes, and
\* fails if it goes away) and checked
AddDataRejects(c) ==
  /\ pc[c] = "body"
  /\ ~ValidData(req[c]) \/ sock[c] # "open"
  /\ Answer(c, 400)
  /\ UNCHANGED <<runVars, sock, req, uds, resp, serverData>>

\* Faulty variant: the response is sent before the entropy is copied
AddDataAnswersEarly(c) ==
  /\ pc[c] = "body" /\ ValidData(req[c])
  /\ pc' = [pc EXCEPT ![c] = "copy"]
  /\ resp' = [resp EXCEPT ![c] = 200]
  /\ timestamp' = req[c].timestamp
  /\ entropy' = [entropy EXCEPT !.lo = req[c].entropy]
  /\ UNCHANGED <<runVars, sock, req, uds, wrote, UDS>>

\* ... then s.Timestamp is set and the copy into s.Entropy begins
AddDataStores(c) ==
  /\ pc[c] = "body" /\ ValidData(req[c])
  /\ pc' = [pc EXCEPT ![c] = "copy"]
  /\ timestamp' = req[c].timestamp
  /\ entropy' = [entropy EXCEPT !.lo = req[c].entropy]
  /\ UNCHANGED <<runVars, sock, req, uds, wrote, resp, UDS>>

AddDataCopied(c) ==
  /\ pc[c] = "copy"
  /\ entropy' = [entropy EXCEPT !.hi = req[c].entropy]
  /\ Answer(c, 200)
  /\ UNCHANGED <<runVars, sock, req, uds, resp, timestamp, UDS>>

\* handleCommit: NewUniqueDeviceSecret mixes s.Entropy, read in two halves,
\* with fresh local entropy, here the identity of the connection
CommitDerives(c) ==
  /\ pc[c] = "derive"
  /\ pc' = [pc EXCEPT ![c] = "derive2"]
  /\ uds' = [uds EXCEPT ![c] = [loc |-> c, lo |-> entropy.lo, hi |-> Zero]]
  /\ UNCHANGED <<runVars, sock, req, wrote, resp, serverData>>

\* Faulty variant: NewUniqueDeviceSecret is assigned to s.UDS directly
CommitDerivesInPlace(c) ==
  /\ pc[c] = "derive2"
  /\ pc' = [pc EXCEPT ![c] = "publish"]
  /\ uds' = [uds EXCEPT ![c].hi = entropy.hi]
  /\ UDS' = uds'[c]
  /\ UNCHANGED <<runVars, sock, req, wrote, resp, entropy, timestamp>>

CommitDerived(c) ==
  /\ pc[c] = "derive2"
  /\ pc' = [pc EXCEPT ![c] = "publish"]
  /\ uds' = [uds EXCEPT ![c].hi = entropy.hi]
  /\ UNCHANGED <<runVars, sock, req, wrote, resp, serverData>>

\* Faulty variant: the error path falls through to the send
CommitFailsYetSends(c) ==
  /\ pc[c] = "publish"
  /\ uds' = [uds EXCEPT ![c] = NoUDS]
  /\ pc' = [pc EXCEPT ![c] = "send"]
  /\ UNCHANGED <<runVars, sock, req, wrote, resp, serverData>>

\* Deriving, encoding or buffering the response fails
CommitFails(c) ==
  /\ pc[c] = "publish"
  /\ uds' = [uds EXCEPT ![c] = NoUDS]
  /\ Answer(c, 500)
  /\ UNCHANGED <<runVars, sock, req, resp, serverData>>

\* s.UDS = uds
CommitPublishes(c) ==
  /\ pc[c] = "publish"
  /\ pc' = [pc EXCEPT ![c] = "send"]
  /\ UDS' = uds[c]
  /\ UNCHANGED <<runVars, sock, req, uds, wrote, resp, entropy, timestamp>>

\* Faulty variant: the answer is written without signalling
CommitForgetsToSend(c) ==
  /\ pc[c] = "send" /\ ~commit.closed
  /\ Answer(c, 200)
  /\ UNCHANGED <<runVars, sock, req, uds, resp, serverData>>

\* s.commit <- struct{}{} blocks while the buffer is full
CommitSends(c) ==
  /\ pc[c] = "send" /\ ~commit.closed /\ commit.buf < CommitCapacity
  /\ commit' = [commit EXCEPT !.buf = @ + 1]
  /\ Answer(c, 200)
  /\ UNCHANGED <<run, runErr, await, timedOut, sock, req, uds, resp, serverData>>

\* ... and panics, also when already blocked, once the channel is closed;
\* net/http recovers and drops the connection with the buffered response
CommitPanics(c) ==
  /\ pc[c] = "send" /\ commit.closed
  /\ HangUp(c)
  /\ UNCHANGED <<runVars, sock, req, uds, serverData>>

\* handleAddSecureBoot: see SecureBoot for what happens inside
SecureBootReturns(c, code) ==
  /\ pc[c] = "sb"
  /\ Answer(c, code)
  /\ UNCHANGED <<runVars, sock, req, uds, resp, serverData>>

-----------------------------------------------------------------------------

Run == Listen \/ ServeReturns \/ CloseCommit \/ RunReturns
Await == AwaitCommit \/ ShutdownDrained \/ ShutdownTimeout
\* The steps of a handler that do not wait for its peer; reading a body fails
\* without it once the connection is lost
Handler(c) ==
  \/ sock[c] # "open" /\ AddDataRejects(c)
  \/ AddDataCopied(c)
  \/ CommitDerives(c) \/ CommitDerived(c) \/ CommitFails(c)
  \/ CommitPublishes(c) \/ CommitSends(c) \/ CommitPanics(c)
  \/ Respond(c)
\* The steps that wait for bytes of the peer
Peer(c) ==
  \/ Connect(c) \/ PeerGone(c)
  \/ \E r \in Request : ServeHTTP(c, r)
  \/ AddDataRejects(c) \/ AddDataStores(c)
  \/ \E code \in {200, 400, 403} : SecureBootReturns(c, code)

Next ==
  \/ Run \/ Await \/ ServerDies
  \/ \E c \in Conn : Handler(c) \/ Peer(c) \/ CloseIdleConn(c) \/ DropConn(c)

\* The Go scheduler runs every goroutine that can run, and time passes.
\* Nothing is assumed of the peers, of the listener's failures or of the
\* confirmation of the operator.
Fairness ==
  /\ WF_vars(Run) /\ WF_vars(Await)
  /\ \A c \in Conn : WF_vars(Handler(c)) /\ WF_vars(DropConn(c))

Spec == Init /\ [][Next]_vars
FairSpec == Spec /\ Fairness

-----------------------------------------------------------------------------
(* Properties *)

TypeOK ==
  /\ run \in {"start", "serving", "served", "closed", "done"}
  /\ runErr \in BOOLEAN
  /\ await \in {"select", "shutdown", "done"}
  /\ timedOut \in BOOLEAN
  /\ commit \in [buf : 0..CommitCapacity, closed : BOOLEAN]
  /\ pc \in [Conn -> {"none", "conn", "body", "copy", "sb", "derive",
                      "derive2", "publish", "send", "reply", "done"}]
  /\ sock \in [Conn -> {"none", "open", "gone", "closed"}]
  /\ req \in [Conn -> Request \cup {NoRequest}]
  /\ uds \in [Conn -> Secret \cup {NoUDS}]
  /\ wrote \in [Conn -> {200, 400, 403, 405, 500, NoResponse}]
  /\ resp \in [Conn -> {200, 400, 403, 405, 500, EOF, NoResponse}]
  /\ entropy \in [lo : Buffer, hi : Buffer]
  /\ timestamp \in Nat
  /\ UDS \in Secret \cup {NoUDS}

\* handleCommit stores the secret before it signals, so a Run that returns no
\* error leaves a secret for listen() to return; writeHostKey dereferences it.
CleanReturnHasUDS == run = "done" /\ ~runErr => UDS # NoUDS

\* A peer that got 200 to its commit has made the server stop: its token is in
\* the channel or await has consumed one, however the commits interleave.
CommitOKStopsServer ==
  \A c \in Conn : req[c] # NoRequest /\ req[c].endpoint = "commit" /\ resp[c] = 200
                    => commit.buf > 0 \/ InShutdown

\* Run does not return while a handler runs whose peer could still get its
\* answer, unless Shutdown ran into its timeout: the committer hears back
\* before the process moves on to the operator's prompt.
DrainedBeforeReturn ==
  run = "done" /\ ~timedOut => \A c \in Conn : Active(c) => sock[c] = "closed"

Authorized(r) == r.method = MethodOf(r.endpoint) /\ r.from \in LocalCIDR
                   /\ r.from \notin Unparsable /\ r.password = BasicAuthPassword

\* A half of Server.Entropy, or of a secret, is untouched or was sent by some
\* authorised, valid add-data request
SentByLocal(half) ==
  half = Zero \/ \E c \in Conn :
    /\ req[c] # NoRequest /\ req[c].entropy = half
    /\ req[c].endpoint = "add-data" /\ Authorized(req[c])
    /\ req[c].len = EntropyBytes /\ req[c].json /\ req[c].timestamp >= 0

\* Whatever a request that fails a check, or stalls, is interleaved with, the
\* secret that gets committed was derived by an authorised commit, from
\* entropy that authorised peers contributed.
Provenance ==
  UDS # NoUDS =>
    /\ req[UDS.loc] # NoRequest /\ req[UDS.loc].endpoint = "commit"
    /\ Authorized(req[UDS.loc])
    /\ SentByLocal(UDS.lo) /\ SentByLocal(UDS.hi)

\* With a single commit on the server's record, the secret that Run leaves
\* behind is the one whose public key that commit's response carried.
Published == {c \in Conn : uds[c] # NoUDS /\ pc[c] \in {"send", "reply", "done"}}
SoleCommitWins ==
  \A c \in Conn : Published = {c} => UDS = uds[c]

\* An answered commit, or a listener that dies, makes Run return: close() wakes
\* await if nothing else did, the timeout ends Shutdown.
RunTerminates == run = "served" \/ InShutdown ~> run = "done"

\* No handleCommit stays blocked for ever on the channel: one that finds the
\* buffer full is released by await, or by the close of the channel.
CommitsFinish == \A c \in Conn : pc[c] = "derive" ~> pc[c] = "done"

\* ServerConfig.Deadline, "maximum time to serve an HTTP request": a request
\* that was accepted is over, one way or another, after some time.
DeadlineEndsRequest == \A c \in Conn : pc[c] = "body" ~> pc[c] = "done"
=============================================================================
