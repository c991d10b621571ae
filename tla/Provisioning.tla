---------------------------- MODULE Provisioning ----------------------------
(***************************************************************************)
(* "stprov local run" against "stprov remote run": packages                *)
(* subcmd/local/run and internal/api (client.go) composed with RemoteRun.  *)
(*                                                                         *)
(* Every local run sends add-data, then add-secure-boot if it was given    *)
(* keys, then commit, each after the 200 of the one before, and prints the *)
(* public key of the commit's response.  Its requests have no timeout.     *)
(* The network may lose a connection at any time, and with it a response;  *)
(* net/http's Transport then sends a GET once more when the connection had *)
(* served a request before, as the one of the commit has.                  *)
(***************************************************************************)
EXTENDS RemoteRun

CONSTANTS
  Local,     \* the executions of stprov local, with the same one-time password
  EntropyOf, \* the entropy each of them draws
  AddressOf, \* the address each of them has
  KeyFiles   \* the Secure Boot files that its options may name

Required == {"PK", "KEK", "db"}

Use == {"add-data", "add-secure-boot", "commit", "retry"}

\* What is sent on a connection
RequestOn(c) ==
  LET endpoint == IF c[2] = "retry" THEN "commit" ELSE c[2]
  IN  [endpoint |-> endpoint, method |-> MethodOf(endpoint),
       from |-> AddressOf[c[1]], password |-> BasicAuthPassword, json |-> TRUE,
       len |-> EntropyBytes, entropy |-> EntropyOf[c[1]], timestamp |-> 1]

ASSUME LocalAssumption ==
  /\ Conn = Local \X Use
  /\ Request = {RequestOn(c) : c \in Conn}
  /\ KeyFiles \subseteq SUBSET (Required \cup {"dbx"})

VARIABLES
  lpc,     \* per local run: "options", the request it is at, "ok" or "failed"
  printed, \* per local run: the publickey= it printed
  named,   \* per local run: the Secure Boot files in its options
  read     \* per local run: those of them that readOptionalFile returned

options   == <<named, read>>
localVars == <<lpc, printed, options>>
sysVars   == <<allVars, localVars>>

ProvInit ==
  /\ RemoteInit
  /\ lpc = [l \in Local |-> "options"]
  /\ printed = [l \in Local |-> NoKey]
  /\ named \in [Local -> KeyFiles] /\ read = [l \in Local |-> {}]

OnlyServer == Running /\ UNCHANGED <<mainVars, localVars>>
-----------------------------------------------------------------------------
(* stprov local *)

\* haveSBOpts
HaveKeys(l) == read[l] # {}

\* A file that does not exist counts as one that was not named: readOptionalFile
\* returns nil.  With some of the files, PK, KEK and db have to be there.
ReadOptions(l) ==
  /\ lpc[l] = "options"
  /\ \E there \in SUBSET named[l] :
       /\ read' = [read EXCEPT ![l] = there]
       /\ lpc' = [lpc EXCEPT ![l] =
                    IF there # {} /\ ~(Required \subseteq there) THEN "failed" ELSE "add-data"]
  /\ UNCHANGED <<allVars, printed, named>>

Dial(l) ==
  /\ lpc[l] \in Use /\ Connect(<<l, lpc[l]>>)
  /\ OnlyServer

\* The request is on the wire and the server reads it
Send(l) ==
  /\ lpc[l] \in Use /\ ServeHTTP(<<l, lpc[l]>>, RequestOn(<<l, lpc[l]>>))
  /\ OnlyServer

\* Faulty variant: the status of the response is not looked at
AnsweredAnyhow(l) ==
  /\ lpc[l] \in Use /\ resp[<<l, lpc[l]>>] \notin {NoResponse, EOF}
  /\ sock[<<l, lpc[l]>>] = "open"
  /\ UNCHANGED allVars

Answered(l) ==
  /\ lpc[l] \in Use /\ resp[<<l, lpc[l]>>] = 200 /\ sock[<<l, lpc[l]>>] = "open"
  /\ UNCHANGED allVars

\* Faulty variant: the next request does not wait for the response
AddedDataAtOnce(l) ==
  /\ lpc[l] = "add-data" /\ req[<<l, "add-data">>] # NoRequest
  /\ lpc' = [lpc EXCEPT ![l] = IF HaveKeys(l) THEN "add-secure-boot" ELSE "commit"]
  /\ UNCHANGED <<allVars, printed, options>>

\* 200 to add-data; haveSBOpts decides what comes next
AddedData(l) ==
  /\ lpc[l] = "add-data" /\ Answered(l)
  /\ lpc' = [lpc EXCEPT ![l] = IF HaveKeys(l) THEN "add-secure-boot" ELSE "commit"]
  /\ UNCHANGED <<printed, options>>

\* Faulty variant: an error does not keep it from committing
AddedSecureBootKeysOrNot(l) ==
  /\ lpc[l] = "add-secure-boot"
  /\ \/ Answered(l)
     \/ resp[<<l, lpc[l]>>] \in {400, 403} /\ UNCHANGED allVars
  /\ lpc' = [lpc EXCEPT ![l] = "commit"]
  /\ UNCHANGED <<printed, options>>

AddedSecureBootKeys(l) ==
  /\ lpc[l] = "add-secure-boot" /\ Answered(l)
  /\ lpc' = [lpc EXCEPT ![l] = "commit"]
  /\ UNCHANGED <<printed, options>>

Committed(l) ==
  /\ lpc[l] \in {"commit", "retry"} /\ Answered(l)
  /\ printed' = [printed EXCEPT ![l] = SSH(uds[<<l, lpc[l]>>])]
  /\ lpc' = [lpc EXCEPT ![l] = "ok"]
  /\ UNCHANGED options

\* Faulty variant: a connection that was closed before a response is not noticed
NoAnswerUnlessRefused(l) ==
  /\ lpc[l] \in Use
  /\ pc[<<l, lpc[l]>>] = "none" /\ (run # "serving" \/ InShutdown)

\* The connection ended, or was refused, and no response was read
NoAnswer(l) ==
  /\ lpc[l] \in Use
  /\ LET c == <<l, lpc[l]>> IN
       \/ pc[c] = "none" /\ (run # "serving" \/ InShutdown)
       \/ pc[c] # "none" /\ sock[c] # "open"
       \/ resp[c] = EOF
       \/ ~Running

\* An error status
Refused(l) == lpc[l] \in Use /\ resp[<<l, lpc[l]>>] \in {400, 403, 405, 500}

\* Transport.roundTrip: a GET is replayed on a new connection
Retries(l) ==
  /\ lpc[l] = "commit" /\ NoAnswer(l)
  /\ lpc' = [lpc EXCEPT ![l] = "retry"]
  /\ UNCHANGED <<allVars, printed, options>>

\* An option, an error status, no answer, or the user's ctrl+c: Main returns an error
LocalFails(l) ==
  /\ lpc[l] \in Use \cup {"options"}
  /\ lpc' = [lpc EXCEPT ![l] = "failed"]
  /\ UNCHANGED <<allVars, printed, options>>

\* A connection breaks, and nothing else about it is observed
ConnectionLost(l) ==
  /\ \E use \in Use : PeerGone(<<l, use>>)
  /\ OnlyServer

LocalStep(l) ==
  \/ ReadOptions(l) \/ Dial(l) \/ Send(l) \/ AddedData(l) \/ AddedSecureBootKeys(l)
  \/ Committed(l) \/ Retries(l) \/ LocalFails(l) \/ ConnectionLost(l)
\* What a local run does on its own account
Proceeds(l) ==
  \/ ReadOptions(l) \/ Dial(l) \/ Send(l) \/ AddedData(l) \/ AddedSecureBootKeys(l) \/ Committed(l)
  \/ NoAnswer(l) /\ LocalFails(l)
  \/ Refused(l) /\ LocalFails(l)
-----------------------------------------------------------------------------
(* The whole *)

\* The whole body was sent with the request: reading it depends on nobody
HandlerSteps(c) ==
  \/ Handler(c) \/ DropConn(c) \/ AddDataStores(c)
  \/ \E code \in {200, 400, 403} : SecureBootReturns(c, code)

ServerStep ==
  /\ OnlyServer
  /\ Run \/ Await \/ ServerDies \/ \E c \in Conn : HandlerSteps(c) \/ CloseIdleConn(c)

OperatorStep == (Main \/ Aborts) /\ UNCHANGED localVars

ProvNext == ServerStep \/ OperatorStep \/ \E l \in Local : LocalStep(l)

ProvSpec == ProvInit /\ [][ProvNext]_sysVars

ProvTypeOK ==
  /\ lpc \in [Local -> Use \cup {"options", "ok", "failed"}]
  /\ read \in [Local -> SUBSET (Required \cup {"dbx"})]
  /\ printed \in [Local -> Secret \cup {NoKey}]

\* The goroutines of the server run, a local run goes on as long as something is
\* left to do, and it gives up on a connection that ended.  Nothing is assumed of
\* the operators, the network or the power.
ProvFairness ==
  /\ WF_sysVars(OnlyServer /\ Run) /\ WF_sysVars(OnlyServer /\ Await)
  /\ WF_sysVars((ListenReturns \/ ListenFails \/ WriteHostKey) /\ UNCHANGED localVars)
  /\ \A c \in Conn : WF_sysVars(OnlyServer /\ HandlerSteps(c))
  /\ \A l \in Local : WF_sysVars(Proceeds(l))

ProvFairSpec == ProvSpec /\ ProvFairness
-----------------------------------------------------------------------------
(* Properties *)

\* A local run that prints a key has waited for its add-data, so both halves of
\* the entropy in that key came from some local run: never from the zero buffer,
\* whatever the other local runs overwrite meanwhile.
MixesLocalEntropy ==
  \A l \in Local : printed[l] # NoKey => Zero \notin {printed[l].lo, printed[l].hi}

\* What one program printed and the other persisted can only differ when another
\* commit got as far as its response: a lost answer, a failed commit, a late
\* add-data or a dying listener alone never makes them differ.
MismatchNeedsTwoCommits ==
  \A l \in Local : printed[l] # NoKey /\ main = "ok" /\ hostKey # printed[l] =>
    \E c \in Published : SSH(uds[c]) = hostKey /\ SSH(uds[c]) # printed[l]

\* A local run that has the platform for itself sees its entropy on the other
\* terminal, and the platform persists a key that mixes exactly this entropy, even
\* when the commit was sent twice.
Alone(l) == \A m \in Local \ {l} : \A use \in Use : req[<<m, use>>] = NoRequest
SoloEntropy ==
  \A l \in Local : Alone(l) /\ printed[l] # NoKey /\ main \in {"confirm", "write", "ok"} =>
    /\ shown = [lo |-> EntropyOf[l], hi |-> EntropyOf[l]]
    /\ UDS.lo = EntropyOf[l] /\ UDS.hi = EntropyOf[l]

\* "Secure Boot keys" that were found reach the platform before the commit, or the
\* local run fails: what it reports as provisioned was answered 200.  Files that were
\* named and do not exist are the exception, all of them at once only.
NamedKeysAreProvisioned ==
  \A l \in Local :
    /\ named[l] # {}
    /\ \E use \in {"commit", "retry"} : req[<<l, use>>] # NoRequest
    => read[l] = {} \/ (Required \subseteq read[l] /\ resp[<<l, "add-secure-boot">>] = 200)

\* A local run ends: no request stays unanswered on a platform that has power,
\* and stopping the server wakes up whoever waits for it.
LocalEnds == \A l \in Local : <>(lpc[l] \in {"ok", "failed"})

\* A printed key makes the platform leave listen() for the operator's prompt
PrintedEndsListen == \A l \in Local : printed[l] # NoKey ~> main # "listen"

\* "Upon success", publickey= is "the public key of the platform's SSH hostkey":
\* what was printed and what was persisted agree when both programs succeed.
PrintedIsPersisted ==
  \A l \in Local : printed[l] # NoKey /\ main = "ok" => hostKey = printed[l]

\* The sequence diagram: step 2.5, "Derive and write SSH hostkey", comes before
\* step 3.4, "Receive platform information".
InformedAfterPersisted == \A l \in Local : printed[l] # NoKey => main = "ok"
=============================================================================
