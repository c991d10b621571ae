------------------------------ MODULE RemoteRun ------------------------------
(***************************************************************************)
(* "stprov remote run": package subcmd/remote/run on top of the server.    *)
(*                                                                         *)
(* listen() blocks in Server.Run; when Run returns nil it shows the        *)
(* entropy that was received and asks the operator, reads Server.UDS and   *)
(* hands it to writeHostKey, which derives the host key a second time and  *)
(* writes it to EFI NVRAM.  Handlers that outlived Run (Shutdown's timeout *)
(* passed, or Shutdown never saw their request) go on until the process    *)
(* exits: none of these reads is synchronised with them.                   *)
(***************************************************************************)
EXTENDS ApiServer

CONSTANTS
  NoKey,  \* no host key
  OldKey  \* what EFI NVRAM held before: none, or the one of an earlier provisioning

ASSUME RemoteAssumption == NoKey \notin Secret /\ OldKey \notin Secret /\ NoKey # OldKey

VARIABLES
  main,    \* where the main goroutine is, or how the process ended
  shown,   \* the entropy logged as received
  chosen,  \* the secret that listen() returned
  hostKey  \* the EFI variable STHostKey

mainVars == <<main, shown, chosen, hostKey>>
allVars  == <<vars, mainVars>>

\* A host key stands for the secret it is derived from: Reader is deterministic
\* and the two derivations, for the response and for NVRAM, use one label.
SSH(s) == s

RemoteInit ==
  /\ Init
  /\ main = "listen"
  /\ shown = [lo |-> Zero, hi |-> Zero]
  /\ chosen = NoUDS
  /\ hostKey = OldKey

\* exit: os.Exit, log.Fatal or the power; every goroutine of it is gone
Running == main \notin {"ok", "failed"}

\* Faulty variant: the error of srv.Run is not looked at
ListenIgnoresError ==
  /\ main = "listen" /\ run = "done"
  /\ main' = "confirm" /\ shown' = entropy
  /\ UNCHANGED <<vars, chosen, hostKey>>

\* Faulty variant: the host key is written before the operator is asked
ListenWritesFirst ==
  /\ main = "listen" /\ run = "done" /\ ~runErr
  /\ main' = "confirm" /\ shown' = entropy /\ hostKey' = SSH(UDS)
  /\ UNCHANGED <<vars, chosen>>

\* srv.Run returned nil: the entropy is logged and the operator is asked
ListenReturns ==
  /\ main = "listen" /\ run = "done" /\ ~runErr
  /\ main' = "confirm" /\ shown' = entropy
  /\ UNCHANGED <<vars, chosen, hostKey>>

\* srv.Run returned an error: "listen: run server: ..."
ListenFails ==
  /\ main = "listen" /\ run = "done" /\ runErr
  /\ main' = "failed"
  /\ UNCHANGED <<vars, shown, chosen, hostKey>>

\* The operator presses Enter and listen returns srv.UDS
Confirm ==
  /\ main = "confirm"
  /\ main' = "write" /\ chosen' = UDS
  /\ UNCHANGED <<vars, shown, hostKey>>

\* writeHostKey: one EFI variable is replaced
WriteHostKey ==
  /\ main = "write"
  /\ main' = "ok" /\ hostKey' = SSH(chosen)
  /\ UNCHANGED <<vars, shown, chosen>>

\* The write fails, standard input ends, the operator aborts with ctrl+c, or the
\* platform loses power: at any time before the host key is written
Aborts ==
  /\ Running
  /\ main' = "failed"
  /\ UNCHANGED <<vars, shown, chosen, hostKey>>

Main == ListenReturns \/ ListenFails \/ Confirm \/ WriteHostKey

Server == Running /\ Next /\ UNCHANGED mainVars

RemoteNext == Server \/ Main \/ Aborts

RemoteSpec == RemoteInit /\ [][RemoteNext]_allVars

RemoteTypeOK ==
  /\ main \in {"listen", "confirm", "write", "ok", "failed"}
  /\ shown \in [lo : Buffer, hi : Buffer]
  /\ chosen \in Secret \cup {NoUDS}
  /\ hostKey \in Secret \cup {OldKey}

-----------------------------------------------------------------------------
(* Properties *)

\* A key is offered once its response is made and its secret published
Ceremony == INSTANCE KeyCeremony WITH
  Key <- Secret,
  Old <- {OldKey},
  offered <- {SSH(uds[c]) : c \in Published},
  chosen <- IF chosen = NoUDS THEN NoKey ELSE SSH(chosen),
  phase <- CASE main \in {"listen", "confirm"} -> "collect"
             [] main = "write" -> "confirmed"
             [] main \in {"ok", "failed"} -> "over"

\* RemoteRun implements KeyCeremony: the key that ends up in NVRAM is one that a
\* handler offered to its peer, it is written at most once, and only after the
\* operator confirmed; every other end of the program leaves the old key alone.
ImplementsCeremony == Ceremony!Spec

\* writeHostKey never dereferences a nil secret: Run left one, and nobody who is
\* still at work takes it away while the operator thinks.
WriteHasSecret == main = "write" => chosen # NoUDS
=============================================================================
