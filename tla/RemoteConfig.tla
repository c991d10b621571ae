---------------------------- MODULE RemoteConfig ----------------------------
(***************************************************************************)
(* Executions of "stprov remote static", "dhcp" and "run" one after the    *)
(* other on one platform: Main and commitConfig of subcmd/remote, and the  *)
(* EFI variables of internal/st.                                           *)
(*                                                                         *)
(* static and dhcp set the network up, ask every OS package URL for its    *)
(* head, and write STHostName and the host configuration, two variables    *)
(* that the firmware replaces one at a time; run reads the first of them   *)
(* and serves.  Any step may fail, the operator may press ctrl+c, and the  *)
(* power may go.  How a link is found is in LinkSelect, and what run does  *)
(* after it has read the name in RemoteRun.                                *)
(***************************************************************************)
EXTENDS HostGateway

CONSTANTS
  Options,  \* what the operator may type; see OptionType
  DefHostname,
  MaxRuns   \* bound on the executions of the program

\* An OS package URL: it begins with http:// or https://, and it has the login
\* "user:password", to be replaced, or one of its own
URL == [web : BOOLEAN, login : {"user:password", "own", "given"}]

OptionType(o) ==
  /\ o.cmd \in {"static", "dhcp", "run"}
  /\ o.names \subseteq {"-h", "-H"}     \* which of the two was given
  /\ o.links \in Nat                    \* how many of -A, -m, -I, -B and -b
  /\ o.malformed \in BOOLEAN            \* -w, -I, -d or a trailing argument
  /\ o.cmd = "static" => IsCIDR(o.host) \* any other host is an error
  /\ o.force \in BOOLEAN /\ o.last \in BOOLEAN
  /\ o.urls \in Seq(URL)

ASSUME ConfigAssumption == MaxRuns \in Nat /\ \A o \in Options : OptionType(o)

VARIABLES
  name,     \* STHostName, and which execution wrote it
  config,   \* the host configuration: its URLs and gateway, and who wrote it
  pc,       \* where the program is; "idle" is outside of it
  urls,     \* the URLs of commitConfig so far
  opts,     \* the options of every execution, the last one is the current one
  told,     \* the last execution of static or dhcp that reported success
  answered  \* the executions and URLs whose HEAD request got 200 (history)

nvram == <<name, config>>
vars  == <<nvram, pc, urls, opts, told, answered>>

runs == Len(opts)
opt  == opts[runs]

NoName   == [by |-> 0, host |-> <<>>]
NoConfig == [by |-> 0, urls |-> <<>>, gateway |-> NoGateway]

Init ==
  /\ name = NoName /\ config = NoConfig
  /\ pc = "idle" /\ urls = <<>> /\ opts = <<>> /\ told = 0 /\ answered = {}
-----------------------------------------------------------------------------
(* Main *)

\* "mutually exclusive" options, or one that does not parse
Rejected(o) == o.names = {"-h", "-H"} \/ o.links > 1 \/ o.malformed

\* -H, or -h as a prefix of the default domain, or the default
HostName(o) ==
  IF "-H" \in o.names THEN <<"-H">>
  ELSE IF "-h" \in o.names THEN <<"-h", DefHostname>> ELSE <<DefHostname>>

Start(o) ==
  /\ pc = "idle" /\ runs < MaxRuns
  /\ opts' = Append(opts, o) /\ urls' = <<>>
  /\ pc' = IF Rejected(o) THEN "idle" ELSE IF o.cmd = "run" THEN "read" ELSE "setup"
  /\ UNCHANGED <<nvram, told, answered>>

\* static.Config takes the gateway that was validated, dhcp.Config has none
ConfigGateway(o) ==
  IF o.cmd = "static" THEN ValidateHostAndGateway(o.host, o.gateway, o.force, o.last)
  ELSE NoGateway

\* Config returns a configuration that the network now has
Setup ==
  /\ pc = "setup"
  /\ opt.cmd = "static" => ParseGateway(ConfigGateway(opt))
  /\ pc' = "check"
  /\ UNCHANGED <<nvram, urls, opts, told, answered>>
-----------------------------------------------------------------------------
(* commitConfig *)

\* Faulty variant: any scheme
ConstructAnyURL(url) ==
  [ok |-> TRUE, url |-> IF url.login = "user:password" THEN [url EXCEPT !.login = "given"] ELSE url]

ConstructURL(url) ==
  [ok |-> url.web,
   url |-> IF url.login = "user:password" THEN [url EXCEPT !.login = "given"] ELSE url]

NextURL == opt.urls[Len(urls) + 1]

\* checkURL returns no error: a HEAD request to the URL got 200
HeadOK(url) == answered' = answered \cup {<<runs, url>>}

\* Faulty variant: the request is sent to the URL as it was typed
CheckTypedURL ==
  /\ pc = "check" /\ Len(urls) < Len(opt.urls) /\ ConstructURL(NextURL).ok
  /\ \/ HeadOK(NextURL)
     \/ opt.force /\ UNCHANGED answered
  /\ urls' = Append(urls, ConstructURL(NextURL).url)
  /\ UNCHANGED <<nvram, pc, opts, told>>

\* The URL as it will be persisted answers 200, or it does not and -f was given
CheckURL ==
  /\ pc = "check" /\ Len(urls) < Len(opt.urls) /\ ConstructURL(NextURL).ok
  /\ \/ HeadOK(ConstructURL(NextURL).url)
     \/ opt.force /\ UNCHANGED answered
  /\ urls' = Append(urls, ConstructURL(NextURL).url)
  /\ UNCHANGED <<nvram, pc, opts, told>>

\* Faulty variant: an error of WriteEFI is logged only
WriteHostNameOrNot ==
  /\ pc = "check" /\ Len(urls) = Len(opt.urls)
  /\ name' \in {name, [by |-> runs, host |-> HostName(opt)]}
  /\ pc' = "config"
  /\ UNCHANGED <<config, urls, opts, told, answered>>

WriteHostName ==
  /\ pc = "check" /\ Len(urls) = Len(opt.urls)
  /\ name' = [by |-> runs, host |-> HostName(opt)]
  /\ pc' = "config"
  /\ UNCHANGED <<config, urls, opts, told, answered>>

\* Faulty variant: the same for the host configuration
WriteHostConfigOrNot ==
  /\ pc = "config"
  /\ config' \in {config, [by |-> runs, urls |-> urls, gateway |-> ConfigGateway(opt)]}
  /\ pc' = "report"
  /\ UNCHANGED <<name, urls, opts, told, answered>>

WriteHostConfig ==
  /\ pc = "config"
  /\ config' = [by |-> runs, urls |-> urls, gateway |-> ConfigGateway(opt)]
  /\ pc' = "report"
  /\ UNCHANGED <<name, urls, opts, told, answered>>

\* "command remote ... succeeded"
Report ==
  /\ pc = "report"
  /\ told' = runs
  /\ pc' = "idle"
  /\ UNCHANGED <<nvram, urls, opts, answered>>
-----------------------------------------------------------------------------
(* run, and what ends an execution *)

\* The host name has to be there; nobody looks at the host configuration
ReadHostName ==
  /\ pc = "read" /\ name # NoName
  /\ pc' = "listen"
  /\ UNCHANGED <<nvram, urls, opts, told, answered>>

\* The host key is persisted
RunReturns ==
  /\ pc = "listen"
  /\ pc' = "idle"
  /\ UNCHANGED <<nvram, urls, opts, told, answered>>

\* An error of the step that is next, ctrl+c, or the power: a variable that was
\* written stays
Fails ==
  /\ pc # "idle"
  /\ pc' = "idle"
  /\ UNCHANGED <<nvram, urls, opts, told, answered>>

CommitConfig == CheckURL \/ WriteHostName \/ WriteHostConfig \/ Report

Next ==
  \/ \E o \in Options : Start(o)
  \/ Setup \/ CommitConfig \/ ReadHostName \/ RunReturns \/ Fails

Spec == Init /\ [][Next]_vars
-----------------------------------------------------------------------------
(* Properties *)

\* What is persisted has its type, which leaves no URL without http or https in
\* the host configuration.
TypeOK ==
  /\ name.by \in 0..runs /\ name.host \in Seq({"-H", "-h", DefHostname})
  /\ config.by \in 0..runs /\ config.urls \in Seq([web : {TRUE}, login : {"own", "given"}])
  /\ pc \in {"idle", "setup", "check", "config", "report", "read", "listen"}
  /\ told \in 0..runs

\* RemoteConfig implements HostRecord, with a failure, ctrl+c or power loss
\* between any two steps of any execution: the name first, against the order in
\* which docs/stprov-system.md draws the two writes.
Record == INSTANCE HostRecord WITH name <- name.by, config <- config.by

ImplementsHostRecord == Record!Spec

\* Whoever serves a platform whose name and configuration are of different
\* executions, or that has no configuration, does so after an execution that
\* wrote the name and did not report success: "remote run" alone notices nothing.
TornRecordWasReported ==
  pc = "listen" /\ config.by # name.by => told # name.by

\* Without -f, a persisted host configuration has all the URLs of its execution,
\* each of which answered to that execution with the login it is persisted with.
URLsWereChecked ==
  config # NoConfig /\ ~opts[config.by].force =>
    /\ \A u \in Range(config.urls) : <<config.by, u>> \in answered
    /\ Len(config.urls) = Len(opts[config.by].urls)

\* Without -f, the gateway of a persisted static configuration is not the host and
\* is in its network: ValidateHostAndGateway looked at what
\* commitConfig writes.  Only a computed one may be outside: that of a network of one address, and a last
\* address that lost its leading bytes.
GatewayWasChecked ==
  config # NoConfig /\ ~opts[config.by].force /\ opts[config.by].cmd = "static" =>
    LET o == opts[config.by]
        network == Network(o.host)
    IN  /\ ~Equal(o.host.text, config.gateway.text)
        /\ \/ Includes(network, config.gateway.text)
           \/ /\ o.gateway = NoGateway
              /\ \/ HostLen(network) = 0
                 \/ o.last /\ config.gateway.text # String(LastUsable(network))
=============================================================================
