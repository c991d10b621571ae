-------------------------- MODULE RemoteConfigProofs --------------------------
(***************************************************************************)
(* Theorems about RemoteConfig, for any options of the operator and any    *)
(* number of executions: the order of the two EFI writes makes it an       *)
(* implementation of HostRecord, a torn record is never one that was       *)
(* reported, and what is persisted was checked.                            *)
(***************************************************************************)
EXTENDS RemoteConfig, HostGatewayProofs

\* What was reported is not ahead of the configuration, nor the configuration of
\* the name, nor the name of the executions
InOrder ==
  /\ opts \in Seq(Options)
  /\ name.by \in Nat /\ config.by \in Nat /\ told \in Nat
  /\ told <= config.by /\ config.by <= name.by /\ name.by <= runs

\* How far the current execution has got
Progress ==
  /\ pc \in {"setup", "check"} => name.by < runs
  /\ pc = "config" => name.by = runs /\ config.by < runs
  /\ pc = "report" => name.by = runs /\ config.by = runs /\ told < runs

WriteOrder == InOrder /\ Progress

\* A platform without either variable
LEMMA InitOrder == Init => WriteOrder
  BY DEF Init, NoName, NoConfig, runs, WriteOrder, InOrder, Progress

\* Only Start adds an execution
LEMMA StartOrder ==
  ASSUME WriteOrder, NEW o \in Options, Start(o)
  PROVE  WriteOrder'
<1>1. opts' \in Seq(Options) /\ runs' = runs + 1 /\ runs \in Nat
  BY DEF WriteOrder, InOrder, Start, runs
<1>2. UNCHANGED <<name, config, told>>
  BY DEF Start, nvram
<1>3. InOrder'
  BY <1>1, <1>2 DEF WriteOrder, InOrder
<1>4. pc' \notin {"config", "report"}
  BY DEF Start
<1>5. Progress'
  BY <1>1, <1>2, <1>4 DEF WriteOrder, InOrder, Progress
<1> QED BY <1>3, <1>5 DEF WriteOrder

\* Every other step belongs to the current execution
LEMMA StepOrder == WriteOrder /\ [Next]_vars => WriteOrder'
<1> SUFFICES ASSUME WriteOrder, [Next]_vars PROVE WriteOrder'
  OBVIOUS
<1>1. CASE \E o \in Options : Start(o)
  BY <1>1, StartOrder
<1> USE DEF WriteOrder, InOrder, Progress, runs, nvram
<1>2. runs \in Nat
  OBVIOUS
<1>3. CASE Setup
  BY <1>3 DEF Setup
<1>4. CASE CheckURL
  BY <1>4 DEF CheckURL
<1>5. CASE WriteHostName
  <2>1. name'.by = runs /\ pc' = "config" /\ UNCHANGED <<config, opts, told>>
    BY <1>5 DEF WriteHostName
  <2>2. name.by < runs
    BY <1>5 DEF WriteHostName
  <2> QED BY <1>2, <2>1, <2>2
<1>6. CASE WriteHostConfig
  <2>1. config'.by = runs /\ pc' = "report" /\ UNCHANGED <<name, opts, told>>
    BY <1>6 DEF WriteHostConfig
  <2>2. name.by = runs /\ config.by < runs
    BY <1>6 DEF WriteHostConfig
  <2> QED BY <1>2, <2>1, <2>2
<1>7. CASE Report
  BY <1>2, <1>7 DEF Report
<1>8. CASE ReadHostName \/ RunReturns \/ Fails
  BY <1>8 DEF ReadHostName, RunReturns, Fails
<1>9. CASE UNCHANGED vars
  BY <1>9 DEF vars
<1> QED BY <1>1, <1>3, <1>4, <1>5, <1>6, <1>7, <1>8, <1>9 DEF Next, CommitConfig

\* commitConfig writes the host name before the configuration and reports success
\* after both, in every execution and whatever ended the ones before
THEOREM Ordered == Spec => []WriteOrder
<1> QED BY InitOrder, StepOrder, PTL DEF Spec

\* Whoever serves a platform whose two variables are of different executions does
\* so after an execution that did not report success: commitConfig logs it after
\* the second write only.
THEOREM TornIsReported == Spec => []TornRecordWasReported
<1>1. WriteOrder => TornRecordWasReported
  BY DEF WriteOrder, InOrder, TornRecordWasReported
<1> QED BY <1>1, Ordered, PTL

\* Neither variable was written, nothing was reported
LEMMA RecordInit == Init => Record!Init
  BY DEF Init, NoName, NoConfig, Record!Init

\* The writes of commitConfig and the report of Main are the steps of HostRecord;
\* nothing else touches what it is about.
LEMMA RecordStep == WriteOrder /\ [Next]_vars => [Record!Next]_(Record!record)
<1> SUFFICES ASSUME WriteOrder, [Next]_vars
             PROVE  Record!Next \/ UNCHANGED Record!record
  OBVIOUS
<1> USE DEF Record!record, nvram
<1>1. CASE \E o \in Options : Start(o)
  BY <1>1 DEF Start
<1>2. CASE Setup \/ CheckURL \/ ReadHostName \/ RunReturns \/ Fails
  BY <1>2 DEF Setup, CheckURL, ReadHostName, RunReturns, Fails
<1>3. CASE WriteHostName
  <2>1. name'.by = runs /\ name.by < runs /\ runs \in Nat /\ name.by \in Nat
    BY <1>3 DEF WriteHostName, WriteOrder, InOrder, Progress, runs
  <2>2. UNCHANGED <<config, told>>
    BY <1>3 DEF WriteHostName
  <2>3. Record!Rename
    BY <2>1, <2>2 DEF Record!Rename
  <2> QED BY <2>3 DEF Record!Next
<1>4. CASE WriteHostConfig
  <2>1. config'.by = runs /\ name.by = runs /\ config.by < runs
    BY <1>4 DEF WriteHostConfig, WriteOrder, Progress
  <2>2. UNCHANGED <<name, told>>
    BY <1>4 DEF WriteHostConfig
  <2>3. Record!Complete
    BY <2>1, <2>2 DEF Record!Complete
  <2> QED BY <2>3 DEF Record!Next
<1>5. CASE Report
  <2>1. told' = runs /\ name.by = runs /\ config.by = runs /\ told < runs
    BY <1>5 DEF Report, WriteOrder, Progress
  <2>2. UNCHANGED <<name, config>>
    BY <1>5 DEF Report
  <2>3. Record!Report
    BY <2>1, <2>2 DEF Record!Report
  <2> QED BY <2>3 DEF Record!Next
<1>6. CASE UNCHANGED vars
  BY <1>6 DEF vars
<1> QED BY <1>1, <1>2, <1>3, <1>4, <1>5, <1>6 DEF Next, CommitConfig

\* RemoteConfig implements HostRecord, whatever fails between any two steps.
THEOREM RemoteConfigRefinesHostRecord == Spec => ImplementsHostRecord
<1> QED BY Ordered, RecordInit, RecordStep, PTL DEF Spec, ImplementsHostRecord, Record!Spec
-----------------------------------------------------------------------------
(* What is persisted was checked *)

\* A URL that ConstructURL returns
WebURL == [web : {TRUE}, login : {"own", "given"}]

\* How far commitConfig has got with the URLs, and static.Config with the gateway
UnderWay ==
  /\ pc = "setup" => urls = <<>>
  /\ pc \in {"check", "config"} =>
       /\ urls \in Seq(WebURL) /\ Len(urls) <= Len(opt.urls)
       /\ opt.force \/ \A u \in Range(urls) : <<runs, u>> \in answered
       /\ opt.cmd = "static" => ParseGateway(ConfigGateway(opt))
  /\ pc = "config" => Len(urls) = Len(opt.urls)

PersistedWasChecked == URLsWereChecked /\ GatewayWasChecked

\* Before the first write there is no configuration
WhoWrote == config.by = 0 => config = NoConfig

CheckInv == WriteOrder /\ TypeOK /\ UnderWay /\ WhoWrote /\ PersistedWasChecked

\* GatewayWasChecked, of an execution with options o
GatewayChecked(o, gateway) ==
  o.cmd = "static" =>
    /\ ~Equal(o.host.text, gateway.text)
    /\ \/ Includes(Network(o.host), gateway.text)
       \/ /\ o.gateway = NoGateway
          /\ \/ HostLen(Network(o.host)) = 0
             \/ o.last /\ gateway.text # String(LastUsable(Network(o.host)))

\* ValidateHostAndGateway has checked what static.Config parses
LEMMA ParsedWasChecked ==
  ASSUME NEW o \in Options, ~o.force, o.cmd = "static" => ParseGateway(ConfigGateway(o))
  PROVE  GatewayChecked(o, ConfigGateway(o))
<1> SUFFICES ASSUME o.cmd = "static" PROVE GatewayChecked(o, ConfigGateway(o))
  BY DEF GatewayChecked
<1>1. IsCIDR(o.host) /\ o.force = FALSE /\ o.last \in BOOLEAN
  BY ConfigAssumption DEF OptionType
<1>2. ConfigGateway(o) = ValidateHostAndGateway(o.host, o.gateway, FALSE, o.last)
  BY <1>1 DEF ConfigGateway
<1>3. ConfigGateway(o) # Error
  <2> HIDE DEF ConfigGateway
  <2> QED BY DEF ParseGateway, Error
<1>4. GatewayWithinNetwork(o.host, o.gateway, o.last)
  BY <1>1, GatewayTheorem
<1>5. /\ ~Equal(ConfigGateway(o).text, o.host.text)
      /\ \/ Includes(Network(o.host), ConfigGateway(o).text)
         \/ /\ o.gateway = NoGateway
            /\ \/ HostLen(Network(o.host)) = 0
               \/ o.last /\ ConfigGateway(o).text # String(LastUsable(Network(o.host)))
  BY <1>2, <1>3, <1>4 DEF GatewayWithinNetwork
<1> QED BY <1>5 DEF GatewayChecked, Equal

\* An execution that begins changes nothing for the ones before, nor does a request
LEMMA PersistedStays ==
  ASSUME CheckInv, config' = config, answered \subseteq answered',
         opts' = opts \/ \E o \in Options : opts' = Append(opts, o)
  PROVE  WhoWrote' /\ PersistedWasChecked'
<1>1. WhoWrote'
  BY DEF CheckInv, WhoWrote, NoConfig
<1>2. SUFFICES ASSUME config # NoConfig, ~opts'[config.by].force
               PROVE  /\ \A u \in Range(config.urls) : <<config.by, u>> \in answered'
                      /\ Len(config.urls) = Len(opts'[config.by].urls)
                      /\ GatewayChecked(opts'[config.by], config.gateway)
  BY <1>1 DEF PersistedWasChecked, URLsWereChecked, GatewayWasChecked, GatewayChecked, NoConfig
<1>3. opts \in Seq(Options) /\ config.by \in 1..Len(opts)
  BY <1>2 DEF CheckInv, WriteOrder, InOrder, WhoWrote, runs
<1>4. opts'[config.by] = opts[config.by]
  BY <1>3
<1> QED BY <1>2, <1>4 DEF CheckInv, PersistedWasChecked, URLsWereChecked, GatewayWasChecked, GatewayChecked

\* A platform without either variable
LEMMA InitChecked == Init => CheckInv
<1> SUFFICES ASSUME Init PROVE CheckInv
  OBVIOUS
<1>1. WriteOrder
  BY InitOrder
<1>2. /\ <<>> \in Seq({"-H", "-h", DefHostname})
      /\ <<>> \in Seq([web : {TRUE}, login : {"own", "given"}])
  OBVIOUS
<1>3. TypeOK
  BY <1>2 DEF Init, NoName, NoConfig, TypeOK, runs
<1>4. UnderWay /\ WhoWrote /\ PersistedWasChecked
  BY DEF Init, UnderWay, WhoWrote, PersistedWasChecked, URLsWereChecked, GatewayWasChecked
<1> QED BY <1>1, <1>3, <1>4 DEF CheckInv

\* The host name is made of what was typed and the default domain
LEMMA HostNameType ==
  ASSUME NEW o
  PROVE  HostName(o) \in Seq({"-H", "-h", DefHostname})
<1>1. <<"-H">> \in Seq({"-H", "-h", DefHostname})
  OBVIOUS
<1>2. <<"-h", DefHostname>> \in Seq({"-H", "-h", DefHostname})
  OBVIOUS
<1>3. <<DefHostname>> \in Seq({"-H", "-h", DefHostname})
  OBVIOUS
<1> QED BY <1>1, <1>2, <1>3 DEF HostName

\* ConstructURL returns a URL with http or https and a login of its own
LEMMA ConstructedType ==
  ASSUME NEW url \in URL, ConstructURL(url).ok
  PROVE  ConstructURL(url).url \in WebURL
<1>1. /\ url.web = TRUE /\ url.login \in {"user:password", "own", "given"}
      /\ url = [web |-> url.web, login |-> url.login]
  BY DEF URL, ConstructURL
<1>2. CASE url.login = "user:password"
  <2>1. url \in [web : BOOLEAN, login : {"user:password", "own", "given"}]
    BY DEF URL
  <2>2. [url EXCEPT !.login = "given"] = [web |-> url.web, login |-> "given"]
    BY <2>1
  <2>3. ConstructURL(url).url = [web |-> TRUE, login |-> "given"]
    BY <1>1, <1>2, <2>2 DEF ConstructURL
  <2> QED BY <2>3 DEF WebURL
<1>3. CASE url.login # "user:password"
  BY <1>1, <1>3 DEF ConstructURL, WebURL
<1> QED BY <1>2, <1>3

\* Every step keeps what was checked: a URL joins those of commitConfig after its own
\* HEAD request, and the configuration has the URLs and the gateway of its execution
LEMMA StepChecked == CheckInv /\ [Next]_vars => CheckInv'
<1> SUFFICES ASSUME CheckInv, [Next]_vars PROVE CheckInv'
  OBVIOUS
<1>1. WriteOrder /\ WriteOrder'
  BY StepOrder DEF CheckInv
<1>2. /\ opts \in Seq(Options) /\ runs \in Nat /\ runs = Len(opts)
      /\ pc \in {"setup", "check", "config", "report"} => runs \in 1..Len(opts) /\ opt \in Options
  BY <1>1 DEF WriteOrder, InOrder, Progress, runs, opt
<1>3. TypeOK /\ UnderWay /\ WhoWrote /\ PersistedWasChecked
  BY DEF CheckInv
<1>4. ASSUME NEW o \in Options, Start(o)
      PROVE  CheckInv'
  <2>1. /\ UNCHANGED <<name, config, told, answered>> /\ opts' = Append(opts, o) /\ urls' = <<>>
        /\ pc' \in {"idle", "read", "setup"}
    BY <1>4 DEF Start, nvram
  <2>2. runs' = runs + 1
    BY <1>2, <2>1 DEF runs
  <2>3. WhoWrote' /\ PersistedWasChecked'
    BY <2>1, PersistedStays
  <2>4. TypeOK'
    BY <1>2, <1>3, <2>1, <2>2 DEF TypeOK
  <2>5. UnderWay'
    BY <2>1 DEF UnderWay
  <2> QED BY <1>1, <2>3, <2>4, <2>5 DEF CheckInv
<1>5. CASE Setup
  <2>1. /\ UNCHANGED <<name, config, urls, opts, told, answered>> /\ pc = "setup" /\ pc' = "check"
        /\ opt.cmd = "static" => ParseGateway(ConfigGateway(opt))
    BY <1>5 DEF Setup, nvram
  <2>2. urls = <<>> /\ opt \in Options /\ UNCHANGED <<runs, opt>>
    BY <1>2, <1>3, <2>1 DEF UnderWay, runs, opt
  <2>3. Len(opt.urls) \in Nat
    BY <2>2, ConfigAssumption DEF OptionType
  <2>4. urls \in Seq(WebURL) /\ Len(urls) = 0 /\ Range(urls) = {}
    BY <2>2 DEF Range
  <2>5. UnderWay'
    BY <2>1, <2>2, <2>3, <2>4 DEF UnderWay
  <2>6. TypeOK'
    BY <1>3, <2>1, <2>2 DEF TypeOK
  <2> QED BY <1>1, <2>1, <2>5, <2>6, PersistedStays DEF CheckInv
<1>6. CASE CheckURL
  <2> DEFINE url == ConstructURL(NextURL).url
  <2>1. /\ UNCHANGED <<name, config, pc, opts, told>> /\ pc = "check" /\ urls' = Append(urls, url)
        /\ Len(urls) < Len(opt.urls) /\ ConstructURL(NextURL).ok /\ answered \subseteq answered'
        /\ opt.force \/ <<runs, url>> \in answered'
    BY <1>6 DEF CheckURL, HeadOK, nvram
  <2>2. opt \in Options /\ UNCHANGED <<runs, opt>>
    BY <1>2, <2>1 DEF runs, opt
  <2>3. /\ urls \in Seq(WebURL)
        /\ opt.force \/ \A u \in Range(urls) : <<runs, u>> \in answered
        /\ opt.cmd = "static" => ParseGateway(ConfigGateway(opt))
    BY <1>3, <2>1 DEF UnderWay
  <2>4. opt.urls \in Seq(URL)
    BY <2>2, ConfigAssumption DEF OptionType
  <2>5. NextURL \in URL
    BY <2>1, <2>3, <2>4 DEF NextURL
  <2>6. url \in WebURL
    BY <2>1, <2>5, ConstructedType
  <2> HIDE DEF url
  <2>7. /\ urls' \in Seq(WebURL) /\ Len(urls') = Len(urls) + 1
        /\ \A u \in Range(urls') : u = url \/ u \in Range(urls)
    <3>1. /\ urls' \in Seq(WebURL) /\ Len(urls') = Len(urls) + 1
          /\ \A i \in 1..Len(urls) : urls'[i] = urls[i]
          /\ urls'[Len(urls) + 1] = url
      <4>1. urls \in Seq(WebURL) /\ urls' = Append(urls, url)
        BY <2>1, <2>3
      <4> QED BY <2>6, <4>1
    <3>2. ASSUME NEW u \in Range(urls') PROVE u = url \/ u \in Range(urls)
      <4>1. PICK i \in 1..Len(urls') : u = urls'[i]
        BY <3>1 DEF Range
      <4>2. i \in 1..Len(urls) \/ i = Len(urls) + 1
        BY <2>3, <3>1
      <4>3. CASE i \in 1..Len(urls)
        BY <2>3, <3>1, <4>1, <4>3 DEF Range
      <4> QED BY <3>1, <4>1, <4>2, <4>3
    <3> QED BY <3>1, <3>2
  <2>8. Len(urls') <= Len(opt.urls)
    BY <2>1, <2>3, <2>4, <2>7
  <2>9. opt.force \/ \A u \in Range(urls') : <<runs, u>> \in answered'
    BY <2>1, <2>3, <2>7
  <2>10. UnderWay'
    BY <2>1, <2>2, <2>3, <2>7, <2>8, <2>9 DEF UnderWay
  <2>11. TypeOK'
    BY <1>3, <2>1, <2>2 DEF TypeOK
  <2> QED BY <1>1, <2>1, <2>10, <2>11, PersistedStays DEF CheckInv
<1>7. CASE WriteHostName
  <2>1. /\ UNCHANGED <<config, urls, opts, told, answered>> /\ pc = "check" /\ pc' = "config"
        /\ name' = [by |-> runs, host |-> HostName(opt)] /\ Len(urls) = Len(opt.urls)
    BY <1>7 DEF WriteHostName
  <2>2. UNCHANGED <<runs, opt>>
    BY <2>1 DEF runs, opt
  <2>3. UnderWay'
    BY <1>3, <2>1, <2>2 DEF UnderWay
  <2>4. name'.by \in 0..runs /\ name'.host \in Seq({"-H", "-h", DefHostname})
    <3> HIDE DEF HostName
    <3> QED BY <1>2, <2>1, HostNameType
  <2>5. TypeOK'
    BY <1>3, <2>1, <2>2, <2>4 DEF TypeOK
  <2> QED BY <1>1, <2>1, <2>3, <2>5, PersistedStays DEF CheckInv
<1>8. CASE WriteHostConfig
  <2>1. /\ UNCHANGED <<name, urls, opts, told, answered>> /\ pc = "config" /\ pc' = "report"
        /\ config' = [by |-> runs, urls |-> urls, gateway |-> ConfigGateway(opt)]
    BY <1>8 DEF WriteHostConfig
  <2>2. UNCHANGED <<runs, opt>> /\ opt \in Options /\ runs \in 1..Len(opts)
    BY <1>2, <2>1 DEF runs, opt
  <2>3. /\ urls \in Seq(WebURL)
        /\ opt.force \/ \A u \in Range(urls) : <<runs, u>> \in answered
        /\ opt.cmd = "static" => ParseGateway(ConfigGateway(opt))
        /\ Len(urls) = Len(opt.urls)
    BY <1>3, <2>1 DEF UnderWay
  <2>4. config'.by = runs /\ config'.urls = urls /\ config'.gateway = ConfigGateway(opt)
    BY <2>1
  <2>5. ~opt.force => GatewayChecked(opt, ConfigGateway(opt))
    BY <2>2, <2>3, ParsedWasChecked
  <2>6. opts'[config'.by] = opt
    BY <2>1, <2>4 DEF opt
  <2>7. PersistedWasChecked'
    BY <2>1, <2>3, <2>4, <2>5, <2>6 DEF PersistedWasChecked, URLsWereChecked, GatewayWasChecked, GatewayChecked
  <2>8. WhoWrote'
    BY <1>2, <2>2, <2>4 DEF WhoWrote
  <2>9. UnderWay'
    BY <2>1 DEF UnderWay
  <2>10. TypeOK'
    <3>1. config'.urls \in Seq(WebURL)
      BY <2>3, <2>4
    <3>2. config'.by \in 0..runs'
      BY <1>2, <2>2, <2>4
    <3>3. name'.by \in 0..runs' /\ name'.host \in Seq({"-H", "-h", DefHostname})
      BY <1>3, <2>1, <2>2 DEF TypeOK
    <3>4. told' \in 0..runs'
      BY <1>3, <2>1, <2>2 DEF TypeOK
    <3> QED BY <2>1, <3>1, <3>2, <3>3, <3>4 DEF TypeOK, WebURL
  <2> QED BY <1>1, <2>7, <2>8, <2>9, <2>10 DEF CheckInv
<1>9. CASE Report \/ ReadHostName \/ RunReturns \/ Fails
  <2>1. /\ UNCHANGED <<name, config, urls, opts, answered>> /\ pc' \in {"idle", "listen"}
        /\ told' = told \/ told' = runs
    BY <1>9 DEF Report, ReadHostName, RunReturns, Fails, nvram
  <2>2. UNCHANGED runs
    BY <2>1 DEF runs
  <2>3. UnderWay'
    BY <2>1 DEF UnderWay
  <2>4. TypeOK'
    BY <1>2, <1>3, <2>1, <2>2 DEF TypeOK
  <2> QED BY <1>1, <2>1, <2>3, <2>4, PersistedStays DEF CheckInv
<1>10. CASE UNCHANGED vars
  <2>1. UNCHANGED <<name, config, pc, urls, opts, told, answered, runs, opt>>
    BY <1>10 DEF vars, nvram, runs, opt
  <2>2. TypeOK' /\ UnderWay'
    BY <1>3, <2>1 DEF TypeOK, UnderWay
  <2> QED BY <1>1, <2>1, <2>2, PersistedStays DEF CheckInv
<1> QED BY <1>4, <1>5, <1>6, <1>7, <1>8, <1>9, <1>10 DEF Next, CommitConfig

\* The invariant of the checks holds in every execution
LEMMA CheckInvariant == Spec => []CheckInv
BY InitChecked, StepChecked, PTL DEF Spec

\* What is persisted has its type, and every persisted URL has http or https and its
\* login: commitConfig writes what ConstructURL returned.
THEOREM PersistedTypeCorrect == Spec => []TypeOK
BY CheckInvariant, PTL DEF CheckInv

\* Without -f, every persisted URL answered the HEAD request of its own execution,
\* whatever the executions before and after it did.
THEOREM URLsAreChecked == Spec => []URLsWereChecked
BY CheckInvariant, PTL DEF CheckInv, PersistedWasChecked

\* Without -f, the gateway of a persisted static configuration passed the checks of
\* ValidateHostAndGateway for the host of the same execution.
THEOREM GatewayIsChecked == Spec => []GatewayWasChecked
BY CheckInvariant, PTL DEF CheckInv, PersistedWasChecked
===========================================================================
