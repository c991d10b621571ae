# A TLA+ model of stprov

stprov provisions a platform for System Transparency. `stprov remote` runs on
the platform: `remote static` and `remote dhcp` select a link, configure it and
write the host name and the host configuration to EFI NVRAM; `remote run` then
starts an HTTPS server, and `stprov local`, on the operator's machine,
contributes entropy, optionally Secure Boot keys, and commits. The platform
derives a secret and persists the SSH host key made from it, once the operator
at its console has pressed Enter.

This directory models where steps of several actors interleave (the server and
its handlers, both programs around it, the EFI variables that concurrent handlers
write), where an execution may stop half-way (the configuration of links, the
writes to NVRAM), and the functions whose edges are easy to get wrong (addresses,
typed options, the file of the host key). Paths below are relative to the root of
the repository.

## Inventory

| Component | State | Operations | Interacts with | What is hard |
|---|---|---|---|---|
| HTTPS server (`internal/api/server.go`, `handler.go`) | `Server.Entropy`, `Timestamp`, `UDS`, the channel `commit`, one goroutine per connection, the goroutines of `Run` and `await` | `Run`, `await`, `ServeHTTP` and its three checks, `handleAddData`, `handleAddSecureBoot`, `handleCommit` | net/http, `secrets`, `sb`; `listen()` reads its fields when `Run` is over | no lock on the shared fields; a channel of capacity one that is closed under its senders; shutdown races with requests |
| `stprov remote run` (`subcmd/remote/run`) | the returned secret, the EFI variable of the host key | `listen`, the confirmation, `writeHostKey` | the server, the operator, NVRAM | handlers that outlive `Run`; an unbounded wait; a crash before the write |
| `stprov local run` (`subcmd/local/run`, `internal/api/client.go`) | the Secure Boot files it found, which request it is at, what it printed | `readOptionalFile`, `AddData`, `AddSecureBootKeys`, `Commit` | the server, over a network that loses connections | no timeout; net/http replays GET requests; a missing file is no error |
| Secure Boot (`internal/sb`, `handleAddSecureBoot`) | PK, KEK, db, dbx, SetupMode, OsIndications | `IsSetupMode`, `Provision`, `RequestRebootIntoUEFIMenu` | the firmware | check and writes far apart, partial failure, a read-modify-write |
| Secrets (`internal/secrets`) | none | derivations with HKDF, the X.509 certificate | | determinism |
| `stprov remote static`, `dhcp` (`subcmd/remote`) | options, two EFI variables | `Main`, `static.Config`, `dhcp.Config`, `commitConfig`, `checkURL` | link selection, NVRAM, HTTP HEAD of the OS package URLs | a crash between two writes; one of several checks fails; `run` reads one variable only |
| Link selection (`internal/network`) | addresses, state and routes of the links | `TestInterfaces`, `ResetInterfaces`, `WaitForDeviceEvent`, `Pinger` | netlink | dropped errors, events of other links, half-configured links |
| Host and gateway options (`internal/options`) | none | `MaxHost`, `ValidateHostAndGateway`, `DecodeSafeCIDR`, `ConstructURL`, `DefaultInterfaces` | `net`, `netip`, `math/big` | arithmetic on addresses of two families; two parsers for one option |
| EFI variables (`internal/st`) | the variables | `WriteEFI`, `ReadEFI`, `WriteHostConfigEFI` | the firmware | each write is atomic, two of them are not |
| Host key encoding (`internal/ssh`) | none | `write`, `addPad`, `read` | `ssh.Marshal`, `ssh.Unmarshal` | padding that is counted by hand |
| `internal/hexify`, `internal/version`, `cmd/stprov`, `subcmd/local/local.go`, `internal/network/client.go`, `integration/serve-http` | none | formatting, dispatch, one HTTP client, a test tool | | |

## Modules

| Module | Models |
|---|---|
| `ApiServer` | the server: `Run`, `await`, every connection's goroutine, the handlers. The environment is open: any peer may send any request on any connection. |
| `KeyCeremony` | abstract: which host keys are offered, the operator's single confirmation, the single write |
| `RemoteRun` | `listen()`, the confirmation and `writeHostKey` on top of `ApiServer`; implements `KeyCeremony` |
| `Provisioning` | executions of `stprov local run` on top of `RemoteRun`, in place of the open environment |
| `SecureBoot` | what happens inside add-secure-boot: the EFI variables, concurrent requests, restarts |
| `LinkSelect` | how `remote static` and `remote dhcp` select, test and configure a link |
| `HostRecord` | abstract: what the host name and the host configuration promise together |
| `RemoteConfig` | executions of `remote static`, `dhcp` and `run` one after the other against NVRAM; implements `HostRecord` |
| `HostGateway` | the host and gateway options and the allowed networks, as functions |
| `HostKeyFile` | the file of the host key, written and read, as functions |
| `ApiServerProofs`, `RemoteRunProofs`, `ProvisioningProofs`, `SecureBootProofs`, `LinkSelectProofs`, `RemoteConfigProofs` | theorems about the module each is named after |
| `HostGatewayProofs` | theorems about the functions of `HostGateway`, for any widths |
| `FunctionsProofs` | theorems about `HostKeyFile`, and the properties of `MCFunctions` for any widths |
| `MCApiServer`, `MCRemoteRun`, `MCProvisioning`, `MCSecureBoot`, `MCLinkSelect`, `MCRemoteConfig`, `MCFunctions` | instances for TLC |

`RemoteRun` EXTENDS `ApiServer` and `Provisioning` EXTENDS `RemoteRun`; each
layer adds variables, and a step of one layer leaves the variables of the other
ones alone or is conjoined with theirs. `SecureBoot` is a detail of the single
step `SecureBootReturns` of `ApiServer`. `LinkSelect` is the detail of the step
`Setup` of `RemoteConfig`, which EXTENDS `HostGateway` for the gateway it validates
and persists; what `remote run` does after it has read the host name, one step of
`RemoteConfig`, is `RemoteRun`.

### ApiServer

A connection is a constant `c \in Conn` and carries one request. `pc[c]` says
where its goroutine is:

    none -> conn -> body -> copy -> reply -> done                     handleAddData
                 -> derive -> derive2 -> publish -> send -> reply -> done  handleCommit
                 -> sb -> reply -> done                               handleAddSecureBoot
                 -> reply -> done                                     a check failed

`sock[c]` is the TCP connection (open, gone: the peer or the network, closed:
by Shutdown). A handler that returns has written its response into net/http's
buffer (`Answer`, `wrote[c]`), and net/http flushes it later (`Respond`, `resp[c]` is
what the peer got): between the token of a commit and its answer are `await`,
Shutdown, its timeout and the return of `Run`. A connection that ends without a
response, as after a panic, is `HangUp`. The copy into `Server.Entropy`
and its read by `NewUniqueDeviceSecret` are unsynchronised in the code; the
buffer therefore has two halves, written and read in separate steps. A secret
is the record of what it was derived from: the connection whose handler drew
the local entropy, and the two halves it read. `commit` is the Go channel:
`CommitSends` blocks while the buffer is full, `CommitPanics` is a send on the
closed channel. `run` and `await` are the other two goroutines, with one action
per statement that another goroutine can observe: `CloseCommit` and `RunReturns`
are the two deferred calls of `Run`.

net/http is modelled from how `Run` uses it (marked external in the map):
Shutdown closes idle connections, but a request that was read just before is
served all the same and Shutdown may return without having seen it. A connection whose
response is not flushed is active for Shutdown, which waits for it; when its
timeout passes the handlers go on.

`await`'s other case, `<-ctx.Done()`, cannot fire: `listen()` cancels this
context only after `Run` has returned.

### RemoteRun, KeyCeremony

`main` is the main goroutine: `listen` (blocked in `Run`), `confirm` (the prompt),
`write`, and the two ends. Handlers go on in `confirm` and `write`. `Aborts`
stands for every error, the operator's ctrl+c and a power cut before the write.
The refinement mapping takes the keys of the handlers that have published
(`Published`) as the offered ones.

### Provisioning

`named[l]` are the Secure Boot files in the options of the local run `l`, and
`ReadOptions` lets any of them be missing, which `readOptionalFile` does not
report. Every local run `l` uses the connections `<<l, use>>`. Its program counter is
the request it is at. `NoAnswer` is what the client sees of a connection that
ended; `Retries` is the replay of a GET by net/http's Transport, which happens
because GET /commit goes out on the connection that served add-data.

### SecureBoot

The firmware (`Accepts`, `Enrolls`) is external: a descriptor is the key it
installs and the key that signed it. In Setup Mode every write is accepted, except
that a PK has to be self-signed, which ends Setup Mode; in user mode PK and KEK
have to be signed by the current PK, db and dbx by the current KEK. A second
request that passed the check of Setup Mode in time may therefore replace the PK
of the first one, if the first one's key signed its own. One step per EFI call of a
handler. A failed write changes nothing, and what was written before stays.

The two properties about owners follow from this rule. `SignedByHierarchy`: a KEK
that a request put there is signed by the PK of the platform, unless that PK was
replaced with its own signature, and then by one that was enrolled; db and dbx by an
enrolled KEK. `OwnersAuthorised`: all requests that wrote anything trace back to a
single one, so two owners who do not know each other's keys cannot each enrol a
part of theirs. With PK written last (the mutant) both fail, because everything
before PK is then written in Setup Mode.

### LinkSelect

A link is its place in the order of `net.Interfaces()`. The kernel's state is
the addresses, the administrative state and the default route that `confLink`
adds; `wired` says which links really lead to the gateway. Every netlink call
may fail at any point, which `ConfLinkFails` and `Reset(stop, left)` describe by
what had been done by then. The gateway is pinged without binding to a link, so
the answer may come through any link that is up and has an address, HOST_ADDR or
another one, as of DHCP (`Egress`: that address may be in the gateway's network).
The program may be run again on what an earlier execution left behind. `speed` is
the content of `/sys/class/net/*/speed`, which `GetDeviceSpeed` turns into bits per
second: a driver's own "-1" for unknown becomes -1000000, a file that cannot be
read -1. `FastestFirst` says that neither comes before a known speed. The sort is
stated by its result: the sequence of all links in which no link comes after one
that it precedes (`Precedes`).

`TestedAreWired` has a premise: of the links that were up with an address when the
program was started (`leftover`), none leads to the gateway. Without it TLC finds an
execution of `static -A` after a first one that configured another link and then
failed (say, at the HEAD request): link 1 is tested, the gateway answers through the
other one, which is skipped because it has an address, and link 1 passes.
`TestInterfaces` does not reset the links before its first test. Links that are
configured and lead elsewhere are not excluded. Within one execution the same cannot
happen, even when the reset after a test fails and its error is dropped: the route
of the link that is left makes the next `RouteAdd` fail.

### RemoteConfig, HostRecord

Executions of the program are numbered, and a variable remembers the number of
the execution that wrote it (`by`). `pc` says where the current execution is:

    idle -> setup -> check (once per URL) -> config -> report -> idle   static, dhcp
         -> read -> listen -> idle                                      run

`Start` is `Main` up to its switch, `Setup` is `static.Config` or `dhcp.Config`,
`CheckURL` one round of the loop of `commitConfig`, `WriteHostName` and
`WriteHostConfig` its two writes, `Report` the message of success. `Fails` stands
for every error, ctrl+c and a power cut, in any of these places; what was written
stays. That the firmware replaces one variable as a whole is assumed of it. The
platform starts without either variable; one that was provisioned before is
what the first of three executions leaves behind.

The gateway of a configuration is what `ValidateHostAndGateway` of `HostGateway`
returns, and `static.Config` parses it once more (`ParseGateway`).

`HostRecord` is what the order of the two writes amounts to. The configuration
never gets ahead of the name and never goes back to an older execution, and
success is reported once, of what both variables hold. It does allow the name of
one execution with the configuration of an earlier one, or none, because the code
does: `TornRecordWasReported` says who has been warned. `remote run` does not look
at the configuration and serves such a platform. `docs/stprov-system.md` draws
the two writes in the other order, configuration first (see "Disagreements met").

`URLsWereChecked` and `GatewayWasChecked` compare the persisted configuration with the
options of the execution that wrote it.

### HostGateway

An address is its number of bytes and their value; a byte has `ByteBits` bits, so
that TLC can go through all addresses and prefix lengths. Powers of two are the
recursive function `Pow2`, which the provers can expand where `^` is opaque to them.
What is assumed of the bytes before an embedded IPv4 address (0xffff) is that they
begin with a zero byte and that their value is odd: `AddressAssumption` holds of
the real widths and of those that TLC uses. `FromInt` is what
`big.Int.Bytes` does: it loses the leading zero bytes, so the result may have a
number of bytes that is no address at all. `String` is `net.IP.String`, which
writes an IPv4 address embedded in IPv6 as IPv4. The reference `LastUsable` has no
arithmetic on prefix lengths: it picks the address of the network that has one,
or no, other address of the network after it.

The properties say where the code does what its comments promise, and their
exceptions say where it does not:

* `LastUsableOrShortened`: with `-x`, a last address that begins with a zero byte
  is shortened to a malformed one, or, in IPv6, to an IPv4 address when exactly
  four bytes are left. It is never another address of the network's family.
* `GatewayWithinNetwork`: only a given gateway is looked for in the network. A
  computed one lies outside of it in a network of one address, and where the
  exception above turned it into an IPv4 address.
* `AcceptedGatewayParses`: the two parsers of a gateway agree. `GatewayParses`
  checks it of computed gateways and of addresses as they are typed, where it holds;
  of one that is typed in CIDR notation it does not (`CIDRGatewayParses`, see
  "Disagreements met").
* `OmittedMaskIsOneAddress`: an address of `-a` that is IPv4 written in IPv6
  (`::ffff:10.0.0.1`) gets `/32` and is then a network of IPv6.

A text that is typed, for `DecodeSafeCIDR`, is a sequence over four characters.

### HostKeyFile

A file is a sequence of bytes, built and taken apart field by field the way
`ssh.Marshal` and `ssh.Unmarshal` do (external). PEM is left out. Sizes are the
real ones, because `addPad` has their sum, 119, written out. Truncation is the
one fault that is modelled: whatever prefix of a file is read is an error. `read`
has no caller but the tests of the package, and stands for every reader of the
OpenSSH format.

## Runs

| Run | Instance | States | Shows |
|---|---|---|---|
| `api_live` | 3 commits, or a commit and any request | 0.4M | `Run` terminates, no commit handler stays blocked |
| `api_deadline` | 1 connection | 0.1k | violated: `Deadline` bounds nothing |
| `remote_run` | 3 connections, 8 requests | 2.9M | types; a clean `Run` leaves a secret; a commit answered 200 stops the server; `Run` waits until answers are out; provenance of the secret; a sole commit is the one that is kept; implements `KeyCeremony`; no nil secret is written |
| `prov_solo` | 1 local run, 3 choices of Secure Boot files | 0.5M | its entropy is what is shown and mixed, also after a replay; keys that were found are provisioned before it commits; it ends; the platform gets to its prompt |
| `prov_pair` | 2 local runs | 1.4M | no printed key mixes the zero buffer; printed and persisted keys differ only if two commits got through |
| `prov_mismatch` | 1 local run | | violated: the printed key is the persisted one |
| `prov_order` | 1 local run | | violated: the key is persisted before it is printed |
| `secure_boot` | 2 requests of 8 | 0.3M | enrolled keys are signed along the hierarchy; owners trace back to one; 200 means complete; the UEFI menu is requested |
| `link_select` | 3 links, one of them a bond, 2 executions, 3 contents of the speed file | 7.2M | links pass the test by their own packets; nothing half-configured is left when the interface is configured; the fastest tested link comes first |
| `remote_config` | 3 executions of 13 choices of options | 0.3M | implements `HostRecord`; a torn record was not reported; persisted URLs and gateways were checked |
| `functions` | 60k inputs | 60k | the functions of `HostGateway` and `HostKeyFile` on every input |
| `functions_cidr` | the same | | violated: a gateway that is accepted in CIDR notation parses |

Bounds. `functions` has bytes of two bits, addresses of two and four bytes: every
address with every prefix length, with an embedded IPv4 address, leading zero
bytes, and the networks of one and two addresses in both families; gateways are
every IPv4 address and seven IPv6 addresses of each kind; typed texts have up to
five characters; comments of a key have every length modulo the block size.
`remote_config` has three executions: one that leaves something behind, one that
fails on top of it, one that serves. Its options reach every rejection and both
commands. Without -f, static configurations get persisted with a given gateway, with
the first and with the last address of their network, and with the one that a network
of one address gets; a gateway that is outside of the network is refused, and
with -f persisted, and a host that would be its own gateway is refused. One or two URLs.
In `link_select`, three links give one before and one after the link
that fails, a bond to skip, and two executions one that finds what another left.
Three connections are what the channel needs: one token consumed by
`await`, one in the buffer, one blocked sender. Two handlers are enough for a
race on `UDS` or on the entropy, a third one observes it. In `api_live` all
three are commits, or two are in use and one of them carries any request (CONSTRAINT
`CommitsOrPair`, on what peers send, of whom no fairness is assumed). The requests of
`remote_run` are an add-data and a commit that are accepted, and ones that are refused
for the method, the network (in both ways), the password, the length and the
timestamp; what those send is entropy of its own. `prov_pair` has the CONSTRAINT
`Bounded`: at most one connection is lost and nobody has Secure Boot keys or
replays; `prov_solo` has all of this for a single local run. Symmetry over
connections, or local runs, is used in safety runs only. CHECK_DEADLOCK is
FALSE in every run because the programs end, and a server that is listening may
wait for ever for a client.

Fairness. The Go scheduler runs every goroutine that can run: weak fairness of
`Run`, of `await` (time passes, so Shutdown's timeout is one of its steps) and
of each handler where it does not wait for bytes of its peer. Nothing is
assumed of peers, of the listener's errors or of the operator. `Provisioning`
assumes in addition that a local run which can go on does, and that the request
it sent is read whole: the body goes out with the header. No fairness on lost
connections or the operator's confirmation.

### Disagreements met

* `api_deadline`: `ServerConfig.Deadline` is documented as the "maximum time to
  serve an HTTP request" (`internal/api/server.go:35`). No handler looks at the
  context that carries it.
* `prov_mismatch`: `publickey=` is documented as "the public key of the
  platform's SSH hostkey" (`subcmd/local/local.go:27`). When the connection is
  lost after GET /commit was read, net/http sends it once more; two handlers
  then assign `Server.UDS`, and the one whose response was lost may do so last.
* `functions_cidr`: `-g` with its own `/32` or `/128` is accepted by
  `ValidateHostAndGateway` and then rejected as malformed by `static.Config`
  (`subcmd/remote/static/static.go:77`); with another prefix length the first of
  the two refuses it. The usage text (`subcmd/remote/remote.go:107`), the manual and
  `NEWS` name `-g` as an option that takes CIDR notation.
* `remote_config`: the sequence diagram of `docs/stprov-system.md:138` writes the host
  configuration (1.2) before the host name (1.3). The code (`subcmd/remote/remote.go:365`)
  writes the name first, which is what the run shows: `HostRecord` is implemented, and
  it has no step that takes the configuration ahead of the name. Which one it is
  decides what a failure in between leaves, and `remote run` looks for the name only.
* `prov_order`: the sequence diagram of `docs/stprov-system.md:178` writes the
  host key before the operator receives the platform's information; the code
  answers first and writes after the confirmation.

One more is the exception in `OmittedMaskIsOneAddress` (above): the default mask of
`-a`.

## Proofs

Every invariant that a passing run checks is proved as a theorem of the
specification, for any values of the constants that satisfy the assumptions of the
module, and so are the refinements of `KeyCeremony` and `HostRecord`. What is
left to TLC alone is liveness.

| Module | Theorems | From |
|---|---|---|
| `ApiServerProofs` | types, `CleanReturnHasUDS`, `CommitOKStopsServer`, `DrainedBeforeReturn`, `Provenance`, `SoleCommitWins` | `ApiAssumption`: the sentinels are not values |
| `RemoteRunProofs` | types, `WriteHasSecret`, RemoteSpec => Spec, RemoteSpec => `ImplementsCeremony` | `ApiAssumption`, `RemoteAssumption`: absent and old host keys are not among the secrets |
| `ProvisioningProofs` | types, `NamedKeysAreProvisioned`, `MixesLocalEntropy`, `MismatchNeedsTwoCommits`, `SoloEntropy`, ProvSpec => RemoteSpec, ProvSpec => `ImplementsCeremony` | both, and `LocalAssumption`: a connection is a local run and an endpoint, and carries that run's request |
| `SecureBootProofs` | types, `SignedByHierarchy`, `OwnersAuthorised`, `SuccessIsComplete`, `MenuRequested` | `SecureBootAssumption`: requests are of their type, the sentinels are not values |
| `LinkSelectProofs` | types, `CleanBeforeSetup`, `FastestFirst`, `TestedAreWired` | `LinkAssumption`: links 1..N, some of them bonds; a speed is an integer or unreadable |
| `RemoteConfigProofs` | types, `TornRecordWasReported`, `URLsWereChecked`, `GatewayWasChecked`, Spec => `ImplementsHostRecord` | `ConfigAssumption`: the options are of their type |
| `HostGatewayProofs`, `FunctionsProofs` | the six properties of `functions` | `AddressAssumption`: two address sizes and the bits of the mapped prefix; `KeyFileAssumption`: the lengths that make the padding constant |

### ApiServerProofs

Six invariants of `Spec`. `TypeInv` is the type invariant with two parts about what a
goroutine holds: a handler between `derive2` and `send` has a secret
(`HoldsSecret`) and a handler's request is the one of its endpoint, that passed
the checks (`HandlerOfRequest`). The others are proved relative to it:

* `TypeCorrect`: TypeOK.
* `ReturnHasUDS`: CleanReturnHasUDS is not inductive. `SecretBeforeStop` is: a
  token, a shutdown without an error of the listener, or a handler about to
  send implies that UDS is set.
* `AnswerStops`: CommitOKStopsServer is about the response that the peer got;
  `TokenBeforeAnswer` says the same of the one that waits in the buffer, and is
  inductive: the one who takes the token is `await`, which leaves `select` by it.
* `Drains`: `Drained` says it of `await = "done"` instead of `run = "done"`; a
  connection that is still open cannot turn up later, because Shutdown has
  begun, and one whose response is in the buffer is active.
* `UDSProvenance`: `SecretsDerived` speaks of every handler's secret and of the
  shared entropy, so that a step of one connection is compared with all of them
  (`RequestStays`, `SentStays`, `DerivedStays`).
* `SoleCommit`: `Winner` relates UDS to the set of published secrets.

### RemoteRunProofs

The main goroutine only reads what the server writes, so every step of `RemoteRun` is
one of `ApiServer` or a stutter (`RemoteRunsServer`), and the invariants above
(`ServerInv`) hold of the program. `MainInv` adds what the main goroutine may rely
on: from the confirmation on there is a secret, and the one it is about to
write was offered. It needs `SecretBeforeStop` at the step where `Run` returns and
`Winner` for the claim that UDS is a published secret whenever it is not nil.

* `WriteFindsSecret`: WriteHasSecret, a part of `MainInv`.
* `RemoteRefinesCeremony`: a step that publishes a secret is the ceremony's offer,
  the confirmation and the write are its own, and everything else stutters. A
  handler that outlives `Run` may still offer a key then; the ceremony allows it.

### ProvisioningProofs

A local run is one of the peers that `RemoteRun` leaves open: `ProvRunsRemote`, with
the request of a connection being the one its owner sends (`OwnRequests`). Nothing is
proved of the server twice. `ProvInv` adds:

* `SentInOrder`, where a local run is says what it has read and sent, and what was
  answered: `KeysBeforeCommit`.
* `EntropyInv`: the two halves of the buffer are written one after the other and
  read one after the other, and MixesLocalEntropy alone says nothing of a handler
  between its two reads. What is inductive is that once add-data was answered, and
  so from the first commit on, neither half is the zero buffer again, even while
  another handler overwrites it: `PrintedKeysAreMixed`.
* `ShownInv`: what the operator at the platform is shown was sent by a local run.
* `MismatchIsAnotherCommit` needs no new invariant: what was printed was published,
  and `Winner` says that the one kept is the printed one or another published one.
* `SoloSeesItsEntropy`: of a run that is alone, all entropy in the system is its own
  (from `SecretsDerived` and `ShownInv`).
* `ProvRefinesCeremony`: from `ProvRunsRemote` and `RemoteRefinesCeremony`.

### SecureBootProofs

`HandlerInv` is proved as a whole, because its parts need each other. `Written` is
what a handler has enrolled when it is at a given variable. `OwnerInv` is about the
owners: Setup Mode is the absence of PK, and whoever wrote anything wrote a PK first
(`PKFirst`); a descriptor that was not there at boot is that of a request that wrote
it (`FromRequests`); while no PK replaced another one, all owners have the
platform's (`SameOwner`). A first PK (`StepPK`, in Setup Mode) is that of the only
request that wrote anything; every later write is signed by a key of a request
before it, which puts its own request into every group that has to be let in.
`HierarchyHolds` and `OwnersTraceBack` are the parts of `OwnerInv` that the run
checks. `KeptAlone` is `SuccessIsComplete` before the 200: a variable that one handler
alone wrote holds what it wrote. `MenuInv` is a second invariant: a handler says that
it requested the menu only when it returns, and no other handler clears the bit.

### LinkSelectProofs

* `SetupStartsClean`: after the last reset every link was reset.
* `FastestIsFirst`: the sort is a CHOOSE, so that it has to be shown that a sorted
  sequence of the links exists. The usual proof is an induction over the set, which
  is out of reach here (below). Instead the sequence is given outright: `Precedes` is
  a strict total order (`PrecedesTotal`), and the place of a link is the number of
  links that do not come after it (`SortedExists`). `Chosen` carries the order from
  the end of the tests to the configuration.
* `TestIsOfTheLink`: TestedAreWired is about pings in the past and not inductive.
  `RouteGuards` says why only the tested link can answer: while links are tested, one
  that is up and has an address, and had none at the start, has the default route,
  and while one is pinged there is one route. When a reset fails and its error is
  dropped, a link that keeps its address keeps its route, and the next `RouteAdd` fails.

### RemoteConfigProofs

`WriteOrder` is the invariant of the two writes: `InOrder` has
told <= config.by <= name.by <= runs, and `Progress` what of this is strict at the
current step (before the first write the name is of an earlier execution, between
the writes only the configuration is). Neither half is inductive alone: the
guards of `Complete` and `Report` in `HostRecord` come from `Progress`, which needs
`InOrder` when an execution starts.

* `TornIsReported`: TornRecordWasReported.
* `RemoteConfigRefinesHostRecord`: `RecordStep` maps the two writes and the report
  to the three steps of `HostRecord` and all others to stuttering.
* `URLsAreChecked`, `GatewayIsChecked`: the properties speak of a configuration once it
  is written. `UnderWay` says the same of the loop of `commitConfig` (the URLs so far
  have been answered) and of `static.Config` (the gateway parses); at the
  write the one becomes the other. The gateway is `GatewayTheorem` of
  `HostGatewayProofs`, applied to the options of the execution.

### HostGatewayProofs, FunctionsProofs

The functions are proved right for any width of a byte and of the two kinds of
addresses, so for the real ones. Nothing is enumerated: the proof of MaxHost
goes through the quotient and remainder of an address by the size of its network.

* The library's induction theorems take an operator as a parameter and cannot be
  used with the provers at hand. `SetInduction` replaces them: a set of naturals
  with 0 and all successors is Nat, because the numbers up to n that are missing
  would map one to one into a smaller set. `Pow2Def` (the recursive function exists),
  `Pow2Sum` and `Pow2Grows` rest on it.
* `MaxHostTheorem`: `FromIntBytes` says how many bytes a big integer keeps, and
  `LastUsableIs` where the reference is in its block of addresses.
* `GatewayTheorem`: a given gateway was looked for. For a computed one,
  `FirstIncluded` and `LastIncluded` show that the arithmetic does not leave the
  network. The difficult case is `To4`: an IPv6 network might hold an embedded IPv4
  address next to others. `MappedBlock` excludes it for all networks but those
  within the embedded addresses; this is where `Mapped` has to be odd.
* `AcceptedParses` (of any gateway but one in CIDR notation), `OmittedMaskTheorem`,
  `TypedTheorem`: as in the run; a typed text
  is a sequence of any length over any characters.
* `FileIsRead`: `At(p, following, left)` describes a parser in a file that is cut
  short: it has the first `left` bytes of what should follow, or has failed when
  that number is negative. Every field takes as many bytes off as it was written with
  (`TakeBytesAt`, `TakeStringAt`), so that the missing bytes are missing from the last
  string, the private section, and reading it fails. Keys are of any content, with
  lengths that fit 32 bits.
* `SectionIsPadded`: the 119 of `addPad` and the check before it make full blocks.
* `FunctionsProofs` states the six properties of the run as theorems of its
  specification, from `InputOK`: every input is one that the functions can get.

### Only model-checked

`RunTerminates`, `CommitsFinish`, `LocalEnds` and `PrintedEndsListen`: liveness under
fairness needs ENABLED, which the prover does not support. The four violated
statements are TLC's counterexamples.

## Not modelled, and the plan

Next, in this order:

1. Invariants of the abstract specifications: what `KeyCeremony` (one write, after the
   confirmation) and `HostRecord` promise, as theorems about them, that the
   refinements carry over to the programs.
2. The safety halves of the liveness properties: that a goroutine which is not over
   always has a step that does not depend on its peer, without ENABLED.

Left out, and why:

* Cryptography: HKDF, TLS, X.509 and Ed25519 are values that remember what they
  were derived from.
* How long things take: a HEAD request, a wait for a link and a ping end or fail
  in one step. The goroutines of `Pinger` (external package) are its answer.
* The port, `-i` and `-o` of both `run` commands, DNS servers, bonding mode,
  description: checked, or copied, before or beside any state.
* The registration of flags, usage texts, `cmd/stprov`, `internal/version`,
  `internal/hexify`, `integration/serve-http`, logging: formatting and dispatch.
* `internal/network/client.go`: one http.Client; its failure is one of `Fails`.
* PEM, JSON and the names of the EFI variables: a variable holds a value that is
  read as it was written. `HostConfigEFI` has no caller in the repository.
