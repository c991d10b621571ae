------------------------------ MODULE LinkSelect ------------------------------
(***************************************************************************)
(* How "stprov remote static" and "stprov remote dhcp" come by a network   *)
(* interface: static.Config, dhcp.Config, TestInterfaces, ResetInterfaces  *)
(* and DefaultInterfaces, on the links of the platform.                    *)
(*                                                                         *)
(* Any call into the kernel may fail.  The program may be run again on the *)
(* links as an earlier execution, successful or not, left them.  A link is *)
(* its place in the order of net.Interfaces(), loopback left out.          *)
(***************************************************************************)
EXTENDS Integers, Sequences, FiniteSets, Functions

CONSTANTS
  N,          \* the number of links
  Bond,       \* those whose name begins with "bond"
  Speeds,     \* what /sys/class/net/*/speed may hold, in Mbit/s
  Unreadable, \* ... or that it holds nothing of the kind
  MaxRuns     \* bound on the executions of the program

Link == 1..N

ASSUME LinkAssumption ==
  N \in Nat \ {0} /\ Bond \subseteq Link /\ Speeds \subseteq Int \cup {Unreadable} /\ MaxRuns \in Nat

VARIABLES
  addr,     \* per link: its addresses, "host" (HOST_ADDR) or "other"
  up,       \* per link: it is administratively up
  route,    \* the links that the default route of confLink was added to
  wired,    \* the links that lead to the gateway
  speed,    \* per link that may be tested: its file /sys/class/net/*/speed
  pc,       \* where the program is; "idle" is outside of it
  mode,     \* the options: -A, -B, none of them, or -m, -I or -b
  cur,      \* the link ForEachInterface is at
  tested,   \* testedDevices, which the order of the links orders
  selected, \* the interfaces of the host configuration, first the chosen one
  leftover, \* the links that were up with an address when it was started (history)
  runs      \* the executions so far

kernel  == <<addr, up, route>>
world   == <<wired, speed>>
program == <<mode, leftover, runs>>
vars    == <<kernel, world, program, pc, cur, tested, selected>>

Init ==
  /\ addr \in [Link -> {{}, {"other"}}] /\ up \in [Link -> BOOLEAN] /\ route = {}
  /\ wired \in SUBSET Link /\ speed \in [Link \ Bond -> Speeds]
  /\ pc = "idle" /\ mode = "guess" /\ cur = 1 /\ tested = {} /\ selected = <<>>
  /\ leftover = {} /\ runs = 0

\* Config, after the options were validated; dhcp.Config does not test links
Start(m, given) ==
  /\ pc = "idle" /\ runs < MaxRuns
  /\ runs' = runs + 1 /\ mode' = m
  /\ leftover' = {l \in Link : up[l] /\ addr[l] # {}}
  /\ cur' = 1 /\ tested' = {}
  /\ pc' = CASE m \in {"-A", "-B"} -> "visit" [] m = "guess" -> "guess" [] m = "given" -> "reset"
  /\ selected' = IF m = "given" THEN <<given>> ELSE <<>>
  /\ UNCHANGED <<kernel, world>>
-----------------------------------------------------------------------------
(* TestInterfaces *)

\* A bond, or a link with any address, is not tested
Skip ==
  /\ pc = "visit" /\ cur <= N
  /\ cur \in Bond \/ addr[cur] # {}
  /\ cur' = cur + 1
  /\ UNCHANGED <<kernel, world, program, pc, tested, selected>>

\* An error of AddrList counts as no address: a link that has some may be tested
Testable == pc = "visit" /\ cur <= N /\ cur \notin Bond

\* Faulty variant: an error of RouteAdd is ignored
ConfLinkIgnoresRoute ==
  /\ Testable
  /\ addr' = [addr EXCEPT ![cur] = @ \cup {"host"}]
  /\ up' = [up EXCEPT ![cur] = TRUE]
  /\ route' = route \cup {cur}
  /\ pc' = "ping"
  /\ UNCHANGED <<world, program, cur, tested, selected>>

\* The kernel has one default route of this priority, and an address once: a
\* second one is EEXIST
ConfLink ==
  /\ Testable /\ route = {} /\ "host" \notin addr[cur]
  /\ addr' = [addr EXCEPT ![cur] = @ \cup {"host"}]
  /\ up' = [up EXCEPT ![cur] = TRUE]
  /\ route' = {cur}
  /\ pc' = "ping"
  /\ UNCHANGED <<world, program, cur, tested, selected>>

\* AddrAdd, LinkSetUp or RouteAdd fails: what was done stays, the error ends
\* ForEachInterface, and TestInterfaces drops it
ConfLinkFails ==
  /\ Testable
  /\ \/ UNCHANGED <<addr, up>>
     \/ addr' = [addr EXCEPT ![cur] = @ \cup {"host"}] /\ up' \in {up, [up EXCEPT ![cur] = TRUE]}
  /\ pc' = "sort"
  /\ UNCHANGED <<route, world, program, cur, tested, selected>>

\* Every link was visited, or listing the links failed
VisitEnds ==
  /\ pc = "visit"
  /\ pc' = "sort"
  /\ UNCHANGED <<kernel, world, program, cur, tested, selected>>

\* The links on which the kernel may send a packet for the gateway: it is in the
\* network of HOST_ADDR, and may be in that of another address, as of DHCP before
Egress == {l \in Link : up[l] /\ addr[l] # {}}

\* WaitForDeviceEvent returns on the first event of any link, or on none: the
\* gateway may answer, or not yet
TestGateway ==
  /\ pc = "ping"
  /\ tested' \in {tested} \cup {tested \cup {cur} : l \in Egress \cap wired}
  /\ pc' = "wipe"
  /\ UNCHANGED <<kernel, world, program, cur, selected>>

\* ResetInterfaces gets to link stop, some of whose addresses are left; stop
\* is N + 1 when no call failed.  A link that goes down loses its route; so may
\* one that loses its last address.
Reset(stop, left) ==
  /\ addr' = [l \in Link |-> IF l < stop THEN {} ELSE IF l = stop THEN left ELSE addr[l]]
  /\ up' = [l \in Link |-> l >= stop /\ up[l]]
  /\ LET stays == {l \in route : l >= stop}
     IN  route' \in {stays, {l \in stays : addr'[l] # {}}}

\* ResetInterfaces() without a look at its error
Wipe ==
  /\ pc = "wipe"
  /\ \/ Reset(N + 1, {})
     \/ \E stop \in Link : \E left \in SUBSET addr[stop] : Reset(stop, left)
  /\ cur' = cur + 1 /\ pc' = "visit"
  /\ UNCHANGED <<world, program, tested, selected>>

\* Bits per second; a driver reports -1 when it does not know
GetDeviceSpeed(l) == IF speed[l] = Unreadable THEN -1 ELSE 1000000 * speed[l]

\* Faulty variant: ascending
ByAscendingSpeed(links) ==
  LET place == 1..Cardinality(links)
  IN  CHOOSE order \in [place -> links] : \A i, j \in place : i < j =>
        \/ GetDeviceSpeed(order[i]) < GetDeviceSpeed(order[j])
        \/ GetDeviceSpeed(order[i]) = GetDeviceSpeed(order[j]) /\ order[i] < order[j]

\* A stable sort: links of one speed stay in the order in which they were tested
Precedes(a, b) ==
  \/ GetDeviceSpeed(a) > GetDeviceSpeed(b)
  \/ GetDeviceSpeed(a) = GetDeviceSpeed(b) /\ a < b

\* linksByDescendingSpeed
ByDescendingSpeed(links) ==
  LET place == 1..Cardinality(links)
  IN  CHOOSE order \in [place -> links] : \A i, j \in place : i < j => Precedes(order[i], order[j])

\* The fastest, or all of them for bond0, which takes the first one's address
Choose ==
  /\ pc = "sort" /\ tested # {}
  /\ selected' = IF mode = "-B" THEN ByDescendingSpeed(tested)
                 ELSE <<Head(ByDescendingSpeed(tested))>>
  /\ pc' = "reset"
  /\ UNCHANGED <<kernel, world, program, cur, tested>>

\* "found no good devices. Defaulting to next best effort..."
NoGoodDevices ==
  /\ pc = "sort" /\ tested = {} /\ pc' = "guess"
  /\ UNCHANGED <<kernel, world, program, cur, tested, selected>>
-----------------------------------------------------------------------------
(* DefaultInterfaces, and the rest of static.Config *)

\* Faulty variant: the number of candidates is not checked
GuessUnchecked ==
  /\ pc = "guess"
  /\ \E fails \in SUBSET Link : up' = [l \in Link |-> up[l] \/ l \notin fails]
  /\ selected' \in {<<>>} \cup {<<l>> : l \in {l \in Link \ Bond : up'[l]}}
  /\ pc' = "reset"
  /\ UNCHANGED <<addr, route, world, program, cur, tested>>

\* Every link is set up, on a best-effort basis, and the first one that is
\* running by then is taken, or there is none
Guess ==
  /\ pc = "guess"
  /\ \E fails \in SUBSET Link : up' = [l \in Link |-> up[l] \/ l \notin fails]
  /\ \/ \E l \in Link \ Bond : up'[l] /\ selected' = <<l>> /\ pc' = "reset"
     \/ pc' = "idle" /\ UNCHANGED selected
  /\ UNCHANGED <<addr, route, world, program, cur, tested>>

\* A malformed MAC, host or gateway address is an error before the reset
Malformed ==
  /\ pc = "reset" /\ pc' = "idle"
  /\ UNCHANGED <<kernel, world, program, cur, tested, selected>>

\* ResetInterfaces succeeds
Resets ==
  /\ pc = "reset" /\ Reset(N + 1, {})
  /\ pc' = "setup"
  /\ UNCHANGED <<world, program, cur, tested, selected>>

\* Faulty variant: the error is dropped here as well
ResetFailsYetGoesOn ==
  /\ pc = "reset"
  /\ \E stop \in Link : \E left \in SUBSET addr[stop] : Reset(stop, left)
  /\ pc' = "setup"
  /\ UNCHANGED <<world, program, cur, tested, selected>>

ResetFails ==
  /\ pc = "reset"
  /\ \E stop \in Link : \E left \in SUBSET addr[stop] : Reset(stop, left)
  /\ pc' = "idle"
  /\ UNCHANGED <<world, program, cur, tested, selected>>

\* SetupNetworkInterface of stboot: the chosen link gets HOST_ADDR or, by DHCP,
\* any address; with a bond, bond0 gets it and its slaves are up.  The priority
\* of its route may or may not be the one of confLink.
Setup ==
  /\ pc = "setup"
  /\ up' = [l \in Link |-> up[l] \/ l \in Range(selected)]
  /\ LET l == Head(selected) IN
       IF mode = "-B" /\ tested # {} THEN UNCHANGED <<addr, route>>
       ELSE addr' \in {[addr EXCEPT ![l] = {a}] : a \in {"host", "other"}} /\ route' \in {{}, {l}}
  /\ pc' = "idle"
  /\ UNCHANGED <<world, program, cur, tested, selected>>

TestInterfaces ==
  Skip \/ ConfLink \/ ConfLinkFails \/ VisitEnds \/ TestGateway \/ Wipe

Config ==
  \/ \E m \in {"-A", "-B", "guess"} : Start(m, 1)
  \/ \E l \in Link : Start("given", l)
  \/ Choose \/ NoGoodDevices \/ Guess \/ Malformed \/ Resets \/ ResetFails \/ Setup

Next == TestInterfaces \/ Config

Spec == Init /\ [][Next]_vars
-----------------------------------------------------------------------------
(* Properties *)

\* An interface is selected by the time one is needed: defaultMACs[0] and
\* devices[0] are there
TypeOK ==
  /\ addr \in [Link -> SUBSET {"host", "other"}]
  /\ up \in [Link -> BOOLEAN]
  /\ route \subseteq Link
  /\ pc \in {"idle", "visit", "ping", "wipe", "sort", "guess", "reset", "setup"}
  /\ cur \in 1..(N + 1)
  /\ tested \subseteq Link
  /\ selected \in Seq(Link)
  /\ pc \in {"reset", "setup"} => selected # <<>>

\* "-A: the interface guessing involves pinging the gateway": a link passes the
\* test only by its own packets, although the reset after the link before may
\* have failed, unnoticed, and left that one configured.  The exception is a link
\* that was configured when the program was started, which is skipped, and which
\* itself leads to the gateway.
TestedAreWired == leftover \cap wired = {} => tested \subseteq wired

\* Whatever TestInterfaces and DefaultInterfaces left half-configured is gone
\* when the configuration is applied to the selected interface.
CleanBeforeSetup ==
  pc = "setup" => route = {} /\ \A l \in Link : addr[l] = {} /\ ~up[l]

\* The first interface is a fastest one of those that reached the gateway, where
\* one whose speed is not known, for either reason, is slower than any other; and
\* bond0 is made of all of them: a failing reset or a later link never takes back
\* what was tested.
Known(l) == speed[l] # Unreadable /\ speed[l] >= 0
FastestFirst ==
  pc = "setup" /\ tested # {} =>
    /\ Head(selected) \in tested
    /\ \A l \in tested : Known(l) => Known(Head(selected)) /\ speed[l] <= speed[Head(selected)]
    /\ mode = "-B" => Range(selected) = tested
=============================================================================
