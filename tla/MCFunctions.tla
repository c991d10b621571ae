----------------------------- MODULE MCFunctions -----------------------------
(***************************************************************************)
(* HostGateway and HostKeyFile on enumerated inputs.  Bytes of addresses   *)
(* have two bits; an IPv4 address has two of them, an IPv6 address four.   *)
(***************************************************************************)
EXTENDS HostGateway, HostKeyFile

\* Fifteen, four and eleven bytes
MCMagic == [i \in 1..15 |-> 100 + i]
MCNone  == <<110, 111, 110, 101>>
MCAlgo  == [i \in 1..11 |-> i]

VARIABLE input

\* Addresses for the options with a gateway: every IPv4 address; IPv6 ones with
\* two leading zero bytes, embedded ones, and ordinary ones
Chosen == {a \in Address : a.bytes = V4 \/ a.n \in {1, 6, 7, 49, 54, 84, 150}}
Given == [text : Chosen \cup {Malformed}, suffix : {"none", "full", "other"}] \cup {NoGateway}

\* Comments look like padding: 1, 2, 3
Comments == {[i \in 1..n |-> i] : n \in 0..8} \cup {[i \in 1..25 |-> i]}
HostKeys ==
  {HostKey([i \in 1..SeedSize |-> i], [i \in 1..PubSize |-> 255], check, comment) :
     check \in {0, 1}, comment \in Comments}

NetworkInput ==
  \E a \in Address : \E ones \in 0..Bits(a) :
    input' = [kind |-> "network", host |-> [text |-> a, ones |-> ones]]

DefaultInput ==
  \E a \in Address, force, last \in BOOLEAN : \E ones \in 0..Bits(a) :
    input' = [kind |-> "options", host |-> [text |-> a, ones |-> ones],
              gateway |-> NoGateway, force |-> force, last |-> last]

GatewayInput ==
  \E a \in Chosen, g \in Given, force, last \in BOOLEAN : \E ones \in 0..Bits(a) :
    input' = [kind |-> "options", host |-> [text |-> a, ones |-> ones],
              gateway |-> g, force |-> force, last |-> last]

AllowedInput ==
  \E a \in Address : input' = [kind |-> "allowed", text |-> a]

TextInput ==
  \E n \in 0..5 : \E text \in [1..n -> {"1", ":", "m", "/"}] :
    input' = [kind |-> "text", text |-> text]

KeyInput ==
  \E hk \in HostKeys : \E size \in 0..Len(Write(hk)) :
    input' = [kind |-> "key", key |-> hk, size |-> size]

Init == input = [kind |-> "none"]

Next ==
  /\ input.kind = "none"
  /\ NetworkInput \/ DefaultInput \/ GatewayInput \/ AllowedInput \/ TextInput \/ KeyInput

Spec == Init /\ [][Next]_input

\* MaxHost, on every network
MaxHostIsLastUsable ==
  input.kind = "network" => LastUsableOrShortened(Network(input.host))

\* ValidateHostAndGateway without -f
GatewayInNetwork ==
  input.kind = "options" => GatewayWithinNetwork(input.host, input.gateway, input.last)

\* The two parsers that a gateway goes through, one that appends a prefix length and
\* one that takes none, agree on a computed gateway, of any bytes, and on an address
GatewayParses ==
  input.kind = "options" /\ input.gateway.suffix # "full" =>
    AcceptedGatewayParses(input.host, input.gateway, input.force, input.last)

\* "'m' as a replacement for the '/' in CIDR notation addresses.  This is possible
\* for the arguments to the flags -i and -g": they agree on CIDR notation as well
CIDRGatewayParses ==
  input.kind = "options" /\ input.gateway.suffix = "full" =>
    AcceptedGatewayParses(input.host, input.gateway, input.force, input.last)

\* DecodeSafeCIDR on what the operator typed
TypedIsMeant == input.kind = "text" => TypedEqualsMeant(input.text)

\* parseAllowedNets and verifyNetwork
OmittedMask == input.kind = "allowed" => OmittedMaskIsOneAddress(input.text)

\* read() of what write() and addPad made, of the whole file or a part of it
KeyFileFormat ==
  input.kind = "key" =>
    ReadsWhatWasWritten(input.key, input.size) /\ PaddedToBlocks(input.key)
=============================================================================
