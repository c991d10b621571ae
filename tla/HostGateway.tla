----------------------------- MODULE HostGateway -----------------------------
(***************************************************************************)
(* The host and gateway options of "stprov remote static": functions of    *)
(* package internal/options.                                               *)
(*                                                                         *)
(* An IP address is its number of bytes and their value, big-endian; so is *)
(* its text, which is IPv4, IPv6, or, with any other number of bytes,      *)
(* malformed: net.IP.String prints "?" and the bytes, netip "invalid IP".  *)
(* The IPv4 addresses are embedded in the IPv6 ones ("::ffff:10.0.0.1").   *)
(* A byte has ByteBits bits and addresses have V4 and V6 bytes: 8, 4, 16.  *)
(***************************************************************************)
EXTENDS Integers, FiniteSets, FiniteSetsExt, SequencesExt

CONSTANTS
  ByteBits,  \* bits of a byte: 8
  V4, V6,    \* bytes of an address: 4 and 16
  Mapped     \* the value of the bytes before an embedded IPv4 address: 0xffff

\* The powers of two, and how many values so many bytes have
Pow2[k \in Nat] == IF k = 0 THEN 1 ELSE 2 * Pow2[k - 1]
Values(bytes) == Pow2[ByteBits * bytes]

\* The bytes before an embedded IPv4 address begin with a zero byte and are odd
ASSUME AddressAssumption ==
  /\ ByteBits \in Nat \ {0} /\ V4 \in Nat \ {0} /\ V6 \in Nat /\ V4 < V6
  /\ Mapped \in 1..(Values(V6 - V4 - 1) - 1) /\ Mapped % 2 = 1

Bits(ip) == ByteBits * ip.bytes

Malformed == [bytes |-> 0, n |-> 0]
IsAddress(text) == text.bytes \in {V4, V6}
Address == UNION {[bytes : {b}, n : 0..(Values(b) - 1)] : b \in {V4, V6}}

To4(ip) ==
  IF ip.bytes = V6 /\ ip.n \div Values(V4) = Mapped
  THEN [bytes |-> V4, n |-> ip.n % Values(V4)] ELSE ip

\* net.IP.String
String(ip) == To4(ip)

Equal(a, b) == To4(a) = To4(b)

\* What net.ParseCIDR accepts
IsCIDR(cidr) == cidr.text \in Address /\ cidr.ones \in 0..Bits(cidr.text)

\* The network of net.ParseCIDR, and whether it has an address
Network(cidr) ==
  LET size == Pow2[Bits(cidr.text) - cidr.ones]
  IN  [ip |-> [bytes |-> cidr.text.bytes, n |-> cidr.text.n - (cidr.text.n % size)],
       ones |-> cidr.ones]

HostLen(network) == Bits(network.ip) - network.ones

Includes(network, ip) ==
  LET a == To4(network.ip)  b == To4(ip)
  IN  a.bytes = b.bytes /\ a.n \div Pow2[HostLen(network)] = b.n \div Pow2[HostLen(network)]

\* netip.Addr.Next: after the last address comes the zero Addr
NextAddr(ip) ==
  IF ip.n + 1 < Values(ip.bytes) THEN [ip EXCEPT !.n = @ + 1] ELSE Malformed
-----------------------------------------------------------------------------
(* MaxHost *)

\* big.Int.Bytes: no leading zero bytes
FromInt(n) ==
  [bytes |-> CHOOSE k \in 0..V6 : n < Values(k) /\ \A j \in 0..(k - 1) : n >= Values(j), n |-> n]

\* The network part is zero where the host part is all ones: Or adds them
AllOnes(network) == network.ip.n + Pow2[HostLen(network)] - 1

\* Faulty variant: a prefix of that length in IPv6 gets the exception as well
MaxHostAnyFamily(network) ==
  IF HostLen(network) = 0 THEN String(network.ip)
  ELSE IF network.ones = V4 * ByteBits - 1
       THEN String(FromInt(AllOnes(network))) ELSE String(FromInt(AllOnes(network) - 1))

MaxHost(network) ==
  IF HostLen(network) = 0 THEN String(network.ip)
  ELSE IF network.ones = V4 * ByteBits - 1 /\ network.ip.bytes = V4
       THEN String(FromInt(AllOnes(network))) ELSE String(FromInt(AllOnes(network) - 1))
-----------------------------------------------------------------------------
(* ValidateHostAndGateway *)

\* -g: a text and what follows it: nothing, "/32" or "/128" after an address of
\* that length, or something else; the empty option is NoGateway
NoGateway == [text |-> Malformed, suffix |-> "unset"]
Computed(text) == [text |-> text, suffix |-> "none"]

\* net.ParseCIDR(appendPrefixLength(gateway)) succeeds
ParsesWithPrefixLength(gateway) == IsAddress(gateway.text) /\ gateway.suffix # "other"

\* -g, or else the last address of the network (-x), or else the first one
Gateway(host, optGateway, optTryLast) ==
  IF optGateway # NoGateway THEN optGateway
  ELSE IF optTryLast THEN Computed(MaxHost(Network(host)))
  ELSE Computed(NextAddr(String(Network(host).ip)))

\* Faulty variant: a computed gateway is not parsed
RefusedIfGiven(host, given, gateway, optForce) ==
  \/ given /\ ~ParsesWithPrefixLength(gateway)
  \/ given /\ ~Includes(Network(host), gateway.text) /\ ~optForce
  \/ Equal(host.text, gateway.text) /\ ~optForce

\* Faulty variant: the gateway may be anywhere
RefusedIfEqual(host, given, gateway, optForce) ==
  \/ ~ParsesWithPrefixLength(gateway)
  \/ Equal(host.text, gateway.text) /\ ~optForce

\* Only a given gateway has to be in the network of the host
Refused(host, given, gateway, optForce) ==
  \/ ~ParsesWithPrefixLength(gateway)
  \/ given /\ ~Includes(Network(host), gateway.text) /\ ~optForce
  \/ Equal(host.text, gateway.text) /\ ~optForce

Error == [text |-> Malformed, suffix |-> "error"]

\* host is a CIDR that parses; with none, or another text, there is an error too
ValidateHostAndGateway(host, optGateway, optForce, optTryLast) ==
  LET gateway == Gateway(host, optGateway, optTryLast)
  IN  IF Refused(host, optGateway # NoGateway, gateway, optForce) THEN Error ELSE gateway

\* net.ParseIP in static.Config, which takes no prefix length
ParseGateway(gateway) == gateway.suffix = "none" /\ IsAddress(gateway.text)
-----------------------------------------------------------------------------
(* parseAllowedNets of "stprov remote run" *)

\* Faulty variant: one default for both families
AllowedNetOneDefault(text, ones) ==
  Network([text |-> text, ones |-> IF ones # -1 THEN ones ELSE V4 * ByteBits])

\* -a, with -1 for a mask that was omitted.  An IPv4 address that is written in
\* IPv6 gets the "/32" too, and is then parsed as an IPv6 network.
AllowedNet(text, ones) ==
  Network([text |-> text,
           ones |-> IF ones # -1 THEN ones ELSE ByteBits * To4(text).bytes])
-----------------------------------------------------------------------------
(* DecodeSafeCIDR, on a text as the sequence of its characters *)

\* Faulty variant: the first 'm'
DecodeFirst(cidr) ==
  LET i == SelectInSeq(cidr, LAMBDA c : c = "m")
  IN  IF Contains(cidr, "/") \/ i = 0 THEN cidr ELSE [cidr EXCEPT ![i] = "/"]

DecodeSafeCIDR(cidr) ==
  LET i == SelectLastInSeq(cidr, LAMBDA c : c = "m")
  IN  IF Contains(cidr, "/") \/ i = 0 THEN cidr ELSE [cidr EXCEPT ![i] = "/"]
-----------------------------------------------------------------------------
(* Properties *)

\* The last address of a network that is not its broadcast address; a network of
\* one address, and one of two in IPv4, have none.
LastUsable(network) ==
  LET size == Pow2[HostLen(network)]
      hosts == {network.ip.n + i : i \in 0..(size - 1)}
      isLast(n) == IF size = 1 \/ (size = 2 /\ network.ip.bytes = V4)
                   THEN n + 1 \notin hosts ELSE n + 1 \in hosts /\ n + 2 \notin hosts
  IN  [bytes |-> network.ip.bytes, n |-> CHOOSE n \in hosts : isLast(n)]

\* "We want the last usable IP": MaxHost returns the text of this address.  The
\* leading zero bytes that a big integer loses can make it another text, but then
\* one of fewer bytes: malformed, or an IPv4 address for an IPv6 network, never
\* an address of the network's own family that is not the last one.
LastUsableOrShortened(network) ==
  LET last == LastUsable(network)
  IN  \/ MaxHost(network) = String(last)
      \/ /\ MaxHost(network).bytes < network.ip.bytes
         /\ last.n < Values(last.bytes - 1)

\* Without -f, an accepted gateway is another address than the host's, in the
\* network of HOST_ADDR.  The code asks this of -g only; for a computed one it
\* holds except in a network of one address, and except for a last address that
\* lost its leading bytes.
GatewayWithinNetwork(host, optGateway, optTryLast) ==
  LET network == Network(host)
      gateway == ValidateHostAndGateway(host, optGateway, FALSE, optTryLast)
  IN  gateway # Error =>
        /\ ~Equal(gateway.text, host.text)
        /\ \/ Includes(network, gateway.text)
           \/ optGateway = NoGateway /\ ~optTryLast /\ HostLen(network) = 0
           \/ optGateway = NoGateway /\ optTryLast /\ gateway.text # String(LastUsable(network))

\* What ValidateHostAndGateway lets pass, forced or not, static.Config can parse
AcceptedGatewayParses(host, optGateway, optForce, optTryLast) ==
  LET gateway == ValidateHostAndGateway(host, optGateway, optForce, optTryLast)
  IN  gateway # Error => ParseGateway(gateway)

\* "If your input interface scrambles the '/' (slash) when typing, it is possible
\* to type 'm' as a replacement": the one '/' of a CIDR comes back, whatever stands
\* before it (no 'm' stands in a prefix length), and a typed '/' is left alone.
TypedEqualsMeant(text) ==
  LET slashes == {i \in 1..Len(text) : text[i] = "/"}
  IN  Cardinality(slashes) = 1 =>
        /\ DecodeSafeCIDR(text) = text
        /\ (\A i \in slashes : ~\E j \in (i + 1)..Len(text) : text[j] = "m") =>
             DecodeSafeCIDR(ReplaceAll(text, "/", "m")) = text

\* "If the subnet mask is omitted with the -a option, it defaults to /32 (IPv4) or
\* /128 (IPv6)": such a network has one address, and verifyNetwork lets pass
\* who has it, in either of its texts.  The text that an IPv4 address has in
\* IPv6 is the exception.
OmittedMaskIsOneAddress(text) ==
  To4(text) = text =>
    \A peer \in Address : Includes(AllowedNet(text, -1), peer) <=> Equal(text, peer)
=============================================================================
