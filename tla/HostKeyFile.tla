----------------------------- MODULE HostKeyFile -----------------------------
(***************************************************************************)
(* Package internal/ssh: the OpenSSH private key format in which the host  *)
(* key is kept in the EFI variable STHostKey, write() and read().          *)
(*                                                                         *)
(* A file is a sequence of bytes.  The PEM armour, which has its own       *)
(* beginning and end, is left out; ssh.Marshal and ssh.Unmarshal are the   *)
(* wire format of RFC 4251.                                                *)
(***************************************************************************)
EXTENDS Integers, Sequences, SequencesExt

CONSTANTS
  PubSize, SeedSize,  \* ed25519: 32 and 32, together PrivateKeySize
  Magic, None, Algo   \* authMagic, "none", "ssh-ed25519"

Byte == 0..255

ASSUME KeyFileAssumption ==
  /\ Magic \in Seq(Byte) /\ None \in Seq(Byte) /\ Algo \in Seq(Byte) /\ Len(None) = 4
  /\ PubSize \in Nat /\ SeedSize \in Nat
  /\ Len(Algo) + PubSize + (SeedSize + PubSize) + 3 * 4 = 119  \* see addPad

\* HostKey: Private is the seed and the public key, in this order
HostKey(seed, pub, check, comment) ==
  [seed |-> seed, pub |-> pub, check |-> check, comment |-> comment]

UInt32(n) ==
  <<n \div (256 * 256 * 256), (n \div (256 * 256)) % 256, (n \div 256) % 256, n % 256>>

WireString(bytes) == UInt32(Len(bytes)) \o bytes
-----------------------------------------------------------------------------
(* write *)

\* Faulty variant: the length of the comment is left out
AddPadWithoutComment(comment) ==
  LET k == CHOOSE k \in 0..7 : (119 + 4 + k) % 8 = 0
  IN  [i \in 1..k |-> i]

\* addPad: the bytes 1, 2, ..., k, for the first k that is enough
AddPad(comment) ==
  LET k == CHOOSE k \in 0..7 : (119 + 4 + Len(comment) + k) % 8 = 0
  IN  [i \in 1..k |-> i]

Ed25519KeyBody(hk) ==
  WireString(hk.pub) \o WireString(hk.seed \o hk.pub) \o WireString(hk.comment) \o AddPad(hk.comment)

\* keyBody, the check twice in clear
KeyBody(hk) == UInt32(hk.check) \o UInt32(hk.check) \o WireString(Algo) \o Ed25519KeyBody(hk)

Write(hk) ==
  Magic \o WireString(None) \o WireString(None) \o WireString(<<>>) \o UInt32(1)
    \o WireString(WireString(Algo) \o WireString(hk.pub)) \o WireString(KeyBody(hk))
-----------------------------------------------------------------------------
(* read *)

\* A parser takes a value off what the one before it left, and fails after it
Failed == [ok |-> FALSE, value |-> <<>>, rest |-> <<>>]
Bytes(b) == [ok |-> TRUE, value |-> <<>>, rest |-> b]

TakeBytes(p, n) ==
  IF ~p.ok \/ Len(p.rest) < n THEN Failed
  ELSE [ok |-> TRUE, value |-> SubSeq(p.rest, 1, n), rest |-> SubSeq(p.rest, n + 1, Len(p.rest))]

ValueOf(b) == ((b[1] * 256 + b[2]) * 256 + b[3]) * 256 + b[4]

TakeUInt32(p) == TakeBytes(p, 4)
TakeCounted(size) == IF size.ok THEN TakeBytes(size, ValueOf(size.value)) ELSE Failed
TakeString(p) == TakeCounted(TakeUInt32(p))

NoKey == HostKey(<<>>, <<>>, 0, <<>>)

\* The fields in their order; NumKeys, PubKey and Pub are read and not looked at
Read(file) ==
  LET kdf     == TakeString(TakeString(Bytes(SubSeq(file, Len(Magic) + 1, Len(file)))))
      cipher  == TakeString(Bytes(SubSeq(file, Len(Magic) + 1, Len(file))))
      block   == TakeString(TakeString(TakeUInt32(TakeString(kdf))))
      check1  == TakeUInt32(Bytes(block.value))
      check2  == TakeUInt32(check1)
      type    == TakeString(check2)
      priv    == TakeString(TakeString(type))
      comment == TakeString(priv)
      wellFormed ==
        /\ IsPrefix(Magic, file)
        /\ block.ok /\ block.rest = <<>> /\ cipher.value = None /\ kdf.value = None
        /\ comment.ok /\ check1.value = check2.value /\ type.value = Algo
        /\ Len(priv.value) = SeedSize + PubSize
        /\ \A i \in DOMAIN comment.rest : comment.rest[i] = i
  IN  IF wellFormed
      THEN HostKey(SubSeq(priv.value, 1, SeedSize), SubSeq(priv.value, SeedSize + 1, SeedSize + PubSize),
                   ValueOf(check1.value), comment.value)
      ELSE NoKey
-----------------------------------------------------------------------------
(* Properties *)

\* A file that was written is read as the key it was made of; one that was cut
\* short anywhere is an error, and never another key.
ReadsWhatWasWritten(hk, size) ==
  LET file == Write(hk)
  IN  Read(SubSeq(file, 1, size)) = IF size >= Len(file) THEN hk ELSE NoKey

\* PROTOCOL.key of OpenSSH: the private section is padded to the block size of
\* the cipher, 8 for "none", with fewer bytes than a block.  addPad does not see
\* the section; it counts 119 bytes for what precedes the comment.
PaddedToBlocks(hk) ==
  LET unpadded == Len(KeyBody(hk)) - Len(AddPad(hk.comment))
  IN  Len(KeyBody(hk)) % 8 = 0 /\ Len(KeyBody(hk)) - unpadded < 8
=============================================================================
