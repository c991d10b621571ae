--------------------------- MODULE FunctionsProofs ---------------------------
(***************************************************************************)
(* What MCFunctions checks on the widths and inputs of its configuration,  *)
(* for any widths of bytes and addresses, and the file of a host key for   *)
(* any key.  For the options the theorems of HostGatewayProofs do the      *)
(* work, and the inputs are shown to be those they speak of.               *)
(***************************************************************************)
EXTENDS MCFunctions, HostGatewayProofs, SequenceTheorems

-----------------------------------------------------------------------------
(* The file of a host key *)

\* What four bytes can say
Word == {n \in Nat : n < 256 * 256 * 256 * 256}

\* A piece of a file
ByteString == Seq(Byte)

\* A key whose fields have lengths that fit the wire format
IsHostKey(hk) ==
  /\ hk = HostKey(hk.seed, hk.pub, hk.check, hk.comment)
  /\ hk.seed \in ByteString /\ Len(hk.seed) = SeedSize
  /\ hk.pub \in ByteString /\ Len(hk.pub) = PubSize
  /\ hk.check \in Word
  /\ hk.comment \in ByteString /\ Len(hk.comment) + 256 \in Word

\* A parser that has `left` bytes of what should follow, or has failed for want of them
At(p, following, left) ==
  IF left >= 0 THEN p.ok = TRUE /\ p.rest = SubSeq(following, 1, left) ELSE p = Failed

\* The length of bytes
LEMMA LenBytes ==
  ASSUME NEW a \in ByteString
  PROVE  Len(a) \in Nat
BY DEF ByteString

\* Concatenations of bytes
LEMMA ConcatBytes ==
  ASSUME NEW a \in ByteString, NEW b \in ByteString
  PROVE  a \o b \in ByteString /\ Len(a \o b) = Len(a) + Len(b)
BY DEF ByteString

\* The same, of three sequences
LEMMA ConcatThree ==
  ASSUME NEW a \in ByteString, NEW b \in ByteString, NEW c \in ByteString
  PROVE  (a \o b) \o c = a \o (b \o c)
BY ConcatAssociative DEF ByteString

\* Both halves of a concatenation, cut off somewhere
LEMMA CutConcat ==
  ASSUME NEW a \in ByteString, NEW b \in ByteString, NEW left \in 0..(Len(a) + Len(b))
  PROVE  LET cut == SubSeq(a \o b, 1, left)
         IN  /\ Len(cut) = left
             /\ left >= Len(a) =>
                  /\ SubSeq(cut, 1, Len(a)) = a
                  /\ SubSeq(cut, Len(a) + 1, Len(cut)) = SubSeq(b, 1, left - Len(a))
<1> USE DEF ByteString
<1> DEFINE cut == SubSeq(a \o b, 1, left)
<1>1. /\ a \o b \in ByteString /\ Len(a \o b) = Len(a) + Len(b)
      /\ \A i \in 1..(Len(a) + Len(b)) :
           (a \o b)[i] = IF i <= Len(a) THEN a[i] ELSE b[i - Len(a)]
  BY ConcatProperties
<1>2. /\ cut \in ByteString /\ Len(cut) = left
      /\ \A i \in 1..left : cut[i] = (a \o b)[i]
  BY <1>1
<1> HIDE DEF cut
<1>3. ASSUME left >= Len(a) PROVE SubSeq(cut, 1, Len(a)) = a
  <2>1. /\ SubSeq(cut, 1, Len(a)) \in ByteString /\ Len(SubSeq(cut, 1, Len(a))) = Len(a)
        /\ \A i \in 1..Len(a) : SubSeq(cut, 1, Len(a))[i] = cut[i]
    BY <1>2, <1>3
  <2>2. \A i \in 1..Len(a) : SubSeq(cut, 1, Len(a))[i] = a[i]
    BY <1>1, <1>2, <1>3, <2>1
  <2> QED BY <2>1, <2>2, SeqEqual
<1>4. ASSUME left >= Len(a)
      PROVE  SubSeq(cut, Len(a) + 1, Len(cut)) = SubSeq(b, 1, left - Len(a))
  <2> DEFINE x == SubSeq(cut, Len(a) + 1, Len(cut))
             y == SubSeq(b, 1, left - Len(a))
  <2>1. /\ x \in ByteString /\ Len(x) = left - Len(a)
        /\ \A i \in 1..(left - Len(a)) : x[i] = cut[i + Len(a)]
    BY <1>2, <1>4
  <2>2. /\ y \in ByteString /\ Len(y) = left - Len(a)
        /\ \A i \in 1..(left - Len(a)) : y[i] = b[i]
    BY <1>4
  <2> HIDE DEF x, y
  <2>3. ASSUME NEW i \in 1..Len(x) PROVE x[i] = y[i]
    <3>1. i \in 1..(left - Len(a)) /\ i + Len(a) \in 1..left /\ i + Len(a) \in 1..(Len(a) + Len(b))
      BY <1>4, <2>1
    <3>2. x[i] = (a \o b)[i + Len(a)]
      BY <1>2, <2>1, <3>1
    <3>3. (a \o b)[i + Len(a)] = b[i]
      BY <1>1, <3>1
    <3> QED BY <2>2, <3>1, <3>2, <3>3
  <2>4. x = y
    BY <2>1, <2>2, <2>3, SeqEqual
  <2> QED BY <2>4 DEF x, y
<1> QED BY <1>2, <1>3, <1>4 DEF cut

\* TakeBytes takes as many bytes as it is asked to, or fails
LEMMA TakeBytesAt ==
  ASSUME NEW a \in ByteString, NEW following \in ByteString,
         NEW left \in Int, left <= Len(a) + Len(following),
         NEW p, At(p, a \o following, left)
  PROVE  /\ At(TakeBytes(p, Len(a)), following, left - Len(a))
         /\ left >= Len(a) => TakeBytes(p, Len(a)).value = a
<1>1. CASE left < 0
  <2>1. p = Failed
    BY <1>1 DEF At
  <2>2. ~p.ok
    BY <2>1 DEF Failed
  <2> QED BY <1>1, <2>2 DEF At, TakeBytes
<1>2. CASE left >= 0
  <2>1. p.ok /\ p.rest = SubSeq(a \o following, 1, left)
    BY <1>2 DEF At
  <2>2. /\ Len(p.rest) = left
        /\ left >= Len(a) =>
             /\ SubSeq(p.rest, 1, Len(a)) = a
             /\ SubSeq(p.rest, Len(a) + 1, Len(p.rest)) = SubSeq(following, 1, left - Len(a))
    BY <1>2, <2>1, CutConcat
  <2>3. CASE left < Len(a)
    BY <2>2, <2>3 DEF At, TakeBytes
  <2>4. CASE left >= Len(a)
    <3>1. TakeBytes(p, Len(a)) =
            [ok |-> TRUE, value |-> a, rest |-> SubSeq(following, 1, left - Len(a))]
      <4>1. ~(~p.ok \/ Len(p.rest) < Len(a))
        BY <2>1, <2>2, <2>4
      <4> QED BY <2>2, <2>4, <4>1 DEF TakeBytes
    <3> QED BY <2>4, <3>1 DEF At
  <2> QED BY <2>3, <2>4
<1> QED BY <1>1, <1>2

\* UInt32 is four bytes, of which ValueOf makes the number again
LEMMA UInt32Value ==
  ASSUME NEW n \in Word
  PROVE  UInt32(n) \in ByteString /\ Len(UInt32(n)) = 4 /\ ValueOf(UInt32(n)) = n
<1>1. PICK a, b, c, d :
        a = n \div (256 * 256 * 256) /\ b = (n \div (256 * 256)) % 256
          /\ c = (n \div 256) % 256 /\ d = n % 256
  OBVIOUS
<1>2. n \in Nat /\ n < 4294967296
  BY SMT DEF Word
<1>3. a = n \div 16777216 /\ b = (n \div 65536) % 256
  BY <1>1, SMT
<1>4. a \in Byte /\ b \in Byte /\ c \in Byte /\ d \in Byte
  BY <1>1, <1>2, <1>3, SMT DEF Byte
<1>5. ((a * 256 + b) * 256 + c) * 256 + d = n
  BY <1>1, <1>2, <1>3, SMT
<1>6. UInt32(n) = <<a, b, c, d>>
  BY <1>1 DEF UInt32
<1> QED BY <1>4, <1>5, <1>6 DEF ValueOf, ByteString

\* TakeUInt32 takes the number that was written
LEMMA TakeUInt32At ==
  ASSUME NEW n \in Word, NEW following \in ByteString,
         NEW left \in Int, left <= 4 + Len(following),
         NEW p, At(p, UInt32(n) \o following, left)
  PROVE  /\ At(TakeUInt32(p), following, left - 4)
         /\ left >= 4 => TakeUInt32(p).value = UInt32(n)
<1>1. UInt32(n) \in ByteString /\ Len(UInt32(n)) = 4
  BY UInt32Value
<1> DEFINE bytes == UInt32(n)
<1> HIDE DEF bytes
<1>2. bytes \in ByteString /\ Len(bytes) = 4 /\ At(p, bytes \o following, left)
  BY <1>1 DEF bytes
<1>3. /\ At(TakeBytes(p, 4), following, left - 4)
      /\ left >= 4 => TakeBytes(p, 4).value = bytes
  <2>1. left <= Len(bytes) + Len(following)
    BY <1>2
  <2>2. /\ At(TakeBytes(p, Len(bytes)), following, left - Len(bytes))
        /\ left >= Len(bytes) => TakeBytes(p, Len(bytes)).value = bytes
    BY <1>2, <2>1, TakeBytesAt
  <2> QED BY <1>2, <2>2
<1>4. TakeUInt32(p) = TakeBytes(p, 4)
  BY Zenon DEF TakeUInt32
<1> QED BY <1>3, <1>4 DEF bytes

\* TakeString takes the string that was written
LEMMA TakeStringAt ==
  ASSUME NEW b \in ByteString, Len(b) \in Word, NEW following \in ByteString,
         NEW left \in Int, left <= 4 + Len(b) + Len(following),
         NEW p, At(p, WireString(b) \o following, left)
  PROVE  /\ At(TakeString(p), following, left - 4 - Len(b))
         /\ left >= 4 + Len(b) => TakeString(p).value = b
<1> DEFINE size == TakeUInt32(p)
<1>1. Len(b) \in Word
  OBVIOUS
<1>2. UInt32(Len(b)) \in ByteString /\ Len(UInt32(Len(b))) = 4 /\ ValueOf(UInt32(Len(b))) = Len(b)
  BY <1>1, UInt32Value
<1>3. WireString(b) \o following = UInt32(Len(b)) \o (b \o following)
  BY <1>2, ConcatThree DEF WireString
<1>4. b \o following \in ByteString /\ Len(b \o following) = Len(b) + Len(following)
  BY ConcatBytes
<1>5. /\ At(size, b \o following, left - 4)
      /\ left >= 4 => size.value = UInt32(Len(b))
  <2>1. left <= 4 + Len(b \o following) /\ At(p, UInt32(Len(b)) \o (b \o following), left)
    BY <1>3, <1>4
  <2> QED BY <1>1, <1>4, <2>1, TakeUInt32At
<1>6. TakeString(p) = IF size.ok THEN TakeBytes(size, ValueOf(size.value)) ELSE Failed
  <2>1. TakeString(p) = TakeCounted(size)
    BY Zenon DEF TakeString
  <2> QED BY Zenon, <2>1 DEF TakeCounted
<1> HIDE DEF size
<1>7. CASE left < 4
  <2>1. size = Failed
    BY <1>5, <1>7 DEF At
  <2>2. TakeString(p) = Failed
    BY <1>6, <2>1 DEF Failed
  <2>3. Len(b) \in Nat
    BY LenBytes
  <2>4. ~(left - 4 - Len(b) >= 0) /\ ~(left >= 4 + Len(b))
    BY <1>7, <2>3
  <2> HIDE DEF Failed
  <2> QED BY <2>2, <2>4 DEF At
<1>8. CASE left >= 4
  <2>1. size.ok /\ ValueOf(size.value) = Len(b)
    BY <1>2, <1>5, <1>8 DEF At
  <2>2. TakeString(p) = TakeBytes(size, Len(b))
    BY <1>6, <2>1
  <2>3. /\ At(TakeBytes(size, Len(b)), following, left - 4 - Len(b))
        /\ left - 4 >= Len(b) => TakeBytes(size, Len(b)).value = b
    BY <1>5, TakeBytesAt
  <2> QED BY <1>8, <2>2, <2>3
<1> QED BY <1>7, <1>8

\* What WireString makes of bytes
LEMMA WireStringBytes ==
  ASSUME NEW b \in ByteString, Len(b) \in Word
  PROVE  WireString(b) \in ByteString /\ Len(WireString(b)) = 4 + Len(b)
<1>1. UInt32(Len(b)) \in ByteString /\ Len(UInt32(Len(b))) = 4
  BY UInt32Value
<1> QED BY <1>1, ConcatBytes DEF WireString

\* The same, and what follows
LEMMA WireConcat ==
  ASSUME NEW b, NEW following, b \in ByteString, Len(b) \in Word, following \in ByteString
  PROVE  WireString(b) \o following \in ByteString
<1>1. WireString(b) \in ByteString
  BY WireStringBytes
<1> QED BY <1>1, ConcatBytes

\* TakeUInt32, when some bytes are missing at the end
LEMMA TakeCutUInt32 ==
  ASSUME NEW n \in Word, NEW following \in ByteString, NEW missing \in Nat,
         NEW p, At(p, UInt32(n) \o following, Len(UInt32(n) \o following) - missing)
  PROVE  /\ At(TakeUInt32(p), following, Len(following) - missing)
         /\ missing = 0 => TakeUInt32(p).value = UInt32(n)
<1> DEFINE left == 4 + Len(following) - missing
<1>1. Len(following) \in Nat
  BY LenBytes
<1>2. UInt32(n) \in ByteString /\ Len(UInt32(n)) = 4
  BY UInt32Value
<1>3. Len(UInt32(n) \o following) - missing = left
  <2>1. Len(UInt32(n) \o following) = Len(UInt32(n)) + Len(following)
    BY <1>2, ConcatBytes
  <2> QED BY <1>2, <2>1
<1>4. /\ left \in Int /\ left - 4 = Len(following) - missing /\ left <= 4 + Len(following)
      /\ missing = 0 => left >= 4
  BY <1>1
<1>5. At(p, UInt32(n) \o following, left)
  BY <1>3
<1> HIDE DEF left
<1> QED BY <1>4, <1>5, TakeUInt32At

\* TakeString, when some bytes are missing at the end
LEMMA TakeCutString ==
  ASSUME NEW b \in ByteString, Len(b) \in Word, NEW following \in ByteString, NEW missing \in Nat,
         NEW p, At(p, WireString(b) \o following, Len(WireString(b) \o following) - missing)
  PROVE  /\ At(TakeString(p), following, Len(following) - missing)
         /\ missing = 0 => TakeString(p).value = b
<1> DEFINE left == 4 + Len(b) + Len(following) - missing
<1>1. Len(b) \in Nat /\ Len(following) \in Nat
  BY LenBytes
<1>2. WireString(b) \in ByteString /\ Len(WireString(b)) = 4 + Len(b)
  BY WireStringBytes
<1>3. Len(WireString(b) \o following) - missing = left
  BY <1>2, ConcatBytes
<1>4. /\ left \in Int /\ left - 4 - Len(b) = Len(following) - missing
      /\ left <= 4 + Len(b) + Len(following)
      /\ missing = 0 => left >= 4 + Len(b)
  BY <1>1
<1>5. At(p, WireString(b) \o following, left)
  BY <1>3
<1> HIDE DEF left
<1> QED BY <1>4, <1>5, TakeStringAt

\* TakeUInt32, when nothing is missing
LEMMA TakeWholeUInt32 ==
  ASSUME NEW n \in Word, NEW following \in ByteString,
         NEW p, At(p, UInt32(n) \o following, Len(UInt32(n) \o following))
  PROVE  /\ At(TakeUInt32(p), following, Len(following))
         /\ TakeUInt32(p).value = UInt32(n)
<1> DEFINE file == UInt32(n) \o following
<1>1. file \in ByteString
  BY UInt32Value, ConcatBytes
<1>2. Len(file) \in Nat /\ Len(following) \in Nat
  BY <1>1, LenBytes
<1>3. Len(file) - 0 = Len(file) /\ Len(following) - 0 = Len(following)
  BY <1>2
<1> QED BY <1>3, TakeCutUInt32

\* TakeString, when nothing is missing
LEMMA TakeWholeString ==
  ASSUME NEW b \in ByteString, Len(b) \in Word, NEW following \in ByteString,
         NEW p, At(p, WireString(b) \o following, Len(WireString(b) \o following))
  PROVE  /\ At(TakeString(p), following, Len(following))
         /\ TakeString(p).value = b
<1> DEFINE file == WireString(b) \o following
<1>1. file \in ByteString
  BY WireConcat
<1>2. Len(file) \in Nat /\ Len(following) \in Nat
  BY <1>1, LenBytes
<1>3. Len(file) - 0 = Len(file) /\ Len(following) - 0 = Len(following)
  BY <1>2
<1> QED BY <1>3, TakeCutString

\* addPad makes the 119 bytes that it counts, the length of the comment and the
\* comment a multiple of eight
LEMMA PadBytes ==
  ASSUME NEW comment \in ByteString
  PROVE  /\ AddPad(comment) \in ByteString
         /\ Len(AddPad(comment)) \in Nat /\ Len(AddPad(comment)) <= 7
         /\ (119 + 4 + Len(comment) + Len(AddPad(comment))) % 8 = 0
         /\ \A i \in DOMAIN AddPad(comment) : AddPad(comment)[i] = i
<1> DEFINE enough(k) == (119 + 4 + Len(comment) + k) % 8 = 0
           k == CHOOSE k \in 0..7 : enough(k)
<1>1. \E j \in 0..7 : enough(j)
  <2> DEFINE j == 7 - ((119 + 4 + Len(comment) + 7) % 8)
  <2>1. Len(comment) \in Nat
    OBVIOUS
  <2>2. j \in 0..7 /\ (119 + 4 + Len(comment) + j) % 8 = 0
    BY <2>1
  <2> QED BY <2>2
<1>2. k \in 0..7 /\ enough(k)
  BY <1>1
<1>3. AddPad(comment) = [i \in 1..k |-> i]
  BY DEF AddPad
<1> HIDE DEF k
<1>4. AddPad(comment) \in ByteString /\ Len(AddPad(comment)) = k
  BY <1>2, <1>3 DEF Byte, ByteString
<1> QED BY <1>2, <1>3, <1>4

\* Four pieces, concatenated from the left or from the right
LEMMA FourBytes ==
  ASSUME NEW a, NEW b, NEW c, NEW d,
         a \in ByteString, b \in ByteString, c \in ByteString, d \in ByteString
  PROVE  /\ a \o b \o c \in ByteString
         /\ a \o b \o c \o d \in ByteString
         /\ b \o (c \o d) \in ByteString
         /\ a \o b \o c \o d = a \o (b \o (c \o d))
         /\ Len(a \o b \o c \o d) = Len(a) + Len(b) + Len(c) + Len(d)
<1> DEFINE x == c \o d
           y == a \o b
           z == y \o c
<1>1. x \in ByteString
  BY ConcatBytes
<1>2. y \in ByteString /\ Len(y) = Len(a) + Len(b)
  BY ConcatBytes
<1> HIDE DEF y
<1>3. (y \o c) \o d = y \o x
  BY <1>2, ConcatThree
<1> HIDE DEF x
<1>4. (a \o b) \o x = a \o (b \o x)
  BY <1>1, ConcatThree
<1>5. b \o x \in ByteString
  BY <1>1, ConcatBytes
<1>6. z \in ByteString /\ Len(z) = Len(y) + Len(c)
  BY <1>2, ConcatBytes
<1> HIDE DEF z
<1>7. z \o d \in ByteString /\ Len(z \o d) = Len(z) + Len(d)
  BY <1>6, ConcatBytes
<1> QED BY <1>2, <1>3, <1>4, <1>5, <1>6, <1>7 DEF x, y, z

\* The private section: its fields in their order, and its length
LEMMA KeyBodyFields ==
  ASSUME NEW hk, IsHostKey(hk)
  PROVE  LET private == hk.seed \o hk.pub
             pad     == AddPad(hk.comment)
             body    == WireString(hk.pub)
                          \o (WireString(private) \o (WireString(hk.comment) \o pad))
         IN  /\ private \in ByteString /\ Len(private) = SeedSize + PubSize
             /\ Len(Algo) \in Word /\ Len(hk.pub) \in Word
             /\ Len(private) \in Word /\ Len(hk.comment) \in Word
             /\ body \in ByteString
             /\ KeyBody(hk) = UInt32(hk.check) \o (UInt32(hk.check) \o (WireString(Algo) \o body))
             /\ KeyBody(hk) \in ByteString
             /\ Len(KeyBody(hk)) = 8 + 119 + 4 + Len(hk.comment) + Len(pad)
             /\ Len(KeyBody(hk)) \in Word
<1> DEFINE private == hk.seed \o hk.pub
           pad == AddPad(hk.comment)
           c == UInt32(hk.check)
           t == WireString(Algo)
           u == WireString(hk.pub)
           v == WireString(private)
           w == WireString(hk.comment)
<1>1. /\ hk.seed \in ByteString /\ Len(hk.seed) = SeedSize
      /\ hk.pub \in ByteString /\ Len(hk.pub) = PubSize
      /\ hk.check \in Word /\ hk.comment \in ByteString /\ Len(hk.comment) + 256 \in Word
  BY DEF IsHostKey
<1>2. private \in ByteString /\ Len(private) = SeedSize + PubSize
  BY <1>1, ConcatBytes
<1>3. /\ Algo \in ByteString /\ PubSize \in Nat /\ SeedSize \in Nat
      /\ Len(Algo) + PubSize + (SeedSize + PubSize) + 3 * 4 = 119
  BY KeyFileAssumption DEF ByteString
<1> HIDE DEF private
<1>4. Len(Algo) <= 119 /\ Len(hk.pub) <= 119 /\ Len(private) <= 119
  BY <1>1, <1>2, <1>3
<1>5. /\ Len(Algo) \in Word /\ Len(hk.pub) \in Word
      /\ Len(private) \in Word /\ Len(hk.comment) \in Word
  BY <1>1, <1>2, <1>3, <1>4 DEF Word
<1>6. c \in ByteString /\ Len(c) = 4
  BY <1>1, UInt32Value
<1>7. /\ t \in ByteString /\ Len(t) = 4 + Len(Algo)
      /\ u \in ByteString /\ Len(u) = 4 + Len(hk.pub)
      /\ v \in ByteString /\ Len(v) = 4 + Len(private)
      /\ w \in ByteString /\ Len(w) = 4 + Len(hk.comment)
  <2>1. t \in ByteString /\ Len(t) = 4 + Len(Algo)
    BY <1>3, <1>5, WireStringBytes
  <2>2. u \in ByteString /\ Len(u) = 4 + Len(hk.pub)
    BY <1>1, <1>5, WireStringBytes
  <2>3. v \in ByteString /\ Len(v) = 4 + Len(private)
    BY <1>2, <1>5, WireStringBytes
  <2>4. w \in ByteString /\ Len(w) = 4 + Len(hk.comment)
    BY <1>1, <1>5, WireStringBytes
  <2> QED BY <2>1, <2>2, <2>3, <2>4
<1>8. pad \in ByteString /\ Len(pad) \in Nat /\ Len(pad) <= 7
  BY <1>1, PadBytes
<1>9. KeyBody(hk) = c \o c \o t \o (u \o v \o w \o pad)
  BY DEF KeyBody, Ed25519KeyBody, private
<1> HIDE DEF c, t, u, v, w, pad
<1> DEFINE body == u \o v \o w \o pad
<1>10. /\ body \in ByteString /\ body = u \o (v \o (w \o pad))
       /\ Len(body) = Len(u) + Len(v) + Len(w) + Len(pad)
  <2>1. u \in ByteString /\ v \in ByteString /\ w \in ByteString /\ pad \in ByteString
    BY <1>7, <1>8
  <2> QED BY <2>1, FourBytes
<1> HIDE DEF body
<1>11. /\ c \o c \o t \o body \in ByteString /\ c \o c \o t \o body = c \o (c \o (t \o body))
       /\ Len(c \o c \o t \o body) = Len(c) + Len(c) + Len(t) + Len(body)
  <2>1. c \in ByteString /\ t \in ByteString /\ body \in ByteString
    BY <1>6, <1>7, <1>10
  <2> QED BY <2>1, FourBytes
<1>12. KeyBody(hk) = c \o c \o t \o body
  BY <1>9 DEF body
<1>13. Len(hk.comment) \in Nat /\ Len(Algo) \in Nat /\ Len(pad) \in Nat /\ Len(pad) <= 7
  <2>1. Len(hk.comment) \in Nat /\ Len(Algo) \in Nat
    BY <1>1, <1>3, LenBytes
  <2>2. Len(pad) \in Nat /\ Len(pad) <= 7
    BY <1>8
  <2> QED BY <2>1, <2>2
<1>14. Len(KeyBody(hk)) = 8 + 119 + 4 + Len(hk.comment) + Len(pad)
  <2>1. Len(KeyBody(hk)) = Len(c) + Len(c) + Len(t) + (Len(u) + Len(v) + Len(w) + Len(pad))
    BY <1>10, <1>11, <1>12
  <2>2. Len(KeyBody(hk)) = 4 + 4 + (4 + Len(Algo))
          + ((4 + PubSize) + (4 + (SeedSize + PubSize)) + (4 + Len(hk.comment)) + Len(pad))
    BY <1>1, <1>2, <1>6, <1>7, <2>1
  <2> DEFINE algo == Len(Algo)
             comment == Len(hk.comment)
             padding == Len(pad)
  <2>3. algo \in Nat /\ comment \in Nat /\ padding \in Nat /\ PubSize \in Nat /\ SeedSize \in Nat
        /\ algo + PubSize + (SeedSize + PubSize) + 12 = 119
    BY <1>3, <1>13
  <2> HIDE DEF algo, comment, padding
  <2>4. 4 + 4 + (4 + algo) + ((4 + PubSize) + (4 + (SeedSize + PubSize)) + (4 + comment) + padding)
          = 8 + 119 + 4 + comment + padding
    BY <2>3
  <2> QED BY <2>2, <2>4 DEF algo, comment, padding
<1>15. Len(KeyBody(hk)) \in Word
  BY <1>1, <1>13, <1>14 DEF Word
<1>16. KeyBody(hk) \in ByteString /\ KeyBody(hk) = c \o (c \o (t \o body))
  BY <1>11, <1>12
<1>17. body \in ByteString /\ body = u \o (v \o (w \o pad))
  BY <1>10
<1> QED BY <1>2, <1>5, <1>14, <1>15, <1>16, <1>17 DEF private, c, t, u, v, w, pad

\* The file: its fields in their order
AfterMagic(hk) ==
  WireString(None) \o (WireString(None) \o (WireString(<<>>) \o (UInt32(1)
    \o (WireString(WireString(Algo) \o WireString(hk.pub)) \o WireString(KeyBody(hk))))))

\* Write concatenates them from the left
LEMMA FileFields ==
  ASSUME NEW hk, IsHostKey(hk)
  PROVE  LET public == WireString(Algo) \o WireString(hk.pub)
         IN  /\ public \in ByteString /\ Len(public) \in Word
             /\ Write(hk) = Magic \o AfterMagic(hk)
<1> DEFINE public == WireString(Algo) \o WireString(hk.pub)
           e == WireString(None)
           f == WireString(<<>>)
           n == UInt32(1)
           p == WireString(public)
           b == WireString(KeyBody(hk))
<1>1. /\ hk.pub \in ByteString /\ Len(hk.pub) = PubSize
      /\ Len(Algo) \in Word /\ Len(hk.pub) \in Word
      /\ KeyBody(hk) \in ByteString /\ Len(KeyBody(hk)) \in Word
  BY KeyBodyFields DEF IsHostKey
<1>2. /\ Magic \in ByteString /\ None \in ByteString /\ Len(None) = 4
      /\ Algo \in ByteString /\ PubSize \in Nat /\ SeedSize \in Nat
      /\ Len(Algo) + PubSize + (SeedSize + PubSize) + 3 * 4 = 119
  BY KeyFileAssumption DEF ByteString
<1>3. public \in ByteString /\ Len(public) = 8 + Len(Algo) + PubSize
  <2>1. /\ WireString(Algo) \in ByteString /\ Len(WireString(Algo)) = 4 + Len(Algo)
        /\ WireString(hk.pub) \in ByteString /\ Len(WireString(hk.pub)) = 4 + PubSize
    BY <1>1, <1>2, WireStringBytes
  <2>2. /\ public \in ByteString
        /\ Len(public) = Len(WireString(Algo)) + Len(WireString(hk.pub))
    BY <2>1, ConcatBytes
  <2>3. Len(Algo) \in Nat
    BY <1>2, LenBytes
  <2> QED BY <1>2, <2>1, <2>2, <2>3
<1> HIDE DEF public
<1>4. Len(public) \in Word
  BY <1>2, <1>3 DEF Word
<1>5. 4 \in Word /\ 0 \in Word /\ 1 \in Word
  BY DEF Word
<1>6. /\ e \in ByteString /\ f \in ByteString /\ n \in ByteString
      /\ p \in ByteString /\ b \in ByteString
  <2>1. e \in ByteString
    BY <1>2, <1>5, WireStringBytes
  <2>2. f \in ByteString
    <3>1. <<>> \in ByteString /\ Len(<<>>) = 0
      BY DEF ByteString
    <3> QED BY <1>5, <3>1, WireStringBytes
  <2>3. n \in ByteString
    BY <1>5, UInt32Value
  <2>4. p \in ByteString
    BY <1>3, <1>4, WireStringBytes
  <2>5. b \in ByteString
    BY <1>1, WireStringBytes
  <2> QED BY <2>1, <2>2, <2>3, <2>4, <2>5
<1>7. Write(hk) = (Magic \o e \o e \o f) \o n \o p \o b
  BY DEF Write, public
<1> HIDE DEF e, f, n, p, b
<1> DEFINE three == Magic \o e \o e
           four == three \o f
           x == n \o (p \o b)
           y == f \o x
<1>8. three \in ByteString /\ four \in ByteString
  BY <1>2, <1>6, FourBytes
<1> HIDE DEF three, four
<1>9. four \o n \o p \o b = four \o x /\ p \o b \in ByteString
  <2>1. /\ four \in ByteString /\ n \in ByteString
        /\ p \in ByteString /\ b \in ByteString
    BY <1>6, <1>8
  <2> DEFINE g == four \o n
             r == p \o b
  <2>2. g \in ByteString /\ r \in ByteString
    BY <2>1, ConcatBytes
  <2> HIDE DEF g
  <2>3. (g \o p) \o b = g \o r
    <3>1. g \in ByteString /\ p \in ByteString /\ b \in ByteString
      BY <2>1, <2>2
    <3> QED BY <3>1, ConcatThree
  <2> HIDE DEF r
  <2>4. (four \o n) \o r = four \o (n \o r)
    <3>1. four \in ByteString /\ n \in ByteString /\ r \in ByteString
      BY <2>1, <2>2
    <3> QED BY <3>1, ConcatThree
  <2> QED BY <2>2, <2>3, <2>4 DEF x, g, r
<1>10. x \in ByteString
  BY <1>6, <1>9, ConcatBytes
<1> HIDE DEF x
<1>11. y \in ByteString
  BY <1>6, <1>10, ConcatBytes
<1> HIDE DEF y
<1>12. four \o x = three \o y
  <2>1. three \in ByteString /\ f \in ByteString /\ x \in ByteString
    BY <1>6, <1>8, <1>10
  <2>2. (three \o f) \o x = three \o (f \o x)
    BY <2>1, ConcatThree
  <2> QED BY <2>2 DEF four, y
<1>13. three \o y = Magic \o (e \o (e \o y))
  BY <1>2, <1>6, <1>11, FourBytes DEF three
<1>14. Write(hk) = Magic \o (e \o (e \o y))
  BY <1>7, <1>9, <1>12, <1>13 DEF three, four
<1> QED BY <1>3, <1>4, <1>14 DEF AfterMagic, public, e, f, n, p, b, x, y
-----------------------------------------------------------------------------
\* read() on the private section: the check twice, the type, the public key, the
\* private key and the comment; what is left is the padding
LEMMA KeyBodyIsRead ==
  ASSUME NEW hk, IsHostKey(hk)
  PROVE  LET check1  == TakeUInt32(Bytes(KeyBody(hk)))
             check2  == TakeUInt32(check1)
             type    == TakeString(check2)
             priv    == TakeString(TakeString(type))
             comment == TakeString(priv)
         IN  /\ check1.value = UInt32(hk.check) /\ check2.value = UInt32(hk.check)
             /\ type.value = Algo /\ priv.value = hk.seed \o hk.pub
             /\ comment.ok = TRUE /\ comment.value = hk.comment /\ comment.rest = AddPad(hk.comment)
<1> DEFINE check1 == TakeUInt32(Bytes(KeyBody(hk)))
           check2 == TakeUInt32(check1)
           type == TakeString(check2)
           pub == TakeString(type)
           priv == TakeString(pub)
           comment == TakeString(priv)
           private == hk.seed \o hk.pub
           pad == AddPad(hk.comment)
           x1 == WireString(hk.comment) \o pad
           x2 == WireString(private) \o x1
           x3 == WireString(hk.pub) \o x2
           x4 == WireString(Algo) \o x3
           x5 == UInt32(hk.check) \o x4
<1>1. /\ private \in ByteString /\ Len(Algo) \in Word /\ Len(hk.pub) \in Word
      /\ Len(private) \in Word /\ Len(hk.comment) \in Word
      /\ KeyBody(hk) \in ByteString /\ KeyBody(hk) = UInt32(hk.check) \o x5
  BY KeyBodyFields
<1>2. /\ hk.pub \in ByteString /\ hk.comment \in ByteString /\ hk.check \in Word
      /\ Algo \in ByteString
  BY KeyFileAssumption DEF IsHostKey, ByteString
<1>3. pad \in ByteString
  BY <1>2, PadBytes
<1> HIDE DEF check1, check2, type, pub, priv, comment, private, pad
<1>4. x1 \in ByteString
  BY <1>1, <1>2, <1>3, WireConcat
<1> HIDE DEF x1
<1>5. x2 \in ByteString
  BY <1>1, <1>4, WireConcat
<1> HIDE DEF x2
<1>6. x3 \in ByteString
  BY <1>1, <1>2, <1>5, WireConcat
<1> HIDE DEF x3
<1>7. x4 \in ByteString
  BY <1>1, <1>2, <1>6, WireConcat
<1> HIDE DEF x4
<1>8. x5 \in ByteString
  <2>1. UInt32(hk.check) \in ByteString
    BY <1>2, UInt32Value
  <2> QED BY <1>7, <2>1, ConcatBytes
<1> HIDE DEF x5
<1>9. Len(KeyBody(hk)) \in Nat
  BY <1>1, LenBytes
<1>10. At(Bytes(KeyBody(hk)), KeyBody(hk), Len(KeyBody(hk)))
  <2>1. SubSeq(KeyBody(hk), 1, Len(KeyBody(hk))) = KeyBody(hk)
    BY <1>1, SubSeqFull DEF ByteString
  <2> QED BY <1>9, <2>1 DEF At, Bytes
<1>11. KeyBody(hk) = UInt32(hk.check) \o x5
  BY <1>1
<1>12. At(check1, x5, Len(x5)) /\ check1.value = UInt32(hk.check)
  BY <1>2, <1>8, <1>10, <1>11, TakeWholeUInt32 DEF check1
<1>13. At(check2, x4, Len(x4)) /\ check2.value = UInt32(hk.check)
  BY <1>2, <1>7, <1>12, TakeWholeUInt32 DEF x5, check2
<1>14. At(type, x3, Len(x3)) /\ type.value = Algo
  BY <1>1, <1>2, <1>6, <1>13, TakeWholeString DEF x4, type
<1>15. At(pub, x2, Len(x2))
  BY <1>1, <1>2, <1>5, <1>14, TakeWholeString DEF x3, pub
<1>16. At(priv, x1, Len(x1)) /\ priv.value = private
  BY <1>1, <1>4, <1>15, TakeWholeString DEF x2, priv
<1>17. At(comment, pad, Len(pad)) /\ comment.value = hk.comment
  BY <1>1, <1>2, <1>3, <1>16, TakeWholeString DEF x1, comment
<1>18. comment.ok = TRUE /\ comment.rest = pad
  <2>1. SubSeq(pad, 1, Len(pad)) = pad
    BY <1>3, SubSeqFull DEF ByteString
  <2>2. Len(pad) \in Nat
    BY <1>3, LenBytes
  <2> QED BY <1>17, <2>1, <2>2 DEF At
<1> QED BY <1>12, <1>13, <1>14, <1>16, <1>17, <1>18
    DEF check1, check2, type, pub, priv, comment, private, pad

\* read() on a file, or on what is there of one: block is the private section, or
\* there is none
LEMMA BlockIsRead ==
  ASSUME NEW hk, IsHostKey(hk), NEW missing \in Nat, NEW start,
         At(start, AfterMagic(hk), Len(AfterMagic(hk)) - missing)
  PROVE  LET cipher == TakeString(start)
             kdf    == TakeString(cipher)
             block  == TakeString(TakeString(TakeUInt32(TakeString(kdf))))
         IN  IF missing = 0
             THEN /\ cipher.value = None /\ kdf.value = None
                  /\ block.ok = TRUE /\ block.value = KeyBody(hk) /\ block.rest = <<>>
             ELSE block = Failed
<1> DEFINE public == WireString(Algo) \o WireString(hk.pub)
           x1 == WireString(KeyBody(hk)) \o <<>>
           x2 == WireString(public) \o x1
           x3 == UInt32(1) \o x2
           x4 == WireString(<<>>) \o x3
           x5 == WireString(None) \o x4
           x6 == WireString(None) \o x5
           p5 == TakeString(start)
           p4 == TakeString(p5)
           p3 == TakeString(p4)
           p2 == TakeUInt32(p3)
           p1 == TakeString(p2)
           p0 == TakeString(p1)
<1>1. public \in ByteString /\ Len(public) \in Word
  BY FileFields
<1>2. KeyBody(hk) \in ByteString /\ Len(KeyBody(hk)) \in Word
  BY KeyBodyFields
<1>3. <<>> \in ByteString /\ Len(<<>>) = 0 /\ None \in ByteString /\ Len(None) = 4
  BY KeyFileAssumption DEF ByteString
<1>4. Len(<<>>) \in Word /\ Len(None) \in Word /\ 1 \in Word
  BY <1>3 DEF Word
<1>5. x1 = WireString(KeyBody(hk))
  <2>1. WireString(KeyBody(hk)) \in ByteString
    BY <1>2, WireStringBytes
  <2> QED BY <2>1, ConcatEmptySeq DEF ByteString
<1>6. AfterMagic(hk) = x6
  BY <1>5 DEF AfterMagic
<1> HIDE DEF public, p5, p4, p3, p2, p1, p0
<1>7. x1 \in ByteString
  BY <1>2, <1>3, WireConcat
<1> HIDE DEF x1
<1>8. x2 \in ByteString
  BY <1>1, <1>7, WireConcat
<1> HIDE DEF x2
<1>9. x3 \in ByteString
  <2>1. UInt32(1) \in ByteString
    BY <1>4, UInt32Value
  <2> QED BY <1>8, <2>1, ConcatBytes
<1> HIDE DEF x3
<1>10. x4 \in ByteString
  BY <1>3, <1>4, <1>9, WireConcat
<1> HIDE DEF x4
<1>11. x5 \in ByteString
  BY <1>3, <1>4, <1>10, WireConcat
<1> HIDE DEF x5
<1>12. x6 \in ByteString
  BY <1>3, <1>4, <1>11, WireConcat
<1> HIDE DEF x6
<1>13. None \in ByteString /\ Len(None) \in Word
  BY <1>3, <1>4
<1>14. At(start, x6, Len(x6) - missing)
  BY <1>6
<1>15. /\ At(p5, x5, Len(x5) - missing)
       /\ missing = 0 => p5.value = None
  BY <1>11, <1>13, <1>14, TakeCutString DEF x6, p5
<1>16. /\ At(p4, x4, Len(x4) - missing)
       /\ missing = 0 => p4.value = None
  BY <1>10, <1>13, <1>15, TakeCutString DEF x5, p4
<1>17. At(p3, x3, Len(x3) - missing)
  BY <1>3, <1>4, <1>9, <1>16, TakeCutString DEF x4, p3
<1>18. At(p2, x2, Len(x2) - missing)
  BY <1>4, <1>8, <1>17, TakeCutUInt32 DEF x3, p2
<1>19. At(p1, x1, Len(x1) - missing)
  BY <1>1, <1>7, <1>18, TakeCutString DEF x2, p1
<1>20. /\ At(p0, <<>>, Len(<<>>) - missing)
       /\ missing = 0 => p0.value = KeyBody(hk)
  <2>1. <<>> \in ByteString
    BY <1>3
  <2>2. At(p1, WireString(KeyBody(hk)) \o <<>>, Len(WireString(KeyBody(hk)) \o <<>>) - missing)
    BY <1>19 DEF x1
  <2> QED BY <1>2, <2>1, <2>2, TakeCutString DEF p0
<1>21. IF missing = 0 THEN p0.ok = TRUE /\ p0.rest = <<>> ELSE p0 = Failed
  <2>1. SubSeq(<<>>, 1, 0) = <<>>
    OBVIOUS
  <2>2. Len(<<>>) - missing = 0 - missing
    BY <1>3
  <2>3. At(p0, <<>>, 0 - missing)
    BY <1>20, <2>2
  <2>4. missing = 0 => 0 - missing = 0
    OBVIOUS
  <2>5. missing # 0 => ~(0 - missing >= 0)
    OBVIOUS
  <2>6. 0 >= 0
    OBVIOUS
  <2> QED BY <2>1, <2>3, <2>4, <2>5, <2>6 DEF At
<1> QED BY <1>15, <1>16, <1>20, <1>21 DEF p5, p4, p3, p2, p1, p0

\* The file without its magic
LEMMA AfterMagicBytes ==
  ASSUME NEW hk, IsHostKey(hk)
  PROVE  AfterMagic(hk) \in ByteString
<1> DEFINE public == WireString(Algo) \o WireString(hk.pub)
           x1 == WireString(KeyBody(hk))
           x2 == WireString(public) \o x1
           x3 == UInt32(1) \o x2
           x4 == WireString(<<>>) \o x3
           x5 == WireString(None) \o x4
<1>1. public \in ByteString /\ Len(public) \in Word
  BY FileFields
<1>2. x1 \in ByteString
  BY KeyBodyFields, WireStringBytes
<1> HIDE DEF public, x1
<1>3. /\ <<>> \in ByteString /\ Len(<<>>) \in Word /\ UInt32(1) \in ByteString
      /\ None \in ByteString /\ Len(None) \in Word
  <2>1. <<>> \in ByteString /\ Len(<<>>) = 0 /\ None \in ByteString /\ Len(None) = 4
    BY KeyFileAssumption DEF ByteString
  <2>2. 0 \in Word /\ 1 \in Word /\ 4 \in Word
    BY DEF Word
  <2>3. UInt32(1) \in ByteString
    BY <2>2, UInt32Value
  <2> QED BY <2>1, <2>2, <2>3
<1>4. x2 \in ByteString
  BY <1>1, <1>2, WireConcat
<1> HIDE DEF x2
<1>5. x3 \in ByteString
  BY <1>3, <1>4, ConcatBytes
<1> HIDE DEF x3
<1>6. x4 \in ByteString
  BY <1>3, <1>5, WireConcat
<1> HIDE DEF x4
<1>7. x5 \in ByteString
  BY <1>3, <1>6, WireConcat
<1> HIDE DEF x5
<1>8. WireString(None) \o x5 \in ByteString
  BY <1>3, <1>7, WireConcat
<1> QED BY <1>8 DEF AfterMagic, public, x1, x2, x3, x4, x5

\* HostKey's private key falls into the seed and the public key again
LEMMA PrivateParts ==
  ASSUME NEW hk, IsHostKey(hk)
  PROVE  /\ SubSeq(hk.seed \o hk.pub, 1, SeedSize) = hk.seed
         /\ SubSeq(hk.seed \o hk.pub, SeedSize + 1, SeedSize + PubSize) = hk.pub
<1> DEFINE private == hk.seed \o hk.pub
<1>1. /\ hk.seed \in ByteString /\ Len(hk.seed) = SeedSize
      /\ hk.pub \in ByteString /\ Len(hk.pub) = PubSize
  BY DEF IsHostKey
<1>2. SeedSize \in Nat /\ PubSize \in Nat
  BY KeyFileAssumption
<1>3. private \in ByteString /\ Len(private) = SeedSize + PubSize
  BY <1>1, ConcatBytes
<1>4. SubSeq(private, 1, SeedSize + PubSize) = private
  BY <1>3, SubSeqFull DEF ByteString
<1>5. SubSeq(hk.pub, 1, PubSize) = hk.pub
  BY <1>1, SubSeqFull DEF ByteString
<1> DEFINE whole == SeedSize + PubSize
<1>6. /\ whole \in 0..(Len(hk.seed) + Len(hk.pub)) /\ whole >= Len(hk.seed)
      /\ whole - Len(hk.seed) = PubSize
  BY <1>1, <1>2
<1> HIDE DEF whole
<1>7. LET cut == SubSeq(private, 1, whole)
      IN  /\ Len(cut) = whole
          /\ whole >= Len(hk.seed) =>
               /\ SubSeq(cut, 1, Len(hk.seed)) = hk.seed
               /\ SubSeq(cut, Len(hk.seed) + 1, Len(cut)) = SubSeq(hk.pub, 1, whole - Len(hk.seed))
  BY <1>1, <1>6, CutConcat
<1>8. /\ SubSeq(private, 1, Len(hk.seed)) = hk.seed
      /\ SubSeq(private, Len(hk.seed) + 1, whole) = hk.pub
  BY <1>4, <1>5, <1>6, <1>7 DEF whole
<1> QED BY <1>1, <1>8 DEF whole

\* read() gives back the key that was written, and no key for a file that was cut
\* short: when a byte is missing, so are bytes of the last string, which holds the
\* whole private section.
THEOREM FileIsRead ==
  ASSUME NEW hk, IsHostKey(hk), NEW size \in 0..Len(Write(hk))
  PROVE  ReadsWhatWasWritten(hk, size)
<1> DEFINE file == SubSeq(Write(hk), 1, size)
           following == AfterMagic(hk)
           missing == Len(Write(hk)) - size
           start == Bytes(SubSeq(file, Len(Magic) + 1, Len(file)))
           cipher == TakeString(start)
           kdf == TakeString(cipher)
           block == TakeString(TakeString(TakeUInt32(TakeString(kdf))))
           check1 == TakeUInt32(Bytes(block.value))
           check2 == TakeUInt32(check1)
           type == TakeString(check2)
           priv == TakeString(TakeString(type))
           comment == TakeString(priv)
           wellFormed ==
             /\ IsPrefix(Magic, file)
             /\ block.ok /\ block.rest = <<>> /\ cipher.value = None /\ kdf.value = None
             /\ comment.ok /\ check1.value = check2.value /\ type.value = Algo
             /\ Len(priv.value) = SeedSize + PubSize
             /\ \A i \in DOMAIN comment.rest : comment.rest[i] = i
           key == HostKey(SubSeq(priv.value, 1, SeedSize),
                          SubSeq(priv.value, SeedSize + 1, SeedSize + PubSize),
                          ValueOf(check1.value), comment.value)
<1>1. Read(file) = IF wellFormed THEN key ELSE NoKey
  BY DEF Read
<1>2. Magic \in ByteString /\ following \in ByteString /\ Write(hk) = Magic \o following
  BY KeyFileAssumption, AfterMagicBytes, FileFields DEF ByteString
<1>3. /\ Len(Magic) \in Nat /\ Len(following) \in Nat
      /\ Len(Write(hk)) = Len(Magic) + Len(following)
  BY <1>2, LenBytes, ConcatBytes
<1>4. /\ size \in 0..(Len(Magic) + Len(following)) /\ missing \in Nat
      /\ size - Len(Magic) = Len(following) - missing
  BY <1>3
<1>5. /\ Len(file) = size
      /\ size >= Len(Magic) =>
           /\ SubSeq(file, 1, Len(Magic)) = Magic
           /\ SubSeq(file, Len(Magic) + 1, Len(file)) = SubSeq(following, 1, size - Len(Magic))
  BY <1>2, <1>3, <1>4, CutConcat
<1> HIDE DEF file, following, start, cipher, kdf, block, check1, check2, type, priv, comment
<1>6. CASE size < Len(Magic)
  <2>1. ~IsPrefix(Magic, file)
    BY <1>3, <1>4, <1>5, <1>6 DEF IsPrefix
  <2>2. Read(file) = NoKey
    BY <1>1, <2>1
  <2>3. ~(size >= Len(Write(hk)))
    BY <1>3, <1>4, <1>6
  <2> QED BY <2>2, <2>3 DEF ReadsWhatWasWritten, file
<1>7. CASE size >= Len(Magic)
  <2>1. At(start, following, Len(following) - missing)
    <3>1. size - Len(Magic) >= 0
      BY <1>3, <1>4, <1>7
    <3>2. At(start, following, size - Len(Magic))
      BY <1>5, <1>7, <3>1 DEF At, start, Bytes
    <3> QED BY <1>4, <3>2
  <2> HIDE DEF missing
  <2>2. IF missing = 0
        THEN /\ cipher.value = None /\ kdf.value = None
             /\ block.ok = TRUE /\ block.value = KeyBody(hk) /\ block.rest = <<>>
        ELSE block = Failed
    BY <1>4, <2>1, BlockIsRead DEF following, cipher, kdf, block
  <2>3. CASE missing # 0
    <3>1. ~block.ok
      BY <2>2, <2>3 DEF Failed
    <3>2. Read(file) = NoKey
      BY <1>1, <3>1
    <3>3. ~(size >= Len(Write(hk)))
      BY <1>3, <1>4, <2>3 DEF missing
    <3> QED BY <3>2, <3>3 DEF ReadsWhatWasWritten, file
  <2>4. CASE missing = 0
    <3>1. /\ cipher.value = None /\ kdf.value = None
          /\ block.ok = TRUE /\ block.value = KeyBody(hk) /\ block.rest = <<>>
      BY <2>2, <2>4
    <3>2. /\ check1.value = UInt32(hk.check) /\ check2.value = UInt32(hk.check)
          /\ type.value = Algo /\ priv.value = hk.seed \o hk.pub
          /\ comment.ok = TRUE /\ comment.value = hk.comment /\ comment.rest = AddPad(hk.comment)
      BY <3>1, KeyBodyIsRead DEF check1, check2, type, priv, comment
    <3>3. IsPrefix(Magic, file)
      <4>1. SubSeq(Magic, 1, Len(Magic)) = Magic
        BY <1>2, SubSeqFull DEF ByteString
      <4>2. Len(Magic) <= Len(file)
        BY <1>3, <1>4, <1>5, <1>7
      <4> QED BY <1>5, <1>7, <4>1, <4>2 DEF IsPrefix
    <3>4. Len(priv.value) = SeedSize + PubSize
      BY <3>2, KeyBodyFields
    <3>5. \A i \in DOMAIN comment.rest : comment.rest[i] = i
      BY <3>2, PadBytes DEF IsHostKey
    <3>6. Read(file) = key
      BY <1>1, <3>1, <3>2, <3>3, <3>4, <3>5
    <3>7. ValueOf(check1.value) = hk.check
      BY <3>2, UInt32Value DEF IsHostKey
    <3>8. key = HostKey(hk.seed, hk.pub, hk.check, hk.comment)
      BY <3>2, <3>7, PrivateParts
    <3>9. Read(file) = hk
      BY <3>6, <3>8 DEF IsHostKey
    <3>10. size >= Len(Write(hk))
      BY <1>3, <1>4, <2>4 DEF missing
    <3> QED BY <3>9, <3>10 DEF ReadsWhatWasWritten, file
  <2> QED BY <2>3, <2>4
<1>8. size < Len(Magic) \/ size >= Len(Magic)
  BY <1>3, <1>4
<1> QED BY <1>6, <1>7, <1>8

\* addPad pads the private section to blocks of eight bytes: its 119 are what
\* precedes the comment, without the check, which is a block of its own.
THEOREM SectionIsPadded ==
  ASSUME NEW hk, IsHostKey(hk)
  PROVE  PaddedToBlocks(hk)
<1> DEFINE length == Len(hk.comment)
           pad == Len(AddPad(hk.comment))
<1>1. hk.comment \in ByteString
  BY DEF IsHostKey
<1>2. length \in Nat
  BY <1>1, LenBytes
<1>3. pad \in Nat /\ pad <= 7 /\ (119 + 4 + length + pad) % 8 = 0
  BY <1>1, PadBytes
<1>4. Len(KeyBody(hk)) = 8 + 119 + 4 + length + pad
  BY KeyBodyFields
<1> HIDE DEF length, pad
<1>5. (8 + 119 + 4 + length + pad) % 8 = 0
  BY <1>2, <1>3
<1>6. (8 + 119 + 4 + length + pad) - ((8 + 119 + 4 + length + pad) - pad) < 8
  BY <1>2, <1>3
<1> QED BY <1>4, <1>5, <1>6 DEF PaddedToBlocks, pad
-----------------------------------------------------------------------------
(* The inputs of the run *)

\* Every input is one that the functions of the code can get
InputOK ==
  /\ input.kind = "network" => IsCIDR(input.host)
  /\ input.kind = "options" =>
       /\ IsCIDR(input.host) /\ IsOption(input.gateway)
       /\ input.force \in BOOLEAN /\ input.last \in BOOLEAN
  /\ input.kind = "allowed" => input.text \in Address
  /\ input.kind = "text" => input.text \in Seq({"1", ":", "m", "/"})
  /\ input.kind = "key" => IsHostKey(input.key) /\ input.size \in 0..Len(Write(input.key))

\* Every address that is chosen is an address, every gateway one that -g can give
LEMMA GivenAreOptions == \A g \in Given : IsOption(g)
BY DEF Given, IsOption, NoGateway

\* Every key that is enumerated is one that fits the wire format
LEMMA HostKeysAreKeys == \A hk \in HostKeys : IsHostKey(hk)
<1> SUFFICES ASSUME NEW hk \in HostKeys PROVE IsHostKey(hk)
  OBVIOUS
<1> DEFINE seed == [i \in 1..SeedSize |-> i]
           pub == [i \in 1..PubSize |-> 255]
<1>0. HostKeys = {HostKey(seed, pub, check, comment) : check \in {0, 1}, comment \in Comments}
  BY DEF HostKeys
<1>1. /\ SeedSize \in Nat /\ PubSize \in Nat /\ Len(Algo) \in Nat
      /\ Len(Algo) + PubSize + (SeedSize + PubSize) + 3 * 4 = 119
  BY KeyFileAssumption, LenBytes DEF ByteString
<1>2. SeedSize <= 119
  BY <1>1
<1>3. seed \in ByteString /\ Len(seed) = SeedSize
  BY <1>1, <1>2 DEF ByteString, Byte
<1>4. pub \in ByteString /\ Len(pub) = PubSize
  BY <1>1 DEF ByteString, Byte
<1> HIDE DEF seed, pub
<1> PICK check \in {0, 1}, comment \in Comments : hk = HostKey(seed, pub, check, comment)
  BY <1>0
<1>5. comment \in ByteString /\ Len(comment) <= 25
  <2>1. PICK n \in 0..25 : comment = [i \in 1..n |-> i]
    BY DEF Comments
  <2>2. n \in Nat /\ n <= 25
    OBVIOUS
  <2>3. comment \in Seq(0..255) /\ Len(comment) = n
    BY <2>1, <2>2
  <2> QED BY <2>2, <2>3 DEF ByteString, Byte
<1>6. Len(comment) \in Nat
  BY <1>5, LenBytes
<1>7. check \in Word /\ Len(comment) + 256 \in Word
  BY <1>5, <1>6 DEF Word
<1> QED BY <1>3, <1>4, <1>5, <1>7 DEF IsHostKey, HostKey

\* InputOK is an invariant: it holds of the first input, and every later one is of
\* one of the six kinds
LEMMA InputInvariant == Spec => []InputOK
<1>1. Init => InputOK
  BY DEF Init, InputOK
<1>2. InputOK /\ [Next]_input => InputOK'
  <2> SUFFICES ASSUME InputOK, Next PROVE InputOK'
    BY DEF InputOK
  <2>1. CASE NetworkInput
    BY <2>1 DEF NetworkInput, InputOK, IsCIDR
  <2>2. CASE DefaultInput
    <3>1. IsOption(NoGateway)
      BY DEF IsOption, NoGateway
    <3> QED BY <2>2, <3>1 DEF DefaultInput, InputOK, IsCIDR
  <2>3. CASE GatewayInput
    BY <2>3, GivenAreOptions DEF GatewayInput, InputOK, IsCIDR, Chosen
  <2>4. CASE AllowedInput
    BY <2>4 DEF AllowedInput, InputOK
  <2>5. CASE TextInput
    BY <2>5 DEF TextInput, InputOK
  <2>6. CASE KeyInput
    BY <2>6, HostKeysAreKeys DEF KeyInput, InputOK
  <2> QED BY <2>1, <2>2, <2>3, <2>4, <2>5, <2>6 DEF Next
<1> QED BY <1>1, <1>2, PTL DEF Spec
-----------------------------------------------------------------------------
\* "We want the last usable IP", on every network of any widths: MaxHost of
\* internal/options computes in a big integer what LastUsable chooses.
THEOREM MaxHostOnInputs == Spec => []MaxHostIsLastUsable
<1>1. InputOK => MaxHostIsLastUsable
  BY MaxHostTheorem DEF InputOK, MaxHostIsLastUsable
<1> QED BY <1>1, InputInvariant, PTL

\* ValidateHostAndGateway without -f accepts no gateway that is the host, and none
\* outside of the network but those GatewayWithinNetwork names.
THEOREM GatewayOnInputs == Spec => []GatewayInNetwork
<1>1. InputOK => GatewayInNetwork
  BY GatewayTheorem DEF InputOK, GatewayInNetwork
<1> QED BY <1>1, InputInvariant, PTL

\* static.Config parses what ValidateHostAndGateway accepted, computed or typed as an
\* address.
THEOREM ParsesOnInputs == Spec => []GatewayParses
<1>1. InputOK => GatewayParses
  BY AcceptedParses DEF InputOK, GatewayParses
<1> QED BY <1>1, InputInvariant, PTL

\* DecodeSafeCIDR restores the one '/' of a CIDR that was typed with 'm' for it.
THEOREM TypedOnInputs == Spec => []TypedIsMeant
<1>1. InputOK => TypedIsMeant
  BY TypedTheorem DEF InputOK, TypedIsMeant
<1> QED BY <1>1, InputInvariant, PTL

\* parseAllowedNets makes a network of one address of an address without a mask.
THEOREM AllowedOnInputs == Spec => []OmittedMask
<1>1. InputOK => OmittedMask
  BY OmittedMaskTheorem DEF InputOK, OmittedMask
<1> QED BY <1>1, InputInvariant, PTL

\* write() and read() of internal/ssh: a file that was cut short is no key, and a
\* whole one is the key it was made of; its private section is padded to blocks.
THEOREM KeysOnInputs == Spec => []KeyFileFormat
<1>1. InputOK => KeyFileFormat
  BY FileIsRead, SectionIsPadded DEF InputOK, KeyFileFormat
<1> QED BY <1>1, InputInvariant, PTL
=============================================================================
