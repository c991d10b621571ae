-------------------------- MODULE HostGatewayProofs --------------------------
(***************************************************************************)
(* Theorems about HostGateway, for addresses of any width.                 *)
(***************************************************************************)
EXTENDS HostGateway, FiniteSetTheorems, TLAPS

(* Powers of two *)

\* Induction for a set of natural numbers: were one missing, taking one from each
\* that is missing would map them into a smaller set, one to one
LEMMA SetInduction ==
  ASSUME NEW S \in SUBSET Nat, 0 \in S, \A n \in S : n + 1 \in S
  PROVE  S = Nat
<1> SUFFICES ASSUME NEW n \in Nat, n \notin S PROVE FALSE
  OBVIOUS
<1> DEFINE T == {i \in 0..n : i \notin S}
           less == [i \in T |-> i - 1]
<1>1. IsFiniteSet(T)
  <2>1. IsFiniteSet(0..n) /\ T \in SUBSET (0..n)
    BY FS_Interval
  <2> QED BY <2>1, FS_Subset
<1>2. n \in T
  OBVIOUS
<1>3. IsFiniteSet(T \ {n}) /\ Cardinality(T \ {n}) < Cardinality(T)
  <2>1. Cardinality(T \ {n}) = Cardinality(T) - 1 /\ IsFiniteSet(T \ {n})
    BY <1>1, <1>2, FS_RemoveElement
  <2>2. Cardinality(T) \in Nat
    BY <1>1, FS_CardinalityType
  <2> QED BY <2>1, <2>2
<1>4. ASSUME NEW i \in T
      PROVE  i - 1 \in T \ {n}
  <2>1. i \in 0..n /\ i # 0
    OBVIOUS
  <2>2. i - 1 \notin S
    <3>1. i - 1 \in S => (i - 1) + 1 \in S
      OBVIOUS
    <3>2. (i - 1) + 1 = i
      BY <2>1
    <3> QED BY <3>1, <3>2
  <2> QED BY <2>1, <2>2
<1>5. less \in [T -> T \ {n}]
  BY <1>4
<1>6. PICK x \in T, y \in T : x # y /\ less[x] = less[y]
  <2> HIDE DEF T, less
  <2> QED BY <1>1, <1>3, <1>5, FS_PigeonHole
<1>7. x \in Int /\ y \in Int /\ x - 1 = y - 1
  BY <1>6
<1> QED BY <1>6, <1>7

\* Pow2 is what its recursive definition says: there is such a function
LEMMA Pow2Def ==
  \A k \in Nat : Pow2[k] = IF k = 0 THEN 1 ELSE 2 * Pow2[k - 1]
<1> DEFINE IsPow(f, n) == f[0] = 1 /\ \A i \in 1..n : f[i] = 2 * f[i - 1]
           S == {n \in Nat : \E f \in [0..n -> Nat] : IsPow(f, n)}
<1>1. 0 \in S
  <2>1. [i \in 0..0 |-> 1] \in [0..0 -> Nat] /\ IsPow([i \in 0..0 |-> 1], 0)
    OBVIOUS
  <2> QED BY <2>1
<1>2. ASSUME NEW n \in S
      PROVE  n + 1 \in S
  <2>1. PICK f \in [0..n -> Nat] : IsPow(f, n)
    OBVIOUS
  <2> DEFINE g == [i \in 0..(n + 1) |-> IF i = n + 1 THEN 2 * f[n] ELSE f[i]]
  <2>2. n \in Nat
    OBVIOUS
  <2>3. ASSUME NEW i \in 0..(n + 1)
        PROVE  g[i] \in Nat /\ (i # n + 1 => g[i] = f[i]) /\ (i = n + 1 => g[i] = 2 * f[n])
    <3>1. i # n + 1 => i \in 0..n
      BY <2>2
    <3>2. n \in 0..n
      BY <2>2
    <3> QED BY <2>1, <3>1, <3>2
  <2>4. g \in [0..(n + 1) -> Nat]
    BY <2>3
  <2>5. IsPow(g, n + 1)
    <3> HIDE DEF g
    <3>1. g[0] = 1
      BY <2>1, <2>2, <2>3
    <3>2. ASSUME NEW i \in 1..(n + 1)
          PROVE  g[i] = 2 * g[i - 1]
      <4>1. i - 1 \in 0..(n + 1) /\ i - 1 # n + 1 /\ g[i - 1] = f[i - 1]
        BY <2>2, <2>3
      <4>2. CASE i = n + 1
        BY <2>2, <2>3, <4>1, <4>2
      <4>3. CASE i # n + 1
        BY <2>1, <2>2, <2>3, <4>1, <4>3
      <4> QED BY <4>2, <4>3
    <3> QED BY <3>1, <3>2
  <2> HIDE DEF g, IsPow
  <2>6. \E h \in [0..(n + 1) -> Nat] : IsPow(h, n + 1)
    BY Zenon, <2>4, <2>5
  <2>7. n + 1 \in Nat
    BY <2>2
  <2> QED BY Zenon, <2>6, <2>7
<1>3. S = Nat
  <2> HIDE DEF S
  <2>1. S \in SUBSET Nat
    BY DEF S
  <2> QED BY <1>1, <1>2, <2>1, SetInduction
<1> DEFINE upTo == [n \in Nat |-> CHOOSE f \in [0..n -> Nat] : IsPow(f, n)]
           pow == [n \in Nat |-> upTo[n][n]]
<1>4. ASSUME NEW n \in Nat
      PROVE  upTo[n] \in [0..n -> Nat] /\ IsPow(upTo[n], n)
  <2>1. \E f \in [0..n -> Nat] : IsPow(f, n)
    BY <1>3
  <2> HIDE DEF IsPow
  <2> QED BY <2>1
<1> HIDE DEF upTo, S
<1>5. ASSUME NEW n \in Nat
      PROVE  upTo[n + 1][n] = upTo[n][n]
  <2> DEFINE U == {m \in Nat : m <= n => upTo[n + 1][m] = upTo[n][m]}
  <2>1. 0 \in U
    BY <1>4
  <2>2. ASSUME NEW m \in U
        PROVE  m + 1 \in U
    <3>1. SUFFICES ASSUME m + 1 <= n
                   PROVE  upTo[n + 1][m + 1] = upTo[n][m + 1]
      OBVIOUS
    <3>2. m \in Nat /\ m + 1 \in 1..n /\ m + 1 \in 1..(n + 1) /\ (m + 1) - 1 = m
      BY <3>1
    <3>3. upTo[n + 1][m] = upTo[n][m]
      BY <3>1, <3>2
    <3>4. upTo[n][m + 1] = 2 * upTo[n][m]
      BY <1>4, <3>2
    <3>5. upTo[n + 1][m + 1] = 2 * upTo[n + 1][m]
      BY <1>4, <3>2
    <3> QED BY <3>3, <3>4, <3>5
  <2>3. U = Nat
    <3> HIDE DEF U
    <3>1. U \in SUBSET Nat
      BY DEF U
    <3> QED BY <2>1, <2>2, <3>1, SetInduction
  <2> QED BY <2>3
<1>6. pow = [k \in Nat |-> IF k = 0 THEN 1 ELSE 2 * pow[k - 1]]
  <2>1. ASSUME NEW k \in Nat
        PROVE  pow[k] = IF k = 0 THEN 1 ELSE 2 * pow[k - 1]
    <3>1. CASE k = 0
      BY <1>4, <3>1
    <3>2. CASE k # 0
      <4>1. k - 1 \in Nat /\ (k - 1) + 1 = k /\ k \in 1..k
        BY <3>2
      <4>2. upTo[k][k] = 2 * upTo[k][k - 1]
        BY <1>4, <4>1
      <4>3. upTo[k][k - 1] = upTo[k - 1][k - 1]
        BY <1>5, <4>1
      <4> QED BY <3>2, <4>1, <4>2, <4>3
    <3> QED BY <3>1, <3>2
  <2> QED BY <2>1
<1> HIDE DEF pow
<1>7. Pow2 = [k \in Nat |-> IF k = 0 THEN 1 ELSE 2 * Pow2[k - 1]]
  BY <1>6 DEF Pow2
<1> QED BY <1>7, Zenon

\* A power of two is positive
LEMMA Pow2Type == \A k \in Nat : Pow2[k] \in Nat \ {0}
<1> DEFINE S == {k \in Nat : Pow2[k] \in Nat \ {0}}
<1>1. 0 \in S
  BY Pow2Def
<1>2. ASSUME NEW k \in S
      PROVE  k + 1 \in S
  BY Pow2Def
<1> HIDE DEF S
<1>3. S \in SUBSET Nat
  BY DEF S
<1>4. S = Nat
  BY <1>1, <1>2, <1>3, SetInduction
<1> QED BY <1>4 DEF S

\* A set of numbers has a least one
LEMMA Least ==
  ASSUME NEW S \in SUBSET Nat, S # {}
  PROVE  \E m \in S : \A n \in S : m <= n
<1> SUFFICES ASSUME \A m \in S : \E n \in S : n < m
             PROVE  FALSE
  OBVIOUS
<1> DEFINE U == {n \in Nat : \A k \in 0..n : k \notin S}
<1>1. 0 \in U
  BY DEF U
<1>2. ASSUME NEW n \in U
      PROVE  n + 1 \in U
  <2>1. \A k \in 0..(n + 1) : k \in 0..n \/ k = n + 1
    OBVIOUS
  <2>2. n + 1 \notin S
    OBVIOUS
  <2> QED BY <2>1, <2>2
<1>3. U = Nat
  <2> HIDE DEF U
  <2>1. U \in SUBSET Nat
    BY DEF U
  <2> QED BY <1>1, <1>2, <2>1, SetInduction
<1>4. PICK m \in S : TRUE
  OBVIOUS
<1>5. m \in U /\ m \in 0..m
  BY <1>3
<1> QED BY <1>5

\* The same of the greatest number of a set that is bounded
LEMMA Greatest ==
  ASSUME NEW n \in Nat, NEW S \in SUBSET (0..n), S # {}
  PROVE  \E m \in S : \A k \in S : k <= m
<1> DEFINE T == {n - k : k \in S}
<1>1. T \in SUBSET Nat /\ T # {}
  <2>1. \A k \in S : n - k \in Nat
    OBVIOUS
  <2> QED BY <2>1
<1>2. PICK t \in T : \A u \in T : t <= u
  <2> HIDE DEF T
  <2> QED BY <1>1, Least
<1>3. PICK m \in S : t = n - m
  OBVIOUS
<1>4. \A k \in S : n - m <= n - k
  BY <1>2, <1>3
<1> QED BY <1>4

\* Adding the exponents
LEMMA Pow2Sum == \A j, k \in Nat : Pow2[j + k] = Pow2[j] * Pow2[k]
<1> SUFFICES ASSUME NEW j \in Nat
             PROVE  \A k \in Nat : Pow2[j + k] = Pow2[j] * Pow2[k]
  OBVIOUS
<1> DEFINE S == {k \in Nat : Pow2[j + k] = Pow2[j] * Pow2[k]}
<1>1. 0 \in S
  BY Pow2Def, Pow2Type
<1>2. ASSUME NEW k \in S
      PROVE  k + 1 \in S
  <2>1. Pow2[k + 1] = 2 * Pow2[k]
    BY Pow2Def
  <2>2. j + (k + 1) \in Nat /\ j + (k + 1) # 0 /\ (j + (k + 1)) - 1 = j + k
    OBVIOUS
  <2>3. Pow2[j + (k + 1)] = 2 * Pow2[j + k]
    BY <2>2, Pow2Def
  <2>4. Pow2[j] * (2 * Pow2[k]) = 2 * (Pow2[j] * Pow2[k])
    BY Pow2Type
  <2> QED BY <2>1, <2>3, <2>4
<1> HIDE DEF S
<1>3. S \in SUBSET Nat
  BY DEF S
<1>4. S = Nat
  BY <1>1, <1>2, <1>3, SetInduction
<1> QED BY <1>4 DEF S

\* A larger exponent at least doubles it, and every power but the first is even
LEMMA Pow2Grows ==
  ASSUME NEW j \in Nat, NEW k \in Nat, j < k
  PROVE  /\ 2 * Pow2[j] <= Pow2[k]
         /\ \E m \in Nat \ {0} : Pow2[k] = 2 * m
<1>1. k - j - 1 \in Nat /\ k - 1 \in Nat /\ k - 1 = j + (k - j - 1) /\ k # 0
  OBVIOUS
<1>2. Pow2[k] = 2 * Pow2[k - 1]
  BY <1>1, Pow2Def
<1>3. Pow2[k - 1] = Pow2[j] * Pow2[k - j - 1]
  BY <1>1, Pow2Sum
<1>4. Pow2[j] <= Pow2[k - 1]
  <2> DEFINE a == Pow2[j]
             b == Pow2[k - j - 1]
  <2>1. a \in Nat \ {0} /\ b \in Nat \ {0}
    BY <1>1, Pow2Type
  <2> HIDE DEF a, b
  <2>2. a <= a * b
    BY <2>1
  <2> QED BY <1>3, <2>2 DEF a, b
<1> QED BY <1>1, <1>2, <1>4, Pow2Type
-----------------------------------------------------------------------------
(* Division *)

\* A quotient and a remainder, as the library's operators define them
LEMMA Division ==
  ASSUME NEW n \in Nat, NEW m \in Nat \ {0}
  PROVE  /\ n \div m \in Nat /\ n % m \in 0..(m - 1)
         /\ n = m * (n \div m) + (n % m)
OBVIOUS

\* Multiplication is monotone
LEMMA Times ==
  ASSUME NEW m \in Nat, NEW j \in Nat, NEW k \in Nat, j <= k
  PROVE  m * j \in Nat /\ m * k \in Nat /\ m * j <= m * k /\ m * (k + 1) = m * k + m
<1>1. k - j \in Nat /\ k = j + (k - j)
  OBVIOUS
<1>2. m * k = m * j + m * (k - j)
  BY <1>1
<1>3. m * (k - j) \in Nat /\ m * j \in Nat
  BY <1>1
<1> QED BY <1>2, <1>3

\* They are the only ones
LEMMA Quotient ==
  ASSUME NEW m \in Nat \ {0}, NEW q \in Nat, NEW r \in 0..(m - 1)
  PROVE  (m * q + r) \div m = q /\ (m * q + r) % m = r
<1>1. m * q \in Nat /\ m * q + r \in Nat
  OBVIOUS
<1>2. (m * q + r) \div m = q
  OBVIOUS
<1>3. m * q + r = m * ((m * q + r) \div m) + ((m * q + r) % m)
  BY <1>1, Division
<1>4. (m * q + r) % m \in Nat
  BY <1>1, Division
<1> DEFINE p == m * q
           d == (m * q + r) % m
<1>5. p + r = p + d
  BY <1>2, <1>3
<1> HIDE DEF p, d
<1>6. r = d
  BY <1>1, <1>4, <1>5 DEF p, d
<1> QED BY <1>2, <1>6 DEF d
-----------------------------------------------------------------------------
(* Addresses and networks *)

\* The values of so many bytes, and those of an IPv6 address as the values of what
\* precedes an IPv4 address and of that address
LEMMA ValuesType ==
  /\ \A b \in Nat : ByteBits * b \in Nat /\ Values(b) \in Nat \ {0}
  /\ \A b, c \in Nat : Values(b + c) = Values(b) * Values(c)
  /\ \A b, c \in Nat : b < c => 2 * Values(b) <= Values(c)
<1>1. ASSUME NEW b \in Nat
      PROVE  ByteBits * b \in Nat
  BY AddressAssumption
<1>2. ASSUME NEW b \in Nat
      PROVE  Values(b) \in Nat \ {0}
  BY <1>1, Pow2Type DEF Values
<1>3. ASSUME NEW b \in Nat, NEW c \in Nat
      PROVE  Values(b + c) = Values(b) * Values(c)
  <2>1. ByteBits * (b + c) = ByteBits * b + ByteBits * c
    BY AddressAssumption
  <2> QED BY <1>1, <2>1, Pow2Sum DEF Values
<1>4. ASSUME NEW b \in Nat, NEW c \in Nat, b < c
      PROVE  2 * Values(b) <= Values(c)
  <2>1. c - b \in Nat \ {0} /\ ByteBits * c = ByteBits * b + ByteBits * (c - b)
    BY <1>4, AddressAssumption
  <2>2. ByteBits * (c - b) >= 1
    BY <2>1, AddressAssumption
  <2>3. ByteBits * b < ByteBits * c
    BY <1>1, <2>1, <2>2
  <2> QED BY <1>1, <2>3, Pow2Grows DEF Values
<1> QED BY <1>1, <1>2, <1>3, <1>4

\* The bytes before an embedded IPv4 address begin with zero
LEMMA MappedType ==
  /\ V4 \in Nat \ {0} /\ V6 \in Nat /\ V4 < V6 /\ V4 # V6 /\ V6 - V4 - 1 \in Nat
  /\ Values(V4) \in Nat \ {0} /\ Values(V6 - V4 - 1) \in Nat \ {0}
  /\ Mapped \in Nat \ {0} /\ Mapped < Values(V6 - V4 - 1)
<1>1. V4 \in Nat \ {0} /\ V6 \in Nat /\ V4 < V6 /\ V4 # V6 /\ V6 - V4 - 1 \in Nat
  BY AddressAssumption
<1>2. Values(V4) \in Nat \ {0} /\ Values(V6 - V4 - 1) \in Nat \ {0}
  BY <1>1, ValuesType
<1>3. Mapped \in 1..(Values(V6 - V4 - 1) - 1)
  BY AddressAssumption
<1> QED BY <1>1, <1>2, <1>3

\* An address is its bytes and their value
LEMMA AddressFields ==
  ASSUME NEW a \in Address
  PROVE  /\ a.bytes \in {V4, V6} /\ a.bytes \in Nat \ {0}
         /\ a.n \in Nat /\ a.n < Values(a.bytes)
         /\ a = [bytes |-> a.bytes, n |-> a.n]
         /\ Bits(a) \in Nat /\ Values(a.bytes) = Pow2[Bits(a)]
<1>1. PICK b \in {V4, V6} : a \in [bytes : {b}, n : 0..(Values(b) - 1)]
  BY DEF Address
<1>2. b \in Nat \ {0}
  BY AddressAssumption
<1>3. Values(b) \in Nat
  BY <1>2, ValuesType
<1>4. a.bytes = b /\ a.n \in 0..(Values(b) - 1) /\ a = [bytes |-> a.bytes, n |-> a.n]
  BY <1>1
<1> QED BY <1>2, <1>3, <1>4, ValuesType DEF Bits, Values

\* ... and so many bytes and a value that they can have are one
LEMMA IsAddressOf ==
  ASSUME NEW b \in {V4, V6}, NEW n \in Nat, n < Values(b)
  PROVE  [bytes |-> b, n |-> n] \in Address
<1>1. Values(b) \in Nat
  BY ValuesType, AddressAssumption
<1>2. n \in 0..(Values(b) - 1)
  BY <1>1
<1> QED BY <1>2 DEF Address

\* net.IP.To4 of an address is one, and a second one changes nothing
LEMMA To4Address ==
  ASSUME NEW a \in Address
  PROVE  To4(a) \in Address /\ To4(To4(a)) = To4(a)
<1>1. CASE a.bytes = V6 /\ a.n \div Values(V4) = Mapped
  <2>1. Values(V4) \in Nat \ {0} /\ a.n \in Nat
    BY AddressFields, ValuesType, AddressAssumption
  <2>2. a.n % Values(V4) \in Nat /\ a.n % Values(V4) < Values(V4)
    <3>1. a.n % Values(V4) \in 0..(Values(V4) - 1)
      BY <2>1, Division
    <3> QED BY <2>1, <3>1
  <2>3. To4(a) = [bytes |-> V4, n |-> a.n % Values(V4)]
    BY <1>1 DEF To4
  <2>4. V4 # V6
    BY AddressAssumption
  <2> HIDE DEF Values
  <2> QED BY <2>2, <2>3, <2>4, IsAddressOf DEF To4
<1>2. CASE ~(a.bytes = V6 /\ a.n \div Values(V4) = Mapped)
  BY <1>2 DEF To4
<1> QED BY <1>1, <1>2

\* The network of a CIDR is a block of addresses that is aligned to its size
LEMMA NetworkIsBlock ==
  ASSUME NEW host, IsCIDR(host)
  PROVE  LET network == Network(host)
             size == Pow2[HostLen(network)]
         IN  /\ network.ip \in Address /\ network.ip.bytes = host.text.bytes
             /\ network.ones = host.ones /\ HostLen(network) = Bits(host.text) - host.ones
             /\ HostLen(network) \in Nat /\ HostLen(network) <= Bits(host.text)
             /\ size \in Nat \ {0}
             /\ \E q \in Nat : /\ network.ip.n = size * q
                               /\ host.text.n >= size * q /\ host.text.n < size * q + size
                               /\ size * q + size <= Values(host.text.bytes)
<1> DEFINE a == host.text
           h == Bits(a) - host.ones
           size == Pow2[h]
           q == a.n \div size
<1>1. /\ a \in Address /\ a.n \in Nat /\ Bits(a) \in Nat /\ host.ones \in 0..Bits(a)
      /\ a.bytes \in {V4, V6} /\ a.n < Values(a.bytes) /\ Values(a.bytes) = Pow2[Bits(a)]
  BY AddressFields DEF IsCIDR
<1>2. h \in Nat /\ h <= Bits(a) /\ h + host.ones = Bits(a) /\ host.ones \in Nat
  BY <1>1
<1>3. size \in Nat \ {0} /\ Pow2[host.ones] \in Nat \ {0}
  BY <1>2, Pow2Type
<1>4. Pow2[Bits(a)] = size * Pow2[host.ones]
  BY <1>2, Pow2Sum
<1>5. /\ Network(host).ip = [bytes |-> a.bytes, n |-> a.n - (a.n % size)]
      /\ Network(host).ones = host.ones
  BY DEF Network
<1>6. Bits(Network(host).ip) = Bits(a)
  BY <1>5 DEF Bits
<1>7. HostLen(Network(host)) = h
  BY <1>5, <1>6 DEF HostLen
<1> HIDE DEF size, a, h
<1>8. q \in Nat /\ a.n % size \in 0..(size - 1) /\ a.n = size * q + (a.n % size)
  BY <1>1, <1>3, Division
<1>9. size * q \in Nat /\ size * q <= a.n /\ a.n < size * q + size /\ a.n - (a.n % size) = size * q
  <2> DEFINE p == size * q
             r == a.n % size
  <2>1. p \in Nat /\ r \in Nat /\ r < size /\ a.n = p + r
    BY <1>3, <1>8
  <2> HIDE DEF p, r
  <2>2. p <= a.n /\ a.n < p + size /\ a.n - r = p
    BY <1>3, <2>1
  <2> QED BY <2>1, <2>2 DEF p, r
<1>10. q < Pow2[host.ones]
  <2>1. SUFFICES ASSUME q >= Pow2[host.ones] PROVE FALSE
    BY <1>3, <1>8
  <2> HIDE DEF q
  <2>2. size * q >= size * Pow2[host.ones]
    BY <1>3, <1>8, <2>1, Times
  <2>3. a.n < size * Pow2[host.ones]
    BY <1>1, <1>4
  <2> DEFINE p == size * q
             t == size * Pow2[host.ones]
  <2>4. p \in Nat /\ t \in Nat /\ p >= t /\ p <= a.n /\ a.n < t
    BY <1>3, <1>9, <2>2, <2>3
  <2> HIDE DEF p, t
  <2> QED BY <1>1, <2>4
<1>11. size * q + size <= Values(a.bytes)
  <2> HIDE DEF q
  <2>1. q + 1 \in Nat /\ q + 1 <= Pow2[host.ones]
    BY <1>3, <1>8, <1>10
  <2>2. size * (q + 1) <= size * Pow2[host.ones]
    BY <1>3, <2>1, Times
  <2>3. size * (q + 1) = size * q + size
    BY <1>3, <1>8, Times
  <2> QED BY <1>1, <1>4, <2>2, <2>3
<1>12. size * q < Values(a.bytes)
  <2> DEFINE p == size * q
  <2>1. p \in Nat /\ p <= a.n
    BY <1>9
  <2>2. Values(a.bytes) \in Nat
    BY <1>1, ValuesType, AddressAssumption
  <2> HIDE DEF p
  <2>3. p < Values(a.bytes)
    BY <1>1, <2>1, <2>2
  <2> QED BY <2>3 DEF p
<1>13. Network(host).ip = [bytes |-> a.bytes, n |-> size * q]
  BY <1>5, <1>9
<1>14. /\ Network(host).ip \in Address
       /\ Network(host).ip.bytes = a.bytes /\ Network(host).ip.n = size * q
  <2> HIDE DEF q
  <2> QED BY <1>1, <1>9, <1>12, <1>13, IsAddressOf
<1> HIDE DEF q
<1> QED BY <1>2, <1>3, <1>5, <1>7, <1>8, <1>9, <1>11, <1>14 DEF a, h, size
-----------------------------------------------------------------------------
(* What ValidateHostAndGateway accepts *)

\* -g as it may be typed, or left out
IsOption(gateway) ==
  gateway = NoGateway \/ gateway.suffix \in {"none", "full", "other"}

\* An accepted gateway is one that no check refused
LEMMA AcceptedNotRefused ==
  ASSUME NEW host, NEW optGateway, NEW optForce, NEW optTryLast,
         ValidateHostAndGateway(host, optGateway, optForce, optTryLast) # Error
  PROVE  LET gateway == Gateway(host, optGateway, optTryLast)
         IN  /\ ValidateHostAndGateway(host, optGateway, optForce, optTryLast) = gateway
             /\ ~Refused(host, optGateway # NoGateway, gateway, optForce)
<1> HIDE DEF Gateway, Refused, Error
<1> QED BY DEF ValidateHostAndGateway

\* static.Config parses an accepted gateway that was computed or typed as an address,
\* although appendPrefixLength and net.ParseCIDR checked another text.
THEOREM AcceptedParses ==
  ASSUME NEW host, NEW optGateway, NEW optForce, NEW optTryLast, IsOption(optGateway),
         optGateway.suffix # "full"
  PROVE  AcceptedGatewayParses(host, optGateway, optForce, optTryLast)
<1> DEFINE validated == ValidateHostAndGateway(host, optGateway, optForce, optTryLast)
           gateway == Gateway(host, optGateway, optTryLast)
<1> SUFFICES ASSUME validated # Error
             PROVE  ParseGateway(validated)
  BY DEF AcceptedGatewayParses
<1>1. validated = gateway /\ ~Refused(host, optGateway # NoGateway, gateway, optForce)
  BY AcceptedNotRefused
<1> HIDE DEF validated
<1>2. IsAddress(gateway.text) /\ gateway.suffix # "other"
  <2> HIDE DEF gateway
  <2> QED BY <1>1 DEF Refused, ParsesWithPrefixLength
<1>3. CASE optGateway = NoGateway
  <2>1. gateway.suffix = "none"
    BY <1>3 DEF Gateway, Computed
  <2> HIDE DEF gateway
  <2> QED BY <1>1, <1>2, <2>1 DEF ParseGateway
<1>4. CASE optGateway # NoGateway
  <2>1. gateway = optGateway /\ optGateway.suffix \in {"none", "full", "other"}
    BY <1>4 DEF Gateway, IsOption
  <2> HIDE DEF gateway
  <2> QED BY <1>1, <1>2, <2>1 DEF ParseGateway
<1> QED BY <1>3, <1>4
-----------------------------------------------------------------------------
(* -a without a prefix length *)

\* A network with the default prefix length has one address, whose texts are those
\* that verifyNetwork lets pass.
THEOREM OmittedMaskTheorem ==
  ASSUME NEW text \in Address
  PROVE  OmittedMaskIsOneAddress(text)
<1> DEFINE host == [text |-> text, ones |-> Bits(text)]
<1> SUFFICES ASSUME To4(text) = text, NEW peer \in Address
             PROVE  Includes(Network(host), peer) <=> Equal(text, peer)
  <2>1. ASSUME To4(text) = text
        PROVE  AllowedNet(text, -1) = Network(host)
    BY <2>1 DEF AllowedNet, Bits
  <2> HIDE DEF host
  <2> QED BY <2>1 DEF OmittedMaskIsOneAddress
<1>1. text.n \in Nat /\ Bits(text) \in Nat /\ text = [bytes |-> text.bytes, n |-> text.n]
  BY AddressFields
<1>2. Pow2[Bits(text) - Bits(text)] = 1
  BY <1>1, Pow2Def
<1>3. Network(host).ip = text /\ Network(host).ones = Bits(text)
  BY <1>1, <1>2 DEF Network
<1>4. Pow2[HostLen(Network(host))] = 1
  <2> HIDE DEF host
  <2> QED BY <1>2, <1>3 DEF HostLen
<1>5. To4(peer) \in Address
  BY To4Address
<1>6. /\ To4(peer).n \in Nat
      /\ To4(peer) = [bytes |-> To4(peer).bytes, n |-> To4(peer).n]
  BY <1>5, AddressFields
<1>7. Includes(Network(host), peer) <=> text.bytes = To4(peer).bytes /\ text.n = To4(peer).n
  <2>1. text.n \div 1 = text.n /\ To4(peer).n \div 1 = To4(peer).n
    BY <1>1, <1>6
  <2> HIDE DEF host
  <2> QED BY <1>3, <1>4, <2>1 DEF Includes
<1> QED BY <1>1, <1>6, <1>7 DEF Equal
-----------------------------------------------------------------------------
(* MaxHost *)

\* The reference: the address of a network that has no address of it, or one, after
\* it is the last or the last but one of the block
LEMMA LastUsableIs ==
  ASSUME NEW host, IsCIDR(host)
  PROVE  LET network == Network(host)
             size == Pow2[HostLen(network)]
             back == IF size = 1 \/ (size = 2 /\ network.ip.bytes = V4) THEN 1 ELSE 2
         IN  /\ back <= size
             /\ LastUsable(network) =
                  [bytes |-> network.ip.bytes, n |-> network.ip.n + size - back]
<1> DEFINE network == Network(host)
           base == network.ip.n
           size == Pow2[HostLen(network)]
           one == size = 1 \/ (size = 2 /\ network.ip.bytes = V4)
           back == IF one THEN 1 ELSE 2
           hosts == {base + i : i \in 0..(size - 1)}
           isLast(n) == IF one THEN n + 1 \notin hosts ELSE n + 1 \in hosts /\ n + 2 \notin hosts
           last == base + size - back
<1>1. LastUsable(network) = [bytes |-> network.ip.bytes, n |-> CHOOSE n \in hosts : isLast(n)]
  BY DEF LastUsable
<1>2. size \in Nat \ {0} /\ network.ip \in Address
  BY NetworkIsBlock
<1>3. base \in Nat
  BY <1>2, AddressFields
<1>4. back \in 1..2 /\ back <= size /\ (one <=> back = 1)
  BY <1>2
<1> HIDE DEF network, base, size, one
<1>5. ASSUME NEW n \in Int
      PROVE  n \in hosts <=> n >= base /\ n < base + size
  <2>1. n = base + (n - base)
    BY <1>3
  <2> QED BY <1>2, <1>3, <2>1
<1> HIDE DEF hosts
<1>6. last \in Int /\ last \in hosts /\ isLast(last)
  <2>1. last \in Int /\ last + 1 \in Int /\ last + 2 \in Int
    BY <1>2, <1>3, <1>4
  <2>2. last \in hosts
    BY <1>2, <1>3, <1>4, <1>5, <2>1
  <2>3. (one => last + 1 \notin hosts) /\ (~one => last + 1 \in hosts /\ last + 2 \notin hosts)
    BY <1>2, <1>3, <1>4, <1>5, <2>1
  <2> QED BY <2>1, <2>2, <2>3
<1>7. ASSUME NEW n \in hosts, isLast(n)
      PROVE  n = last
  <2>1. n \in Int
    BY <1>2, <1>3 DEF hosts
  <2>2. n >= base /\ n < base + size
    BY <1>5, <2>1
  <2>3. n + 1 \in Int /\ n + 2 \in Int
    BY <2>1
  <2>4. CASE one
    <3>1. ~(n + 1 >= base /\ n + 1 < base + size)
      BY <1>5, <1>7, <2>3, <2>4
    <3> QED BY <1>2, <1>3, <1>4, <2>1, <2>2, <2>4, <3>1
  <2>5. CASE ~one
    <3>1. n + 1 < base + size /\ ~(n + 2 >= base /\ n + 2 < base + size)
      BY <1>5, <1>7, <2>3, <2>5
    <3> QED BY <1>2, <1>3, <1>4, <2>1, <2>2, <2>5, <3>1
  <2> QED BY <2>4, <2>5
<1> HIDE DEF isLast, last
<1>8. (CHOOSE n \in hosts : isLast(n)) = last
  BY <1>6, <1>7
<1> QED BY <1>1, <1>4, <1>8 DEF last, back, one, network, base, size

\* big.Int.Bytes of a number that fits into b bytes: as many as it needs
LEMMA FromIntBytes ==
  ASSUME NEW b \in 0..V6, NEW n \in Nat, n < Values(b)
  PROVE  \E k \in 0..b : /\ FromInt(n) = [bytes |-> k, n |-> n]
                         /\ n < Values(k)
<1> DEFINE fits(k) == n < Values(k) /\ \A j \in 0..(k - 1) : n >= Values(j)
           S == {k \in 0..V6 : n < Values(k)}
           bytes == CHOOSE k \in 0..V6 : fits(k)
<1>1. V6 \in Nat /\ \A k \in Nat : Values(k) \in Nat
  BY AddressAssumption, ValuesType
<1>2. b \in S /\ S \in SUBSET Nat
  BY <1>1
<1>3. PICK k \in S : \A j \in S : k <= j
  <2> HIDE DEF S
  <2> QED BY <1>2, Least
<1>4. k \in 0..V6 /\ fits(k)
  <2>1. ASSUME NEW j \in 0..(k - 1)
        PROVE  n >= Values(j)
    <3>1. j \notin S /\ j \in 0..V6 /\ j \in Nat
      BY <1>1, <1>3
    <3> QED BY <1>1, <3>1
  <2> QED BY <1>3, <2>1
<1>5. bytes \in 0..V6 /\ fits(bytes)
  <2> HIDE DEF fits
  <2> QED BY <1>4
<1>6. FromInt(n) = [bytes |-> bytes, n |-> n]
  BY DEF FromInt
<1> HIDE DEF bytes
<1>7. bytes \in 0..b
  <2>1. SUFFICES ASSUME b < bytes PROVE FALSE
    BY <1>1, <1>5
  <2>2. b \in 0..(bytes - 1) /\ b \in Nat
    BY <1>1, <1>5, <2>1
  <2>3. n >= Values(b)
    BY <1>5, <2>2
  <2> QED BY <1>1, <2>2, <2>3
<1> QED BY <1>5, <1>6, <1>7

\* MaxHost takes the number of the last usable address through a big integer
LEMMA MaxHostIs ==
  ASSUME NEW host, IsCIDR(host)
  PROVE  LET network == Network(host)
             last == LastUsable(network)
         IN  /\ last \in Address /\ last.bytes = network.ip.bytes
             /\ \/ last = network.ip /\ MaxHost(network) = String(last)
                \/ MaxHost(network) = String(FromInt(last.n))
<1> DEFINE network == Network(host)
           h == HostLen(network)
           size == Pow2[h]
           base == network.ip.n
           last == LastUsable(network)
           one == size = 1 \/ (size = 2 /\ network.ip.bytes = V4)
<1>1. /\ network.ip \in Address /\ network.ip.bytes = host.text.bytes /\ network.ones = host.ones
      /\ h \in Nat /\ h = Bits(host.text) - host.ones /\ size \in Nat \ {0}
      /\ host.ones \in Int
  BY NetworkIsBlock DEF IsCIDR
<1>2. PICK q \in Nat : base = size * q /\ size * q + size <= Values(host.text.bytes)
  BY NetworkIsBlock
<1>3. /\ network.ip.bytes \in {V4, V6} /\ base \in Nat
      /\ network.ip = [bytes |-> network.ip.bytes, n |-> base]
      /\ Values(network.ip.bytes) \in Nat /\ Bits(host.text) \in Nat
  BY <1>1, AddressFields, ValuesType DEF IsCIDR
<1>4. /\ IF one THEN last = [bytes |-> network.ip.bytes, n |-> base + size - 1]
         ELSE last = [bytes |-> network.ip.bytes, n |-> base + size - 2] /\ size >= 2
  BY <1>1, LastUsableIs
<1>5. base + size <= Values(network.ip.bytes)
  BY <1>1, <1>2
<1> HIDE DEF network, size, base
<1>6. last \in Address /\ last.bytes = network.ip.bytes
  <2> HIDE DEF last
  <2>1. /\ base + size - 1 \in Nat /\ base + size - 1 < Values(network.ip.bytes)
        /\ base + size - 2 < Values(network.ip.bytes)
        /\ (size >= 2 => base + size - 2 \in Nat)
    BY <1>1, <1>3, <1>5
  <2> HIDE DEF one
  <2> QED BY <1>3, <1>4, <2>1, IsAddressOf
<1>7. (h = 0 <=> size = 1) /\ (h = 1 <=> size = 2)
  <2>1. Pow2[0] = 1 /\ Pow2[1] = 2
    BY Pow2Def
  <2>2. h > 1 => size >= 4
    BY <1>1, <2>1, Pow2Grows DEF size
  <2> QED BY <1>1, <2>1, <2>2 DEF size
<1>8. CASE h = 0
  <2>1. one /\ base + size - 1 = base
    BY <1>3, <1>7, <1>8
  <2>2. last = network.ip
    BY <1>3, <1>4, <2>1
  <2>3. MaxHost(network) = String(network.ip)
    BY <1>8 DEF MaxHost
  <2> QED BY <1>6, <2>2, <2>3 DEF network
<1>9. CASE h # 0
  <2>1. network.ip.bytes = V4 => (network.ones = V4 * ByteBits - 1 <=> h = 1)
    <3>1. SUFFICES ASSUME network.ip.bytes = V4
                   PROVE  network.ones = V4 * ByteBits - 1 <=> h = 1
      OBVIOUS
    <3>2. Bits(host.text) = V4 * ByteBits
      BY <1>1, <3>1, AddressAssumption DEF Bits
    <3> QED BY <1>1, <1>3, <3>2
  <2>2. (network.ones = V4 * ByteBits - 1 /\ network.ip.bytes = V4) <=> one
    BY <1>7, <1>9, <2>1
  <2>3. AllOnes(network) = base + size - 1
    BY DEF AllOnes, base, size
  <2>4. MaxHost(network) = IF one THEN String(FromInt(base + size - 1))
                           ELSE String(FromInt((base + size - 1) - 1))
    BY <1>9, <2>2, <2>3 DEF MaxHost
  <2>5. (base + size - 1) - 1 = base + size - 2
    BY <1>1, <1>3
  <2>6. last.n = IF one THEN base + size - 1 ELSE base + size - 2
    BY <1>4
  <2>7. MaxHost(network) = String(FromInt(last.n))
    <3> HIDE DEF one, last
    <3> QED BY <2>4, <2>5, <2>6
  <2> QED BY <1>6, <2>7 DEF network
<1> QED BY <1>8, <1>9

\* "We want the last usable IP": MaxHost returns its text, or, when leading zero
\* bytes are lost in the big integer, one of fewer bytes.
THEOREM MaxHostTheorem ==
  ASSUME NEW host, IsCIDR(host)
  PROVE  LastUsableOrShortened(Network(host))
<1> DEFINE network == Network(host)
           last == LastUsable(network)
<1>1. /\ last \in Address /\ last.bytes = network.ip.bytes
      /\ MaxHost(network) = String(last) \/ MaxHost(network) = String(FromInt(last.n))
  BY MaxHostIs DEF network
<1> SUFFICES ASSUME MaxHost(network) # String(last)
             PROVE  MaxHost(network).bytes < network.ip.bytes /\ last.n < Values(last.bytes - 1)
  BY DEF LastUsableOrShortened
<1> HIDE DEF last, network
<1>2. MaxHost(network) = String(FromInt(last.n))
  BY <1>1
<1>3. /\ last.bytes \in {V4, V6} /\ last.n \in Nat /\ last.n < Values(last.bytes)
      /\ last = [bytes |-> last.bytes, n |-> last.n]
  BY <1>1, AddressFields
<1>4. last.bytes \in 0..V6 /\ last.bytes \in Nat \ {0} /\ V6 \in Nat
  BY <1>3, AddressAssumption
<1>5. PICK k \in 0..last.bytes : FromInt(last.n) = [bytes |-> k, n |-> last.n] /\ last.n < Values(k)
  BY <1>3, <1>4, FromIntBytes
<1>6. k < last.bytes /\ k # V6 /\ k \in Nat
  <2>1. k # last.bytes
    BY <1>2, <1>3, <1>5
  <2> QED BY <1>4, <2>1
<1>7. MaxHost(network) = [bytes |-> k, n |-> last.n]
  BY <1>2, <1>5, <1>6 DEF String, To4
<1>8. last.n < Values(last.bytes - 1)
  <2>1. CASE k = last.bytes - 1
    BY <1>5, <2>1
  <2>2. CASE k # last.bytes - 1
    <3>1. last.bytes - 1 \in Nat /\ k < last.bytes - 1
      BY <1>4, <1>6, <2>2
    <3>2. 2 * Values(k) <= Values(last.bytes - 1)
      BY <1>6, <3>1, ValuesType
    <3>3. Values(k) \in Nat /\ Values(last.bytes - 1) \in Nat
      BY <1>6, <3>1, ValuesType
    <3> QED BY <1>3, <1>5, <3>2, <3>3
  <2> QED BY <2>1, <2>2
<1> QED BY <1>1, <1>6, <1>7, <1>8
-----------------------------------------------------------------------------
(* A computed gateway *)

\* An embedded address, of an IPv6 address
IsMapped(ip) == ip.bytes = V6 /\ ip.n \div Values(V4) = Mapped

\* A network whose address is an embedded one is within the embedded addresses: a
\* larger one would be aligned to their number, which Mapped is not
LEMMA MappedBlock ==
  ASSUME NEW host, IsCIDR(host), IsMapped(Network(host).ip)
  PROVE  LET ip == Network(host).ip
             size == Pow2[HostLen(Network(host))]
         IN  \E s \in Nat : /\ ip.n % Values(V4) = size * s /\ size * s \in Nat
                            /\ size * s + size <= Values(V4)
                            /\ ip.n = Values(V4) * Mapped + size * s
<1> DEFINE ip == Network(host).ip
           h == HostLen(Network(host))
           v == ByteBits * V4
           size == Pow2[h]
           V == Values(V4)
           r == ip.n % V
<1>1. h \in Nat /\ size \in Nat \ {0} /\ ip \in Address
  BY NetworkIsBlock
<1>2. PICK q \in Nat : ip.n = size * q
  BY NetworkIsBlock
<1>3. v \in Nat /\ V \in Nat \ {0} /\ V = Pow2[v] /\ ip.n \in Nat /\ Mapped \in Nat
  <2>1. v \in Nat
    BY MappedType, ValuesType
  <2> QED BY <1>1, <2>1, AddressFields, MappedType DEF Values
<1>4. ip.n \div V = Mapped
  BY DEF IsMapped
<1> HIDE DEF ip, h, v, V, size
<1>5. ip.n = V * Mapped + r /\ r \in 0..(V - 1) /\ V * Mapped \in Nat
  <2>1. ip.n = V * (ip.n \div V) + (ip.n % V) /\ ip.n % V \in 0..(V - 1)
    BY <1>3, Division
  <2>2. V * (ip.n \div V) = V * Mapped /\ V * Mapped \in Nat
    BY <1>3, <1>4
  <2> DEFINE p == V * Mapped
             t == V * (ip.n \div V)
  <2>3. ip.n = t + r /\ t = p /\ r \in 0..(V - 1)
    BY <2>1, <2>2
  <2> HIDE DEF p, t, r
  <2>4. ip.n = p + r
    BY <2>3
  <2> QED BY <2>2, <2>3, <2>4 DEF p
<1> HIDE DEF r
<1>6. CASE h <= v
  <2>1. v - h \in Nat /\ h + (v - h) = v
    BY <1>1, <1>3, <1>6
  <2> DEFINE d == Pow2[v - h]
             s == q - d * Mapped
  <2>2. d \in Nat \ {0} /\ V = size * d
    <3>1. d \in Nat \ {0}
      BY <2>1, Pow2Type
    <3>2. Pow2[h + (v - h)] = Pow2[h] * Pow2[v - h]
      BY <1>1, <2>1, Pow2Sum
    <3> QED BY <1>3, <2>1, <3>1, <3>2 DEF size
  <2> HIDE DEF d
  <2>3. s \in Int /\ size * s = size * q - (size * d) * Mapped
    <3>1. d * Mapped \in Nat
      BY <1>3, <2>2
    <3>2. size * (q - d * Mapped) = size * q - size * (d * Mapped)
      BY <1>1, <3>1
    <3>3. size * (d * Mapped) = (size * d) * Mapped
      BY <1>1, <1>3, <2>2
    <3> QED BY <3>1, <3>2, <3>3
  <2> HIDE DEF s
  <2>4. size * s = r
    <3> DEFINE p == V * Mapped
               t == size * q
               u == size * s
    <3>1. p \in Nat /\ t = p + r /\ u = t - p
      BY <1>2, <1>5, <2>2, <2>3
    <3> HIDE DEF p, t, u
    <3>2. u = r
      BY <1>3, <1>5, <3>1
    <3> QED BY <3>2 DEF u
  <2>5. s >= 0
    <3>1. SUFFICES ASSUME s < 0 PROVE FALSE
      BY <2>3
    <3>2. size * s < 0
      BY <1>1, <2>3, <3>1
    <3> QED BY <1>3, <1>5, <2>4, <3>2
  <2>6. s < d
    <3>1. SUFFICES ASSUME s >= d PROVE FALSE
      BY <2>2, <2>3
    <3>2. size * d <= size * s
      BY <1>1, <2>2, <2>3, <2>5, <3>1, Times
    <3> QED BY <1>3, <1>5, <2>2, <2>4, <3>2
  <2>7. size * s + size <= V
    <3>1. s + 1 \in Nat /\ s + 1 <= d /\ s \in Nat
      BY <2>2, <2>3, <2>5, <2>6
    <3>2. size * (s + 1) <= size * d
      BY <1>1, <2>2, <3>1, Times
    <3>3. size * (s + 1) = size * s + size
      BY <1>1, <3>1, Times
    <3> QED BY <2>2, <3>2, <3>3
  <2>8. s \in Nat /\ size * s \in Nat
    BY <1>1, <2>3, <2>5, Times
  <2> QED BY <1>5, <2>4, <2>7, <2>8 DEF ip, V, size, h, r
<1>7. CASE h > v
  <2>1. h - v \in Nat \ {0} /\ v + (h - v) = h
    BY <1>1, <1>3, <1>7
  <2>2. PICK m \in Nat \ {0} : Pow2[h - v] = 2 * m
    BY <2>1, Pow2Grows
  <2>3. size = V * (2 * m)
    <3>1. Pow2[v + (h - v)] = Pow2[v] * Pow2[h - v]
      BY <1>3, <2>1, Pow2Sum
    <3> QED BY <1>3, <2>1, <2>2, <3>1 DEF size
  <2>4. 2 * m \in Nat /\ (2 * m) * q \in Nat /\ (2 * m) * q = 2 * (m * q) /\ m * q \in Nat
    <3>1. m * q \in Nat
      BY <2>2
    <3>2. (2 * m) * q = 2 * (m * q)
      BY <2>2
    <3> QED BY <3>1, <3>2
  <2>5. ip.n = V * ((2 * m) * q)
    BY <1>2, <1>3, <2>2, <2>3
  <2>6. ip.n = V * (2 * (m * q)) + 0
    BY <1>3, <2>4, <2>5
  <2>7. ip.n \div V = 2 * (m * q)
    <3> DEFINE k == m * q
    <3>1. k \in Nat /\ 2 * k \in Nat
      BY <2>4
    <3> HIDE DEF k
    <3>2. (V * (2 * k) + 0) \div V = 2 * k
      BY <1>3, <3>1, Quotient
    <3> QED BY <2>6, <3>2 DEF k
  <2>8. Mapped = 2 * (m * q) + 0
    BY <1>4, <2>4, <2>7
  <2>9. Mapped % 2 = 0
    BY <2>4, <2>8, Quotient
  <2> QED BY <2>9, AddressAssumption
<1> QED BY <1>1, <1>3, <1>6, <1>7
\* What To4 does
LEMMA To4Cases ==
  ASSUME NEW ip \in Address
  PROVE  /\ IsMapped(ip) => To4(ip) = [bytes |-> V4, n |-> ip.n % Values(V4)]
         /\ ~IsMapped(ip) => To4(ip) = ip
BY DEF To4, IsMapped

\* netip.Addr.Next of the address of a network of more than one is in the network:
\* it carries into nothing, and makes no embedded address of another one
LEMMA FirstIncluded ==
  ASSUME NEW host, IsCIDR(host), HostLen(Network(host)) # 0
  PROVE  Includes(Network(host), NextAddr(String(Network(host).ip)))
<1> DEFINE ip == Network(host).ip
           h == HostLen(Network(host))
           size == Pow2[h]
           V == Values(V4)
<1>1. h \in Nat /\ size \in Nat \ {0} /\ ip \in Address /\ ip.bytes = host.text.bytes
  BY NetworkIsBlock
<1>2. PICK q \in Nat : ip.n = size * q /\ size * q + size <= Values(ip.bytes)
  BY NetworkIsBlock
<1>3. /\ ip.bytes \in {V4, V6} /\ ip.n \in Nat /\ ip = [bytes |-> ip.bytes, n |-> ip.n]
      /\ Values(ip.bytes) \in Nat /\ V \in Nat \ {0} /\ V4 \in Nat \ {0} /\ V4 # V6
      /\ Mapped \in Nat
  BY <1>1, AddressFields, MappedType, ValuesType
<1>4. PICK m \in Nat \ {0} : size = 2 * m
  BY <1>1, Pow2Grows
<1>5. size >= 2
  BY <1>4
<1> HIDE DEF ip, h, size, V
<1>6. CASE IsMapped(ip)
  <2>1. PICK s \in Nat : /\ ip.n % V = size * s /\ size * s \in Nat
                         /\ size * s + size <= V
    BY <1>6, MappedBlock DEF ip, h, size, V
  <2>2. To4(ip) = [bytes |-> V4, n |-> size * s]
    BY <1>1, <1>6, <2>1, To4Cases DEF V
  <2>3. size * s + 1 < V
    <3> DEFINE p == size * s
    <3>1. p \in Nat /\ p + size <= V
      BY <2>1
    <3> HIDE DEF p
    <3>2. p + 1 < V
      BY <1>1, <1>3, <1>5, <3>1
    <3> QED BY <3>2 DEF p
  <2>4. NextAddr(String(ip)) = [bytes |-> V4, n |-> size * s + 1]
    BY <2>2, <2>3 DEF NextAddr, String, V
  <2>5. To4(NextAddr(String(ip))) = [bytes |-> V4, n |-> size * s + 1]
    BY <1>3, <2>4 DEF To4
  <2>6. (size * s + 0) \div size = s /\ (size * s + 1) \div size = s
    BY <1>1, <1>5, Quotient
  <2>7. size * s + 0 = size * s
    BY <2>1
  <2> QED BY <2>2, <2>5, <2>6, <2>7 DEF Includes, ip, h, size
<1>7. CASE ~IsMapped(ip)
  <2>1. To4(ip) = ip
    BY <1>1, <1>7, To4Cases
  <2> DEFINE next == [bytes |-> ip.bytes, n |-> ip.n + 1]
  <2>2. ip.n + 1 < Values(ip.bytes)
    BY <1>1, <1>2, <1>3, <1>5
  <2>3. NextAddr(String(ip)) = next
    BY <1>3, <2>1, <2>2 DEF NextAddr, String
  <2>4. next \in Address
    BY <1>3, <2>2, IsAddressOf
  <2>5. ~IsMapped(next)
    <3>1. SUFFICES ASSUME ip.bytes = V6, (ip.n + 1) \div V = Mapped PROVE FALSE
      BY DEF IsMapped, V
    <3> DEFINE t == (ip.n + 1) % V
               p == V * Mapped
    <3>2. ip.n + 1 \in Nat
      BY <1>3
    <3>3. ip.n + 1 = p + t /\ t \in 0..(V - 1) /\ p \in Nat
      <4>1. ip.n + 1 = V * ((ip.n + 1) \div V) + t /\ t \in 0..(V - 1)
        BY <1>3, <3>2, Division
      <4> QED BY <1>3, <3>1, <4>1
    <3> HIDE DEF t
    <3>4. t # 0
      <4>1. SUFFICES ASSUME t = 0 PROVE FALSE
        OBVIOUS
      <4>2. PICK u \in Nat \ {0} : V = 2 * u
        <5>1. ByteBits * V4 \in Nat /\ 0 < ByteBits * V4
          BY AddressAssumption
        <5> QED BY <5>1, Pow2Grows DEF V, Values
      <4>3. p = 2 * (u * Mapped) /\ u * Mapped \in Nat
        BY <1>3, <4>2
      <4>4. ip.n = 2 * (m * q) /\ m * q \in Nat
        BY <1>2, <1>4
      <4> DEFINE a == m * q
                 b == u * Mapped
      <4>5. 2 * a + 1 = 2 * b /\ a \in Nat /\ b \in Nat
        <5> HIDE DEF p
        <5> QED BY <1>3, <3>3, <4>1, <4>3, <4>4
      <4> HIDE DEF a, b
      <4> QED BY <4>5
    <3>5. ip.n = p + (t - 1) /\ t - 1 \in 0..(V - 1)
      <4> HIDE DEF p
      <4> QED BY <1>3, <3>3, <3>4
    <3>6. ip.n \div V = Mapped
      BY <1>3, <3>5, Quotient
    <3> QED BY <1>7, <3>1, <3>6 DEF IsMapped, V
  <2>6. To4(next) = next
    BY <2>4, <2>5, To4Cases
  <2>7. (size * q + 0) \div size = q /\ (size * q + 1) \div size = q
    BY <1>1, <1>5, Quotient
  <2>8. ip.n = size * q + 0 /\ next.n = size * q + 1 /\ next.bytes = ip.bytes
    BY <1>2, <1>3
  <2> HIDE DEF next
  <2> QED BY <2>1, <2>3, <2>6, <2>7, <2>8 DEF Includes, ip, h, size
<1> QED BY <1>6, <1>7

\* Where MaxHost returns the text of the last usable address, that is in the network
LEMMA LastIncluded ==
  ASSUME NEW host, IsCIDR(host),
         MaxHost(Network(host)) = String(LastUsable(Network(host)))
  PROVE  Includes(Network(host), MaxHost(Network(host)))
<1> DEFINE network == Network(host)
           ip == network.ip
           h == HostLen(network)
           size == Pow2[h]
           V == Values(V4)
           last == LastUsable(network)
<1>1. h \in Nat /\ size \in Nat \ {0} /\ ip \in Address /\ ip.bytes = host.text.bytes
  BY NetworkIsBlock
<1>2. PICK q \in Nat : ip.n = size * q
  BY NetworkIsBlock
<1>3. PICK back \in 1..2 : back <= size /\ last = [bytes |-> ip.bytes, n |-> ip.n + size - back]
  <2> DEFINE b == IF size = 1 \/ (size = 2 /\ ip.bytes = V4) THEN 1 ELSE 2
  <2>1. b <= size /\ last = [bytes |-> ip.bytes, n |-> ip.n + size - b]
    BY LastUsableIs
  <2>2. b \in 1..2
    OBVIOUS
  <2> HIDE DEF b, size, last, ip
  <2> QED BY <2>1, <2>2
<1>4. /\ last \in Address
      /\ last = ip \/ MaxHost(network) = String(FromInt(last.n))
  BY MaxHostIs
<1>5. /\ V \in Nat \ {0} /\ V4 \in Nat \ {0} /\ V6 \in Nat /\ V4 < V6
      /\ Mapped \in Nat \ {0} /\ V6 - V4 - 1 \in Nat /\ Mapped < Values(V6 - V4 - 1)
      /\ Values(V6 - V4 - 1) \in Nat
  BY MappedType
<1>6. ip.n \in Nat /\ last.n \in Nat /\ last.n = ip.n + size - back /\ last.bytes = ip.bytes
  BY <1>1, <1>3, <1>4, AddressFields
<1> HIDE DEF network, ip, h, size, V, last
<1>7. CASE last = ip
  <2>1. To4(String(last)) = To4(ip)
    BY <1>1, <1>7, To4Address DEF String
  <2> QED BY <2>1 DEF Includes, network, ip, last
<1>8. ASSUME last # ip
      PROVE  ~IsMapped(last)
  <2>1. SUFFICES ASSUME IsMapped(last) PROVE FALSE
    OBVIOUS
  <2>2. String(last) = [bytes |-> V4, n |-> last.n % V]
    BY <1>4, <2>1, To4Cases DEF String, V
  <2>3. last.n = V * Mapped + (last.n % V) /\ last.n % V \in 0..(V - 1)
    BY <1>5, <1>6, <2>1, Division DEF IsMapped, V
  <2>4. V <= V * Mapped /\ V * Mapped \in Nat
    BY <1>5
  <2>5. last.n >= V /\ last.n < V * Mapped + V
    <3> DEFINE p == V * Mapped
    <3>1. last.n = p + (last.n % V) /\ p \in Nat /\ V <= p
      BY <2>3, <2>4
    <3> HIDE DEF p
    <3>2. last.n >= V /\ last.n < p + V
      BY <1>5, <1>6, <2>3, <3>1
    <3> QED BY <3>2 DEF p
  <2>6. last.n < Values(V6 - 1)
    <3>1. V * (Mapped + 1) <= V * Values(V6 - V4 - 1) /\ V * (Mapped + 1) = V * Mapped + V
      <4>1. /\ Mapped + 1 \in Nat /\ Mapped + 1 <= Values(V6 - V4 - 1)
            /\ Mapped \in Nat /\ Mapped <= Mapped
        BY <1>5
      <4> QED BY <1>5, <4>1, Times
    <3>2. V4 + (V6 - V4 - 1) = V6 - 1
      BY <1>5
    <3>3. Values(V4 + (V6 - V4 - 1)) = V * Values(V6 - V4 - 1)
      BY <1>5, ValuesType DEF V
    <3>4. Values(V6 - 1) = V * Values(V6 - V4 - 1)
      BY <3>2, <3>3
    <3>5. Values(V6 - 1) \in Nat
      <4>1. V6 - 1 \in Nat
        BY <1>5
      <4> QED BY <4>1, ValuesType
    <3> HIDE DEF V
    <3> DEFINE p == V * Mapped
               w == Values(V6 - 1)
               x == V * (Mapped + 1)
               y == V * Values(V6 - V4 - 1)
    <3>6. x <= y /\ x = p + V /\ w = y
      BY <3>1, <3>4
    <3>7. p \in Nat /\ w \in Nat /\ last.n < p + V
      BY <2>4, <2>5, <3>5
    <3> HIDE DEF p, w, x, y
    <3>8. last.n < w
      BY <1>5, <1>6, <3>6, <3>7
    <3> QED BY <3>8 DEF w
  <2>7. V6 - 1 \in 0..V6
    BY <1>5
  <2>8. PICK k \in 0..(V6 - 1) : FromInt(last.n) = [bytes |-> k, n |-> last.n]
    BY <1>6, <2>6, <2>7, FromIntBytes
  <2>9. k # V6
    BY <1>5
  <2>10. String(FromInt(last.n)) = [bytes |-> k, n |-> last.n]
    BY <2>8, <2>9 DEF String, To4
  <2>11. [bytes |-> k, n |-> last.n] = [bytes |-> V4, n |-> last.n % V]
    BY <1>4, <1>8, <2>2, <2>10 DEF network, last
  <2>12. last.n = last.n % V
    BY <2>11
  <2> QED BY <1>5, <1>6, <2>3, <2>5, <2>12
<1>9. ASSUME ~IsMapped(last)
      PROVE  ~IsMapped(ip)
  <2>1. SUFFICES ASSUME IsMapped(ip) PROVE FALSE
    OBVIOUS
  <2>2. PICK s \in Nat : /\ size * s \in Nat /\ size * s + size <= V
                         /\ ip.n = V * Mapped + size * s
    BY <2>1, MappedBlock DEF ip, network, h, size, V
  <2> DEFINE r == size * s + (size - back)
             p == V * Mapped
  <2>3. r \in 0..(V - 1) /\ last.n = p + r
    <3> DEFINE t == size * s
    <3>1. t \in Nat /\ t + size <= V /\ ip.n = p + t /\ p \in Nat /\ r = t + (size - back)
      BY <1>5, <2>2
    <3> HIDE DEF t, p, r
    <3> QED BY <1>1, <1>3, <1>5, <1>6, <3>1
  <2> HIDE DEF r
  <2>4. last.n \div V = Mapped
    BY <1>5, <2>3, Quotient
  <2> QED BY <1>6, <1>9, <2>1, <2>4 DEF IsMapped, V
<1>10. CASE last # ip
  <2>1. To4(ip) = ip /\ To4(last) = last /\ To4(String(last)) = last
    BY <1>1, <1>4, <1>8, <1>9, <1>10, To4Cases DEF String
  <2>2. last.n = size * q + (size - back) /\ size - back \in 0..(size - 1) /\ ip.n = size * q + 0
    <3> DEFINE t == size * q
    <3>1. ip.n = t /\ t \in Nat
      BY <1>2, <1>6
    <3> HIDE DEF t
    <3>2. last.n = t + (size - back) /\ size - back \in 0..(size - 1) /\ ip.n = t + 0
      BY <1>1, <1>3, <1>6, <3>1
    <3> QED BY <3>2 DEF t
  <2>3. 0 \in 0..(size - 1)
    BY <1>1
  <2>4. last.n \div size = q /\ ip.n \div size = q
    BY <1>1, <2>2, <2>3, Quotient
  <2> QED BY <1>6, <2>1, <2>4 DEF Includes, network, ip, h, size, last
<1> QED BY <1>7, <1>10

\* An accepted gateway is not the host, and is in its network unless it was computed
\* for a network of one address or shortened: the code looks for a given one, and
\* the arithmetic of a computed one does not leave the network.
THEOREM GatewayTheorem ==
  ASSUME NEW host, IsCIDR(host), NEW optGateway, NEW optTryLast \in BOOLEAN
  PROVE  GatewayWithinNetwork(host, optGateway, optTryLast)
<1> DEFINE network == Network(host)
           validated == ValidateHostAndGateway(host, optGateway, FALSE, optTryLast)
           gateway == Gateway(host, optGateway, optTryLast)
<1> SUFFICES ASSUME validated # Error
             PROVE  /\ ~Equal(validated.text, host.text)
                    /\ \/ Includes(network, validated.text)
                       \/ optGateway = NoGateway /\ ~optTryLast /\ HostLen(network) = 0
                       \/ /\ optGateway = NoGateway /\ optTryLast
                          /\ validated.text # String(LastUsable(network))
  BY DEF GatewayWithinNetwork
<1>1. validated = gateway /\ ~Refused(host, optGateway # NoGateway, gateway, FALSE)
  BY AcceptedNotRefused
<1> HIDE DEF validated
<1>2. ~Equal(gateway.text, host.text)
  <2> HIDE DEF gateway
  <2> QED BY <1>1 DEF Refused, Equal
<1>3. CASE optGateway # NoGateway
  <2>1. Includes(network, gateway.text)
    <3> HIDE DEF gateway
    <3> QED BY <1>1, <1>3 DEF Refused
  <2> QED BY <1>1, <1>2, <2>1
<1>4. CASE optGateway = NoGateway /\ optTryLast
  <2>1. gateway.text = MaxHost(network)
    BY <1>4 DEF Gateway, Computed
  <2> HIDE DEF gateway
  <2> QED BY <1>1, <1>2, <1>4, <2>1, LastIncluded
<1>5. CASE optGateway = NoGateway /\ ~optTryLast
  <2>1. gateway.text = NextAddr(String(network.ip))
    BY <1>5 DEF Gateway, Computed
  <2> HIDE DEF gateway
  <2> QED BY <1>1, <1>2, <1>5, <2>1, FirstIncluded
<1> QED BY <1>3, <1>4, <1>5
-----------------------------------------------------------------------------
(* DecodeSafeCIDR *)

\* Of a text, DecodeSafeCIDR changes the last 'm' only, and nothing where a '/' is
LEMMA DecodesLast ==
  ASSUME NEW S, NEW cidr \in Seq(S)
  PROVE  /\ (\E i \in 1..Len(cidr) : cidr[i] = "/") => DecodeSafeCIDR(cidr) = cidr
         /\ \A p \in 1..Len(cidr) :
              /\ cidr[p] = "m" /\ \A i \in 1..Len(cidr) : cidr[i] # "/"
              /\ \A i \in 1..Len(cidr) : cidr[i] = "m" => i <= p
              => DecodeSafeCIDR(cidr) = [cidr EXCEPT ![p] = "/"]
<1> DEFINE I == {i \in 1..Len(cidr) : cidr[i] = "m"}
           i == IF I # {} THEN Max(I) ELSE 0
<1>1. DecodeSafeCIDR(cidr) =
        IF Contains(cidr, "/") \/ i = 0 THEN cidr ELSE [cidr EXCEPT ![i] = "/"]
  BY DEF DecodeSafeCIDR, SelectLastInSeq
<1>2. Contains(cidr, "/") <=> \E j \in 1..Len(cidr) : cidr[j] = "/"
  BY DEF Contains
<1>3. ASSUME NEW p \in I, \A j \in I : j <= p
      PROVE  i = p /\ i # 0
  <2>1. I \subseteq Int /\ p \in 1..Len(cidr)
    OBVIOUS
  <2> HIDE DEF I
  <2>2. Max(I) = p
    <3>1. \A y \in I : p >= y
      BY <1>3, <2>1
    <3>2. \A x \in I : (\A y \in I : x >= y) => x = p
      BY <1>3, <2>1
    <3> QED BY <3>1, <3>2 DEF Max
  <2> QED BY <2>1, <2>2
<1> HIDE DEF i
<1> QED BY <1>1, <1>2, <1>3

\* A CIDR that was typed with 'm' for its '/' is decoded to what was meant, and one
\* that was typed with '/' is left alone.
THEOREM TypedTheorem ==
  ASSUME NEW S, NEW text \in Seq(S)
  PROVE  TypedEqualsMeant(text)
<1> DEFINE slashes == {i \in 1..Len(text) : text[i] = "/"}
           typed == ReplaceAll(text, "/", "m")
<1> SUFFICES ASSUME Cardinality(slashes) = 1
             PROVE  /\ DecodeSafeCIDR(text) = text
                    /\ (\A i \in slashes : ~\E j \in (i + 1)..Len(text) : text[j] = "m")
                         => DecodeSafeCIDR(typed) = text
  BY DEF TypedEqualsMeant
<1>1. PICK p : slashes = {p}
  <2>1. IsFiniteSet(1..Len(text)) /\ slashes \in SUBSET (1..Len(text))
    BY FS_Interval
  <2>2. IsFiniteSet(slashes)
    BY <2>1, FS_Subset
  <2> HIDE DEF slashes
  <2> QED BY <2>2, FS_Singleton
<1>2. /\ p \in 1..Len(text) /\ text[p] = "/" /\ Len(text) \in Nat
      /\ \A i \in 1..Len(text) : text[i] = "/" => i = p
  BY <1>1
<1>3. DecodeSafeCIDR(text) = text
  BY <1>2, DecodesLast
<1>4. ASSUME \A j \in (p + 1)..Len(text) : text[j] # "m"
      PROVE  DecodeSafeCIDR(typed) = text
  <2>1. typed = [i \in 1..Len(text) |-> IF text[i] = "/" THEN "m" ELSE text[i]]
    BY DEF ReplaceAll
  <2>2. typed \in Seq(S \cup {"m"}) /\ Len(typed) = Len(text)
    BY <2>1
  <2>3. typed[p] = "m" /\ \A i \in 1..Len(text) : i # p => typed[i] = text[i]
    BY <1>2, <2>1
  <2> HIDE DEF typed
  <2>4. \A i \in 1..Len(typed) : typed[i] # "/"
    BY <1>2, <2>2, <2>3
  <2>5. ASSUME NEW i \in 1..Len(typed), typed[i] = "m"
        PROVE  i <= p
    <3>1. SUFFICES ASSUME ~(i <= p) PROVE FALSE
      OBVIOUS
    <3>2. i \in (p + 1)..Len(text) /\ typed[i] = text[i]
      BY <1>2, <2>2, <2>3, <3>1
    <3> QED BY <1>4, <2>5, <3>2
  <2>6. DecodeSafeCIDR(typed) = [typed EXCEPT ![p] = "/"]
    BY <1>2, <2>2, <2>3, <2>4, <2>5, DecodesLast
  <2>7. [typed EXCEPT ![p] = "/"] = text
    <3>1. text = [i \in 1..Len(text) |-> text[i]]
      OBVIOUS
    <3>2. typed = [i \in 1..Len(text) |-> typed[i]]
      BY <2>2
    <3>3. \A i \in 1..Len(text) : [typed EXCEPT ![p] = "/"][i] = text[i]
      BY <1>2, <2>2, <2>3
    <3>4. DOMAIN [typed EXCEPT ![p] = "/"] = 1..Len(text)
      BY <2>2
    <3> QED BY <3>1, <3>3, <3>4
  <2> QED BY <2>6, <2>7
<1> QED BY <1>1, <1>3, <1>4
==============================================================================
