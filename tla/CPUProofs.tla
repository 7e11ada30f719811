----------------------------- MODULE CPUProofs -----------------------------
(***************************************************************************)
(* Proofs about the CPU, in three parts that share no state: the integer   *)
(* instructions, for every width of operands; the string instructions, for *)
(* all memories, counts and overlaps; and the translation cache, for any   *)
(* memory, any threshold and any length of blocks.                         *)
(***************************************************************************)
EXTENDS IntegerUnit, StringOps, BlockCacheJIT, WellFoundedInduction, TLAPS

-----------------------------------------------------------------------------
(* Numbers.                                                                *)

\* A set of numbers that is not empty has a smallest element.
LEMMA SmallestExists ==
    ASSUME NEW T, T \subseteq Nat, T # {}
    PROVE  \E a \in T : \A b \in T : a <= b
<1> DEFINE R == OpToRel(<, Nat)
<1>1. R = {ss \in Nat \X Nat : ss[1] < ss[2]}
  BY Zenon DEF OpToRel
<1>2. IsWellFoundedOn(R, Nat)
  BY NatLessThanWellFounded, Zenon
<1> HIDE DEF R
<1>3. PICK a \in T : \A b \in T : ~(<<b, a>> \in R)
  BY <1>2, WFMin, Zenon
<1>4. \A b \in T : ~(b < a)
  BY <1>1, <1>3
<1> QED
  BY <1>3, <1>4

\* A set that holds 0 and with every number the next holds all numbers.
LEMMA Climbs ==
    ASSUME NEW G, 0 \in G, \A k \in Nat : k \in G => k + 1 \in G
    PROVE  \A k \in Nat : k \in G
<1> DEFINE T == {k \in Nat : k \notin G}
<1> SUFFICES ASSUME T # {}
             PROVE  FALSE
  OBVIOUS
<1>1. PICK a \in T : \A b \in T : a <= b
  <2>1. T \subseteq Nat
    OBVIOUS
  <2> HIDE DEF T
  <2> QED
    BY <2>1, SmallestExists
<1>2. a - 1 \in Nat /\ a - 1 \notin T
  BY <1>1
<1> QED
  BY <1>1, <1>2

\* A set of numbers below a bound has a largest element.
LEMMA LargestExists ==
    ASSUME NEW n \in Nat, NEW T, T \subseteq 0 .. n, T # {}
    PROVE  \E a \in T : \A b \in T : b <= a
<1> DEFINE U == {k \in Nat : \A b \in T : b <= k}
<1>1. n \in U /\ U \subseteq Nat
  OBVIOUS
<1> HIDE DEF U
<1>2. PICK a \in U : \A b \in U : a <= b
  BY <1>1, SmallestExists
<1> USE DEF U
<1>3. CASE a \in T
  BY <1>2, <1>3
<1>4. CASE a \notin T
  <2>1. PICK b \in T : TRUE
    OBVIOUS
  <2>2. a - 1 \in U
    <3>1. \A c \in T : c < a
      BY <1>2, <1>4
    <3> QED
      BY <1>2, <2>1, <3>1
  <2> QED
    BY <1>2, <2>2
<1> QED
  BY <1>3, <1>4

\* Quotient and remainder.
LEMMA DivMod ==
    ASSUME NEW v \in Int, NEW p \in Nat \ {0}
    PROVE  v \div p \in Int /\ v % p \in 0 .. p - 1 /\ v = p * (v \div p) + (v % p)
OBVIOUS

\* A quotient and a remainder in range are the ones.
LEMMA DivUnique ==
    ASSUME NEW v \in Int, NEW p \in Nat \ {0}, NEW q \in Int, NEW r \in 0 .. p - 1, v = p * q + r
    PROVE  v \div p = q /\ v % p = r
<1>1. PICK d \in Int, s \in 0 .. p - 1 : d = v \div p /\ s = v % p /\ v = p * d + s
  BY DivMod
<1>2. p * (d - q) = r - s
  BY <1>1
<1>3. ~(d - q >= 1)
  <2> SUFFICES ASSUME d - q >= 1
               PROVE  FALSE
    OBVIOUS
  <2>1. p * (d - q) >= p
    BY <1>1
  <2> QED
    BY <1>1, <1>2, <2>1
<1>4. ~(q - d >= 1)
  <2> SUFFICES ASSUME q - d >= 1
               PROVE  FALSE
    OBVIOUS
  <2>1. p * (q - d) >= p
    BY <1>1
  <2>2. p * (q - d) = s - r
    BY <1>1
  <2> QED
    BY <1>1, <2>1, <2>2
<1>5. d = q
  BY <1>1, <1>3, <1>4
<1> QED
  BY <1>1, <1>5

-----------------------------------------------------------------------------
(* Powers of two.                                                          *)

\* f has the powers of two up to n.
Doubles(f, n) == f[0] = 1 /\ \A i \in 1 .. n : f[i] = 2 * f[i - 1]

\* There is such a function for every n,
LEMMA DoublesExists == \A n \in Nat : \E f \in [0 .. n -> Nat] : Doubles(f, n)
<1> DEFINE G == {n \in Nat : \E f \in [0 .. n -> Nat] : Doubles(f, n)}
<1>1. 0 \in G
  <2>1. [i \in 0 .. 0 |-> 1] \in [0 .. 0 -> Nat] /\ Doubles([i \in 0 .. 0 |-> 1], 0)
    BY DEF Doubles
  <2> QED
    BY <2>1
<1>2. ASSUME NEW n \in Nat, n \in G
      PROVE  n + 1 \in G
  <2>1. PICK f \in [0 .. n -> Nat] : Doubles(f, n)
    BY <1>2
  <2> DEFINE g == [i \in 0 .. n + 1 |-> IF i = n + 1 THEN 2 * f[n] ELSE f[i]]
  <2>2. n \in 0 .. n /\ f[n] \in Nat
    OBVIOUS
  <2>3. g \in [0 .. n + 1 -> Nat]
    BY <2>2
  <2>4. Doubles(g, n + 1)
    <3>1. g[0] = 1
      BY <2>1 DEF Doubles
    <3>2. ASSUME NEW i \in 1 .. n + 1
          PROVE  g[i] = 2 * g[i - 1]
      BY <2>1 DEF Doubles
    <3> QED
      BY <3>1, <3>2 DEF Doubles
  <2> QED
    BY <2>3, <2>4
<1> HIDE DEF G
<1>3. \A n \in Nat : n \in G
  BY <1>1, <1>2, Climbs
<1> QED
  BY <1>3 DEF G

\* and two of them agree.
LEMMA DoublesUnique ==
    ASSUME NEW n \in Nat, NEW f, NEW g, Doubles(f, n), Doubles(g, n)
    PROVE  \A k \in Nat : k <= n => f[k] = g[k]
<1> DEFINE G == {k \in Nat : k <= n => f[k] = g[k]}
<1>1. 0 \in G
  BY DEF Doubles
<1>2. \A k \in Nat : k \in G => k + 1 \in G
  BY DEF Doubles
<1> HIDE DEF G
<1>3. \A k \in Nat : k \in G
  BY <1>1, <1>2, Climbs
<1> QED
  BY <1>3 DEF G

\* The recursive definition defines the powers.
LEMMA PowerDef ==
    /\ Pow2[0] = 1 /\ \A n \in Nat : Pow2[n + 1] = 2 * Pow2[n]
    /\ \A n \in Nat : Pow2[n] \in Nat \ {0}
<1> DEFINE P(n) == CHOOSE f \in [0 .. n -> Nat] : Doubles(f, n)
           F == [n \in Nat |-> P(n)[n]]
           Eq(h) == h = [n \in Nat |-> IF n = 0 THEN 1 ELSE 2 * h[n - 1]]
<1>1. \A n \in Nat : P(n) \in [0 .. n -> Nat] /\ Doubles(P(n), n)
  BY DoublesExists
<1> HIDE DEF P
<1>2. ASSUME NEW n \in Nat
      PROVE  F[n] = IF n = 0 THEN 1 ELSE 2 * F[n - 1]
  <2>1. CASE n = 0
    BY <1>1, <2>1 DEF Doubles
  <2>2. CASE n # 0
    <3>1. PICK k \in Nat : k = n - 1 /\ k \in 0 .. n - 1
      BY <2>2
    <3>2. Doubles(P(n), n) /\ Doubles(P(k), k)
      BY <1>1
    <3>3. Doubles(P(n), k)
      BY <3>1, <3>2 DEF Doubles
    <3>4. P(n)[k] = P(k)[k]
      BY <3>2, <3>3, DoublesUnique
    <3>5. P(n)[n] = 2 * P(n)[k]
      BY <2>2, <3>1, <3>2 DEF Doubles
    <3> QED
      BY <2>2, <3>1, <3>4, <3>5
  <2> QED
    BY <2>1, <2>2
<1>3. Eq(F)
  <2> DEFINE V(n) == IF n = 0 THEN 1 ELSE 2 * F[n - 1]
  <2>1. \A n \in Nat : F[n] = V(n)
    BY <1>2
  <2>2. F = [n \in Nat |-> F[n]]
    OBVIOUS
  <2> HIDE DEF F, V
  <2>3. F = [n \in Nat |-> V(n)]
    BY <2>1, <2>2
  <2> QED
    BY <2>3, Zenon DEF V
<1>4. Pow2 = CHOOSE h : Eq(h)
  BY Zenon DEF Pow2
<1> HIDE DEF F
<1>5. Eq(Pow2)
  BY <1>3, <1>4, Zenon
<1>6. \A n \in Nat : Pow2[n] = IF n = 0 THEN 1 ELSE 2 * Pow2[n - 1]
  <2> DEFINE V(n) == IF n = 0 THEN 1 ELSE 2 * Pow2[n - 1]
  <2>1. Pow2 = [n \in Nat |-> V(n)]
    BY <1>5, Zenon
  <2> HIDE DEF V
  <2>2. \A n \in Nat : Pow2[n] = V(n)
    BY <2>1, Zenon
  <2> QED
    BY <2>2, Zenon DEF V
<1> DEFINE G == {n \in Nat : Pow2[n] \in Nat \ {0}}
<1>7. Pow2[0] = 1 /\ \A n \in Nat : Pow2[n + 1] = 2 * Pow2[n]
  BY <1>6
<1>8. 0 \in G /\ \A n \in Nat : n \in G => n + 1 \in G
  BY <1>7
<1> HIDE DEF G
<1>9. \A n \in Nat : n \in G
  BY <1>8, Climbs
<1> QED
  BY <1>7, <1>9 DEF G

\* A power of a sum is a product.
LEMMA PowerSum == \A a, b \in Nat : Pow2[a + b] = Pow2[a] * Pow2[b]
<1> SUFFICES ASSUME NEW a \in Nat
             PROVE  \A b \in Nat : Pow2[a + b] = Pow2[a] * Pow2[b]
  OBVIOUS
<1> DEFINE G == {b \in Nat : Pow2[a + b] = Pow2[a] * Pow2[b]}
<1>1. 0 \in G
  BY PowerDef
<1>2. ASSUME NEW b \in Nat, b \in G
      PROVE  b + 1 \in G
  <2>1. Pow2[(a + b) + 1] = 2 * Pow2[a + b] /\ Pow2[b + 1] = 2 * Pow2[b]
    BY PowerDef
  <2>2. Pow2[a] \in Nat /\ Pow2[b] \in Nat
    BY PowerDef
  <2>3. a + (b + 1) = (a + b) + 1 /\ Pow2[a + b] = Pow2[a] * Pow2[b]
    BY <1>2
  <2>4. 2 * (Pow2[a] * Pow2[b]) = Pow2[a] * (2 * Pow2[b])
    BY <2>2
  <2> QED
    BY <2>1, <2>3, <2>4
<1> HIDE DEF G
<1>3. \A b \in Nat : b \in G
  BY <1>1, <1>2, Climbs
<1> QED
  BY <1>3 DEF G

\* Half of the words are negative; H is the sign bit.
H == Pow2[Width - 1]

\* The modulus is twice the sign bit.
LEMMA ModulusHalves == /\ Modulus \in Nat \ {0} /\ H \in Nat \ {0} /\ Modulus = 2 * H
                       /\ Modulus \div 2 = H
<1>1. Width - 1 \in Nat /\ (Width - 1) + 1 = Width
  BY WidthAssumption
<1>2. Modulus = 2 * H /\ H \in Nat \ {0}
  BY <1>1, PowerDef DEF Modulus, H
<1>3. (2 * H) \div 2 = H
  BY <1>2, DivUnique
<1> QED
  BY <1>2, <1>3

\* What the operators on words are, in terms of H.
LEMMA WordFacts ==
    /\ \A v : v \in Word <=> v \in Int /\ 0 <= v /\ v < 2 * H
    /\ \A v : negative(v) <=> v >= H
    /\ \A v \in Int : truncate(v) \in Word
    /\ \A v \in Int, q \in Int, r \in Word : v = (2 * H) * q + r => truncate(v) = r
    /\ \A v \in Int : 0 <= v /\ v < 2 * H => truncate(v) = v
    /\ \A v \in Int : 2 * H <= v /\ v < 4 * H => truncate(v) = v - 2 * H
    /\ \A v \in Int : - (2 * H) <= v /\ v < 0 => truncate(v) = v + 2 * H
    /\ \A v \in Int : Signed(v) = (IF v >= H THEN v - 2 * H ELSE v) /\ signExtend(v) = Signed(v)
<1>1. \A v : v \in Word <=> v \in Int /\ 0 <= v /\ v < 2 * H
  BY ModulusHalves DEF Word
<1>2. \A v : negative(v) <=> v >= H
  BY ModulusHalves DEF negative
<1>3. \A v \in Int : truncate(v) \in Word
  BY ModulusHalves, DivMod DEF truncate, Word
<1>4. ASSUME NEW v \in Int, NEW q \in Int, NEW r \in Word, v = (2 * H) * q + r
      PROVE  truncate(v) = r
  <2>1. r \in 0 .. Modulus - 1 /\ v = Modulus * q + r /\ Modulus \in Nat \ {0}
    BY <1>4, ModulusHalves DEF Word
  <2> QED
    BY <2>1, DivUnique DEF truncate
<1>5. \A v \in Int : 0 <= v /\ v < 2 * H => truncate(v) = v
  <2>1. \A v \in Int : v = (2 * H) * 0 + v
    BY ModulusHalves
  <2> QED
    BY <1>1, <1>4, <2>1
<1>6. \A v \in Int : 2 * H <= v /\ v < 4 * H => truncate(v) = v - 2 * H
  <2>1. ASSUME NEW v \in Int, 2 * H <= v, v < 4 * H
        PROVE  truncate(v) = v - 2 * H
    <3>1. v = (2 * H) * 1 + (v - 2 * H) /\ v - 2 * H \in Word
      BY <1>1, <2>1, ModulusHalves
    <3> QED
      BY <1>4, <3>1
  <2> QED
    BY <2>1
<1>7. \A v \in Int : - (2 * H) <= v /\ v < 0 => truncate(v) = v + 2 * H
  <2>1. ASSUME NEW v \in Int, - (2 * H) <= v, v < 0
        PROVE  truncate(v) = v + 2 * H
    <3>1. v = (2 * H) * (-1) + (v + 2 * H) /\ v + 2 * H \in Word
      BY <1>1, <2>1, ModulusHalves
    <3> QED
      BY <1>4, <3>1
  <2> QED
    BY <2>1
<1>8. \A v \in Int : Signed(v) = (IF v >= H THEN v - 2 * H ELSE v) /\ signExtend(v) = Signed(v)
  BY ModulusHalves DEF Signed, signExtend, negative
<1> QED
  BY <1>1, <1>2, <1>3, <1>4, <1>5, <1>6, <1>7, <1>8

-----------------------------------------------------------------------------
(* Bits.                                                                   *)

\* A bit does not see what is added above it.
LEMMA BitBelow ==
    ASSUME NEW v \in Int, NEW k \in Nat, NEW i \in Nat, i < k
    PROVE  Bit(v + Pow2[k], i) = Bit(v, i)
<1>1. PICK p \in Nat \ {0}, c \in Nat : p = Pow2[i] /\ Pow2[k] = p * (2 * c)
  <2>1. k - i - 1 \in Nat /\ (i + (k - i - 1)) + 1 = k /\ i + (k - i - 1) \in Nat
    OBVIOUS
  <2>2. Pow2[k] = 2 * (Pow2[i] * Pow2[k - i - 1])
    BY <2>1, PowerDef, PowerSum
  <2>3. 2 * (Pow2[i] * Pow2[k - i - 1]) = Pow2[i] * (2 * Pow2[k - i - 1])
    BY <2>1, PowerDef
  <2> QED
    BY <2>1, <2>2, <2>3, PowerDef
<1>2. PICK q \in Int, r \in 0 .. p - 1 : q = v \div p /\ v = p * q + r
  BY DivMod
<1>3. v + Pow2[k] \in Int /\ q + 2 * c \in Int /\ v + Pow2[k] = p * (q + 2 * c) + r
  BY <1>1, <1>2
<1>4. (v + Pow2[k]) \div p = q + 2 * c
  BY <1>3, DivUnique
<1>5. (q + 2 * c) % 2 = q % 2
  BY <1>2
<1> QED
  BY <1>1, <1>2, <1>4, <1>5 DEF Bit

\* The highest bit of a number.
LEMMA BitTop ==
    ASSUME NEW k \in Nat, NEW v \in 0 .. Pow2[k] - 1
    PROVE  Bit(v, k) = 0 /\ Bit(v + Pow2[k], k) = 1
<1>1. PICK p \in Nat \ {0} : p = Pow2[k]
  BY PowerDef
<1>2. v = p * 0 + v /\ v + p = p * 1 + v /\ v \in Int
  BY <1>1
<1>3. v \div p = 0
  BY <1>1, <1>2, DivUnique
<1>4. (v + p) \div p = 1
  <2>1. v + p \in Int /\ v \in 0 .. p - 1
    BY <1>1
  <2> QED
    BY <1>2, <2>1, DivUnique
<1>5. 0 % 2 = 0 /\ 1 % 2 = 1
  OBVIOUS
<1> QED
  BY <1>1, <1>3, <1>4, <1>5 DEF Bit

\* Every set of bits is that of a word,
LEMMA BitsExist ==
    \A k \in Nat : \A S \in SUBSET (0 .. k - 1) :
        \E v \in 0 .. Pow2[k] - 1 : \A i \in 0 .. k - 1 : Bit(v, i) = 1 <=> i \in S
<1> DEFINE Has(k) == \A S \in SUBSET (0 .. k - 1) :
                        \E v \in 0 .. Pow2[k] - 1 : \A i \in 0 .. k - 1 : Bit(v, i) = 1 <=> i \in S
           G == {k \in Nat : Has(k)}
<1>1. 0 \in G
  BY PowerDef
<1>2. ASSUME NEW k \in Nat, k \in G
      PROVE  k + 1 \in G
  <2>1. Pow2[k] \in Nat \ {0} /\ Pow2[k + 1] = 2 * Pow2[k]
    BY PowerDef
  <2>2. ASSUME NEW S \in SUBSET (0 .. k)
        PROVE  \E v \in 0 .. Pow2[k + 1] - 1 : \A i \in 0 .. k : Bit(v, i) = 1 <=> i \in S
    <3>1. S \ {k} \in SUBSET (0 .. k - 1)
      OBVIOUS
    <3>2. PICK v \in 0 .. Pow2[k] - 1 : \A i \in 0 .. k - 1 : Bit(v, i) = 1 <=> i \in S \ {k}
      BY <1>2, <3>1
    <3>3. v \in Int /\ v \in 0 .. Pow2[k + 1] - 1 /\ v + Pow2[k] \in 0 .. Pow2[k + 1] - 1
      BY <2>1
    <3>4. Bit(v, k) = 0 /\ Bit(v + Pow2[k], k) = 1
      BY BitTop
    <3>5. \A i \in 0 .. k - 1 : Bit(v + Pow2[k], i) = Bit(v, i)
      BY <3>3, BitBelow
    <3>6. \A i \in 0 .. k : i # k => i \in 0 .. k - 1
      OBVIOUS
    <3>7. CASE k \in S
      <4>1. \A i \in 0 .. k : Bit(v + Pow2[k], i) = 1 <=> i \in S
        BY <3>2, <3>4, <3>5, <3>6, <3>7
      <4> QED
        BY <3>3, <4>1
    <3>8. CASE k \notin S
      <4>1. \A i \in 0 .. k : Bit(v, i) = 1 <=> i \in S
        BY <3>2, <3>4, <3>6, <3>8
      <4> QED
        BY <3>3, <4>1
    <3> QED
      BY <3>7, <3>8
  <2>3. (k + 1) - 1 = k
    OBVIOUS
  <2> QED
    BY <2>2, <2>3
<1> HIDE DEF G
<1>3. \A k \in Nat : k \in G
  BY <1>1, <1>2, Climbs
<1> QED
  BY <1>3 DEF G

\* so that FromBits gives one.
LEMMA FromBitsIsWord ==
    ASSUME NEW S \in SUBSET (0 .. Width - 1)
    PROVE  FromBits(S) \in Word /\ Bits[FromBits(S)] = S
<1>1. PICK v \in Word : \A i \in 0 .. Width - 1 : Bit(v, i) = 1 <=> i \in S
  BY WidthAssumption, BitsExist DEF Word, Modulus
<1>2. Bits[v] = S
  BY <1>1 DEF Bits
<1> QED
  BY <1>2 DEF FromBits

\* Bits are numbered below the width.
LEMMA BitsType == \A v \in Word : Bits[v] \in SUBSET (0 .. Width - 1)
BY DEF Bits

\* A number that is not 0 has a bit.
LEMMA NonzeroHasBit ==
    \A k \in Nat : \A v \in 1 .. Pow2[k] - 1 : \E i \in 0 .. k - 1 : Bit(v, i) = 1
<1> DEFINE Has(k) == \A v \in 1 .. Pow2[k] - 1 : \E i \in 0 .. k - 1 : Bit(v, i) = 1
           G == {k \in Nat : Has(k)}
<1>1. 0 \in G
  BY PowerDef
<1>2. ASSUME NEW k \in Nat, k \in G
      PROVE  k + 1 \in G
  <2>1. Pow2[k] \in Nat \ {0} /\ Pow2[k + 1] = 2 * Pow2[k]
    BY PowerDef
  <2>2. ASSUME NEW v \in 1 .. Pow2[k + 1] - 1
        PROVE  \E i \in 0 .. k : Bit(v, i) = 1
    <3>1. CASE v < Pow2[k]
      <4>1. v \in 1 .. Pow2[k] - 1
        BY <2>1, <3>1
      <4>2. PICK i \in 0 .. k - 1 : Bit(v, i) = 1
        BY <1>2, <4>1
      <4> QED
        BY <4>2
    <3>2. CASE v >= Pow2[k]
      <4>1. v - Pow2[k] \in 0 .. Pow2[k] - 1 /\ (v - Pow2[k]) + Pow2[k] = v
        BY <2>1, <3>2
      <4>2. Bit(v, k) = 1
        BY <4>1, BitTop
      <4> QED
        BY <4>2
    <3> QED
      BY <2>1, <3>1, <3>2
  <2>3. (k + 1) - 1 = k
    OBVIOUS
  <2> QED
    BY <2>2, <2>3
<1> HIDE DEF G
<1>3. \A k \in Nat : k \in G
  BY <1>1, <1>2, Climbs
<1> QED
  BY <1>3 DEF G

\* The number of a bit is a word.
LEMMA IndexIsWord == 0 .. Width - 1 \subseteq Word
<1> DEFINE G == {k \in Nat : k < Pow2[k]}
<1>1. 0 \in G
  BY PowerDef
<1>2. \A k \in Nat : k \in G => k + 1 \in G
  BY PowerDef
<1> HIDE DEF G
<1>3. \A k \in Nat : k \in G
  BY <1>1, <1>2, Climbs
<1>4. Width < Modulus
  BY <1>3, WidthAssumption DEF G, Modulus
<1> QED
  BY <1>4, WidthAssumption, ModulusHalves DEF Word

-----------------------------------------------------------------------------
(* Results and flags.                                                      *)

\* Setting zero, sign and parity.
LEMMA SetZSFacts ==
    ASSUME NEW f \in Flags, NEW r
    PROVE  /\ setZS(f, r) \in Flags /\ setZS(f, r).ZF = (r = 0) /\ setZS(f, r).SF = negative(r)
           /\ setZS(f, r).CF = f.CF /\ setZS(f, r).OF = f.OF
<1>1. (r = 0) \in BOOLEAN /\ negative(r) \in BOOLEAN /\ parity8(r) \in BOOLEAN
  BY DEF negative, parity8, Even
<1> HIDE DEF negative, parity8
<1> QED
  BY <1>1 DEF setZS, Flags

\* Setting carry, overflow and adjust after that.
SetAll(f, c, o, a) == [f EXCEPT !.CF = c, !.OF = o, !.AF = a]

\* The three are set and the others stay.
LEMMA SetAllFacts ==
    ASSUME NEW f \in Flags, NEW c \in BOOLEAN, NEW o \in BOOLEAN, NEW a \in BOOLEAN
    PROVE  /\ SetAll(f, c, o, a) \in Flags /\ SetAll(f, c, o, a).CF = c /\ SetAll(f, c, o, a).OF = o
           /\ SetAll(f, c, o, a).ZF = f.ZF /\ SetAll(f, c, o, a).SF = f.SF
BY DEF SetAll, Flags

\* Addition: the sum, short of the modulus when there is a carry.
LEMMA AddFacts ==
    ASSUME NEW f \in Flags, NEW a \in Word, NEW b \in Word, NEW c \in {0, 1}
    PROVE  /\ add(f, a, b, c).r \in Word /\ add(f, a, b, c).f \in Flags
           /\ add(f, a, b, c).r = IF a + b + c >= 2 * H THEN a + b + c - 2 * H ELSE a + b + c
           /\ add(f, a, b, c).f.CF = (a + b + c >= 2 * H)
           /\ add(f, a, b, c).f.OF = ((a >= H) = (b >= H) /\ (a >= H) # (add(f, a, b, c).r >= H))
<1> DEFINE R == a + b + c
           r == truncate(R)
           o == (negative(a) = negative(b)) /\ (negative(a) # negative(r))
           k == R > Modulus - 1
           d == adjust(a, b + c, r)
<1>1. add(f, a, b, c).r = r /\ add(f, a, b, c).f = SetAll(setZS(f, r), k, o, d)
  BY DEF add, SetAll
<1>2. R \in Int /\ 0 <= R /\ R < 4 * H
  BY WordFacts, ModulusHalves
<1>3. r \in Word /\ r = IF R >= 2 * H THEN R - 2 * H ELSE R
  BY <1>2, WordFacts, ModulusHalves
<1>4. k = (R >= 2 * H)
  BY <1>2, ModulusHalves
<1>5. negative(a) = (a >= H) /\ negative(b) = (b >= H) /\ negative(r) = (r >= H)
  BY WordFacts DEF negative
<1>6. o = ((a >= H) = (b >= H) /\ (a >= H) # (r >= H))
  BY <1>5
<1>7. k \in BOOLEAN /\ o \in BOOLEAN /\ d \in BOOLEAN
  <2>1. k \in BOOLEAN
    OBVIOUS
  <2>2. o \in BOOLEAN
    OBVIOUS
  <2>3. d \in BOOLEAN
    BY DEF adjust, Even
  <2> QED
    BY <2>1, <2>2, <2>3, Zenon
<1>8. setZS(f, r) \in Flags
  BY SetZSFacts
<1> HIDE DEF r, R, o, k, d
<1>9. /\ add(f, a, b, c).f \in Flags /\ add(f, a, b, c).f.CF = k /\ add(f, a, b, c).f.OF = o
  <2> DEFINE g == setZS(f, r)
             e == SetAll(g, k, o, d)
  <2>1. g \in Flags
    BY <1>8, Zenon
  <2>2. add(f, a, b, c).f = e
    BY <1>1, Zenon
  <2> HIDE DEF g
  <2>3. e \in Flags /\ e.CF = k /\ e.OF = o
    BY <1>7, <2>1, SetAllFacts
  <2> HIDE DEF e
  <2> QED
    BY <2>2, <2>3, Zenon
<1>10. add(f, a, b, c).f.OF = ((a >= H) = (b >= H) /\ (a >= H) # (add(f, a, b, c).r >= H))
  BY <1>1, <1>6, <1>9, Zenon
<1>11. k = (a + b + c >= 2 * H)
  BY <1>4 DEF R
<1>12. r = IF a + b + c >= 2 * H THEN a + b + c - 2 * H ELSE a + b + c
  BY <1>2, <1>3, WordFacts, ModulusHalves DEF R
<1> QED
  BY <1>1, <1>3, <1>9, <1>10, <1>11, <1>12, Zenon

\* Subtraction; b with the borrow may be the modulus itself, which is not
\* negative in the code.
LEMMA SubFacts ==
    ASSUME NEW f \in Flags, NEW a \in Word, NEW b \in Word, NEW c \in {0, 1}
    PROVE  /\ sub(f, a, b, c).r \in Word /\ sub(f, a, b, c).f \in Flags
           /\ sub(f, a, b, c).r = IF a < b + c THEN a - b - c + 2 * H ELSE a - b - c
           /\ sub(f, a, b, c).f.CF = (a < b + c)
           /\ c = 0 => /\ sub(f, a, b, c).f.OF = ((a >= H) # (b >= H) /\ (a >= H) # (sub(f, a, b, c).r >= H))
                       /\ sub(f, a, b, c).f.ZF = (sub(f, a, b, c).r = 0)
                       /\ sub(f, a, b, c).f.SF = (sub(f, a, b, c).r >= H)
<1> DEFINE B == b + c
           r == truncate(a - B)
           nB == B < Modulus /\ negative(B)
           o == (negative(a) # nB) /\ (negative(a) # negative(r))
           k == a < B
           d == adjust(a, B, r)
<1>1. sub(f, a, b, c).r = r /\ sub(f, a, b, c).f = SetAll(setZS(f, r), k, o, d)
  BY DEF sub, SetAll
<1>2. a \in Int /\ b \in Int /\ c \in Int /\ B \in Int /\ 0 <= B /\ B <= 2 * H /\ 0 <= a /\ a < 2 * H
  BY WordFacts, ModulusHalves
<1>3. r \in Word /\ r = IF a < B THEN a - B + 2 * H ELSE a - B
  BY <1>2, WordFacts, ModulusHalves
<1>4. negative(a) = (a >= H) /\ negative(B) = (B >= H) /\ negative(r) = (r >= H)
  BY WordFacts DEF negative
<1>5. c = 0 => B = b /\ nB = (b >= H)
  BY <1>2, <1>4, WordFacts, ModulusHalves
<1>6. c = 0 => o = ((a >= H) # (b >= H) /\ (a >= H) # (r >= H))
  BY <1>4, <1>5
<1>7. k \in BOOLEAN /\ o \in BOOLEAN /\ d \in BOOLEAN
  <2>1. k \in BOOLEAN
    OBVIOUS
  <2>2. o \in BOOLEAN
    OBVIOUS
  <2>3. d \in BOOLEAN
    BY DEF adjust, Even
  <2> QED
    BY <2>1, <2>2, <2>3, Zenon
<1>8. setZS(f, r) \in Flags /\ setZS(f, r).ZF = (r = 0) /\ setZS(f, r).SF = (r >= H)
  BY <1>4, SetZSFacts, ZenonT(60)
<1> HIDE DEF r, o, k, d
<1>9. /\ sub(f, a, b, c).f \in Flags /\ sub(f, a, b, c).f.CF = k /\ sub(f, a, b, c).f.OF = o
      /\ sub(f, a, b, c).f.ZF = (r = 0) /\ sub(f, a, b, c).f.SF = (r >= H)
  <2> DEFINE g == setZS(f, r)
             e == SetAll(g, k, o, d)
  <2>1. g \in Flags /\ g.ZF = (r = 0) /\ g.SF = (r >= H)
    BY <1>8, Zenon
  <2>2. sub(f, a, b, c).f = e
    BY <1>1, Zenon
  <2> HIDE DEF g
  <2>3. e \in Flags /\ e.CF = k /\ e.OF = o /\ e.ZF = g.ZF /\ e.SF = g.SF
    BY <1>7, <2>1, SetAllFacts
  <2> HIDE DEF e
  <2> QED
    BY <2>1, <2>2, <2>3, Zenon
<1>10. k = (a < b + c)
  BY DEF k
<1>11. c = 0 => /\ sub(f, a, b, c).f.OF = ((a >= H) # (b >= H) /\ (a >= H) # (sub(f, a, b, c).r >= H))
                /\ sub(f, a, b, c).f.ZF = (sub(f, a, b, c).r = 0)
                /\ sub(f, a, b, c).f.SF = (sub(f, a, b, c).r >= H)
  BY <1>1, <1>6, <1>9, Zenon
<1>12. r = IF a < b + c THEN a - b - c + 2 * H ELSE a - b - c
  BY <1>2, <1>3
<1> QED
  BY <1>1, <1>3, <1>9, <1>10, <1>11, <1>12, Zenon

\* The flags of a bitwise operation.
LEMMA LogicFacts ==
    ASSUME NEW f \in Flags, NEW r \in Word
    PROVE  logic(f, r).r \in Word /\ logic(f, r).f \in Flags
<1>1. FALSE \in BOOLEAN /\ setZS(f, r) \in Flags
  BY SetZSFacts
<1>2. SetAll(setZS(f, r), FALSE, FALSE, FALSE) \in Flags
  BY <1>1, SetAllFacts, Zenon
<1> QED
  BY <1>2 DEF logic, SetAll

\* The carry as a number.
LEMMA CarryIn == \A f \in Flags : carryIn(f) \in {0, 1} /\ carryIn(f) = (IF f.CF THEN 1 ELSE 0)
BY DEF carryIn

\* The bitwise operations give words.
LEMMA BitwiseFacts ==
    ASSUME NEW a \in Word, NEW b \in Word
    PROVE  or(a, b) \in Word /\ and(a, b) \in Word /\ xor(a, b) \in Word
<1>1. Bits[a] \subseteq 0 .. Width - 1 /\ Bits[b] \subseteq 0 .. Width - 1
  BY BitsType
<1>2. /\ Bits[a] \cup Bits[b] \in SUBSET (0 .. Width - 1)
      /\ Bits[a] \cap Bits[b] \in SUBSET (0 .. Width - 1)
      /\ (Bits[a] \cup Bits[b]) \ (Bits[a] \cap Bits[b]) \in SUBSET (0 .. Width - 1)
  BY <1>1
<1> QED
  BY <1>2, FromBitsIsWord DEF or, and, xor

\* Every result of the arithmetic unit is a word with flags.
LEMMA AluFacts ==
    ASSUME NEW kind \in Kind, NEW f \in Flags, NEW a \in Word, NEW b \in Word
    PROVE  alu(kind, f, a, b).r \in Word /\ alu(kind, f, a, b).f \in Flags
<1>1. /\ add(f, a, b, 0).r \in Word /\ add(f, a, b, 0).f \in Flags
      /\ sub(f, a, b, 0).r \in Word /\ sub(f, a, b, 0).f \in Flags
  BY AddFacts, SubFacts
<1>2. /\ add(f, a, b, carryIn(f)).r \in Word /\ add(f, a, b, carryIn(f)).f \in Flags
      /\ sub(f, a, b, carryIn(f)).r \in Word /\ sub(f, a, b, carryIn(f)).f \in Flags
  BY CarryIn, AddFacts, SubFacts
<1>3. /\ logic(f, or(a, b)).r \in Word /\ logic(f, or(a, b)).f \in Flags
      /\ logic(f, and(a, b)).r \in Word /\ logic(f, and(a, b)).f \in Flags
      /\ logic(f, xor(a, b)).r \in Word /\ logic(f, xor(a, b)).f \in Flags
  BY BitwiseFacts, LogicFacts
<1> QED
  BY <1>1, <1>2, <1>3 DEF alu, Kind

\* After a comparison the conditions order the two words, as numbers without
\* and with a sign.
LEMMA ComparisonDecides ==
    ASSUME NEW f \in Flags, NEW a \in Word, NEW b \in Word
    PROVE  Numbers(a, b, sub(f, a, b, 0).f)
<1> DEFINE g == sub(f, a, b, 0).f
           r == sub(f, a, b, 0).r
<1>1. /\ r \in Word /\ g \in Flags
      /\ r = (IF a < b + 0 THEN a - b - 0 + 2 * H ELSE a - b - 0)
      /\ g.CF = (a < b + 0)
      /\ g.OF = ((a >= H) # (b >= H) /\ (a >= H) # (r >= H))
      /\ g.ZF = (r = 0) /\ g.SF = (r >= H)
  BY SubFacts
<1> HIDE DEF g, r
<1>2. /\ a \in Int /\ b \in Int /\ 0 <= a /\ a < 2 * H /\ 0 <= b /\ b < 2 * H /\ H \in Int
      /\ Signed(a) = (IF a >= H THEN a - 2 * H ELSE a) /\ Signed(b) = (IF b >= H THEN b - 2 * H ELSE b)
  BY WordFacts, ModulusHalves
<1>3. (a < b + 0) <=> a < b
  BY <1>2
<1>4. r = (IF a < b THEN a - b + 2 * H ELSE a - b)
  BY <1>1, <1>2
<1>5. (r = 0) <=> (a = b)
  BY <1>2, <1>4
<1>6. ((r >= H) # ((a >= H) # (b >= H) /\ (a >= H) # (r >= H))) <=> Signed(a) < Signed(b)
  BY <1>2, <1>4
<1>7. a <= b <=> a < b \/ a = b
  BY <1>2
<1>8. Signed(a) <= Signed(b) <=> Signed(a) < Signed(b) \/ a = b
  BY <1>2
<1>9. /\ cond(g, "z") = g.ZF /\ cond(g, "b") = g.CF /\ cond(g, "be") = (g.CF \/ g.ZF)
      /\ cond(g, "l") = (g.SF # g.OF) /\ cond(g, "le") = (g.ZF \/ g.SF # g.OF)
  BY DEF cond
<1>10. g.SF # g.OF <=> Signed(a) < Signed(b)
  BY <1>1, <1>6, Zenon
<1> QED
  BY <1>1, <1>3, <1>5, <1>7, <1>8, <1>9, <1>10, Zenon DEF Numbers, g

\* Carry and overflow of an addition tell whether the sum fits, as a number
\* without and with a sign.
LEMMA AdditionTells ==
    ASSUME NEW f \in Flags, NEW a \in Word, NEW b \in Word, NEW c \in {0, 1}
    PROVE  /\ cond(add(f, a, b, c).f, "b") <=> (add(f, a, b, c).r # a + b + c)
           /\ cond(add(f, a, b, c).f, "o")
                <=> (Signed(add(f, a, b, c).r) # Signed(a) + Signed(b) + c)
<1> DEFINE g == add(f, a, b, c).f
           r == add(f, a, b, c).r
<1>1. /\ r \in Word /\ r = (IF a + b + c >= 2 * H THEN a + b + c - 2 * H ELSE a + b + c)
      /\ g.CF = (a + b + c >= 2 * H)
      /\ g.OF = ((a >= H) = (b >= H) /\ (a >= H) # (r >= H))
  BY AddFacts
<1> HIDE DEF g, r
<1>2. /\ a \in Int /\ b \in Int /\ c \in Int /\ r \in Int /\ H \in Int /\ H > 0
      /\ 0 <= a /\ a < 2 * H /\ 0 <= b /\ b < 2 * H /\ (c = 0 \/ c = 1) /\ 0 <= r /\ r < 2 * H
      /\ Signed(a) = (IF a >= H THEN a - 2 * H ELSE a) /\ Signed(b) = (IF b >= H THEN b - 2 * H ELSE b)
      /\ Signed(r) = (IF r >= H THEN r - 2 * H ELSE r)
  BY <1>1, WordFacts, ModulusHalves
<1>3. (a + b + c >= 2 * H) <=> (r # a + b + c)
  BY <1>1, <1>2
<1>4. ((a >= H) = (b >= H) /\ (a >= H) # (r >= H)) <=> (Signed(r) # Signed(a) + Signed(b) + c)
  BY <1>1, <1>2
<1>5. cond(g, "b") = g.CF /\ cond(g, "o") = g.OF
  BY DEF cond
<1>6. cond(g, "b") <=> (r # a + b + c)
  BY <1>1, <1>3, <1>5, Zenon
<1>7. cond(g, "o") <=> (Signed(r) # Signed(a) + Signed(b) + c)
  BY <1>1, <1>4, <1>5, Zenon
<1> QED
  BY <1>6, <1>7, Zenon DEF g, r

\* In every state of words and flags the conditions decide.
LEMMA BranchesFollow == UnitTypeOK => BranchesDecide
<1> SUFFICES ASSUME UnitTypeOK
             PROVE  BranchesDecide
  OBVIOUS
<1>1. eax \in Word /\ m \in Word /\ eflags \in Flags
  BY DEF UnitTypeOK
<1>2. PICK c \in {0, 1} : c = carryIn(eflags) /\ c = IF eflags.CF THEN 1 ELSE 0
  BY <1>1, CarryIn
<1>3. Numbers(eax, m, sub(eflags, eax, m, 0).f)
  BY <1>1, ComparisonDecides, Zenon
<1>4. /\ cond(add(eflags, eax, m, c).f, "b") <=> (add(eflags, eax, m, c).r # eax + m + c)
      /\ cond(add(eflags, eax, m, c).f, "o")
           <=> (Signed(add(eflags, eax, m, c).r) # Signed(eax) + Signed(m) + c)
  BY <1>1, AdditionTells, Zenon
<1> QED
  BY <1>2, <1>3, <1>4, Zenon DEF BranchesDecide

\* The same with the carry as a number.
LEMMA AddCarry ==
    ASSUME NEW f \in Flags, NEW a \in Word, NEW b \in Word, NEW c \in {0, 1}
    PROVE  add(f, a, b, c).r = a + b + c - carryIn(add(f, a, b, c).f) * (2 * H)
<1> DEFINE x == add(f, a, b, c)
<1>1. /\ x.f \in Flags /\ x.f.CF = (a + b + c >= 2 * H)
      /\ x.r = (IF a + b + c >= 2 * H THEN a + b + c - 2 * H ELSE a + b + c)
  BY AddFacts
<1> HIDE DEF x
<1>2. a \in Int /\ b \in Int /\ c \in Int /\ H \in Int
  BY WordFacts, ModulusHalves
<1>3. CASE a + b + c >= 2 * H
  <2>1. x.f.CF = TRUE
    BY <1>1, <1>3, Zenon
  <2>2. carryIn(x.f) = 1
    BY <2>1 DEF carryIn
  <2> QED
    BY <1>1, <1>2, <1>3, <2>2 DEF x
<1>4. CASE ~(a + b + c >= 2 * H)
  <2>1. ~x.f.CF
    BY <1>1, <1>4, Zenon
  <2>2. carryIn(x.f) = 0
    BY <2>1 DEF carryIn
  <2> QED
    BY <1>1, <1>2, <1>4, <2>2 DEF x
<1> QED
  BY <1>3, <1>4

\* And the borrow of a subtraction.
LEMMA SubBorrow ==
    ASSUME NEW f \in Flags, NEW a \in Word, NEW b \in Word, NEW c \in {0, 1}
    PROVE  sub(f, a, b, c).r = a - b - c + carryIn(sub(f, a, b, c).f) * (2 * H)
<1> DEFINE x == sub(f, a, b, c)
<1>1. /\ x.f \in Flags /\ x.f.CF = (a < b + c)
      /\ x.r = (IF a < b + c THEN a - b - c + 2 * H ELSE a - b - c)
  BY SubFacts
<1> HIDE DEF x
<1>2. a \in Int /\ b \in Int /\ c \in Int /\ H \in Int
  BY WordFacts, ModulusHalves
<1>3. CASE a < b + c
  <2>1. x.f.CF = TRUE
    BY <1>1, <1>3, Zenon
  <2>2. carryIn(x.f) = 1
    BY <2>1 DEF carryIn
  <2> QED
    BY <1>1, <1>2, <1>3, <2>2 DEF x
<1>4. CASE ~(a < b + c)
  <2>1. ~x.f.CF
    BY <1>1, <1>4, Zenon
  <2>2. carryIn(x.f) = 0
    BY <2>1 DEF carryIn
  <2> QED
    BY <1>1, <1>2, <1>4, <2>2 DEF x
<1> QED
  BY <1>3, <1>4

\* Two words are one number: the carry of the lower pair goes into the upper.
LEMMA WideFollows == UnitTypeOK => WideArithmetic
<1> SUFFICES ASSUME UnitTypeOK, NEW b \in Word
             PROVE  LET x    == edx * Modulus + eax
                        y    == b * Modulus + m
                        low  == alu("add", eflags, eax, m)
                        high == alu("adc", low.f, edx, b)
                        lowd == alu("sub", eflags, eax, m)
                        highd == alu("sbb", lowd.f, edx, b)
                    IN  /\ high.r * Modulus + low.r + (IF high.f.CF THEN Modulus * Modulus ELSE 0) = x + y
                        /\ highd.r * Modulus + lowd.r - (IF highd.f.CF THEN Modulus * Modulus ELSE 0) = x - y
  BY Zenon DEF WideArithmetic
<1>1. eax \in Word /\ m \in Word /\ edx \in Word /\ eflags \in Flags
  BY DEF UnitTypeOK
<1> DEFINE low   == add(eflags, eax, m, 0)
           c     == carryIn(low.f)
           high  == add(low.f, edx, b, c)
           lowd  == sub(eflags, eax, m, 0)
           d     == carryIn(lowd.f)
           highd == sub(lowd.f, edx, b, d)
           M     == Modulus
<1>2. /\ low = alu("add", eflags, eax, m) /\ high = alu("adc", low.f, edx, b)
      /\ lowd = alu("sub", eflags, eax, m) /\ highd = alu("sbb", lowd.f, edx, b)
  BY DEF alu
<1>3. /\ low.f \in Flags /\ low.r = eax + m + 0 - c * (2 * H)
      /\ lowd.f \in Flags /\ lowd.r = eax - m - 0 + d * (2 * H)
  BY <1>1, AddFacts, SubFacts, AddCarry, SubBorrow
<1> HIDE DEF low, lowd
<1>4. c \in {0, 1} /\ d \in {0, 1}
  BY <1>3, CarryIn
<1> HIDE DEF c, d
<1>5. /\ high.f \in Flags /\ high.r = edx + b + c - carryIn(high.f) * (2 * H)
      /\ highd.f \in Flags /\ highd.r = edx - b - d + carryIn(highd.f) * (2 * H)
  <2>0. /\ low.f \in Flags /\ lowd.f \in Flags /\ edx \in Word /\ b \in Word
        /\ c \in {0, 1} /\ d \in {0, 1}
    BY <1>1, <1>3, <1>4
  <2>1. high.f \in Flags /\ highd.f \in Flags
    BY <2>0, AddFacts, SubFacts, ZenonT(60)
  <2>2. high.r = edx + b + c - carryIn(high.f) * (2 * H)
    BY <2>0, AddCarry, ZenonT(60)
  <2>3. highd.r = edx - b - d + carryIn(highd.f) * (2 * H)
    BY <2>0, SubBorrow, ZenonT(60)
  <2> QED
    BY <2>1, <2>2, <2>3, Zenon
<1> HIDE DEF high, highd
<1>6. M \in Int /\ M = 2 * H /\ eax \in Int /\ edx \in Int /\ m \in Int /\ b \in Int
  BY <1>1, WordFacts, ModulusHalves
<1> HIDE DEF M
<1>7. PICK k \in {0, 1}, l \in {0, 1} :
            /\ k = carryIn(high.f) /\ l = carryIn(highd.f)
            /\ k * (M * M) = IF high.f.CF THEN M * M ELSE 0
            /\ l * (M * M) = IF highd.f.CF THEN M * M ELSE 0
  <2>1. M * M \in Int /\ 1 * (M * M) = M * M /\ 0 * (M * M) = 0
    BY <1>6
  <2>2. \A f \in Flags : carryIn(f) * (M * M) = IF f.CF THEN M * M ELSE 0
    BY <2>1, CarryIn, Zenon
  <2> QED
    BY <1>5, <2>2, CarryIn
<1>8. high.r = edx + b + c - k * M /\ highd.r = edx - b - d + l * M
  BY <1>5, <1>6, <1>7
<1>9. low.r = eax + m - c * M /\ lowd.r = eax - m + d * M
  BY <1>3, <1>4, <1>6, SMTT(60)
<1>10. (edx + b + c - k * M) * M + (eax + m - c * M) + k * (M * M) = (edx * M + eax) + (b * M + m)
  BY <1>4, <1>6
<1>11. (edx - b - d + l * M) * M + (eax - m + d * M) - l * (M * M) = (edx * M + eax) - (b * M + m)
  BY <1>4, <1>6
<1>12. high.r * M + low.r + (IF high.f.CF THEN M * M ELSE 0) = (edx * M + eax) + (b * M + m)
  BY <1>7, <1>8, <1>9, <1>10, Zenon
<1>13. highd.r * M + lowd.r - (IF highd.f.CF THEN M * M ELSE 0) = (edx * M + eax) - (b * M + m)
  BY <1>7, <1>8, <1>9, <1>11, Zenon
<1> QED
  BY <1>2, <1>12, <1>13, Zenon DEF M

-----------------------------------------------------------------------------
(* Shifts and rotates.                                                     *)

\* The two parts of the modulus at a place of the word.
LEMMA SplitModulus ==
    ASSUME NEW c \in 0 .. Width
    PROVE  /\ Pow2[c] \in Nat \ {0} /\ Pow2[Width - c] \in Nat \ {0}
           /\ Pow2[c] * Pow2[Width - c] = Modulus
<1>1. c \in Nat /\ Width - c \in Nat /\ c + (Width - c) = Width
  BY WidthAssumption
<1> QED
  BY <1>1, PowerDef, PowerSum DEF Modulus

\* A word cut in two.
LEMMA CutWord ==
    ASSUME NEW p \in Nat \ {0}, NEW q \in Nat \ {0}, p * q = Modulus, NEW v \in Word
    PROVE  \E h \in 0 .. p - 1, l \in 0 .. q - 1 : v = q * h + l
<1>1. PICK h \in Int, l \in 0 .. q - 1 : v = q * h + l
  <2>1. v \in Int
    BY WordFacts
  <2>2. v \div q \in Int /\ v % q \in 0 .. q - 1 /\ v = q * (v \div q) + (v % q)
    BY <2>1, DivMod
  <2> QED
    BY <2>2, Zenon
<1>2. 0 <= v /\ v < p * q /\ v \in Int
  BY WordFacts, ModulusHalves
<1>3. h >= 0
  <2> SUFFICES ASSUME h <= -1
               PROVE  FALSE
    BY <1>1
  <2>1. q * h <= - q
    BY <1>1
  <2> QED
    BY <1>1, <1>2, <2>1
<1>4. h < p
  <2> SUFFICES ASSUME h >= p
               PROVE  FALSE
    BY <1>1
  <2>1. q * h >= p * q
    BY <1>1
  <2> QED
    BY <1>1, <1>2, <2>1
<1>5. h \in 0 .. p - 1
  BY <1>1, <1>3, <1>4
<1> QED
  BY <1>1, <1>5, Zenon

\* What is put together again is a word.
LEMMA JoinWord ==
    ASSUME NEW p \in Nat \ {0}, NEW q \in Nat \ {0}, p * q = Modulus,
           NEW h \in 0 .. p - 1, NEW l \in 0 .. q - 1
    PROVE  /\ l * p \in Word /\ l * p + h \in Word /\ l * p \in Int
<1>1. l * p \in Int /\ 0 <= l * p
  OBVIOUS
<1>2. l * p <= (q - 1) * p
  OBVIOUS
<1>3. (q - 1) * p = Modulus - p
  BY ModulusHalves
<1> QED
  BY <1>1, <1>2, <1>3, ModulusHalves DEF Word

\* Rotating left and right by c, which may also be the width.
Rol(v, c) == truncate(v * Pow2[c]) + v \div Pow2[Width - c]
Ror(v, c) == v \div Pow2[c] + truncate(v * Pow2[Width - c])

\* The parts of the word change places.
LEMMA RolIs ==
    ASSUME NEW c \in 0 .. Width, NEW h \in 0 .. Pow2[c] - 1, NEW l \in 0 .. Pow2[Width - c] - 1,
           NEW v \in Int, v = Pow2[Width - c] * h + l
    PROVE  Rol(v, c) = l * Pow2[c] + h /\ Rol(v, c) \in Word
<1>1. PICK p \in Nat \ {0}, q \in Nat \ {0} : p = Pow2[c] /\ q = Pow2[Width - c] /\ p * q = Modulus
  BY SplitModulus
<1>2. l * p \in Word /\ l * p + h \in Word /\ l * p \in Int /\ h \in Int
  <2>1. h \in 0 .. p - 1 /\ l \in 0 .. q - 1 /\ h \in Int
    BY <1>1
  <2> QED
    BY <1>1, <2>1, JoinWord, Zenon
<1>3. v * p = (p * q) * h + l * p
  BY <1>1
<1>4. truncate(v * p) = l * p
  BY <1>1, <1>2, <1>3, WordFacts, ModulusHalves
<1>5. v \div q = h
  BY <1>1, DivUnique
<1> QED
  BY <1>1, <1>2, <1>4, <1>5 DEF Rol

\* The same to the right.
LEMMA RorIs ==
    ASSUME NEW c \in 0 .. Width, NEW h \in 0 .. Pow2[Width - c] - 1, NEW l \in 0 .. Pow2[c] - 1,
           NEW v \in Int, v = Pow2[c] * h + l
    PROVE  Ror(v, c) = h + l * Pow2[Width - c] /\ Ror(v, c) \in Word
<1>1. PICK p \in Nat \ {0}, q \in Nat \ {0} : q = Pow2[c] /\ p = Pow2[Width - c] /\ p * q = Modulus
  <2>1. Pow2[Width - c] * Pow2[c] = Pow2[c] * Pow2[Width - c]
    BY SplitModulus
  <2> QED
    BY <2>1, SplitModulus
<1>2. l * p \in Word /\ l * p + h \in Word /\ l * p \in Int /\ h \in Int
  <2>1. h \in 0 .. p - 1 /\ l \in 0 .. q - 1 /\ h \in Int
    BY <1>1
  <2> QED
    BY <1>1, <2>1, JoinWord, Zenon
<1>3. v * p = (p * q) * h + l * p
  BY <1>1
<1>4. truncate(v * p) = l * p
  BY <1>1, <1>2, <1>3, WordFacts, ModulusHalves
<1>5. v \div q = h
  BY <1>1, DivUnique
<1>6. h + l * p = l * p + h
  BY <1>2
<1> QED
  BY <1>1, <1>2, <1>4, <1>5, <1>6 DEF Ror

\* Rotations give words.
LEMMA RotateWord ==
    ASSUME NEW v \in Word, NEW c \in 0 .. Width
    PROVE  Rol(v, c) \in Word /\ Ror(v, c) \in Word
<1>1. PICK p \in Nat \ {0}, q \in Nat \ {0} : p = Pow2[c] /\ q = Pow2[Width - c] /\ p * q = Modulus
  BY SplitModulus
<1>2. q * p = Modulus /\ v \in Int
  BY <1>1, WordFacts
<1>3. PICK h \in 0 .. p - 1, l \in 0 .. q - 1 : v = q * h + l
  BY <1>1, CutWord, ZenonT(60)
<1>4. PICK g \in 0 .. q - 1, k \in 0 .. p - 1 : v = p * g + k
  BY <1>1, <1>2, CutWord
<1> QED
  BY <1>1, <1>2, <1>3, <1>4, RolIs, RorIs

\* Rotating by nothing or by the width changes nothing.
LEMMA RotateNot ==
    ASSUME NEW v \in Word
    PROVE  Rol(v, 0) = v /\ Rol(v, Width) = v /\ Ror(v, 0) = v /\ Ror(v, Width) = v
<1>1. /\ Pow2[0] = 1 /\ Pow2[Width - 0] = Modulus /\ Pow2[Width] = Modulus /\ Pow2[Width - Width] = 1
      /\ v \in Int /\ 0 \in 0 .. Width /\ Width \in 0 .. Width /\ v \in 0 .. Modulus - 1
      /\ Modulus \in Nat \ {0}
  BY PowerDef, WidthAssumption, WordFacts, ModulusHalves DEF Modulus
<1>2. /\ 0 \in 0 .. 1 - 1 /\ v = Modulus * 0 + v /\ v = 1 * v + 0
      /\ v * 1 + 0 = v /\ 0 * Modulus + v = v /\ 0 + v * 1 = v /\ v + 0 * Modulus = v
  BY <1>1
<1>3. Rol(v, 0) = v * 1 + 0
  BY <1>1, <1>2, RolIs
<1>4. Rol(v, Width) = 0 * Modulus + v
  BY <1>1, <1>2, RolIs
<1>5. Ror(v, 0) = v + 0 * Modulus
  <2>1. v \in 0 .. Pow2[Width - 0] - 1 /\ 0 \in 0 .. Pow2[0] - 1 /\ v = Pow2[0] * v + 0
    BY <1>1, <1>2
  <2>2. Ror(v, 0) = v + 0 * Pow2[Width - 0]
    BY <1>1, <2>1, RorIs, Zenon
  <2> QED
    BY <1>1, <2>2
<1>6. Ror(v, Width) = 0 + v * 1
  BY <1>1, <1>2, RorIs, SMTT(60)
<1> QED
  BY <1>2, <1>3, <1>4, <1>5, <1>6

\* One more place to the left.
LEMMA RolStep ==
    ASSUME NEW v \in Word, NEW c \in 0 .. Width - 1
    PROVE  Rol(Rol(v, c), 1) = Rol(v, c + 1)
<1>1. c \in 0 .. Width /\ c + 1 \in 0 .. Width /\ 1 \in 0 .. Width /\ v \in Int
  BY WidthAssumption, WordFacts
<1>2. PICK p \in Nat \ {0}, s \in Nat \ {0} :
            /\ p = Pow2[c] /\ Pow2[Width - c] = 2 * s /\ Pow2[c + 1] = 2 * p /\ Pow2[Width - (c + 1)] = s
            /\ p * (2 * s) = Modulus /\ p * s = H /\ Pow2[1] = 2 /\ Pow2[Width - 1] = H
  <2>1. c \in Nat /\ Width - (c + 1) \in Nat /\ Width - c = (Width - (c + 1)) + 1
    BY WidthAssumption
  <2>2. Pow2[Width - c] = 2 * Pow2[Width - (c + 1)] /\ Pow2[c + 1] = 2 * Pow2[c]
    BY <2>1, PowerDef
  <2>3. Pow2[c] \in Nat \ {0} /\ Pow2[Width - (c + 1)] \in Nat \ {0} /\ Pow2[0 + 1] = 2 * 1
    BY <2>1, PowerDef
  <2>4. Pow2[c] * Pow2[Width - c] = Modulus
    BY <1>1, SplitModulus
  <2>5. Pow2[c] * Pow2[Width - (c + 1)] = H
    BY <2>2, <2>3, <2>4, ModulusHalves
  <2> QED
    BY <2>2, <2>3, <2>4, <2>5 DEF H
<1>3. PICK h \in 0 .. p - 1, l \in 0 .. (2 * s) - 1 : v = (2 * s) * h + l
  <2>1. PICK q \in Nat \ {0} : q = 2 * s /\ p * q = Modulus
    BY <1>2
  <2>2. \E h \in 0 .. p - 1, l \in 0 .. q - 1 : v = q * h + l
    BY <2>1, CutWord, ZenonT(60)
  <2> QED
    BY <2>1, <2>2, ZenonT(60)
<1> DEFINE x == Rol(v, c)
<1>4. x = l * p + h /\ x \in Word
  BY <1>1, <1>2, <1>3, RolIs, ZenonT(60)
<1> HIDE DEF x
<1>5. ASSUME NEW e \in {0, 1}, NEW k \in 0 .. s - 1, l = s * e + k
      PROVE  Rol(x, 1) = Rol(v, c + 1)
  <2>1. k * p + h \in 0 .. H - 1
    <3>1. k * p \in Int /\ 0 <= k * p /\ k * p <= (s - 1) * p
      BY <1>2
    <3>2. (s - 1) * p = H - p
      BY <1>2
    <3> QED
      BY <1>2, <1>3, <3>1, <3>2, ModulusHalves
  <2>2. x = H * e + (k * p + h)
    BY <1>2, <1>3, <1>4, <1>5, ModulusHalves
  <2>3. Rol(x, 1) = (k * p + h) * 2 + e
    <3>1. e \in 0 .. Pow2[1] - 1 /\ k * p + h \in 0 .. Pow2[Width - 1] - 1 /\ x \in Int
          /\ x = Pow2[Width - 1] * e + (k * p + h)
      BY <1>2, <1>4, <2>1, <2>2, WordFacts
    <3>2. Rol(x, 1) = (k * p + h) * Pow2[1] + e
      BY <1>1, <3>1, RolIs, ZenonT(60)
    <3> QED
      BY <1>2, <3>2
  <2>4. 2 * h + e \in 0 .. (2 * p) - 1 /\ v = s * (2 * h + e) + k
    BY <1>2, <1>3, <1>5
  <2>5. Rol(v, c + 1) = k * (2 * p) + (2 * h + e)
    <3>1. 2 * h + e \in 0 .. Pow2[c + 1] - 1 /\ k \in 0 .. Pow2[Width - (c + 1)] - 1
          /\ v = Pow2[Width - (c + 1)] * (2 * h + e) + k
      BY <1>2, <2>4
    <3>2. Rol(v, c + 1) = k * Pow2[c + 1] + (2 * h + e)
      BY <1>1, <3>1, RolIs, Zenon
    <3> QED
      BY <1>2, <3>2
  <2>6. (k * p + h) * 2 + e = k * (2 * p) + (2 * h + e)
    BY <1>2, <1>3
  <2> QED
    BY <2>3, <2>5, <2>6
<1>6. CASE l < s
  <2>1. l \in 0 .. s - 1 /\ l = s * 0 + l
    BY <1>2, <1>3, <1>6
  <2> QED
    BY <1>5, <2>1 DEF x
<1>7. CASE l >= s
  <2>1. l - s \in 0 .. s - 1 /\ l = s * 1 + (l - s)
    BY <1>2, <1>3, <1>7
  <2> QED
    BY <1>5, <2>1 DEF x
<1> QED
  BY <1>2, <1>3, <1>6, <1>7

\* One more place to the right.
LEMMA RorStep ==
    ASSUME NEW v \in Word, NEW c \in 0 .. Width - 1
    PROVE  Ror(Ror(v, c), 1) = Ror(v, c + 1)
<1>1. c \in 0 .. Width /\ c + 1 \in 0 .. Width /\ 1 \in 0 .. Width /\ v \in Int
  BY WidthAssumption, WordFacts
<1>2. PICK p \in Nat \ {0}, s \in Nat \ {0} :
            /\ p = Pow2[c] /\ Pow2[Width - c] = 2 * s /\ Pow2[c + 1] = 2 * p /\ Pow2[Width - (c + 1)] = s
            /\ (2 * s) * p = Modulus /\ p * s = H /\ Pow2[1] = 2 /\ Pow2[Width - 1] = H
  <2>1. c \in Nat /\ Width - (c + 1) \in Nat /\ Width - c = (Width - (c + 1)) + 1
    BY WidthAssumption
  <2>2. Pow2[Width - c] = 2 * Pow2[Width - (c + 1)] /\ Pow2[c + 1] = 2 * Pow2[c]
    BY <2>1, PowerDef
  <2>3. Pow2[c] \in Nat \ {0} /\ Pow2[Width - (c + 1)] \in Nat \ {0} /\ Pow2[0 + 1] = 2 * 1
    BY <2>1, PowerDef
  <2>4. Pow2[c] * Pow2[Width - c] = Modulus
    BY <1>1, SplitModulus
  <2>5. Pow2[c] * Pow2[Width - (c + 1)] = H
    BY <2>2, <2>3, <2>4, ModulusHalves
  <2>6. Pow2[Width - c] * Pow2[c] = Modulus
    BY <2>2, <2>3, <2>4
  <2> QED
    BY <2>2, <2>3, <2>5, <2>6 DEF H
<1>3. PICK h \in 0 .. (2 * s) - 1, l \in 0 .. p - 1 : v = p * h + l
  <2>1. PICK q \in Nat \ {0} : q = 2 * s /\ q * p = Modulus
    BY <1>2
  <2>2. \E h \in 0 .. q - 1, l \in 0 .. p - 1 : v = p * h + l
    BY <2>1, CutWord, ZenonT(60)
  <2> QED
    BY <2>1, <2>2, ZenonT(60)
<1> DEFINE x == Ror(v, c)
<1>4. x = h + l * (2 * s) /\ x \in Word
  BY <1>1, <1>2, <1>3, RorIs
<1> HIDE DEF x
<1>5. PICK k \in 0 .. s - 1, e \in {0, 1} : h = 2 * k + e
  <2>1. h \div 2 \in 0 .. s - 1 /\ h % 2 \in {0, 1} /\ h = 2 * (h \div 2) + (h % 2)
    BY <1>2, <1>3
  <2> QED
    BY <2>1, Zenon
<1>6. l * s + k \in 0 .. H - 1
  <2>1. l * s \in Int /\ 0 <= l * s /\ l * s <= (p - 1) * s
    BY <1>2, <1>3
  <2>2. (p - 1) * s = H - s
    BY <1>2
  <2> QED
    BY <1>2, <1>5, <2>1, <2>2, ModulusHalves
<1>7. x = 2 * (l * s + k) + e
  BY <1>2, <1>3, <1>4, <1>5
<1>8. Ror(x, 1) = (l * s + k) + e * H
  <2>1. l * s + k \in 0 .. Pow2[Width - 1] - 1 /\ e \in 0 .. Pow2[1] - 1 /\ x \in Int
        /\ x = Pow2[1] * (l * s + k) + e
    BY <1>2, <1>4, <1>5, <1>6, <1>7, WordFacts
  <2>2. Ror(x, 1) = (l * s + k) + e * Pow2[Width - 1]
    BY <1>1, <2>1, RorIs, Zenon
  <2> QED
    BY <1>2, <2>2
<1>9. p * e + l \in 0 .. (2 * p) - 1 /\ v = (2 * p) * k + (p * e + l)
  BY <1>2, <1>3, <1>5
<1>10. Ror(v, c + 1) = k + (p * e + l) * s
  <2>1. k \in 0 .. Pow2[Width - (c + 1)] - 1 /\ p * e + l \in 0 .. Pow2[c + 1] - 1
        /\ v = Pow2[c + 1] * k + (p * e + l)
    BY <1>2, <1>5, <1>9
  <2>2. Ror(v, c + 1) = k + (p * e + l) * Pow2[Width - (c + 1)]
    BY <1>1, <2>1, RorIs, Zenon
  <2> QED
    BY <1>2, <2>2
<1>11. (p * e + l) * s = e * H + l * s
  BY <1>2, <1>3, <1>5
<1>12. k + (e * H + l * s) = (l * s + k) + e * H
  BY <1>2, <1>3, <1>5, ModulusHalves
<1> QED
  BY <1>8, <1>10, <1>11, <1>12 DEF x

\* Rotating by n places once more; the code takes n modulo the width.
LEMMA RotateOnce ==
    ASSUME NEW v \in Word, NEW n \in Nat \ {0}
    PROVE  /\ (n - 1) % Width \in 0 .. Width - 1 /\ n % Width \in 0 .. Width - 1 /\ 1 % Width \in 0 .. Width - 1
           /\ Rol(Rol(v, (n - 1) % Width), 1 % Width) = Rol(v, n % Width)
           /\ Ror(Ror(v, (n - 1) % Width), 1 % Width) = Ror(v, n % Width)
<1>1. PICK d \in Int, c \in 0 .. Width - 1 : c = (n - 1) % Width /\ n - 1 = Width * d + c
  <2>1. n - 1 \in Int /\ Width \in Nat \ {0}
    BY WidthAssumption
  <2>2. /\ (n - 1) \div Width \in Int /\ (n - 1) % Width \in 0 .. Width - 1
        /\ n - 1 = Width * ((n - 1) \div Width) + ((n - 1) % Width)
    BY <2>1, DivMod
  <2> QED
    BY <2>2, Zenon
<1>2. Width \in Nat \ {0} /\ d \in Int /\ c \in Int /\ n \in Int /\ n = Width * d + (c + 1)
  BY <1>1, WidthAssumption
<1>3. n % Width = IF c + 1 = Width THEN 0 ELSE c + 1
  <2>1. CASE c + 1 = Width
    <3>1. n = Width * (d + 1) + 0 /\ d + 1 \in Int /\ 0 \in 0 .. Width - 1
      BY <1>2, <2>1
    <3>2. n % Width = 0
      BY <1>2, <3>1, DivUnique, Zenon
    <3> QED
      BY <2>1, <3>2
  <2>2. CASE c + 1 # Width
    <3>1. c + 1 \in 0 .. Width - 1
      BY <1>1, <1>2, <2>2
    <3>2. n % Width = c + 1
      BY <1>2, <3>1, DivUnique, Zenon
    <3> QED
      BY <2>2, <3>2
  <2> QED
    BY <2>1, <2>2
<1>4. Rol(v, n % Width) = Rol(v, c + 1) /\ Ror(v, n % Width) = Ror(v, c + 1)
  BY <1>3, RotateNot
<1>5. c \in 0 .. Width /\ Rol(v, c) \in Word /\ Ror(v, c) \in Word
  <2>1. c \in 0 .. Width
    BY <1>1, <1>2
  <2> QED
    BY <2>1, RotateWord
<1>6. CASE Width = 1
  <2>1. 1 % Width = 0 /\ c = 0
    BY <1>1, <1>6
  <2>2. Rol(v, c + 1) = v /\ Ror(v, c + 1) = v
    BY <1>6, <2>1, RotateNot
  <2>3. Rol(v, c) = v /\ Ror(v, c) = v
    BY <2>1, RotateNot
  <2> QED
    BY <1>1, <1>3, <1>4, <1>6, <2>1, <2>2, <2>3
<1>7. CASE Width # 1
  <2>1. 1 \in 0 .. Width - 1 /\ 1 = Width * 0 + 1
    BY <1>2, <1>7
  <2>2. 1 % Width = 1
    BY <1>2, <2>1, DivUnique
  <2>3. Rol(Rol(v, c), 1) = Rol(v, c + 1) /\ Ror(Ror(v, c), 1) = Ror(v, c + 1)
    BY RolStep, RorStep
  <2>4. n % Width \in 0 .. Width - 1
    BY <1>2, DivMod
  <2> QED
    BY <1>1, <1>4, <2>1, <2>2, <2>3, <2>4
<1> QED
  BY <1>6, <1>7

\* Dividing by a power and then by two.
LEMMA DivTwice ==
    ASSUME NEW v \in Int, NEW p \in Nat \ {0}
    PROVE  (v \div p) \div 2 = v \div (2 * p)
<1>1. PICK q \in Int, r \in 0 .. p - 1 : q = v \div p /\ v = p * q + r
  BY DivMod
<1>2. PICK k \in Int, e \in {0, 1} : k = q \div 2 /\ q = 2 * k + e
  BY <1>1
<1>3. v = (2 * p) * k + (p * e + r) /\ p * e + r \in 0 .. (2 * p) - 1 /\ 2 * p \in Nat \ {0}
  BY <1>1, <1>2
<1>4. v \div (2 * p) = k
  BY <1>3, DivUnique
<1> QED
  BY <1>1, <1>2, <1>4

\* Division by a power stays on its side of zero and comes no farther from it.
LEMMA DivShrinks ==
    ASSUME NEW p \in Nat \ {0}, NEW v \in Int
    PROVE  /\ v \div p \in Int
           /\ v >= 0 => 0 <= v \div p /\ v \div p <= v
           /\ v < 0 => v <= v \div p /\ v \div p < 0
<1>1. PICK q \in Int, r \in 0 .. p - 1 : q = v \div p /\ v = p * q + r
  BY DivMod
<1>2. q >= 0 => p * q >= q
  BY <1>1
<1>3. q < 0 => p * q <= q /\ p * q <= - p
  BY <1>1
<1>4. v >= 0 => 0 <= q /\ q <= v
  BY <1>1, <1>2, <1>3
<1>5. v < 0 => q < 0
  BY <1>1, <1>2
<1>6. v < 0 => v <= q
  BY <1>1, <1>3, <1>5
<1> QED
  BY <1>1, <1>4, <1>5, <1>6

\* Only the remainder counts when a word is shifted left.
LEMMA TruncateTwice == \A v \in Int : truncate(truncate(v) * 2) = truncate(v * 2)
<1> SUFFICES ASSUME NEW v \in Int
             PROVE  truncate(truncate(v) * 2) = truncate(v * 2)
  OBVIOUS
<1> DEFINE M == Modulus
<1>1. M \in Nat \ {0} /\ M = 2 * H
  BY ModulusHalves
<1>2. PICK q \in Int, r \in 0 .. M - 1 : r = truncate(v) /\ v = M * q + r
  BY <1>1, DivMod DEF truncate
<1>3. PICK k \in Int, t \in 0 .. M - 1 : t = truncate(r * 2) /\ r * 2 = M * k + t
  <2>1. r * 2 \in Int
    BY <1>2
  <2>2. (r * 2) \div M \in Int /\ (r * 2) % M \in 0 .. M - 1
        /\ r * 2 = M * ((r * 2) \div M) + ((r * 2) % M)
    BY <1>1, <2>1, DivMod
  <2> QED
    BY <2>2, Zenon DEF truncate
<1>4. v * 2 = M * (2 * q + k) + t /\ v * 2 \in Int /\ 2 * q + k \in Int
  BY <1>1, <1>2, <1>3
<1>5. truncate(v * 2) = t
  BY <1>1, <1>4, DivUnique DEF truncate
<1> QED
  BY <1>2, <1>3, <1>5

\* What a shift of at least one place gives and shifts out, whatever the flags.
ShiftedBy(group, v, n) ==
    CASE group = "rol" -> Rol(v, n % Width)
      [] group = "ror" -> Ror(v, n % Width)
      [] group \in {"shl", "rcl"} -> truncate(v * Pow2[n])
      [] group \in {"shr", "rcr"} -> v \div Pow2[n]
      [] group = "sar" -> truncate(signExtend(v) \div Pow2[n])

Out(group, v, n) ==
    CASE group = "rol" -> Bit(ShiftedBy(group, v, n), 0) = 1
      [] group = "ror" -> negative(ShiftedBy(group, v, n))
      [] group \in {"shl", "rcl"} -> negative(truncate(v * Pow2[n - 1]))
      [] group \in {"shr", "rcr", "sar"} -> Bit(v, n - 1) = 1

\* The flags of shifts are flags.
LEMMA SetCarryFacts ==
    ASSUME NEW f \in Flags, NEW r, NEW one, NEW carry \in BOOLEAN, NEW overflow \in BOOLEAN
    PROVE  /\ rotate(f, r, one, carry, overflow).r = r /\ rotate(f, r, one, carry, overflow).f \in Flags
           /\ rotate(f, r, one, carry, overflow).f.CF = carry
           /\ shift(f, r, one, carry, overflow).r = r /\ shift(f, r, one, carry, overflow).f \in Flags
           /\ shift(f, r, one, carry, overflow).f.CF = carry
<1> DEFINE o == IF one THEN overflow ELSE f.OF
           g == [f EXCEPT !.CF = carry, !.OF = o]
<1>1. o \in BOOLEAN
  BY DEF Flags
<1>2. /\ rotate(f, r, one, carry, overflow) = [r |-> r, f |-> g]
      /\ shift(f, r, one, carry, overflow) = [r |-> r, f |-> setZS(g, r)]
  BY DEF rotate, shift
<1> HIDE DEF o
<1>3. g \in Flags /\ g.CF = carry
  BY <1>1 DEF Flags
<1> HIDE DEF g
<1>4. setZS(g, r) \in Flags /\ setZS(g, r).CF = carry
  BY <1>3, SetZSFacts, Zenon
<1> QED
  BY <1>2, <1>3, <1>4

\* shiftRotate computes them.
LEMMA ShiftFacts ==
    ASSUME NEW f \in Flags, NEW group \in Shift, NEW v \in Word, NEW n \in Nat \ {0}
    PROVE  /\ shiftRotate(f, group, v, n).r = ShiftedBy(group, v, n)
           /\ shiftRotate(f, group, v, n).f \in Flags
           /\ shiftRotate(f, group, v, n).f.CF = Out(group, v, n)
<1> DEFINE x == shiftRotate(f, group, v, n)
           c == n % Width
           z == ShiftedBy(group, v, n)
           out == negative(truncate(v * Pow2[n - 1]))
<1>1. n # 0 /\ out \in BOOLEAN /\ lastOut(v, n) \in BOOLEAN /\ negative(v) \in BOOLEAN
  BY DEF negative, lastOut
<1>2. CASE group = "rol"
  <2>1. x = rotate(f, z, c = 1, Bit(z, 0) = 1, negative(z) # (Bit(z, 0) = 1)) /\ Out(group, v, n) = (Bit(z, 0) = 1)
    BY <1>1, <1>2 DEF shiftRotate, ShiftedBy, Rol, Out
  <2>2. (Bit(z, 0) = 1) \in BOOLEAN /\ (negative(z) # (Bit(z, 0) = 1)) \in BOOLEAN
    BY Zenon
  <2> HIDE DEF x, z, c
  <2>3. PICK k \in BOOLEAN, o \in BOOLEAN, one \in BOOLEAN :
              x = rotate(f, z, one, k, o) /\ Out(group, v, n) = k
    BY <2>1, <2>2, Zenon
  <2>4. x.r = z /\ x.f \in Flags /\ x.f.CF = k
    BY <2>3, SetCarryFacts
  <2> QED
    BY <2>3, <2>4, Zenon DEF x, z
<1>3. CASE group = "ror"
  <2>1. x = rotate(f, z, c = 1, negative(z), Bit(z, Width - 1) # Bit(z, Width - 2)) /\ Out(group, v, n) = negative(z)
    BY <1>1, <1>3 DEF shiftRotate, ShiftedBy, Ror, Out
  <2>2. negative(z) \in BOOLEAN /\ (Bit(z, Width - 1) # Bit(z, Width - 2)) \in BOOLEAN
    BY DEF negative
  <2> HIDE DEF x, z, c
  <2>3. PICK k \in BOOLEAN, o \in BOOLEAN, one \in BOOLEAN :
              x = rotate(f, z, one, k, o) /\ Out(group, v, n) = k
    BY <2>1, <2>2, Zenon
  <2>4. x.r = z /\ x.f \in Flags /\ x.f.CF = k
    BY <2>3, SetCarryFacts
  <2> QED
    BY <2>3, <2>4, Zenon DEF x, z
<1>4. CASE group \in {"shl", "rcl"}
  <2>1. x = shift(f, z, n = 1, out, negative(z) # out) /\ Out(group, v, n) = out
    BY <1>1, <1>4 DEF shiftRotate, ShiftedBy, Out
  <2>2. (negative(z) # out) \in BOOLEAN
    BY Zenon
  <2> HIDE DEF x, z, out
  <2>3. PICK k \in BOOLEAN, o \in BOOLEAN, one \in BOOLEAN :
              x = shift(f, z, one, k, o) /\ Out(group, v, n) = k
    BY <1>1, <2>1, <2>2, Zenon
  <2>4. x.r = z /\ x.f \in Flags /\ x.f.CF = k
    BY <2>3, SetCarryFacts
  <2> QED
    BY <2>3, <2>4, Zenon DEF x, z
<1>5. CASE group \in {"shr", "rcr"}
  <2>1. x = shift(f, z, n = 1, lastOut(v, n), negative(v)) /\ Out(group, v, n) = lastOut(v, n)
    BY <1>1, <1>5 DEF shiftRotate, ShiftedBy, Out, lastOut
  <2> HIDE DEF x, z
  <2>2. PICK k \in BOOLEAN, o \in BOOLEAN, one \in BOOLEAN :
              x = shift(f, z, one, k, o) /\ Out(group, v, n) = k
    BY <1>1, <2>1, Zenon
  <2>3. x.r = z /\ x.f \in Flags /\ x.f.CF = k
    BY <2>2, SetCarryFacts
  <2> QED
    BY <2>2, <2>3, Zenon DEF x, z
<1>6. CASE group = "sar"
  <2>1. x = shift(f, z, n = 1, lastOut(v, n), FALSE) /\ Out(group, v, n) = lastOut(v, n)
    BY <1>1, <1>6 DEF shiftRotate, ShiftedBy, Out, lastOut
  <2> HIDE DEF x, z
  <2>2. PICK k \in BOOLEAN, o \in BOOLEAN, one \in BOOLEAN :
              x = shift(f, z, one, k, o) /\ Out(group, v, n) = k
    BY <1>1, <2>1, Zenon
  <2>3. x.r = z /\ x.f \in Flags /\ x.f.CF = k
    BY <2>2, SetCarryFacts
  <2> QED
    BY <2>2, <2>3, Zenon DEF x, z
<1> QED
  BY <1>2, <1>3, <1>4, <1>5, <1>6 DEF Shift

\* The result is a word.
LEMMA MovedWord ==
    ASSUME NEW group \in Shift, NEW v \in Word, NEW n \in Nat
    PROVE  ShiftedBy(group, v, n) \in Word
<1>1. PICK p \in Nat \ {0} : p = Pow2[n]
  BY PowerDef
<1>2. n % Width \in 0 .. Width
  <2>1. n % Width \in 0 .. Width - 1
    BY WidthAssumption, DivMod
  <2> QED
    BY <2>1, WidthAssumption
<1>3. Rol(v, n % Width) \in Word /\ Ror(v, n % Width) \in Word
  BY <1>2, RotateWord
<1>4. v \in Int /\ v * p \in Int /\ signExtend(v) \in Int
  BY WordFacts, ModulusHalves
<1>5. truncate(v * p) \in Word
  BY <1>4, WordFacts
<1>6. v \div p \in Word
  <2>1. 0 <= v /\ v < 2 * H
    BY WordFacts
  <2>2. v \div p \in Int /\ 0 <= v \div p /\ v \div p <= v
    BY <1>4, <2>1, DivShrinks
  <2>3. v \div p < 2 * H
    BY <1>4, <2>1, <2>2, ModulusHalves
  <2> QED
    BY <2>2, <2>3, WordFacts
<1>7. truncate(signExtend(v) \div p) \in Word
  BY <1>4, DivMod, WordFacts
<1> QED
  BY <1>1, <1>3, <1>5, <1>6, <1>7 DEF ShiftedBy, Shift

\* Shifts by any count, also by none, give a word with flags.
LEMMA ShiftWord ==
    ASSUME NEW f \in Flags, NEW group \in Shift, NEW v \in Word, NEW n \in Nat
    PROVE  shiftRotate(f, group, v, n).r \in Word /\ shiftRotate(f, group, v, n).f \in Flags
<1>1. CASE n = 0
  BY <1>1 DEF shiftRotate
<1>2. CASE n # 0
  <2>1. n \in Nat \ {0}
    BY <1>2
  <2> QED
    BY <2>1, ShiftFacts, MovedWord
<1> QED
  BY <1>1, <1>2

\* Shifting once more: same result, same bit shifted out.  A sar by more than the
\* width finds no bit of the word to put into the carry.
LEMMA MovedOnce ==
    ASSUME NEW group \in Shift, NEW v \in Word, NEW n \in Nat \ {0}, group = "sar" => n <= Width
    PROVE  /\ ShiftedBy(group, ShiftedBy(group, v, n - 1), 1) = ShiftedBy(group, v, n)
           /\ Out(group, ShiftedBy(group, v, n - 1), 1) = Out(group, v, n)
<1>1. PICK p \in Nat \ {0} : p = Pow2[n - 1] /\ Pow2[n] = 2 * p /\ Pow2[1] = 2 /\ Pow2[0] = 1 /\ Pow2[1 - 1] = 1
  <2>1. n - 1 \in Nat /\ (n - 1) + 1 = n /\ 0 + 1 = 1 /\ 1 - 1 = 0
    OBVIOUS
  <2>2. Pow2[(n - 1) + 1] = 2 * Pow2[n - 1] /\ Pow2[0 + 1] = 2 * Pow2[0] /\ Pow2[0] = 1 /\ Pow2[n - 1] \in Nat \ {0}
    BY <2>1, PowerDef
  <2> QED
    BY <2>1, <2>2
<1>2. v \in Int /\ 0 <= v /\ v < 2 * H /\ H \in Nat \ {0}
  BY WordFacts, ModulusHalves
<1>3. CASE group = "rol"
  <2>1. Rol(Rol(v, (n - 1) % Width), 1 % Width) = Rol(v, n % Width)
    BY RotateOnce
  <2>2. \A x, k : ShiftedBy(group, x, k) = Rol(x, k % Width) /\ Out(group, x, k) = (Bit(ShiftedBy(group, x, k), 0) = 1)
    BY <1>3 DEF ShiftedBy, Out
  <2>3. ShiftedBy(group, ShiftedBy(group, v, n - 1), 1) = ShiftedBy(group, v, n)
    BY <2>1, <2>2
  <2> QED
    BY <2>2, <2>3
<1>4. CASE group = "ror"
  <2>1. Ror(Ror(v, (n - 1) % Width), 1 % Width) = Ror(v, n % Width)
    BY RotateOnce
  <2>2. \A x, k : ShiftedBy(group, x, k) = Ror(x, k % Width) /\ Out(group, x, k) = negative(ShiftedBy(group, x, k))
    BY <1>4 DEF ShiftedBy, Out
  <2>3. ShiftedBy(group, ShiftedBy(group, v, n - 1), 1) = ShiftedBy(group, v, n)
    BY <2>1, <2>2
  <2> QED
    BY <2>2, <2>3
<1>5. CASE group \in {"shl", "rcl"}
  <2>1. \A x, k : ShiftedBy(group, x, k) = truncate(x * Pow2[k]) /\ Out(group, x, k) = negative(truncate(x * Pow2[k - 1]))
    BY <1>5 DEF ShiftedBy, Out
  <2>2. PICK t \in Word : t = truncate(v * p)
    BY <1>2, WordFacts
  <2>3. truncate(t * 2) = truncate((v * p) * 2) /\ (v * p) * 2 = v * (2 * p)
    BY <1>2, <2>2, TruncateTwice
  <2>4. truncate(t * 1) = t
    BY <2>2, WordFacts
  <2>5. ShiftedBy(group, v, n - 1) = t
    BY <1>1, <2>1, <2>2
  <2>6. ShiftedBy(group, t, 1) = ShiftedBy(group, v, n)
    BY <1>1, <2>1, <2>3
  <2>7. Out(group, t, 1) = negative(t) /\ Out(group, v, n) = negative(t)
    BY <1>1, <2>1, <2>2, <2>4
  <2> QED
    BY <2>5, <2>6, <2>7
<1>6. CASE group \in {"shr", "rcr"}
  <2>1. \A x, k : ShiftedBy(group, x, k) = x \div Pow2[k] /\ Out(group, x, k) = (Bit(x, k - 1) = 1)
    BY <1>6 DEF ShiftedBy, Out
  <2>2. (v \div p) \div 2 = v \div (2 * p)
    BY <1>2, DivTwice
  <2>3. (v \div p) \div 1 = v \div p
    BY <1>2, DivMod
  <2>4. Bit(v \div p, 1 - 1) = Bit(v, n - 1)
    BY <1>1, <2>3 DEF Bit
  <2>5. ShiftedBy(group, v, n - 1) = v \div p
    BY <1>1, <2>1
  <2>6. ShiftedBy(group, v \div p, 1) = ShiftedBy(group, v, n)
    BY <1>1, <2>1, <2>2
  <2>7. Out(group, v \div p, 1) = Out(group, v, n)
    BY <2>1, <2>4
  <2> QED
    BY <2>5, <2>6, <2>7
<1>7. CASE group = "sar"
  <2>1. \A x, k : ShiftedBy(group, x, k) = truncate(signExtend(x) \div Pow2[k]) /\ Out(group, x, k) = (Bit(x, k - 1) = 1)
    BY <1>7 DEF ShiftedBy, Out
  <2>2. PICK s \in Int : s = signExtend(v) /\ - H <= s /\ s < H /\ s = IF v >= H THEN v - 2 * H ELSE v
    BY <1>2, WordFacts
  <2>3. PICK d \in Int : d = s \div p /\ - H <= d /\ d < H
    <3>1. /\ s \div p \in Int
          /\ s >= 0 => 0 <= s \div p /\ s \div p <= s
          /\ s < 0 => s <= s \div p /\ s \div p < 0
      BY DivShrinks, Zenon
    <3>2. PICK d \in Int : d = s \div p
      BY <3>1, Zenon
    <3>3. - H <= d /\ d < H
      BY <1>2, <2>2, <3>1, <3>2
    <3> QED
      BY <3>2, <3>3
  <2>4. PICK t \in Word : t = truncate(d) /\ t = IF d < 0 THEN d + 2 * H ELSE d
    BY <1>2, <2>3, WordFacts
  <2>5. signExtend(t) = d
    BY <1>2, <2>3, <2>4, WordFacts
  <2>6. d \div 2 = s \div (2 * p)
    BY <2>3, DivTwice
  <2>7. ShiftedBy(group, v, n - 1) = t
    BY <1>1, <2>1, <2>2, <2>3, <2>4, Zenon
  <2>8. ShiftedBy(group, t, 1) = ShiftedBy(group, v, n)
    BY <1>1, <2>1, <2>2, <2>5, <2>6, ZenonT(60)
  <2>9. Bit(v, n - 1) = d % 2
    <3>1. PICK a \in Nat : 2 * H = p * (2 * a)
      <4>1. n - 1 \in Nat /\ Width - n \in Nat /\ (n - 1) + (Width - n) = Width - 1
        BY <1>7, WidthAssumption
      <4>2. H = p * Pow2[Width - n] /\ Pow2[Width - n] \in Nat
        <5>1. Pow2[(n - 1) + (Width - n)] = Pow2[n - 1] * Pow2[Width - n] /\ Pow2[Width - n] \in Nat
          BY <4>1, PowerSum, PowerDef, Zenon
        <5> QED
          BY <1>1, <4>1, <5>1, Zenon DEF H
      <4>3. 2 * (p * Pow2[Width - n]) = p * (2 * Pow2[Width - n])
        BY <4>2
      <4> QED
        BY <4>2, <4>3, Zenon
    <3>2. PICK r \in 0 .. p - 1 : s = p * d + r
      BY <2>2, <2>3, DivMod
    <3>3. CASE v >= H
      <4>1. v = p * (d + 2 * a) + r /\ d + 2 * a \in Int
        BY <1>2, <2>2, <3>1, <3>2, <3>3
      <4>2. v \div p = d + 2 * a
        BY <1>2, <4>1, DivUnique
      <4>3. (d + 2 * a) % 2 = d % 2
        OBVIOUS
      <4> QED
        BY <1>1, <4>2, <4>3 DEF Bit
    <3>4. CASE ~(v >= H)
      <4>1. v = s
        BY <2>2, <3>4
      <4> QED
        BY <1>1, <2>3, <4>1 DEF Bit
    <3> QED
      BY <3>3, <3>4
  <2>10. Bit(t, 1 - 1) = d % 2
    <3>1. t \in Int /\ t \div 1 = t
      BY WordFacts, DivMod
    <3>2. t % 2 = d % 2
      BY <1>2, <2>3, <2>4
    <3> QED
      BY <1>1, <3>1, <3>2 DEF Bit
  <2>11. Out(group, t, 1) = Out(group, v, n)
    BY <2>1, <2>9, <2>10
  <2> QED
    BY <2>7, <2>8, <2>11
<1> QED
  BY <1>3, <1>4, <1>5, <1>6, <1>7 DEF Shift

\* In every state a shift by n is one by n - 1 and one more.
LEMMA ShiftsFollow == UnitTypeOK => ShiftsCompose
<1> SUFFICES ASSUME UnitTypeOK, NEW group \in Shift, NEW n \in 1 .. MaxCount, group = "sar" => n <= Width
             PROVE  LET once  == shiftRotate(eflags, group, m, n)
                        first == shiftRotate(eflags, group, m, n - 1)
                        step  == shiftRotate(first.f, group, first.r, 1)
                    IN  once.r = step.r /\ once.f.CF = step.f.CF
  BY DEF ShiftsCompose
<1> DEFINE once  == shiftRotate(eflags, group, m, n)
           first == shiftRotate(eflags, group, m, n - 1)
           step  == shiftRotate(first.f, group, first.r, 1)
<1>1. m \in Word /\ eflags \in Flags /\ n \in Nat \ {0} /\ n - 1 \in Nat /\ 1 \in Nat \ {0}
  BY WidthAssumption DEF UnitTypeOK
<1>2. CASE n = 1
  <2>1. first.r = m /\ first.f = eflags
    BY <1>2 DEF shiftRotate
  <2> HIDE DEF first
  <2>2. once = step
    BY <1>2, <2>1, Zenon
  <2> HIDE DEF once, step
  <2>3. once.r = step.r /\ once.f.CF = step.f.CF
    BY <2>2, Zenon
  <2> QED
    BY <2>3, Zenon DEF once, first, step
<1>3. CASE n # 1
  <2>1. n - 1 \in Nat \ {0}
    BY <1>1, <1>3
  <2>2. once.r = ShiftedBy(group, m, n) /\ once.f.CF = Out(group, m, n)
    BY <1>1, ShiftFacts, Zenon
  <2>3. first.r = ShiftedBy(group, m, n - 1) /\ first.f \in Flags
    BY <1>1, <2>1, ShiftFacts, Zenon
  <2>4. first.r \in Word
    BY <1>1, <2>3, MovedWord, Zenon
  <2> HIDE DEF once, first
  <2>5. step.r = ShiftedBy(group, first.r, 1) /\ step.f.CF = Out(group, first.r, 1)
    BY <1>1, <2>3, <2>4, ShiftFacts, Zenon
  <2> HIDE DEF step
  <2>6. once.r = step.r /\ once.f.CF = step.f.CF
    BY <1>1, <2>2, <2>3, <2>5, MovedOnce, Zenon
  <2> QED
    BY <2>6, Zenon DEF once, first, step
<1> QED
  BY <1>2, <1>3

-----------------------------------------------------------------------------
(* Multiplication and division.                                            *)

\* Quotient and remainder of numbers with a sign.
LEMMA QuotRem ==
    ASSUME NEW n \in Int, NEW d \in Int, d # 0
    PROVE  /\ Quot(n, d) \in Int /\ Rem(n, d) \in Int /\ n = d * Quot(n, d) + Rem(n, d)
           /\ Abs(Rem(n, d)) < Abs(d)
           /\ Rem(n, d) # 0 => (Rem(n, d) < 0 <=> n < 0)
           /\ n >= 0 /\ d > 0 => Quot(n, d) >= 0 /\ Rem(n, d) >= 0
<1>1. PICK a \in Nat, b \in Nat \ {0} : a = Abs(n) /\ b = Abs(d)
  BY DEF Abs
<1>2. PICK q \in Int, r \in 0 .. b - 1 : q = a \div b /\ a = b * q + r
  <2>1. a \in Int
    BY <1>1
  <2>2. a \div b \in Int /\ a % b \in 0 .. b - 1 /\ a = b * (a \div b) + (a % b)
    BY <1>1, <2>1, DivMod, Zenon
  <2> QED
    BY <2>2, Zenon
<1>3. q >= 0
  <2>1. a \div b >= 0
    BY <1>1, DivShrinks
  <2> QED
    BY <1>2, <2>1
<1>4. CASE n >= 0 /\ d > 0
  <2>1. Quot(n, d) = q /\ n = a /\ d = b
    BY <1>1, <1>2, <1>4 DEF Quot, Abs
  <2>2. Rem(n, d) = r
    BY <1>2, <2>1 DEF Rem
  <2> QED
    BY <1>1, <1>2, <1>3, <1>4, <2>1, <2>2 DEF Abs
<1>5. CASE n < 0 /\ d < 0
  <2>1. Quot(n, d) = q /\ n = - a /\ d = - b
    BY <1>1, <1>2, <1>5 DEF Quot, Abs
  <2>2. (- a) - (- b) * q = - r
    BY <1>1, <1>2
  <2>3. Rem(n, d) = - r
    BY <2>1, <2>2 DEF Rem
  <2>4. - a = (- b) * q + (- r)
    BY <1>1, <1>2
  <2> QED
    BY <1>1, <1>2, <1>5, <2>1, <2>3, <2>4 DEF Abs
<1>6. CASE n >= 0 /\ d < 0
  <2>1. Quot(n, d) = - q /\ n = a /\ d = - b
    BY <1>1, <1>2, <1>6 DEF Quot, Abs
  <2>2. a - (- b) * (- q) = r
    BY <1>1, <1>2
  <2>3. Rem(n, d) = r
    BY <2>1, <2>2 DEF Rem
  <2>4. a = (- b) * (- q) + r
    BY <1>1, <1>2
  <2> QED
    BY <1>1, <1>2, <1>6, <2>1, <2>3, <2>4 DEF Abs
<1>7. CASE n < 0 /\ d > 0
  <2>1. Quot(n, d) = - q /\ n = - a /\ d = b
    BY <1>1, <1>2, <1>7 DEF Quot, Abs
  <2>2. (- a) - b * (- q) = - r
    BY <1>1, <1>2
  <2>3. Rem(n, d) = - r
    BY <2>1, <2>2 DEF Rem
  <2>4. - a = b * (- q) + (- r)
    BY <1>1, <1>2
  <2> QED
    BY <1>1, <1>2, <1>7, <2>1, <2>3, <2>4 DEF Abs
<1> QED
  BY <1>4, <1>5, <1>6, <1>7

\* A number that fits, truncated and read with its sign, is itself.
LEMMA SignedFits == \A x \in Int : - H <= x /\ x < H => Signed(truncate(x)) = x
<1> SUFFICES ASSUME NEW x \in Int, - H <= x, x < H
             PROVE  Signed(truncate(x)) = x
  OBVIOUS
<1>1. H \in Nat \ {0}
  BY ModulusHalves
<1>2. CASE x >= 0
  <2>1. truncate(x) = x
    BY <1>1, <1>2, WordFacts
  <2> QED
    BY <1>1, <1>2, <2>1, WordFacts
<1>3. CASE x < 0
  <2>1. truncate(x) = x + 2 * H
    BY <1>1, <1>3, WordFacts
  <2> QED
    BY <1>1, <1>3, <2>1, WordFacts
<1> QED
  BY <1>2, <1>3

\* The value of a word with its sign.
LEMMA SignedRange == \A v \in Word : Signed(v) \in Int /\ - H <= Signed(v) /\ Signed(v) < H /\ signExtend(v) = Signed(v)
BY WordFacts, ModulusHalves

\* The upper half of a product is a word.
LEMMA ProductHigh ==
    ASSUME NEW a \in Word, NEW b \in Word
    PROVE  (a * b) \div Modulus \in Word /\ (a * b) % Modulus \in Word
           /\ ((a * b) \div Modulus) * Modulus + ((a * b) % Modulus) = a * b
<1> DEFINE M == Modulus
<1>1. M \in Nat \ {0} /\ a \in 0 .. M - 1 /\ b \in 0 .. M - 1
  BY ModulusHalves DEF Word
<1> HIDE DEF M
<1>2. a * b \in Nat /\ a * b <= (M - 1) * b /\ (M - 1) * b <= (M - 1) * M
  BY <1>1
<1>3. PICK q \in Int, r \in 0 .. M - 1 : q = (a * b) \div M /\ r = (a * b) % M /\ a * b = M * q + r
  <2>1. a * b \in Int
    BY <1>2
  <2>2. (a * b) \div M \in Int /\ (a * b) % M \in 0 .. M - 1 /\ a * b = M * ((a * b) \div M) + ((a * b) % M)
    BY <1>1, <2>1, DivMod
  <2> QED
    BY <2>2, Zenon
<1>4. q >= 0
  <2>1. q < 0 => M * q <= - M
    BY <1>1
  <2> QED
    BY <1>1, <1>2, <1>3, <2>1
<1>5. q < M
  <2>1. q >= M => M * q >= M * M
    BY <1>1
  <2>2. (M - 1) * M = M * M - M
    BY <1>1
  <2> QED
    BY <1>1, <1>2, <1>3, <2>1, <2>2
<1>6. q * M + r = a * b /\ q \in 0 .. M - 1
  BY <1>1, <1>3, <1>4, <1>5
<1> QED
  BY <1>3, <1>6 DEF Word, M

\* The upper half of a product with signs fits.
LEMMA SignedProduct ==
    ASSUME NEW a \in Int, NEW b \in Int, - H <= a, a < H, - H <= b, b < H
    PROVE  /\ a * b \in Int /\ (a * b) \div Modulus \in Int
           /\ - H <= (a * b) \div Modulus /\ (a * b) \div Modulus < H
           /\ ((a * b) \div Modulus) * Modulus + truncate(a * b) = a * b
<1>1. H \in Nat \ {0} /\ Modulus = 2 * H
  BY ModulusHalves
<1>2. a * b \in Int /\ a * b <= H * H /\ - (H * H) <= a * b
  <2>1. PICK x \in 0 .. H, y \in 0 .. H : (a = x \/ a = - x) /\ (b = y \/ b = - y)
    BY <1>1
  <2>2. x * y <= H * y /\ H * y <= H * H /\ x * y >= 0 /\ x * y \in Int
    BY <1>1, <2>1
  <2>3. a * b = x * y \/ a * b = - (x * y)
    BY <2>1
  <2>4. H * H \in Int /\ H * y \in Int
    BY <1>1
  <2> QED
    BY <1>1, <2>2, <2>3, <2>4
<1>3. PICK q \in Int, r \in 0 .. (2 * H) - 1 :
            q = (a * b) \div Modulus /\ r = truncate(a * b) /\ a * b = (2 * H) * q + r
  <2>1. /\ (a * b) \div Modulus \in Int /\ (a * b) % Modulus \in 0 .. Modulus - 1
        /\ a * b = Modulus * ((a * b) \div Modulus) + ((a * b) % Modulus)
    <3>1. Modulus \in Nat \ {0}
      BY ModulusHalves
    <3> QED
      BY <1>2, <3>1, DivMod, Zenon
  <2> QED
    BY <1>1, <2>1, Zenon DEF truncate
<1>4. q < H
  <2> SUFFICES ASSUME q >= H
               PROVE  FALSE
    BY <1>1, <1>3
  <2>1. (2 * H) * q >= (2 * H) * H /\ (2 * H) * H = 2 * (H * H) /\ H * H >= 1 /\ (2 * H) * q \in Int
    BY <1>1, <1>3
  <2> QED
    BY <1>1, <1>2, <1>3, <2>1
<1>5. - H <= q
  <2> SUFFICES ASSUME q <= - H - 1
               PROVE  FALSE
    BY <1>1, <1>3
  <2>1. (2 * H) * q <= (2 * H) * (- H - 1) /\ (2 * H) * (- H - 1) = - (2 * (H * H)) - 2 * H /\ (2 * H) * q \in Int
    BY <1>1, <1>3
  <2>2. H * H >= 1
    BY <1>1
  <2> QED
    BY <1>1, <1>2, <1>3, <2>1, <2>2
<1>6. q * Modulus + r = a * b
  BY <1>1, <1>3
<1> QED
  BY <1>2, <1>3, <1>4, <1>5, <1>6

\* What a division that does not fault leaves.
LEMMA DivideFacts ==
    ASSUME UnitTypeOK, NEW n \in Int, NEW d \in Int, NEW low \in Int, NEW high \in Int,
           Divide(n, d, low, high)
    PROVE  /\ m' = m /\ eflags' = eflags
           /\ eax' \in Word /\ edx' \in Word /\ fault' \in BOOLEAN
           /\ ~fault' => /\ d # 0 /\ Quot(n, d) \in low .. high
                         /\ eax' = truncate(Quot(n, d)) /\ edx' = truncate(Rem(n, d))
<1>1. m' = m /\ eflags' = eflags
  BY DEF Divide
<1>2. CASE d = 0 \/ (d # 0 /\ Quot(n, d) \notin low .. high)
  <2>1. fault' = TRUE /\ eax' = eax /\ edx' = edx
    BY <1>2 DEF Divide
  <2> QED
    BY <1>1, <2>1 DEF UnitTypeOK
<1>3. CASE ~(d = 0 \/ (d # 0 /\ Quot(n, d) \notin low .. high))
  <2>1. d # 0 /\ Quot(n, d) \in low .. high /\ fault' = fault
        /\ eax' = truncate(Quot(n, d)) /\ edx' = truncate(Rem(n, d))
    BY <1>3, Zenon DEF Divide
  <2>2. Quot(n, d) \in Int /\ Rem(n, d) \in Int
    BY <2>1, QuotRem
  <2>3. eax' \in Word /\ edx' \in Word
    BY <2>1, <2>2, WordFacts
  <2> QED
    BY <1>1, <2>1, <2>3, Zenon DEF UnitTypeOK
<1> QED
  BY <1>2, <1>3

\* Registers keep words through every instruction.
LEMMA UnitStepType == UnitTypeOK /\ UnitNext => UnitTypeOK'
<1> SUFFICES ASSUME UnitTypeOK, UnitNext
             PROVE  UnitTypeOK'
  OBVIOUS
<1>0. eax \in Word /\ edx \in Word /\ m \in Word /\ eflags \in Flags /\ fault \in BOOLEAN
  BY DEF UnitTypeOK
<1>1. 0 \in Word /\ 1 \in Word /\ Modulus - 1 - m \in Word /\ 0 \in {0, 1}
  BY <1>0, WordFacts, ModulusHalves
<1>2. \A f \in Flags, b \in BOOLEAN : [f EXCEPT !.CF = b] \in Flags /\ [f EXCEPT !.ZF = b] \in Flags /\ Both(f, b) \in Flags
  BY DEF Both, Flags
<1>3. eflags.CF \in BOOLEAN
  BY <1>0 DEF Flags
<1>4. ASSUME NEW kind \in Kind, aluStep(kind)
      PROVE  UnitTypeOK'
  <2>1. alu(kind, eflags, eax, m).r \in Word /\ alu(kind, eflags, eax, m).f \in Flags
    BY <1>0, AluFacts
  <2> QED
    BY <1>0, <1>4, <2>1 DEF aluStep, UnitTypeOK
<1>5. ASSUME NEW group \in Shift, NEW count \in 0 .. MaxCount, shiftStep(group, count)
      PROVE  UnitTypeOK'
  <2>1. count \in Nat
    BY WidthAssumption
  <2>2. shiftRotate(eflags, group, m, count).r \in Word /\ shiftRotate(eflags, group, m, count).f \in Flags
    BY <1>0, <2>1, ShiftWord
  <2> QED
    BY <1>0, <1>5, <2>2 DEF shiftStep, Set, UnitTypeOK
<1>6. ASSUME NEW op \in {"bt", "bts", "btr", "btc"}, NEW i \in 0 .. MaxCount, bitTest(op, i)
      PROVE  UnitTypeOK'
  <2>0. PICK bit : bit = {i} \cap (0 .. Width - 1)
    OBVIOUS
  <2>1. Bits[m] \in SUBSET (0 .. Width - 1) /\ Bits[m] \cup bit \in SUBSET (0 .. Width - 1)
        /\ Bits[m] \ bit \in SUBSET (0 .. Width - 1)
    BY <1>0, <2>0, BitsType
  <2>2. FromBits(Bits[m]) \in Word /\ FromBits(Bits[m] \cup bit) \in Word /\ FromBits(Bits[m] \ bit) \in Word
    BY <2>1, FromBitsIsWord
  <2>3. m' \in Word
    BY <1>6, <2>0, <2>2 DEF bitTest
  <2>4. eflags' \in Flags
    <3>1. PICK b \in BOOLEAN : b = (i \in Bits[m])
      <4>1. (i \in Bits[m]) \in BOOLEAN
        OBVIOUS
      <4> QED
        BY <4>1, Zenon
    <3> QED
      BY <1>0, <1>2, <1>6, <3>1 DEF bitTest
  <2> QED
    BY <1>0, <1>6, <2>3, <2>4 DEF bitTest, UnitTypeOK
<1>7. ASSUME NEW code \in Condition, cmov(code) \/ setcc(code)
      PROVE  UnitTypeOK'
  BY <1>0, <1>1, <1>7 DEF cmov, setcc, UnitTypeOK
<1>8. ASSUME NEW forward \in BOOLEAN, bitScan(forward)
      PROVE  UnitTypeOK'
  <2>1. eflags' \in Flags
    <3>1. PICK b \in BOOLEAN : b = (m = 0)
      OBVIOUS
    <3> QED
      BY <1>0, <1>2, <1>8, <3>1 DEF bitScan
  <2>2. m # 0 => Min(Bits[m]) \in Word /\ Max(Bits[m]) \in Word
    <3> SUFFICES ASSUME m # 0
                 PROVE  Min(Bits[m]) \in Word /\ Max(Bits[m]) \in Word
      OBVIOUS
    <3>1. Bits[m] \subseteq 0 .. Width - 1
      BY <1>0, BitsType
    <3>2. m \in 1 .. Pow2[Width] - 1 /\ Width \in Nat
      BY <1>0, WidthAssumption, ModulusHalves DEF Word, Modulus
    <3>3. PICK i \in 0 .. Width - 1 : Bit(m, i) = 1
      BY <3>2, NonzeroHasBit
    <3>4. i \in Bits[m]
      BY <1>0, <3>3 DEF Bits
    <3>5. \E a \in Bits[m] : \A b \in Bits[m] : a <= b
      BY <3>1, <3>4, SmallestExists
    <3>6. \E a \in Bits[m] : \A b \in Bits[m] : b <= a
      <4>1. Width - 1 \in Nat
        BY WidthAssumption
      <4> QED
        BY <3>1, <3>4, <4>1, LargestExists
    <3>7. Min(Bits[m]) \in Bits[m] /\ Max(Bits[m]) \in Bits[m]
      <4>1. \E a \in Bits[m] : \A b \in Bits[m] : a >= b
        BY <3>1, <3>6
      <4> QED
        BY <3>5, <4>1 DEF Min, Max
    <3> QED
      BY <3>1, <3>7, IndexIsWord
  <2> QED
    BY <1>0, <1>8, <2>1, <2>2 DEF bitScan, UnitTypeOK
<1>9. CASE test
  <2>1. logic(eflags, and(eax, m)).f \in Flags
    BY <1>0, BitwiseFacts, LogicFacts
  <2> QED
    BY <1>0, <1>9, <2>1 DEF test, UnitTypeOK
<1>10. CASE inc
  <2>1. add(eflags, m, 1, 0).r \in Word /\ add(eflags, m, 1, 0).f \in Flags
    BY <1>0, <1>1, AddFacts
  <2>2. [add(eflags, m, 1, 0).f EXCEPT !.CF = eflags.CF] \in Flags
    BY <1>2, <1>3, <2>1
  <2> QED
    BY <1>0, <1>10, <2>1, <2>2 DEF inc, UnitTypeOK
<1>11. CASE dec
  <2>1. sub(eflags, m, 1, 0).r \in Word /\ sub(eflags, m, 1, 0).f \in Flags
    BY <1>0, <1>1, SubFacts
  <2>2. [sub(eflags, m, 1, 0).f EXCEPT !.CF = eflags.CF] \in Flags
    BY <1>2, <1>3, <2>1
  <2> QED
    BY <1>0, <1>11, <2>1, <2>2 DEF dec, UnitTypeOK
<1>12. CASE not
  BY <1>0, <1>1, <1>12 DEF not, UnitTypeOK
<1>13. CASE neg
  <2>1. sub(eflags, 0, m, 0).r \in Word /\ sub(eflags, 0, m, 0).f \in Flags
    BY <1>0, <1>1, SubFacts
  <2> QED
    BY <1>0, <1>13, <2>1 DEF neg, Set, UnitTypeOK
<1>14. CASE mul
  <2>1. (eax * m) \div Modulus \in Word /\ (eax * m) % Modulus \in Word
    BY <1>0, ProductHigh
  <2>2. PICK b \in BOOLEAN : b = ((eax * m) \div Modulus # 0)
    OBVIOUS
  <2> QED
    BY <1>0, <1>2, <1>14, <2>1, <2>2 DEF mul, UnitTypeOK
<1>15. signExtend(eax) \in Int /\ signExtend(m) \in Int /\ signExtend(edx) \in Int
       /\ - H <= signExtend(eax) /\ signExtend(eax) < H /\ - H <= signExtend(m) /\ signExtend(m) < H
  BY <1>0, SignedRange
<1>16. PICK p \in Int : p = signExtend(eax) * signExtend(m) /\ truncate(p) \in Word /\ truncate(p \div Modulus) \in Word
  BY <1>15, SignedProduct, WordFacts
<1>17. PICK b \in BOOLEAN : b = (signExtend(truncate(p)) # p)
  OBVIOUS
<1>18. CASE imul
  BY <1>0, <1>2, <1>16, <1>17, <1>18 DEF imul, UnitTypeOK
<1>19. CASE imulReg
  BY <1>0, <1>2, <1>16, <1>17, <1>19 DEF imulReg, UnitTypeOK
<1>20. CASE div
  <2>1. edx * Modulus + eax \in Int /\ m \in Int /\ 0 \in Int /\ Modulus - 1 \in Int
    BY <1>0, WordFacts, ModulusHalves
  <2> QED
    BY <1>0, <1>20, <2>1, DivideFacts DEF div, UnitTypeOK
<1>21. CASE idiv
  <2>1. signExtend(edx) * Modulus + eax \in Int /\ - (Modulus \div 2) \in Int /\ Modulus \div 2 - 1 \in Int
    BY <1>0, <1>15, WordFacts, ModulusHalves
  <2> QED
    BY <1>0, <1>15, <1>21, <2>1, DivideFacts DEF idiv, UnitTypeOK
<1>22. CASE cmpxchg
  <2>1. sub(eflags, eax, m, 0).f \in Flags
    BY <1>0, <1>1, SubFacts
  <2> QED
    BY <1>0, <1>22, <2>1 DEF cmpxchg, UnitTypeOK
<1>23. CASE xadd
  <2>1. add(eflags, m, edx, 0).r \in Word /\ add(eflags, m, edx, 0).f \in Flags
    BY <1>0, <1>1, AddFacts
  <2> QED
    BY <1>0, <1>23, <2>1 DEF xadd, Set, UnitTypeOK
<1>24. CASE loadOperand
  BY <1>0, <1>24 DEF loadOperand, UnitTypeOK
<1> QED
  BY <1>4, <1>5, <1>6, <1>7, <1>8, <1>9, <1>10, <1>11, <1>12, <1>13, <1>14, <1>18, <1>19, <1>20,
     <1>21, <1>22, <1>23, <1>24 DEF UnitNext

\* Products and quotients give their numbers back.
LEMMA DivisionStep ==
    ASSUME UnitTypeOK
    PROVE  /\ mul => edx' * Modulus + eax' = eax * m
           /\ imul => Signed(edx') * Modulus + eax' = Signed(eax) * Signed(m)
           /\ div /\ ~fault' => eax' * m + edx' = edx * Modulus + eax /\ edx' < m
           /\ idiv /\ ~fault' =>
                 LET n == Signed(edx) * Modulus + eax
                 IN  /\ Signed(eax') * Signed(m) + Signed(edx') = n
                     /\ Abs(Signed(edx')) < Abs(Signed(m))
                     /\ Signed(edx') # 0 => (Signed(edx') < 0) = (n < 0)
<1>0. eax \in Word /\ edx \in Word /\ m \in Word
  BY DEF UnitTypeOK
<1>1. /\ eax \in Int /\ edx \in Int /\ m \in Int /\ Modulus = 2 * H /\ H \in Nat \ {0} /\ Modulus \in Int
      /\ 0 <= eax /\ 0 <= edx /\ 0 <= m /\ m < 2 * H /\ Modulus \div 2 = H
  BY <1>0, WordFacts, ModulusHalves
<1>2. \A v \in {eax, edx, m} : Signed(v) \in Int /\ - H <= Signed(v) /\ Signed(v) < H /\ signExtend(v) = Signed(v)
  BY <1>0, SignedRange
<1>3. ASSUME mul
      PROVE  edx' * Modulus + eax' = eax * m
  BY <1>0, <1>3, ProductHigh DEF mul
<1>4. ASSUME imul
      PROVE  Signed(edx') * Modulus + eax' = Signed(eax) * Signed(m)
  <2> DEFINE p == Signed(eax) * Signed(m)
  <2>1. eax' = truncate(p) /\ edx' = truncate(p \div Modulus)
    BY <1>2, <1>4 DEF imul
  <2>2. p \div Modulus \in Int /\ - H <= p \div Modulus /\ p \div Modulus < H
        /\ (p \div Modulus) * Modulus + truncate(p) = p
    BY <1>2, SignedProduct
  <2>3. Signed(edx') = p \div Modulus
    BY <2>1, <2>2, SignedFits
  <2> QED
    BY <2>1, <2>2, <2>3
<1>5. ASSUME div, ~fault'
      PROVE  eax' * m + edx' = edx * Modulus + eax /\ edx' < m
  <2>1. PICK n \in Int : n = edx * Modulus + eax /\ n >= 0
    <3>1. edx * (2 * H) >= 0 /\ edx * (2 * H) \in Int
      BY <1>1
    <3> QED
      BY <1>1, <3>1
  <2>2. m # 0 /\ Quot(n, m) \in 0 .. Modulus - 1 /\ eax' = truncate(Quot(n, m)) /\ edx' = truncate(Rem(n, m))
    <3>1. Divide(n, m, 0, Modulus - 1) /\ 0 \in Int /\ Modulus - 1 \in Int
      BY <1>1, <1>5, <2>1 DEF div
    <3> QED
      BY <1>1, <1>5, <3>1, DivideFacts
  <2>3. PICK q \in Int, r \in Int : /\ q = Quot(n, m) /\ r = Rem(n, m) /\ n = m * q + r
                                    /\ r >= 0 /\ Abs(r) < Abs(m)
    <3>1. m > 0
      BY <1>1, <2>2
    <3> QED
      BY <1>1, <2>1, <2>2, <3>1, QuotRem
  <2>4. 0 <= q /\ q < 2 * H /\ r < m
    BY <1>1, <2>2, <2>3 DEF Abs
  <2>5. eax' = q /\ edx' = r
    BY <1>1, <2>2, <2>3, <2>4, WordFacts
  <2>6. q * m + r = n
    BY <1>1, <2>3
  <2> QED
    BY <2>1, <2>4, <2>5, <2>6
<1>6. ASSUME idiv, ~fault'
      PROVE  LET n == Signed(edx) * Modulus + eax
             IN  /\ Signed(eax') * Signed(m) + Signed(edx') = n
                 /\ Abs(Signed(edx')) < Abs(Signed(m))
                 /\ Signed(edx') # 0 => (Signed(edx') < 0) = (n < 0)
  <2>1. PICK n \in Int, d \in Int : n = Signed(edx) * Modulus + eax /\ d = Signed(m) /\ - H <= d /\ d < H
    BY <1>1, <1>2
  <2>2. d # 0 /\ Quot(n, d) \in - H .. H - 1 /\ eax' = truncate(Quot(n, d)) /\ edx' = truncate(Rem(n, d))
    <3>1. Divide(n, d, - H, H - 1) /\ - H \in Int /\ H - 1 \in Int
      BY <1>1, <1>2, <1>6, <2>1 DEF idiv
    <3> QED
      BY <1>6, <3>1, DivideFacts
  <2>3. PICK q \in Int, r \in Int : /\ q = Quot(n, d) /\ r = Rem(n, d) /\ n = d * q + r /\ Abs(r) < Abs(d)
                                    /\ r # 0 => (r < 0 <=> n < 0)
    BY <2>2, QuotRem
  <2>4. - H <= q /\ q < H /\ - H <= r /\ r < H
    BY <1>1, <2>1, <2>2, <2>3 DEF Abs
  <2>5. Signed(eax') = q /\ Signed(edx') = r
    BY <2>2, <2>3, <2>4, SignedFits
  <2>6. q * d + r = n
    BY <2>3
  <2>7. r # 0 => (r < 0) = (n < 0)
    BY <2>3
  <2> QED
    BY <2>1, <2>3, <2>5, <2>6, <2>7, Zenon
<1> QED
  BY <1>3, <1>4, <1>5, <1>6, Zenon

-----------------------------------------------------------------------------
(* The theorems about the integer unit, for every width of operands.       *)

\* Registers hold words and flags are Booleans after any sequence of the integer
\* instructions of cpu.js.
THEOREM RegistersHoldWords == UnitSpec => []UnitTypeOK
<1>1. UnitInit => UnitTypeOK
  <2>1. 0 \in Word
    BY WordFacts, ModulusHalves
  <2>2. [CF |-> FALSE, OF |-> FALSE, ZF |-> FALSE, SF |-> FALSE, PF |-> FALSE, AF |-> FALSE] \in Flags
    BY DEF Flags
  <2>3. FALSE \in BOOLEAN
    OBVIOUS
  <2> QED
    BY <2>1, <2>2, <2>3, Zenon DEF UnitInit, UnitTypeOK
<1>2. UnitTypeOK /\ [UnitNext]_unitVars => UnitTypeOK'
  <2>1. UnitTypeOK /\ UNCHANGED unitVars => UnitTypeOK'
    BY DEF UnitTypeOK, unitVars
  <2> QED
    BY <2>1, UnitStepType
<1> QED
  BY <1>1, <1>2, PTL DEF UnitSpec

\* The flags that the arithmetic of cpu.js sets decide its conditional jumps as
\* the numbers do, for every width.
THEOREM BranchesAlwaysDecide == UnitSpec => []BranchesDecide
BY RegistersHoldWords, BranchesFollow, PTL

\* adc and sbb extend add and sub to numbers of two words, for every width.
THEOREM WideArithmeticIsExact == UnitSpec => []WideArithmetic
BY RegistersHoldWords, WideFollows, PTL

\* A shift or rotate by n places is n shifts by one, for every width and count.
THEOREM ShiftsAlwaysCompose == UnitSpec => []ShiftsCompose
BY RegistersHoldWords, ShiftsFollow, PTL

\* Multiplication and division of cpu.js give their numbers back, for every
\* width.
THEOREM DivisionIsExact == UnitSpec => DividesBack
<1> DEFINE Back == unitVars' # unitVars =>
       /\ mul => edx' * Modulus + eax' = eax * m
       /\ imul => Signed(edx') * Modulus + eax' = Signed(eax) * Signed(m)
       /\ div /\ ~fault' => eax' * m + edx' = edx * Modulus + eax /\ edx' < m
       /\ idiv /\ ~fault' =>
             LET n == Signed(edx) * Modulus + eax
             IN  /\ Signed(eax') * Signed(m) + Signed(edx') = n
                 /\ Abs(Signed(edx')) < Abs(Signed(m))
                 /\ Signed(edx') # 0 => (Signed(edx') < 0) = (n < 0)
<1>1. UnitTypeOK => Back
  BY DivisionStep, Zenon
<1>2. DividesBack <=> [][Back]_unitVars
  BY DEF DividesBack
<1> HIDE DEF Back
<1> QED
  BY <1>1, <1>2, RegistersHoldWords, PTL DEF UnitSpec

-----------------------------------------------------------------------------
(* String instructions: pointers.                                          *)

Address == 0 .. Cells - 1

\* Numbers that differ by a multiple have one remainder,
Congruent(a, b, p) == \E k \in Int : a = b + p * k

LEMMA SameRemainder ==
    ASSUME NEW a \in Int, NEW b \in Int, NEW p \in Nat \ {0}, Congruent(a, b, p)
    PROVE  a % p = b % p
<1>0. PICK k \in Int : a = b + p * k
  BY DEF Congruent
<1>1. PICK d \in Int, s \in 0 .. p - 1 : d = b \div p /\ s = b % p /\ b = p * d + s
  BY DivMod
<1>2. PICK q \in Int : q = d + k
  OBVIOUS
<1>3. a = p * q + s
  <2>1. p * (d + k) = p * d + p * k
    OBVIOUS
  <2>2. p * d \in Int /\ p * k \in Int
    OBVIOUS
  <2> QED
    BY <1>0, <1>1, <1>2, <2>1, <2>2
<1>4. a % p = s
  BY <1>3, DivUnique, Zenon
<1> QED
  BY <1>1, <1>4

\* a number may be replaced by its remainder before another is added,
LEMMA AddToRemainder ==
    ASSUME NEW v \in Int, NEW e \in Int, NEW p \in Nat \ {0}
    PROVE  ((v % p) + e) % p = (v + e) % p
<1>0. v \div p \in Int /\ v % p \in 0 .. p - 1 /\ v = p * (v \div p) + (v % p)
  BY DivMod
<1>5. v % p \in Int
  BY <1>0
<1>1. PICK k \in Int, r \in Int : k = v \div p /\ r = v % p /\ v = p * k + r
  BY <1>0, <1>5, Zenon
<1>2. p * k \in Int
  OBVIOUS
<1>3. PICK x \in Int, y \in Int : x = v + e /\ y = r + e /\ x = y + p * k
  BY <1>1, <1>2
<1>4. x % p = y % p
  <2>1. Congruent(x, y, p)
    BY <1>3 DEF Congruent
  <2> QED
    BY <2>1, SameRemainder
<1> QED
  BY <1>1, <1>3, <1>4

\* and numbers with one remainder that are near each other are one.
LEMMA NearRemainder ==
    ASSUME NEW a \in Int, NEW b \in Int, NEW p \in Nat \ {0}, a % p = b % p, a - b < p, b - a < p
    PROVE  a = b
<1>1. PICK q \in Int, r \in 0 .. p - 1 : q = a \div p /\ r = a % p /\ a = p * q + r
  BY DivMod
<1>2. PICK d \in Int, s \in 0 .. p - 1 : d = b \div p /\ s = b % p /\ b = p * d + s
  BY DivMod
<1>3. p * (q - d) = a - b
  BY <1>1, <1>2
<1>4. ~(q - d >= 1)
  <2> SUFFICES ASSUME q - d >= 1
               PROVE  FALSE
    OBVIOUS
  <2>1. p * (q - d) >= p
    OBVIOUS
  <2> QED
    BY <1>3, <2>1
<1>5. ~(d - q >= 1)
  <2> SUFFICES ASSUME d - q >= 1
               PROVE  FALSE
    OBVIOUS
  <2>1. p * (d - q) >= p /\ p * (d - q) = b - a
    BY <1>3
  <2> QED
    BY <2>1
<1>6. q = d
  BY <1>4, <1>5
<1> QED
  BY <1>1, <1>2, <1>6

\* A pointer moves by steps of one within the addresses.
LEMMA MovedFacts ==
    ASSUME NEW p \in Address, NEW n \in Nat
    PROVE  /\ Moved(p, n) \in Address /\ Moved(p, 0) = p
           /\ Moved(Moved(p, n), 1) = Moved(p, n + 1)
<1>1. Cells \in Nat \ {0} /\ p \in 0 .. Cells - 1 /\ p \in Int
  BY StringAssumption DEF Address
<1>2. \A v \in Int : v % Cells \in 0 .. Cells - 1 /\ v % Cells \in Int
  BY <1>1, DivMod
<1>3. Moved(p, n) \in Address
  BY <1>1, <1>2 DEF Moved, Address
<1>4. Moved(p, 0) = p
  <2>1. p = Cells * 0 + p /\ 0 \in Int
    BY <1>1
  <2>2. p % Cells = p
    BY <1>1, <2>1, DivUnique
  <2> QED
    BY <1>1, <2>2 DEF Moved
<1>5. \A v \in Int, e \in Int : ((v % Cells) + e) % Cells = (v + e) % Cells
  BY <1>1, AddToRemainder
<1>6. CASE df
  <2>1. Moved(p, n) = (p - n) % Cells /\ Moved(p, n + 1) = (p - (n + 1)) % Cells
    BY <1>6 DEF Moved
  <2>2. Moved(Moved(p, n), 1) = (((p - n) % Cells) + (-1)) % Cells
    BY <1>1, <1>2, <1>6, <2>1 DEF Moved
  <2>3. (((p - n) % Cells) + (-1)) % Cells = ((p - n) + (-1)) % Cells
    <3>1. p - n \in Int /\ -1 \in Int
      BY <1>1
    <3> QED
      BY <3>1, <1>5
  <2>4. (p - n) + (-1) = p - (n + 1)
    BY <1>1
  <2> QED
    BY <1>3, <1>4, <2>1, <2>2, <2>3, <2>4
<1>7. CASE ~df
  <2>1. Moved(p, n) = (p + n) % Cells /\ Moved(p, n + 1) = (p + (n + 1)) % Cells
    BY <1>7 DEF Moved
  <2>2. Moved(Moved(p, n), 1) = (((p + n) % Cells) + 1) % Cells
    BY <1>7, <2>1 DEF Moved
  <2>3. (((p + n) % Cells) + 1) % Cells = ((p + n) + 1) % Cells
    <3>1. p + n \in Int /\ 1 \in Int
      BY <1>1
    <3> QED
      BY <3>1, <1>5
  <2>4. (p + n) + 1 = p + (n + 1)
    BY <1>1
  <2> QED
    BY <1>3, <1>4, <2>1, <2>2, <2>3, <2>4
<1> QED
  BY <1>6, <1>7

\* Two distances that lead to one address are one if they are near.
LEMMA OneDistance ==
    ASSUME NEW p \in Address, NEW a \in Nat, NEW b \in Nat, a - b < Cells, b - a < Cells,
           Moved(p, a) = Moved(p, b)
    PROVE  a = b
<1>1. Cells \in Nat \ {0} /\ p \in Int
  BY StringAssumption DEF Address
<1>2. CASE df
  <2>1. (p - a) % Cells = (p - b) % Cells
    BY <1>2 DEF Moved
  <2>2. p - a \in Int /\ p - b \in Int /\ (p - a) - (p - b) < Cells /\ (p - b) - (p - a) < Cells
    BY <1>1
  <2>3. p - a = p - b
    BY <1>1, <2>1, <2>2, NearRemainder
  <2> QED
    BY <1>1, <2>3
<1>3. CASE ~df
  <2>1. (p + a) % Cells = (p + b) % Cells
    BY <1>3 DEF Moved
  <2>2. p + a \in Int /\ p + b \in Int /\ (p + a) - (p + b) < Cells /\ (p + b) - (p + a) < Cells
    BY <1>1
  <2>3. p + a = p + b
    BY <1>1, <2>1, <2>2, NearRemainder
  <2> QED
    BY <1>1, <2>3
<1> QED
  BY <1>2, <1>3

\* How far the target is ahead of the source.
Gap == (IF df THEN esi - edi ELSE edi - esi) % Cells

LEMMA GapFacts ==
    ASSUME esi \in Address, edi \in Address, NEW i \in Nat
    PROVE  Gap \in Address /\ Moved(edi, i) = Moved(esi, Gap + i)
<1>1. Cells \in Nat \ {0} /\ esi \in Int /\ edi \in Int
  BY StringAssumption DEF Address
<1>2. CASE df
  <2>0. PICK d \in Int : d = esi - edi
    BY <1>1
  <2>1. PICK k \in Int, r \in 0 .. Cells - 1 : r = d % Cells /\ d = Cells * k + r
    BY <1>1, DivMod
  <2>2. Gap = r
    BY <1>2, <2>0, <2>1 DEF Gap
  <2>3. PICK x \in Int, y \in Int, c \in Int :
            x = edi - i /\ y = esi - (r + i) /\ c = - k /\ x = y + Cells * c
    BY <1>1, <2>0, <2>1
  <2>4. x % Cells = y % Cells
    <3>1. Congruent(x, y, Cells)
      BY <2>3 DEF Congruent
    <3> QED
      BY <1>1, <3>1, SameRemainder
  <2>5. (edi - i) % Cells = (esi - (r + i)) % Cells
    BY <2>3, <2>4
  <2> QED
    BY <1>2, <2>2, <2>5 DEF Moved, Address
<1>3. CASE ~df
  <2>0. PICK d \in Int : d = edi - esi
    BY <1>1
  <2>1. PICK k \in Int, r \in 0 .. Cells - 1 : r = d % Cells /\ d = Cells * k + r
    BY <1>1, DivMod
  <2>2. Gap = r
    BY <1>3, <2>0, <2>1 DEF Gap
  <2>3. PICK x \in Int, y \in Int, c \in Int :
            x = edi + i /\ y = esi + (r + i) /\ c = k /\ x = y + Cells * c
    BY <1>1, <2>0, <2>1
  <2>4. x % Cells = y % Cells
    <3>1. Congruent(x, y, Cells)
      BY <2>3 DEF Congruent
    <3> QED
      BY <1>1, <3>1, SameRemainder
  <2>5. (edi + i) % Cells = (esi + (r + i)) % Cells
    BY <2>3, <2>4
  <2> QED
    BY <1>3, <2>2, <2>5 DEF Moved, Address
<1> QED
  BY <1>2, <1>3

-----------------------------------------------------------------------------
(* String instructions: the rounds of the loop.                            *)

StringTypeOK == /\ cells \in [Mapped -> Element]
                /\ esi \in Address /\ edi \in Address /\ ecx \in 0 .. MaxRep
                /\ al \in Element /\ df \in BOOLEAN /\ zf \in BOOLEAN /\ trap \in BOOLEAN

Progress == [cells : [Mapped -> Element], esi : Address, edi : Address, al : Element,
             zf : BOOLEAN, count : Nat, stop : {"no", "decided", "fault"}]

\* What the i-th pair of a comparison says, and whether it is the last.
Equal(op, i)         == IF op = "cmps" THEN cells[Moved(esi, i)] = cells[Moved(edi, i)]
                                       ELSE al = cells[Moved(edi, i)]
Decisive(op, rep, i) == stops(op, rep, Equal(op, i))

\* Where the i-th element of a copy came from at first.
Source(i) == Moved(esi, IF Gap > 0 THEN i % Gap ELSE i)

\* The pointers have passed over count elements, all of them mapped.
Passed(op, s) ==
    /\ s.edi = IF op = "lods" THEN edi ELSE Moved(edi, s.count)
    /\ s.esi = IF op \in {"stos", "scas"} THEN esi ELSE Moved(esi, s.count)
    /\ \A i \in 0 .. s.count - 1 : /\ op # "lods" => Moved(edi, i) \in Mapped
                                   /\ op \notin {"stos", "scas"} => Moved(esi, i) \in Mapped

\* The elements that were written are there, and the others as they were.
Wrote(op, s) ==
    /\ op \notin {"movs", "stos"} => s.cells = cells
    /\ \A i \in 0 .. s.count - 1 : /\ op = "movs" => s.cells[Moved(edi, i)] = cells[Source(i)]
                                   /\ op = "stos" => s.cells[Moved(edi, i)] = al
    /\ \A x \in Mapped : (\A i \in 0 .. s.count - 1 : x # Moved(edi, i)) => s.cells[x] = cells[x]

\* The accumulator has the last element that was loaded.
LoadedLast(op, s) ==
    /\ op # "lods" => s.al = al
    /\ op = "lods" /\ s.count > 0 => s.al = cells[Moved(esi, s.count - 1)]

\* Of the pairs compared the last may be decisive, and no other.
Compared(op, rep, s) ==
    op \in {"cmps", "scas"} =>
       /\ s.count > 0 => s.zf = Equal(op, s.count - 1)
       /\ \A i \in 0 .. s.count - 1 : Decisive(op, rep, i) <=> (i = s.count - 1 /\ s.stop = "decided")

AfterRounds(op, rep, k, s) ==
    /\ s \in Progress /\ s.count <= k
    /\ s.stop = "no" => s.count = k
    /\ s.stop = "decided" => s.count > 0 /\ op \in {"cmps", "scas"} /\ rep # "none"
    /\ s.stop # "fault" => Passed(op, s) /\ Wrote(op, s) /\ LoadedLast(op, s) /\ Compared(op, rep, s)

\* One iteration, field by field.
Iterated(op, rep, s, t) ==
    LET equal == IF op = "cmps" THEN s.cells[s.esi] = s.cells[s.edi] ELSE s.al = s.cells[s.edi]
    IN  /\ t \in Progress /\ t.count = s.count + 1
        /\ t.cells = IF op = "movs" THEN [s.cells EXCEPT ![s.edi] = s.cells[s.esi]]
                     ELSE IF op = "stos" THEN [s.cells EXCEPT ![s.edi] = s.al] ELSE s.cells
        /\ t.al = IF op = "lods" THEN s.cells[s.esi] ELSE s.al
        /\ t.esi = IF op \in {"stos", "scas"} THEN s.esi ELSE Moved(s.esi, 1)
        /\ t.edi = IF op = "lods" THEN s.edi ELSE Moved(s.edi, 1)
        /\ op \in {"cmps", "scas"} => t.zf = equal
        /\ t.stop = IF stops(op, rep, equal) THEN "decided" ELSE "no"

LEMMA IterateFields ==
    ASSUME NEW op \in Op, NEW rep \in Prefix, NEW s \in Progress, s.stop = "no",
           op # "lods" => s.edi \in Mapped, op \in {"movs", "cmps", "lods"} => s.esi \in Mapped
    PROVE  Iterated(op, rep, s, iterate(op, rep, s))
<1> DEFINE equal == IF op = "cmps" THEN s.cells[s.esi] = s.cells[s.edi] ELSE s.al = s.cells[s.edi]
           cs == IF op = "movs" THEN [s.cells EXCEPT ![s.edi] = s.cells[s.esi]]
                 ELSE IF op = "stos" THEN [s.cells EXCEPT ![s.edi] = s.al] ELSE s.cells
           a  == IF op = "lods" THEN s.cells[s.esi] ELSE s.al
           si == IF op \in {"stos", "scas"} THEN s.esi ELSE Moved(s.esi, 1)
           di == IF op = "lods" THEN s.edi ELSE Moved(s.edi, 1)
           z  == IF op \in {"cmps", "scas"} THEN equal ELSE s.zf
           st == IF stops(op, rep, equal) THEN "decided" ELSE "no"
<1>1. s.esi \in Address /\ s.edi \in Address /\ s.cells \in [Mapped -> Element] /\ s.al \in Element
      /\ s.zf \in BOOLEAN /\ s.count \in Nat
  BY DEF Progress
<1>2. cs \in [Mapped -> Element] /\ a \in Element
  BY <1>1 DEF Op
<1>3. si \in Address /\ di \in Address
  BY <1>1, MovedFacts
<1>4. equal \in BOOLEAN /\ z \in BOOLEAN
  BY <1>1
<1>5. iterate(op, rep, s) = [s EXCEPT !.cells = cs, !.al = a, !.esi = si, !.edi = di, !.zf = z,
                                !.count = s.count + 1, !.stop = st]
  <2>1. op = "cmps" \/ op = "scas" \/ op = "movs" \/ op = "stos" \/ op = "lods"
    BY DEF Op
  <2>2. CASE op = "movs"
    BY <2>2 DEF iterate, stops
  <2>3. CASE op = "stos"
    BY <2>3 DEF iterate, stops
  <2>4. CASE op = "lods"
    BY <2>4 DEF iterate, stops
  <2>5. CASE op = "cmps"
    BY <2>5 DEF iterate
  <2>6. CASE op = "scas"
    BY <2>6 DEF iterate
  <2> QED
    BY <2>1, <2>2, <2>3, <2>4, <2>5, <2>6
<1>6. st \in {"no", "decided", "fault"} /\ s.count + 1 \in Nat
  BY <1>1
<1> HIDE DEF cs, a, si, di, z, st
<1>7. /\ iterate(op, rep, s) \in Progress
      /\ iterate(op, rep, s).cells = cs /\ iterate(op, rep, s).al = a
      /\ iterate(op, rep, s).esi = si /\ iterate(op, rep, s).edi = di
      /\ iterate(op, rep, s).zf = z /\ iterate(op, rep, s).count = s.count + 1
      /\ iterate(op, rep, s).stop = st
  BY <1>2, <1>3, <1>4, <1>5, <1>6 DEF Progress
<1> QED
  BY <1>7 DEF Iterated, cs, a, si, di, z, st

\* Taking the modulus away leaves the remainder.
LEMMA LessModulus ==
    ASSUME NEW a \in Int, NEW p \in Nat \ {0}
    PROVE  (a - p) % p = a % p
<1>1. PICK b \in Int, c \in Int : b = a - p /\ c = 1
  OBVIOUS
<1>2. Congruent(a, b, p)
  BY <1>1 DEF Congruent
<1>3. a % p = b % p
  BY <1>2, SameRemainder
<1> QED
  BY <1>1, <1>3

\* The element that the next round of a copy reads is the one it stands for:
\* it has not been written, or it was written as a copy of that one.
LEMMA ReadsSource ==
    ASSUME StringTypeOK, NEW k \in Nat, k < Cells, NEW s, s.count = k, Wrote("movs", s),
           Moved(esi, k) \in Mapped
    PROVE  s.cells[Moved(esi, k)] = cells[Source(k)]
<1>1. Gap \in Address /\ Gap \in Nat /\ esi \in Address /\ edi \in Address
  BY GapFacts, StringAssumption DEF StringTypeOK, Address
<1>2. ASSUME NEW i \in 0 .. k - 1, Moved(esi, k) = Moved(edi, i)
      PROVE  k = Gap + i
  <2>1. Moved(esi, k) = Moved(esi, Gap + i)
    BY <1>1, <1>2, GapFacts
  <2>2. Gap + i \in Nat /\ k - (Gap + i) < Cells /\ (Gap + i) - k < Cells
    BY <1>1, StringAssumption DEF Address
  <2> QED
    BY <1>1, <2>1, <2>2, OneDistance
<1>3. CASE Gap > 0 /\ Gap <= k
  <2>1. k - Gap \in 0 .. k - 1 /\ Gap + (k - Gap) = k /\ k - Gap \in Nat
    BY <1>1, <1>3
  <2>2. Moved(edi, k - Gap) = Moved(esi, k)
    BY <1>1, <2>1, GapFacts
  <2>3. s.cells[Moved(edi, k - Gap)] = cells[Source(k - Gap)]
    BY <2>1 DEF Wrote
  <2>4. (k - Gap) % Gap = k % Gap
    <3>1. k \in Int /\ Gap \in Nat \ {0}
      BY <1>1, <1>3
    <3> QED
      BY <3>1, LessModulus, Zenon
  <2>5. Source(k - Gap) = Source(k)
    BY <1>3, <2>4 DEF Source
  <2> QED
    BY <2>2, <2>3, <2>5
<1>4. CASE ~(Gap > 0 /\ Gap <= k)
  <2>1. \A i \in 0 .. k - 1 : Moved(esi, k) # Moved(edi, i)
    BY <1>1, <1>2, <1>4
  <2>2. s.cells[Moved(esi, k)] = cells[Moved(esi, k)]
    BY <2>1 DEF Wrote
  <2>3. Gap > 0 => k % Gap = k
    <3> SUFFICES ASSUME Gap > 0
                 PROVE  k % Gap = k
      OBVIOUS
    <3>1. Gap \in Nat \ {0} /\ k \in 0 .. Gap - 1 /\ k \in Int /\ k = Gap * 0 + k /\ 0 \in Int
      BY <1>1, <1>4
    <3> QED
      BY <3>1, DivUnique
  <2>4. Source(k) = Moved(esi, k)
    BY <2>3 DEF Source
  <2> QED
    BY <2>2, <2>4
<1> QED
  BY <1>3, <1>4

\* A round that writes its element.
WritesNext(op, k, s, t, v) ==
    /\ s \in Progress /\ s.count = k /\ t.count = k + 1
    /\ op # "lods" => \A i \in 0 .. k : Moved(edi, i) \in Mapped
    /\ op \notin {"movs", "stos"} => t.cells = s.cells
    /\ op \in {"movs", "stos"} => t.cells = [s.cells EXCEPT ![Moved(edi, k)] = v]
    /\ op = "movs" => v = cells[Source(k)]
    /\ op = "stos" => v = al

LEMMA WroteNext ==
    ASSUME StringTypeOK, NEW op \in Op, NEW k \in Nat, k < Cells, NEW s, NEW t, NEW v,
           Wrote(op, s), WritesNext(op, k, s, t, v)
    PROVE  Wrote(op, t)
<1> USE DEF WritesNext
<1>1. s.cells \in [Mapped -> Element] /\ edi \in Address /\ 0 .. (k + 1) - 1 = 0 .. k
      /\ 0 .. k = (0 .. k - 1) \cup {k} /\ k \notin 0 .. k - 1
  BY DEF Progress, StringTypeOK
<1>2. CASE op \notin {"movs", "stos"}
  <2>1. t.cells = cells
    BY <1>2 DEF Wrote
  <2> QED
    BY <1>2, <2>1 DEF Wrote
<1>3. CASE op \in {"movs", "stos"}
  <2>1. op # "lods" /\ Moved(edi, k) \in Mapped /\ \A i \in 0 .. k - 1 : Moved(edi, i) \in Mapped
    BY <1>1, <1>3
  <2>2. \A i \in 0 .. k - 1 : Moved(edi, i) # Moved(edi, k)
    <3> SUFFICES ASSUME NEW i \in 0 .. k - 1, Moved(edi, i) = Moved(edi, k)
                 PROVE  FALSE
      OBVIOUS
    <3>1. i \in Nat /\ i - k < Cells /\ k - i < Cells
      BY StringAssumption
    <3>2. i = k
      BY <1>1, <3>1, OneDistance
    <3> QED
      BY <3>2
  <2>3. t.cells[Moved(edi, k)] = v
    BY <1>1, <1>3, <2>1
  <2>4. \A x \in Mapped : x # Moved(edi, k) => t.cells[x] = s.cells[x]
    BY <1>1, <1>3, <2>1
  <2>5. \A i \in 0 .. k - 1 : t.cells[Moved(edi, i)] = s.cells[Moved(edi, i)]
    BY <1>1, <1>3, <2>1, <2>2, <2>4
  <2>6. ASSUME NEW i \in 0 .. k
        PROVE  /\ op = "movs" => t.cells[Moved(edi, i)] = cells[Source(i)]
               /\ op = "stos" => t.cells[Moved(edi, i)] = al
    <3>1. CASE i = k
      BY <2>3, <3>1
    <3>2. CASE i \in 0 .. k - 1
      BY <2>5, <3>2 DEF Wrote
    <3> QED
      BY <3>1, <3>2
  <2>7. ASSUME NEW x \in Mapped, \A i \in 0 .. k : x # Moved(edi, i)
        PROVE  t.cells[x] = cells[x]
    <3>1. x # Moved(edi, k) /\ \A i \in 0 .. k - 1 : x # Moved(edi, i)
      BY <2>7
    <3> QED
      BY <2>4, <3>1 DEF Wrote
  <2> QED
    BY <1>1, <1>3, <2>6, <2>7 DEF Wrote
<1> QED
  BY <1>2, <1>3

LEMMA RoundKeeps ==
    ASSUME StringTypeOK, NEW op \in Op, NEW rep \in Prefix, NEW k \in Nat, k < Cells,
           NEW s, AfterRounds(op, rep, k, s)
    PROVE  AfterRounds(op, rep, k + 1, iterate(op, rep, s))
<1>1. /\ s \in Progress /\ s.count <= k /\ s.count \in Nat /\ s.stop \in {"no", "decided", "fault"}
      /\ s.stop = "no" => s.count = k
      /\ s.stop = "decided" => s.count > 0 /\ op \in {"cmps", "scas"} /\ rep # "none"
      /\ s.stop # "fault" => Passed(op, s) /\ Wrote(op, s) /\ LoadedLast(op, s) /\ Compared(op, rep, s)
  BY DEF AfterRounds, Progress
<1>2. CASE s.stop # "no"
  <2>1. iterate(op, rep, s) = s
    BY <1>2 DEF iterate
  <2> QED
    BY <1>1, <1>2, <2>1 DEF AfterRounds
<1>3. CASE s.stop = "no" /\ ~(/\ op # "lods" => s.edi \in Mapped
                              /\ op \in {"movs", "cmps", "lods"} => s.esi \in Mapped)
  <2>1. iterate(op, rep, s) = [s EXCEPT !.stop = "fault"]
    BY <1>3 DEF iterate, Op
  <2>2. iterate(op, rep, s) \in Progress /\ iterate(op, rep, s).count = s.count /\ iterate(op, rep, s).stop = "fault"
    BY <1>1, <2>1 DEF Progress
  <2> QED
    BY <1>1, <2>2 DEF AfterRounds
<1>4. CASE s.stop = "no" /\ (op # "lods" => s.edi \in Mapped)
                         /\ (op \in {"movs", "cmps", "lods"} => s.esi \in Mapped)
  <2>1. s.count = k /\ Passed(op, s) /\ Wrote(op, s) /\ LoadedLast(op, s) /\ Compared(op, rep, s)
    BY <1>1, <1>4
  <2>2. PICK t : t = iterate(op, rep, s)
    OBVIOUS
  <2> DEFINE equal == IF op = "cmps" THEN s.cells[s.esi] = s.cells[s.edi] ELSE s.al = s.cells[s.edi]
  <2>15. Iterated(op, rep, s, t)
    BY <1>1, <1>4, <2>2, IterateFields, ZenonT(30)
  <2>3. /\ t \in Progress /\ t.count = s.count + 1
        /\ t.cells = IF op = "movs" THEN [s.cells EXCEPT ![s.edi] = s.cells[s.esi]]
                     ELSE IF op = "stos" THEN [s.cells EXCEPT ![s.edi] = s.al] ELSE s.cells
        /\ t.al = IF op = "lods" THEN s.cells[s.esi] ELSE s.al
        /\ t.esi = IF op \in {"stos", "scas"} THEN s.esi ELSE Moved(s.esi, 1)
        /\ t.edi = IF op = "lods" THEN s.edi ELSE Moved(s.edi, 1)
        /\ op \in {"cmps", "scas"} => t.zf = equal
        /\ t.stop = IF stops(op, rep, equal) THEN "decided" ELSE "no"
    BY <2>15 DEF Iterated
  <2>4. /\ op # "lods" => s.edi = Moved(edi, k) /\ Moved(edi, k) \in Mapped
        /\ op \notin {"stos", "scas"} => s.esi = Moved(esi, k) /\ Moved(esi, k) \in Mapped
    BY <1>4, <2>1 DEF Passed, Op
  <2>5. 0 .. t.count - 1 = 0 .. k /\ 0 .. k = (0 .. k - 1) \cup {k} /\ 0 .. s.count - 1 = 0 .. k - 1
        /\ t.count = k + 1 /\ t.count - 1 = k /\ k \notin 0 .. k - 1
    BY <2>1, <2>3
  <2>6. esi \in Address /\ edi \in Address
    BY DEF StringTypeOK
  <2>7. \A i \in 0 .. k : /\ op # "lods" => Moved(edi, i) \in Mapped
                          /\ op \notin {"stos", "scas"} => Moved(esi, i) \in Mapped
    BY <2>1, <2>4, <2>5 DEF Passed
  <2>8. Passed(op, t)
    <3>1. t.edi = IF op = "lods" THEN edi ELSE Moved(edi, k + 1)
      BY <2>1, <2>3, <2>4, <2>6, MovedFacts DEF Passed
    <3>2. t.esi = IF op \in {"stos", "scas"} THEN esi ELSE Moved(esi, k + 1)
      BY <2>1, <2>3, <2>4, <2>6, MovedFacts DEF Passed
    <3> QED
      BY <2>5, <2>7, <3>1, <3>2 DEF Passed
  <2>9. Wrote(op, t)
    <3> DEFINE v == IF op = "movs" THEN s.cells[s.esi] ELSE s.al
    <3>1. op = "movs" => v = cells[Source(k)]
      BY <2>1, <2>4, ReadsSource
    <3>2. op = "stos" => v = al
      BY <2>1 DEF LoadedLast
    <3>3. op \in {"movs", "stos"} => t.cells = [s.cells EXCEPT ![Moved(edi, k)] = v]
      BY <2>3, <2>4
    <3>4. op \notin {"movs", "stos"} => t.cells = s.cells
      BY <2>3
    <3> HIDE DEF v
    <3>5. s \in Progress /\ s.count = k /\ Wrote(op, s) /\ t.count = k + 1
          /\ (op # "lods" => \A i \in 0 .. k : Moved(edi, i) \in Mapped)
      BY <1>1, <2>1, <2>5, <2>7
    <3>6. WritesNext(op, k, s, t, v)
      BY <3>1, <3>2, <3>3, <3>4, <3>5 DEF WritesNext
    <3> QED
      BY <3>5, <3>6, WroteNext, Zenon
  <2>10. LoadedLast(op, t)
    BY <2>1, <2>3, <2>4, <2>5 DEF LoadedLast, Wrote
  <2>11. op \in {"cmps", "scas"} => equal = Equal(op, k)
    BY <2>1, <2>4 DEF Equal, Wrote, LoadedLast
  <2>12. Compared(op, rep, t)
    <3> SUFFICES ASSUME op \in {"cmps", "scas"}
                 PROVE  Compared(op, rep, t)
      BY DEF Compared
    <3>1. t.zf = Equal(op, k)
      BY <2>3, <2>11
    <3>2. Decisive(op, rep, k) <=> t.stop = "decided"
      BY <2>3, <2>11 DEF Decisive
    <3>3. \A i \in 0 .. k - 1 : ~Decisive(op, rep, i)
      BY <1>4, <2>1, <2>5 DEF Compared
    <3>4. \A i \in 0 .. k : Decisive(op, rep, i) <=> (i = k /\ t.stop = "decided")
      BY <2>5, <3>2, <3>3
    <3> QED
      BY <2>5, <3>1, <3>4 DEF Compared
  <2>13. t.stop = "decided" => op \in {"cmps", "scas"} /\ rep # "none"
    BY <2>3 DEF stops
  <2>14. t.stop # "fault"
    BY <2>3
  <2> QED
    BY <2>2, <2>3, <2>5, <2>8, <2>9, <2>10, <2>12, <2>13, <2>14 DEF AfterRounds
<1> QED
  BY <1>2, <1>3, <1>4

\* Where the loop begins.
Begin == [cells |-> cells, esi |-> esi, edi |-> edi, al |-> al, zf |-> zf, count |-> 0, stop |-> "no"]

\* The states f of the loop, round by round.
InRounds(f, op, rep, n) ==
    /\ f[0] = Begin
    /\ \A k \in 1 .. n : f[k] = iterate(op, rep, f[k - 1])
    /\ rounds(op, rep, n) = f[n]

LEMMA LoopRounds ==
    ASSUME NEW op, NEW rep, NEW n \in Nat
    PROVE  \E f : InRounds(f, op, rep, n)
<1> DEFINE Is(f, j) == f = [k \in 0 .. j |-> IF k = 0 THEN Begin ELSE iterate(op, rep, f[k - 1])]
           G == {j \in Nat : \E f : Is(f, j)}
           round == CHOOSE f : Is(f, n)
<1>1. rounds(op, rep, n) = round[n]
  BY Zenon DEF rounds, Begin
<1>2. 0 \in G
  <2>1. Is([k \in 0 .. 0 |-> Begin], 0)
    OBVIOUS
  <2> HIDE DEF Is
  <2> QED
    BY <2>1
<1>3. ASSUME NEW j \in 1 .. n, j - 1 \in G
      PROVE  j \in G
  <2>1. PICK f : Is(f, j - 1)
    BY <1>3
  <2> DEFINE last == iterate(op, rep, f[j - 1])
             g == [k \in 0 .. j |-> IF k = j THEN last ELSE f[k]]
  <2>2. \A k \in 0 .. j - 1 : f[k] = IF k = 0 THEN Begin ELSE iterate(op, rep, f[k - 1])
    BY <2>1
  <2>3. ASSUME NEW k \in 0 .. j
        PROVE  g[k] = IF k = 0 THEN Begin ELSE iterate(op, rep, g[k - 1])
    <3>1. CASE k = 0
      <4>1. g[k] = f[k] /\ k \in 0 .. j - 1
        BY <3>1
      <4> HIDE DEF g
      <4> QED
        BY <2>2, <3>1, <4>1, Zenon
    <3>2. CASE k # 0
      <4>1. k - 1 \in 0 .. j - 1 /\ g[k - 1] = f[k - 1]
        BY <3>2
      <4>2. CASE k = j
        <5>1. g[k] = last
          BY <4>2
        <5> HIDE DEF g
        <5> QED
          BY <3>2, <4>1, <4>2, <5>1, Zenon
      <4>3. CASE k # j
        <5>1. g[k] = f[k] /\ k \in 0 .. j - 1
          BY <4>3
        <5> HIDE DEF g
        <5> QED
          BY <2>2, <3>2, <4>1, <5>1, Zenon
      <4> QED
        BY <4>2, <4>3
    <3> QED
      BY <3>1, <3>2
  <2>4. Is(g, j)
    <3>1. g = [k \in 0 .. j |-> g[k]]
      OBVIOUS
    <3> HIDE DEF g
    <3> QED
      BY <3>1, <2>3, Zenon
  <2> HIDE DEF Is, g
  <2> QED
    BY <2>4, <1>3
<1>4. n \in G
  <2> HIDE DEF G
  <2>1. \A k \in 1 .. n : k - 1 \in G => k \in G
    BY <1>3
  <2> DEFINE H0 == {k \in Nat : k <= n => k \in G}
  <2>2. 0 \in H0 /\ \A k \in Nat : k \in H0 => k + 1 \in H0
    BY <1>2, <2>1
  <2> HIDE DEF H0
  <2>3. n \in H0
    BY <2>2, Climbs
  <2> QED
    BY <2>3 DEF H0
<1>5. Is(round, n)
  <2>1. \E f : Is(f, n)
    BY <1>4
  <2> HIDE DEF Is
  <2> QED
    BY <2>1, Zenon
<1> HIDE DEF round
<1>6. \A k \in 0 .. n : round[k] = IF k = 0 THEN Begin ELSE iterate(op, rep, round[k - 1])
  BY <1>5
<1>7. round[0] = Begin /\ \A k \in 1 .. n : round[k] = iterate(op, rep, round[k - 1])
  <2>1. 0 \in 0 .. n /\ \A k \in 1 .. n : k \in 0 .. n /\ k # 0
    OBVIOUS
  <2> QED
    BY <1>6, <2>1, Zenon
<1>8. InRounds(round, op, rep, n)
  BY <1>1, <1>7, Zenon DEF InRounds
<1> QED
  BY <1>8

\* After any number of rounds the loop has done its work on the elements it has
\* counted, unless it has faulted.
LEMMA RoundsDo ==
    ASSUME StringTypeOK, NEW op \in Op, NEW rep \in Prefix, NEW n \in 0 .. Cells
    PROVE  AfterRounds(op, rep, n, rounds(op, rep, n))
<1>1. n \in Nat /\ Cells \in Nat
  BY StringAssumption
<1>2. PICK f : InRounds(f, op, rep, n)
  BY <1>1, LoopRounds
<1> DEFINE G == {k \in Nat : k <= n => AfterRounds(op, rep, k, f[k])}
<1>3. 0 \in G
  <2>1. f[0] = Begin
    BY <1>2 DEF InRounds
  <2>2. Begin \in Progress /\ Begin.count = 0 /\ Begin.stop = "no"
    BY DEF Begin, Progress, StringTypeOK
  <2>3. Begin.cells = cells /\ Begin.esi = esi /\ Begin.edi = edi /\ Begin.al = al
    BY DEF Begin
  <2>4. Moved(esi, 0) = esi /\ Moved(edi, 0) = edi
    BY MovedFacts DEF StringTypeOK
  <2> HIDE DEF Begin
  <2>5. Passed(op, Begin)
    BY <2>2, <2>3, <2>4 DEF Passed
  <2>6. Wrote(op, Begin)
    BY <2>2, <2>3 DEF Wrote
  <2>7. LoadedLast(op, Begin) /\ Compared(op, rep, Begin)
    BY <2>2, <2>3 DEF LoadedLast, Compared
  <2> QED
    BY <2>1, <2>2, <2>5, <2>6, <2>7 DEF AfterRounds
<1>4. ASSUME NEW k \in Nat, k \in G
      PROVE  k + 1 \in G
  <2> SUFFICES ASSUME k + 1 <= n
               PROVE  AfterRounds(op, rep, k + 1, f[k + 1])
    OBVIOUS
  <2>1. AfterRounds(op, rep, k, f[k]) /\ k < Cells
    BY <1>1, <1>4
  <2>2. k + 1 \in 1 .. n /\ (k + 1) - 1 = k
    BY <1>1
  <2>3. f[k + 1] = iterate(op, rep, f[k])
    BY <1>2, <2>2 DEF InRounds
  <2> QED
    BY <2>1, <2>3, RoundKeeps
<1> HIDE DEF G
<1>5. n \in G
  BY <1>1, <1>3, <1>4, Climbs
<1> QED
  BY <1>1, <1>2, <1>5 DEF G, InRounds

\* What a string instruction leaves, from the end of its loop.
LEMMA StringStep ==
    ASSUME StringTypeOK, NEW op \in Op, NEW rep \in Prefix, handleStringOp(op, rep)
    PROVE  \E n \in 0 .. Cells, s \in Progress :
              /\ n = (IF rep = "none" THEN 1 ELSE ecx) /\ AfterRounds(op, rep, n, s)
              /\ cells' = s.cells /\ esi' = s.esi /\ edi' = s.edi /\ al' = s.al /\ zf' = s.zf /\ df' = df
              /\ ecx' = (IF rep = "none" \/ s.stop = "fault" THEN ecx
                         ELSE IF s.stop = "decided" THEN n - s.count ELSE 0)
              /\ trap' = (s.stop = "fault")
<1> DEFINE n == IF rep = "none" THEN 1 ELSE ecx
           s == rounds(op, rep, n)
<1>1. n \in 0 .. Cells
  BY StringAssumption DEF StringTypeOK
<1> HIDE DEF n
<1>2. AfterRounds(op, rep, n, s)
  BY <1>1, RoundsDo
<1>3. /\ cells' = s.cells /\ esi' = s.esi /\ edi' = s.edi /\ al' = s.al /\ zf' = s.zf /\ df' = df
      /\ ecx' = (IF rep = "none" \/ s.stop = "fault" THEN ecx
                 ELSE IF s.stop = "decided" THEN n - s.count ELSE 0)
      /\ trap' = (s.stop = "fault")
  BY DEF handleStringOp, n
<1>4. n = (IF rep = "none" THEN 1 ELSE ecx) /\ s \in Progress
  BY <1>2 DEF n, AfterRounds
<1> HIDE DEF s
<1> QED
  BY <1>1, <1>2, <1>3, <1>4

\* The registers stay what they are.
LEMMA StringTypes ==
    ASSUME StringTypeOK, [StringNext]_stringVars
    PROVE  StringTypeOK'
<1>1. CASE UNCHANGED stringVars
  BY <1>1 DEF StringTypeOK, stringVars
<1>2. ASSUME NEW op \in Op, NEW rep \in Prefix, handleStringOp(op, rep)
      PROVE  StringTypeOK'
  <2>1. PICK n \in 0 .. Cells, s \in Progress :
              /\ n = (IF rep = "none" THEN 1 ELSE ecx) /\ AfterRounds(op, rep, n, s)
              /\ cells' = s.cells /\ esi' = s.esi /\ edi' = s.edi /\ al' = s.al /\ zf' = s.zf /\ df' = df
              /\ ecx' = (IF rep = "none" \/ s.stop = "fault" THEN ecx
                         ELSE IF s.stop = "decided" THEN n - s.count ELSE 0)
              /\ trap' = (s.stop = "fault")
    BY <1>2, StringStep
  <2>2. s \in Progress /\ s.count <= n
    BY <2>1 DEF AfterRounds
  <2>3. ecx \in 0 .. MaxRep /\ MaxRep \in Nat /\ s.count \in Nat
    BY <2>2, StringAssumption DEF StringTypeOK, Progress
  <2>4. ecx' \in 0 .. MaxRep
    BY <2>1, <2>2, <2>3
  <2>5. trap' \in BOOLEAN /\ df' \in BOOLEAN
    BY <2>1 DEF StringTypeOK
  <2> QED
    BY <2>1, <2>2, <2>4, <2>5 DEF StringTypeOK, Progress
<1> QED
  BY <1>1, <1>2 DEF StringNext

\* A loop that ends without a fault has processed what was due.
LEMMA DueDone ==
    ASSUME StringTypeOK, NEW op \in Op, NEW rep \in Prefix, NEW n \in 0 .. Cells,
           n = (IF rep = "none" THEN 1 ELSE ecx), NEW s, AfterRounds(op, rep, n, s), s.stop # "fault"
    PROVE  /\ s.count = Due(op, rep) /\ s.count \in Nat
           /\ s.stop = "no" => s.count = n
<1>1. s.count \in Nat /\ s.count <= n /\ s.stop \in {"no", "decided"}
  BY DEF AfterRounds, Progress
<1>2. s.stop = "no" => s.count = n
  BY DEF AfterRounds
<1>3. CASE rep = "none"
  <2>1. s.stop = "no"
    BY <1>1, <1>3 DEF AfterRounds
  <2> QED
    BY <1>1, <1>2, <1>3, <2>1 DEF Due
<1>4. CASE rep # "none" /\ op \notin {"cmps", "scas"}
  <2>1. s.stop = "no"
    BY <1>1, <1>4 DEF AfterRounds
  <2> QED
    BY <1>1, <1>2, <1>4, <2>1 DEF Due
<1>5. CASE rep # "none" /\ op \in {"cmps", "scas"}
  <2> DEFINE equal(i) == cells[Moved(edi, i)] = (IF op = "cmps" THEN cells[Moved(esi, i)] ELSE al)
             readable(i) == Moved(edi, i) \in Mapped /\ (op = "cmps" => Moved(esi, i) \in Mapped)
             decisive == {i \in 0 .. ecx - 1 : readable(i) /\ equal(i) = (rep = "repne")}
  <2>1. Due(op, rep) = IF decisive = {} THEN ecx ELSE Min(decisive) + 1
    BY <1>5 DEF Due
  <2>2. n = ecx /\ n \in Nat
    BY <1>5
  <2>3. ASSUME NEW i \in 0 .. s.count - 1
        PROVE  readable(i) /\ (Decisive(op, rep, i) <=> (i = s.count - 1 /\ s.stop = "decided"))
    <3>1. Passed(op, s) /\ Compared(op, rep, s)
      BY DEF AfterRounds
    <3>2. readable(i)
      BY <1>5, <3>1 DEF Passed
    <3> QED
      BY <1>5, <3>1, <3>2 DEF Compared
  <2>4. \A i \in Nat : Decisive(op, rep, i) <=> (equal(i) = (rep = "repne"))
    BY <1>5 DEF Decisive, stops, Equal, Prefix
  <2>5. ASSUME NEW i \in 0 .. s.count - 1
        PROVE  i \in decisive <=> (i = s.count - 1 /\ s.stop = "decided")
    <3>1. i \in Nat /\ i \in 0 .. ecx - 1
      BY <1>1, <2>2
    <3> HIDE DEF equal, readable
    <3> QED
      BY <2>3, <2>4, <3>1
  <2>6. decisive \subseteq 0 .. ecx - 1
    OBVIOUS
  <2> HIDE DEF decisive
  <2>7. CASE s.stop = "no"
    <3>1. decisive = {}
      BY <1>2, <2>2, <2>5, <2>6, <2>7
    <3> QED
      BY <1>1, <1>2, <2>1, <2>2, <2>7, <3>1
  <2>8. CASE s.stop = "decided"
    <3>1. s.count > 0
      BY <2>8 DEF AfterRounds
    <3>2. s.count - 1 \in decisive
      BY <1>1, <2>5, <2>8, <3>1
    <3>3. \A y \in decisive : y \in Int /\ s.count - 1 <= y
      BY <1>1, <2>2, <2>5, <2>6, <2>8
    <3>4. Min(decisive) = s.count - 1
      <4>1. \A x \in decisive : (\A y \in decisive : x <= y) => x = s.count - 1
        BY <1>1, <3>2, <3>3
      <4> QED
        BY <3>2, <3>3, <4>1 DEF Min
    <3> QED
      BY <1>1, <2>1, <2>8, <3>2, <3>4
  <2> QED
    BY <1>1, <2>7, <2>8
<1> QED
  BY <1>3, <1>4, <1>5

\* What RepAccounts says of a step.
Accounts(op, rep, n) ==
    /\ ecx' = IF rep = "none" THEN ecx ELSE ecx - n
    /\ op # "lods" => edi' = Moved(edi, n)
    /\ op \notin {"stos", "scas"} => esi' = Moved(esi, n)
    /\ op = "movs" => \A i \in 0 .. n - 1 : cells'[Moved(edi, i)] = CopyOf(i, n)
    /\ op = "stos" => \A i \in 0 .. n - 1 : cells'[Moved(edi, i)] = al
    /\ op = "lods" /\ n > 0 => al' = cells[Moved(esi, n - 1)]
    /\ op = "scas" /\ n > 0 => zf' = (cells[Moved(edi, n - 1)] = al)
    /\ op = "cmps" /\ n > 0 => zf' = (cells[Moved(edi, n - 1)] = cells[Moved(esi, n - 1)])

\* The elements of a copy, in the words of the property.
LEMMA CopyIs ==
    ASSUME StringTypeOK, NEW n \in Nat, NEW i \in 0 .. n - 1
    PROVE  CopyOf(i, n) = cells[Source(i)]
<1>1. Gap \in Nat /\ i \in Nat
  BY GapFacts, StringAssumption DEF StringTypeOK, Address
<1>2. CopyOf(i, n) = cells[Moved(esi, IF Gap > 0 /\ Gap < n THEN i % Gap ELSE i)]
  BY DEF CopyOf, Gap
<1>3. CASE Gap > 0 /\ Gap >= n
  <2>1. Gap \in Nat \ {0} /\ i \in 0 .. Gap - 1 /\ i \in Int /\ i = Gap * 0 + i /\ 0 \in Int
    BY <1>1, <1>3
  <2>2. i % Gap = i
    BY <2>1, DivUnique
  <2> QED
    BY <1>1, <1>2, <1>3, <2>2 DEF Source
<1>4. CASE ~(Gap > 0 /\ Gap >= n)
  BY <1>1, <1>2, <1>4 DEF Source
<1> QED
  BY <1>3, <1>4

LEMMA StepAccounts ==
    ASSUME StringTypeOK, NEW op \in Op, NEW rep \in Prefix, handleStringOp(op, rep), ~trap'
    PROVE  Accounts(op, rep, Due(op, rep))
<1>1. PICK n \in 0 .. Cells, s \in Progress :
              /\ n = (IF rep = "none" THEN 1 ELSE ecx) /\ AfterRounds(op, rep, n, s)
              /\ cells' = s.cells /\ esi' = s.esi /\ edi' = s.edi /\ al' = s.al /\ zf' = s.zf /\ df' = df
              /\ ecx' = (IF rep = "none" \/ s.stop = "fault" THEN ecx
                         ELSE IF s.stop = "decided" THEN n - s.count ELSE 0)
              /\ trap' = (s.stop = "fault")
  BY StringStep
<1>2. s.stop # "fault"
  BY <1>1
<1>3. s.count = Due(op, rep) /\ s.count \in Nat /\ (s.stop = "no" => s.count = n)
  BY <1>1, <1>2, DueDone
<1>4. Passed(op, s) /\ Wrote(op, s) /\ LoadedLast(op, s) /\ Compared(op, rep, s) /\ s.stop \in {"no", "decided"}
  BY <1>1, <1>2 DEF AfterRounds, Progress
<1>5. ecx' = IF rep = "none" THEN ecx ELSE ecx - s.count
  BY <1>1, <1>3, <1>4
<1>6. /\ op # "lods" => edi' = Moved(edi, s.count)
      /\ op \notin {"stos", "scas"} => esi' = Moved(esi, s.count)
  BY <1>1, <1>4 DEF Passed
<1>7. op = "movs" => \A i \in 0 .. s.count - 1 : cells'[Moved(edi, i)] = CopyOf(i, s.count)
  BY <1>1, <1>3, <1>4, CopyIs DEF Wrote
<1>8. op = "stos" => \A i \in 0 .. s.count - 1 : cells'[Moved(edi, i)] = al
  BY <1>1, <1>4 DEF Wrote
<1>9. op = "lods" /\ s.count > 0 => al' = cells[Moved(esi, s.count - 1)]
  BY <1>1, <1>4 DEF LoadedLast
<1>10. op \in {"cmps", "scas"} /\ s.count > 0 => zf' = Equal(op, s.count - 1)
  BY <1>1, <1>4 DEF Compared
<1>11. /\ op = "scas" /\ s.count > 0 => zf' = (cells[Moved(edi, s.count - 1)] = al)
       /\ op = "cmps" /\ s.count > 0 => zf' = (cells[Moved(edi, s.count - 1)] = cells[Moved(esi, s.count - 1)])
  BY <1>10 DEF Equal
<1> QED
  BY <1>3, <1>5, <1>6, <1>7, <1>8, <1>9, <1>11 DEF Accounts

\* Every repetition of a string instruction, of any length below the size of the
\* address space, in either direction and with overlapping operands, accounts
\* for what it did (handleStringOp of cpu.js).
THEOREM RepetitionsAccount == StringSpec => RepAccounts
<1>1. StringInit => StringTypeOK
  BY DEF StringInit, StringTypeOK, Address
<1>2. StringTypeOK /\ [StringNext]_stringVars => StringTypeOK'
  BY StringTypes
<1>3. StringTypeOK /\ [StringNext]_stringVars =>
         [stringVars' # stringVars => \A op \in Op, rep \in Prefix :
             handleStringOp(op, rep) /\ ~trap' =>
                LET n == Due(op, rep)
                IN  /\ ecx' = IF rep = "none" THEN ecx ELSE ecx - n
                    /\ op # "lods" => edi' = Moved(edi, n)
                    /\ op \notin {"stos", "scas"} => esi' = Moved(esi, n)
                    /\ op = "movs" => \A i \in 0 .. n - 1 : cells'[Moved(edi, i)] = CopyOf(i, n)
                    /\ op = "stos" => \A i \in 0 .. n - 1 : cells'[Moved(edi, i)] = al
                    /\ op = "lods" /\ n > 0 => al' = cells[Moved(esi, n - 1)]
                    /\ op = "scas" /\ n > 0 => zf' = (cells[Moved(edi, n - 1)] = al)
                    /\ op = "cmps" /\ n > 0 =>
                          zf' = (cells[Moved(edi, n - 1)] = cells[Moved(esi, n - 1)])]_stringVars
  BY StepAccounts, Zenon DEF Accounts
<1> QED
  BY <1>1, <1>2, <1>3, PTL DEF StringSpec, RepAccounts

-----------------------------------------------------------------------------
(* The translation cache.  That every instruction a block runs is the one  *)
(* in memory needs more than a current cache: a block goes on when a write *)
(* of its own has dropped it from the cache.  CurrentFollowsEip says why   *)
(* that is safe, as long as the stack is not in the program's code: only   *)
(* the last closure of a block can write anywhere else.                    *)

USE SizeAssumption, CellAssumption, NoBlockAssumption

\* Guests that do not change the mapping of code in the cache, and keep their
\* stack out of their code.
WellBehaved == ~RemapsCached /\ Stack \cap Exec = {}

\* The inductive invariant.
IInv == TypeOK /\ CachedCodeIsCurrent /\ BlocksAreStraight /\ CurrentFollowsEip

-----------------------------------------------------------------------------
\* Blocks are sequences of one to MaxBlock instructions.
LEMMA CodeIsSequence ==
    ASSUME NEW c \in Code
    PROVE  /\ Len(c) \in 1 .. MaxBlock /\ DOMAIN c = 1 .. Len(c)
           /\ \A i \in 1 .. Len(c) : c[i] \in Instr
<1>1. PICK n \in 1 .. MaxBlock : c \in [1 .. n -> Instr]
  BY DEF Code
<1>2. n \in Nat /\ c \in Seq(Instr) /\ Len(c) = n
  BY <1>1
<1> QED
  BY <1>1, <1>2

\* The cells that compile decodes are a block.
LEMMA CompiledIsCode ==
    ASSUME TypeOK, NEW s \in Cell, NEW n \in 1 .. MaxBlock, Compiles(s, n)
    PROVE  /\ CellsFrom(s, n) \in Code /\ Len(CellsFrom(s, n)) = n
           /\ \A i \in 1 .. n : s + i - 1 \in Cell /\ CellsFrom(s, n)[i] = mem[s + i - 1]
           /\ \A i \in 1 .. n - 1 : CellsFrom(s, n)[i] \in Simple
<1>1. \A i \in 1 .. n : s + i - 1 \in Cell
  BY DEF Compiles, Cell
<1>2. \A i \in 1 .. n : mem[s + i - 1] \in Instr
  <2> SUFFICES ASSUME NEW i \in 1 .. n
               PROVE  mem[s + i - 1] \in Instr
    OBVIOUS
  <2>1. CASE i < n
    <3>1. i \in 1 .. n - 1
      BY <2>1
    <3> QED
      BY <3>1 DEF Compiles, Simple, Instr
  <2>2. CASE i = n
    BY <2>2 DEF Compiles, Simple, Terminal, Instr
  <2> QED
    BY <2>1, <2>2
<1>3. CellsFrom(s, n) \in [1 .. n -> Instr]
  BY <1>2 DEF CellsFrom
<1>4. n \in Nat /\ Len(CellsFrom(s, n)) = n
  BY <1>3
<1>5. \A i \in 1 .. n : CellsFrom(s, n)[i] = mem[s + i - 1]
  BY DEF CellsFrom
<1>6. \A i \in 1 .. n - 1 : CellsFrom(s, n)[i] \in Simple
  BY <1>5 DEF Compiles
<1> QED
  BY <1>1, <1>3, <1>4, <1>5, <1>6 DEF Code

\* Blocks stay current when a cell changes that none of those left occupies.
LEMMA ChangeOutsideBlocks ==
    ASSUME TypeOK, CachedCodeIsCurrent, NEW a \in Cell, NEW v \in Instr \cup {Unmapped},
           mem' = [mem EXCEPT ![a] = v],
           DOMAIN blocks' \subseteq DOMAIN blocks,
           \A s \in DOMAIN blocks' : blocks'[s] = blocks[s] /\ ~Hits(s, blocks[s], a)
    PROVE  mem' \in [Cell -> Instr \cup {Unmapped}] /\ CachedCodeIsCurrent'
<1>1. mem' \in [Cell -> Instr \cup {Unmapped}]
  BY DEF TypeOK
<1>2. DOMAIN blocks' \subseteq Cell /\ \A s \in DOMAIN blocks' : blocks'[s] \in Code
  BY DEF TypeOK
<1>3. ASSUME NEW s \in DOMAIN blocks'
      PROVE  IsCurrent(s)'
  <2> DEFINE n == Len(blocks[s])
  <2>1. s \in DOMAIN blocks /\ s \in Cell /\ blocks'[s] = blocks[s] /\ n \in Nat
    BY <1>2, <1>3, CodeIsSequence
  <2>2. s + n <= Size /\ blocks[s] = CellsFrom(s, n)
    BY <2>1 DEF CachedCodeIsCurrent, IsCurrent
  <2>3. \A i \in 1 .. n : s + i - 1 \in Cell /\ s + i - 1 # a
    BY <1>3, <2>1, <2>2 DEF Hits, Cell
  <2>4. \A i \in 1 .. n : mem'[s + i - 1] = mem[s + i - 1]
    BY <2>3 DEF TypeOK
  <2>5. CellsFrom(s, n) = [i \in 1 .. n |-> mem'[s + i - 1]]
    BY <2>4 DEF CellsFrom
  <2> QED
    BY <2>1, <2>2, <2>5 DEF IsCurrent, CellsFrom
<1> QED
  BY <1>1, <1>2, <1>3 DEF CachedCodeIsCurrent

\* invalidate: a write leaves the blocks it does not hit.
LEMMA InvalidatedKeeps ==
    ASSUME NEW a, blocks' = Invalidated(a)
    PROVE  /\ DOMAIN blocks' \subseteq DOMAIN blocks
           /\ \A s \in DOMAIN blocks' : blocks'[s] = blocks[s] /\ ~Hits(s, blocks[s], a)
BY DEF Invalidated

\* An instruction with its callbacks has the effect the program means, keeps the
\* cache current, and changes no code unless it is a store or a system call.
LEMMA EffectKeepsCache ==
    ASSUME WellBehaved, TypeOK, CachedCodeIsCurrent, NEW op, EffectAndInvalidate(op)
    PROVE  /\ mem' \in [Cell -> Instr \cup {Unmapped}]
           /\ DOMAIN blocks' \subseteq DOMAIN blocks
           /\ \A s \in DOMAIN blocks' : blocks'[s] = blocks[s]
           /\ CachedCodeIsCurrent'
           /\ op \in Simple => \A c \in Exec : mem'[c] = mem[c]
           /\ Interp!Effect(op)
<1>1. CASE UNCHANGED <<mem, blocks>>
  <2>1. CachedCodeIsCurrent'
    BY <1>1 DEF CachedCodeIsCurrent, IsCurrent, CellsFrom
  <2>2. Interp!Effect(op)
    BY <1>1 DEF EffectAndInvalidate, Interp!Effect, Interp!Write, Interp!Cell, Interp!Instr, Cell, Instr
  <2> QED
    BY <1>1, <2>1, <2>2 DEF TypeOK
<1>2. ASSUME NEW a \in Cell, NEW v \in Instr, Interp!Write(a, v), blocks' = Invalidated(a),
             \/ op = "push" /\ a \in Stack
             \/ op \in {"store", "sys"}
      PROVE  /\ mem' \in [Cell -> Instr \cup {Unmapped}]
             /\ DOMAIN blocks' \subseteq DOMAIN blocks /\ \A s \in DOMAIN blocks' : blocks'[s] = blocks[s]
             /\ CachedCodeIsCurrent'
             /\ op \in Simple => \A c \in Exec : mem'[c] = mem[c]
             /\ Interp!Effect(op)
  <2>1. mem' = [mem EXCEPT ![a] = v]
    BY <1>2 DEF Interp!Write
  <2>2. /\ mem' \in [Cell -> Instr \cup {Unmapped}]
        /\ DOMAIN blocks' \subseteq DOMAIN blocks /\ \A s \in DOMAIN blocks' : blocks'[s] = blocks[s]
        /\ CachedCodeIsCurrent'
    BY <1>2, <2>1, InvalidatedKeeps, ChangeOutsideBlocks
  <2>3. op \in Simple => \A c \in Exec : mem'[c] = mem[c]
    BY <1>2, <2>1 DEF Simple, WellBehaved, TypeOK
  <2>4. Interp!Effect(op)
    BY <1>2 DEF Interp!Effect, Interp!Cell, Interp!Instr, Cell, Instr
  <2> QED
    BY <2>2, <2>3, <2>4
<1>3. ASSUME NEW a \in Cell, NEW v \in {"nop", Unmapped}, op = "sys", Interp!Remap(a, v),
             RemapsCached \/ \A s \in DOMAIN blocks : ~Hits(s, blocks[s], a),
             UNCHANGED blocks
      PROVE  /\ mem' \in [Cell -> Instr \cup {Unmapped}]
             /\ DOMAIN blocks' \subseteq DOMAIN blocks /\ \A s \in DOMAIN blocks' : blocks'[s] = blocks[s]
             /\ CachedCodeIsCurrent'
             /\ op \in Simple => \A c \in Exec : mem'[c] = mem[c]
             /\ Interp!Effect(op)
  <2>1. mem' = [mem EXCEPT ![a] = v] /\ v \in Instr \cup {Unmapped}
    BY <1>3 DEF Interp!Remap, Instr
  <2>2. /\ DOMAIN blocks' \subseteq DOMAIN blocks
        /\ \A s \in DOMAIN blocks' : blocks'[s] = blocks[s] /\ ~Hits(s, blocks[s], a)
    BY <1>3 DEF WellBehaved
  <2>3. /\ mem' \in [Cell -> Instr \cup {Unmapped}]
        /\ DOMAIN blocks' \subseteq DOMAIN blocks /\ \A s \in DOMAIN blocks' : blocks'[s] = blocks[s]
        /\ CachedCodeIsCurrent'
    BY <2>1, <2>2, ChangeOutsideBlocks
  <2>4. Interp!Effect(op)
    BY <1>3 DEF Interp!Effect, Interp!Cell, Cell
  <2> QED
    BY <1>3, <2>3, <2>4 DEF Simple
<1> QED
  BY <1>1, <1>2, <1>3 DEF EffectAndInvalidate

-----------------------------------------------------------------------------
\* At first the cache is empty.
LEMMA InitIInv == Init => IInv
BY DEF Init, Interp!Init, Interp!Cell, Interp!Instr, IInv, TypeOK, Cell, Instr, Running,
       CachedCodeIsCurrent, BlocksAreStraight, CurrentFollowsEip

\* Where control goes after an instruction is code.
LEMMA SuccessorInExec ==
    ASSUME NEW op, NEW a, NEW b \in Interp!Successor(op, a)
    PROVE  b \in Exec /\ (op \in Simple => b = a + 1)
BY DEF Interp!Successor, Simple

\* A new block is the code in memory.
LEMMA CompileKeepsIInv == IInv /\ compile => IInv'
<1> SUFFICES ASSUME IInv, compile
             PROVE  IInv'
  OBVIOUS
<1>1. PICK n \in 1 .. MaxBlock :
         /\ Compiles(eip, n)
         /\ blocks' = [s \in DOMAIN blocks \cup {eip} |->
                          IF s = eip THEN CellsFrom(eip, n) ELSE blocks[s]]
         /\ current' = [start |-> eip, code |-> CellsFrom(eip, n), next |-> 1]
  BY DEF compile, BlockLengths
<1>2. eip \in Cell /\ UNCHANGED <<mem, eip>> /\ hits' = [hits EXCEPT ![eip] = HotThreshold]
  BY DEF compile, IInv, TypeOK
<1>3. /\ CellsFrom(eip, n) \in Code /\ Len(CellsFrom(eip, n)) = n
      /\ \A i \in 1 .. n : eip + i - 1 \in Cell /\ CellsFrom(eip, n)[i] = mem[eip + i - 1]
      /\ \A i \in 1 .. n - 1 : CellsFrom(eip, n)[i] \in Simple
  BY <1>1, <1>2, CompiledIsCode DEF IInv
<1>4. TypeOK'
  <2>1. current' \in Running
    BY <1>1, <1>2, <1>3 DEF Running
  <2>2. current'.next <= Len(current'.code)
    BY <1>1, <1>3
  <2>3. hits' \in [Cell -> 0 .. HotThreshold]
    BY <1>2 DEF IInv, TypeOK
  <2>4. DOMAIN blocks' \subseteq Cell /\ \A s \in DOMAIN blocks' : blocks'[s] \in Code
    BY <1>1, <1>2, <1>3 DEF IInv, TypeOK
  <2> QED
    BY <1>2, <2>1, <2>2, <2>3, <2>4 DEF IInv, TypeOK
<1>5. CachedCodeIsCurrent'
  <2> SUFFICES ASSUME NEW s \in DOMAIN blocks'
               PROVE  IsCurrent(s)'
    BY DEF CachedCodeIsCurrent
  <2>1. CASE s = eip
    <3>1. blocks'[s] = CellsFrom(eip, n)
      BY <1>1, <2>1
    <3>2. s + n <= Size
      BY <1>1, <2>1 DEF Compiles
    <3> QED
      BY <1>2, <1>3, <2>1, <3>1, <3>2 DEF IsCurrent, CellsFrom
  <2>2. CASE s # eip
    <3>1. s \in DOMAIN blocks /\ blocks'[s] = blocks[s]
      BY <1>1, <2>2
    <3> QED
      BY <1>2, <3>1 DEF IInv, CachedCodeIsCurrent, IsCurrent, CellsFrom
  <2> QED
    BY <2>1, <2>2
<1>6. CurrentFollowsEip'
  BY <1>1, <1>2, <1>3 DEF CurrentFollowsEip, Cell
<1>7. BlocksAreStraight'
  BY <1>1, <1>3 DEF IInv, BlocksAreStraight
<1> QED
  BY <1>4, <1>5, <1>6, <1>7 DEF IInv

\* A block that is entered is the code at eip.
LEMMA EnterKeepsIInv == IInv /\ enter => IInv'
<1> SUFFICES ASSUME IInv, enter
             PROVE  IInv'
  OBVIOUS
<1> DEFINE code == blocks[eip]
<1>1. /\ eip \in DOMAIN blocks /\ UNCHANGED <<mem, eip, hits, blocks>>
      /\ current' = [start |-> eip, code |-> code, next |-> 1]
  BY DEF enter
<1>2. /\ eip \in Cell /\ code \in Code /\ Len(code) \in 1 .. MaxBlock
      /\ eip + Len(code) <= Size /\ code = CellsFrom(eip, Len(code))
  BY <1>1, CodeIsSequence DEF IInv, TypeOK, CachedCodeIsCurrent, IsCurrent
<1>3. \A i \in 1 .. Len(code) : code[i] = mem[eip + i - 1]
  BY <1>2 DEF CellsFrom
<1>4. TypeOK'
  BY <1>1, <1>2 DEF IInv, TypeOK, Running
<1>5. CachedCodeIsCurrent'
  BY <1>1 DEF IInv, CachedCodeIsCurrent, IsCurrent, CellsFrom
<1>6. \A i \in 1 .. Len(code) - 1 : code[i] \in Simple
  BY <1>1 DEF IInv, BlocksAreStraight
<1>7. BlocksAreStraight'
  BY <1>1 DEF IInv, BlocksAreStraight
<1> QED
  BY <1>1, <1>2, <1>3, <1>4, <1>5, <1>6, <1>7 DEF IInv, CurrentFollowsEip, Cell

\* A program that replaces another leaves no block of it in the cache.
LEMMA ExecveKeepsCache ==
    ASSUME WellBehaved, execve
    PROVE  /\ mem' \in [Cell -> Instr \cup {Unmapped}]
           /\ DOMAIN blocks' = {}
           /\ eip' \in Exec
           /\ Interp!Replaced
<1>1. PICK program \in Programs :
         /\ mem' = program.memory
         /\ RemapsCached \/ DOMAIN blocks' = {}
         /\ eip' \in Exec
  BY DEF execve
<1>2. program \in [memory : [Cell -> Instr \cup {Unmapped}], image : SUBSET Cell]
  BY <1>1, ProgramAssumption
<1>3. mem' \in [Cell -> Instr \cup {Unmapped}]
  BY <1>1, <1>2
<1>4. Interp!Cell = Cell /\ Interp!Instr = Instr
  BY DEF Interp!Cell, Interp!Instr, Cell, Instr
<1>5. Interp!Replaced
  BY <1>1, <1>3, <1>4, Zenon DEF Interp!Replaced
<1> QED
  BY <1>1, <1>3, <1>5 DEF WellBehaved

\* What an instruction leaves of the cache is typed, current and straight, and
\* it does what the program means.
LEMMA ExecuteKeepsCache ==
    ASSUME WellBehaved, IInv, NEW op, Execute(op)
    PROVE  /\ mem' \in [Cell -> Instr \cup {Unmapped}]
           /\ DOMAIN blocks' \subseteq Cell /\ \A s \in DOMAIN blocks' : blocks'[s] \in Code
           /\ CachedCodeIsCurrent' /\ BlocksAreStraight'
           /\ eip' \in Exec
           /\ op \in Simple => eip' = eip + 1 /\ \A c \in Exec : mem'[c] = mem[c]
           /\ Interp!Execute(op)
<1>1. CASE EffectAndInvalidate(op) /\ eip' \in Interp!Successor(op, eip)
  <2>1. /\ mem' \in [Cell -> Instr \cup {Unmapped}]
        /\ DOMAIN blocks' \subseteq DOMAIN blocks
        /\ \A s \in DOMAIN blocks' : blocks'[s] = blocks[s]
        /\ CachedCodeIsCurrent'
        /\ op \in Simple => \A c \in Exec : mem'[c] = mem[c]
        /\ Interp!Effect(op)
    BY <1>1, EffectKeepsCache DEF IInv
  <2>2. eip' \in Exec /\ (op \in Simple => eip' = eip + 1)
    BY <1>1, SuccessorInExec
  <2>3. DOMAIN blocks' \subseteq Cell /\ \A s \in DOMAIN blocks' : blocks'[s] \in Code
    BY <2>1 DEF IInv, TypeOK
  <2>4. BlocksAreStraight'
    BY <2>1 DEF IInv, BlocksAreStraight
  <2> QED
    BY <1>1, <2>1, <2>2, <2>3, <2>4 DEF Interp!Execute
<1>2. CASE op = "sys" /\ execve
  <2>1. /\ mem' \in [Cell -> Instr \cup {Unmapped}] /\ DOMAIN blocks' = {}
        /\ eip' \in Exec /\ Interp!Replaced
    BY <1>2, ExecveKeepsCache
  <2>2. CachedCodeIsCurrent' /\ BlocksAreStraight'
    BY <2>1 DEF CachedCodeIsCurrent, BlocksAreStraight
  <2>3. op \notin Simple
    BY <1>2 DEF Simple
  <2> QED
    BY <1>2, <2>1, <2>2, <2>3 DEF Interp!Execute
<1> QED
  BY <1>1, <1>2 DEF Execute

\* A store drops every block that covers the cell; the running one goes on.
LEMMA RunOpKeepsIInv == WellBehaved /\ IInv /\ runOp => IInv'
<1> SUFFICES ASSUME WellBehaved, IInv, runOp
             PROVE  IInv'
  OBVIOUS
<1> DEFINE code == current.code
           op   == code[current.next]
<1>1. /\ current \in Running /\ current # NoBlock
      /\ current.start \in Cell /\ code \in Code /\ current.next \in 1 .. Len(code)
  BY DEF runOp, IInv, TypeOK, Running
<1>2. Execute(op) /\ UNCHANGED hits
  BY DEF runOp
<1>3. /\ mem' \in [Cell -> Instr \cup {Unmapped}]
      /\ DOMAIN blocks' \subseteq Cell /\ \A s \in DOMAIN blocks' : blocks'[s] \in Code
      /\ CachedCodeIsCurrent' /\ BlocksAreStraight'
  BY <1>2, ExecuteKeepsCache
<1>4. eip' \in Exec /\ (op \in Simple => eip' = eip + 1 /\ \A c \in Exec : mem'[c] = mem[c])
  BY <1>2, ExecuteKeepsCache
<1>5. CASE current.next = Len(code)
  <2>1. current' = NoBlock
    BY <1>5 DEF runOp
  <2> QED
    BY <1>2, <1>3, <1>4, <2>1 DEF IInv, TypeOK, CurrentFollowsEip
<1>6. CASE current.next # Len(code)
  <2>1. Len(code) \in 1 .. MaxBlock
    BY <1>1, CodeIsSequence
  <2>2. current' = [start |-> current.start, code |-> code, next |-> current.next + 1]
    BY <1>1, <1>6 DEF runOp, Running
  <2>3. current.next \in 1 .. Len(code) - 1 /\ op \in Simple
    BY <1>1, <1>6, <2>1 DEF IInv, CurrentFollowsEip
  <2>4. \A c \in Exec : mem'[c] = mem[c]
    BY <1>4, <2>3
  <2>5. TypeOK'
    BY <1>1, <1>2, <1>3, <1>4, <2>1, <2>2, <2>3 DEF IInv, TypeOK, Running
  <2>6. eip' = current'.start + current'.next - 1
    BY <1>1, <1>4, <2>2, <2>3 DEF IInv, CurrentFollowsEip, Cell
  <2>7. \A i \in current'.next .. Len(code) :
           current.start + i - 1 \in Exec => code[i] = mem'[current.start + i - 1]
    BY <1>1, <2>1, <2>2, <2>4 DEF IInv, CurrentFollowsEip
  <2>8. CurrentFollowsEip'
    BY <1>1, <2>2, <2>6, <2>7 DEF IInv, CurrentFollowsEip
  <2> QED
    BY <1>3, <2>5, <2>8 DEF IInv
<1> QED
  BY <1>5, <1>6

\* The same for an instruction that is interpreted.
LEMMA InterpretKeepsIInv == WellBehaved /\ IInv /\ interpret => IInv'
<1> SUFFICES ASSUME WellBehaved, IInv, interpret
             PROVE  IInv'
  OBVIOUS
<1>1. /\ Execute(mem[eip])
      /\ current = NoBlock /\ current' = NoBlock /\ hits' = [hits EXCEPT ![eip] = Hotter]
  BY DEF interpret
<1>2. hits' \in [Cell -> 0 .. HotThreshold]
  BY <1>1 DEF IInv, TypeOK, Hotter, Min2
<1> QED
  BY <1>1, <1>2, ExecuteKeepsCache DEF IInv, TypeOK, CurrentFollowsEip

-----------------------------------------------------------------------------
\* Whatever a well-behaved guest writes, jumps to and asks of the system, the
\* cache, the block being run and the program counter fit together.
THEOREM Invariance == WellBehaved => (Spec => []IInv)
<1> SUFFICES ASSUME WellBehaved
             PROVE  Spec => []IInv
  OBVIOUS
<1>1. IInv /\ [Next]_vars => IInv'
  <2> SUFFICES ASSUME IInv, [Next]_vars
               PROVE  IInv'
    OBVIOUS
  <2>1. CASE UNCHANGED vars
    BY <2>1 DEF vars, IInv, TypeOK, CachedCodeIsCurrent, IsCurrent, CellsFrom,
                BlocksAreStraight, CurrentFollowsEip
  <2> QED
    BY <2>1, CompileKeepsIInv, EnterKeepsIInv, RunOpKeepsIInv, InterpretKeepsIInv DEF Next
<1> QED
  BY <1>1, InitIInv, PTL DEF Spec

\* Every block in the cache is what its cells hold, after any writes (onWrite
\* and invalidate of jit.js).
THEOREM CacheIsCurrent == WellBehaved => (Spec => []CachedCodeIsCurrent)
<1> SUFFICES ASSUME WellBehaved
             PROVE  Spec => []CachedCodeIsCurrent
  OBVIOUS
<1>1. IInv => CachedCodeIsCurrent
  BY DEF IInv
<1> QED
  BY <1>1, Invariance, PTL

\* One step with the cache is one instruction of the program, or none.
LEMMA StepSimulation ==
    WellBehaved /\ IInv /\ [Next]_vars => [Interp!Step]_(Interp!vars)
<1> SUFFICES ASSUME WellBehaved, IInv, [Next]_vars
             PROVE  [Interp!Step]_(Interp!vars)
  OBVIOUS
<1>1. CASE compile \/ enter \/ UNCHANGED vars
  BY <1>1 DEF compile, enter, vars, Interp!vars
<1>2. CASE runOp
  <2> DEFINE op == current.code[current.next]
  <2>1. Execute(op)
    BY <1>2 DEF runOp
  <2>2. /\ current # NoBlock /\ current \in Running /\ current.code \in Code
        /\ current.next \in 1 .. Len(current.code)
    BY <1>2 DEF runOp, IInv, TypeOK, Running
  <2>3. Len(current.code) \in 1 .. MaxBlock /\ op \in Instr
    BY <2>2, CodeIsSequence
  <2>4. op = mem[eip]
    BY <2>2, <2>3 DEF IInv, TypeOK, CurrentFollowsEip
  <2>5. Interp!Execute(op)
    BY <2>1, ExecuteKeepsCache
  <2> QED
    BY <2>3, <2>4, <2>5, CellAssumption DEF Interp!Step
<1>3. CASE interpret
  <2>1. Interp!Execute(mem[eip])
    BY <1>3, ExecuteKeepsCache DEF interpret
  <2> QED
    BY <1>3, <2>1 DEF interpret, Interp!Step
<1> QED
  BY <1>1, <1>2, <1>3 DEF Next

\* Running with the cache is running the program (BlockCacheJIT.run against
\* CPU.step): every instruction that is executed, from a block or not, is the
\* one in memory at that moment, also in programs that rewrite themselves.
THEOREM JitRefinesInterpreter == WellBehaved => (Spec => RunsTheProgram)
<1> SUFFICES ASSUME WellBehaved
             PROVE  Spec => RunsTheProgram
  OBVIOUS
<1>1. Init => Interp!Init
  BY DEF Init
<1>2. IInv /\ [Next]_vars => [Interp!Step]_(Interp!vars)
  BY StepSimulation
<1> QED
  BY <1>1, <1>2, Invariance, PTL DEF Spec, RunsTheProgram, Interp!Spec
=============================================================================
