--------------------------- MODULE RuntimeProofs ---------------------------
(***************************************************************************)
(* Proofs about the runtime: how it loads programs, then fork, wait4 and   *)
(* exit.  The loops of the loader are recursive functions over their       *)
(* passes; Climbs is the induction for what holds after each pass.         *)
(***************************************************************************)
EXTENDS ProcessTree, ElfLoader, FiniteSetTheorems, SequenceTheorems, WellFoundedInduction, TLAPS

\* A set of numbers that is not empty has a smallest element.
LEMMA SmallestExists ==
    ASSUME NEW T, T \subseteq Nat, T # {}
    PROVE  \E a \in T : \A b \in T : a <= b
<1> DEFINE R == OpToRel(<, Nat)
<1>1. R = {ss \in Nat \X Nat : ss[1] < ss[2]}
  BY Zenon DEF OpToRel
<1>2. IsWellFoundedOn(R, Nat)
  BY NatLessThanWellFounded, Zenon
<1> HIDE DEF R
<1>3. PICK a \in T : \A b \in T : ~(<<b, a>> \in R)
  BY <1>2, WFMin, Zenon
<1>4. \A b \in T : ~(b < a)
  BY <1>1, <1>3
<1> QED
  BY <1>3, <1>4

\* A set that holds 0 and with every number the next holds all up to n.
LEMMA Climbs ==
    ASSUME NEW n \in Nat, NEW G, 0 \in G,
           \A k \in 1 .. n : k - 1 \in G => k \in G
    PROVE  \A k \in 0 .. n : k \in G
<1> DEFINE T == {k \in 0 .. n : k \notin G}
<1> SUFFICES ASSUME T # {}
             PROVE  FALSE
  OBVIOUS
<1>1. PICK a \in T : \A b \in T : a <= b
  <2>1. T \subseteq Nat
    OBVIOUS
  <2> HIDE DEF T
  <2> QED
    BY <2>1, SmallestExists
<1>2. a \in 1 .. n /\ a - 1 \in 0 .. n /\ a - 1 \notin T
  BY <1>1
<1> QED
  BY <1>1, <1>2

\* The states g of memory, header by header.
BySegments(g, mem, f, b) ==
    /\ g[0] = mem
    /\ \A k \in 1 .. Len(f.loads) : g[k] = loadSegment(g[k - 1], b, f.loads[k])
    /\ loadSegments(mem, f, b) = g[Len(f.loads)]

LEMMA SegmentLoop ==
    ASSUME NEW mem, NEW f, NEW b, Len(f.loads) \in Nat
    PROVE  \E g : BySegments(g, mem, f, b)
<1> DEFINE n == Len(f.loads)
           Is(g, j) == g = [k \in 0 .. j |-> IF k = 0 THEN mem ELSE loadSegment(g[k - 1], b, f.loads[k])]
           G == {j \in Nat : \E g : Is(g, j)}
           round == CHOOSE g : Is(g, n)
<1>0. n \in Nat
  OBVIOUS
<1>1. loadSegments(mem, f, b) = round[n]
  BY Zenon DEF loadSegments
<1> HIDE DEF n
<1>2. 0 \in G
  <2>1. Is([k \in 0 .. 0 |-> mem], 0)
    OBVIOUS
  <2> HIDE DEF Is
  <2> QED
    BY <2>1
<1>3. ASSUME NEW j \in 1 .. n, j - 1 \in G
      PROVE  j \in G
  <2>1. PICK g : Is(g, j - 1)
    BY <1>3
  <2> DEFINE last == loadSegment(g[j - 1], b, f.loads[j])
             h == [k \in 0 .. j |-> IF k = j THEN last ELSE g[k]]
  <2>2. \A k \in 0 .. j - 1 : g[k] = IF k = 0 THEN mem ELSE loadSegment(g[k - 1], b, f.loads[k])
    BY <1>0, <2>1
  <2>3. ASSUME NEW k \in 0 .. j
        PROVE  h[k] = IF k = 0 THEN mem ELSE loadSegment(h[k - 1], b, f.loads[k])
    <3>1. CASE k = 0
      <4>1. h[k] = g[k] /\ k \in 0 .. j - 1
        BY <1>0, <3>1
      <4> HIDE DEF h
      <4> QED
        BY <2>2, <3>1, <4>1, Zenon
    <3>2. CASE k # 0
      <4>1. k - 1 \in 0 .. j - 1 /\ h[k - 1] = g[k - 1]
        BY <1>0, <3>2
      <4>2. CASE k = j
        <5>1. h[k] = last
          BY <4>2
        <5> HIDE DEF h
        <5> QED
          BY <3>2, <4>1, <4>2, <5>1, Zenon
      <4>3. CASE k # j
        <5>1. h[k] = g[k] /\ k \in 0 .. j - 1
          BY <1>0, <4>3
        <5> HIDE DEF h
        <5> QED
          BY <2>2, <3>2, <4>1, <5>1, Zenon
      <4> QED
        BY <4>2, <4>3
    <3> QED
      BY <3>1, <3>2
  <2>4. Is(h, j)
    <3>1. h = [k \in 0 .. j |-> h[k]]
      OBVIOUS
    <3> HIDE DEF h
    <3> QED
      BY <3>1, <2>3, Zenon
  <2> HIDE DEF Is, h
  <2> QED
    BY <1>0, <1>3, <2>4
<1>4. n \in G
  <2> HIDE DEF G
  <2>1. \A k \in 1 .. n : k - 1 \in G => k \in G
    BY <1>3
  <2>2. n \in 0 .. n
    BY <1>0
  <2> QED
    BY <1>0, <1>2, <2>1, <2>2, Climbs, Zenon
<1>5. Is(round, n)
  <2>1. \E g : Is(g, n)
    BY <1>4
  <2> HIDE DEF Is
  <2> QED
    BY <2>1, Zenon
<1> HIDE DEF round
<1>6. \A k \in 0 .. n : round[k] = IF k = 0 THEN mem ELSE loadSegment(round[k - 1], b, f.loads[k])
  BY <1>0, <1>5
<1>7. round[0] = mem /\ \A k \in 1 .. n : round[k] = loadSegment(round[k - 1], b, f.loads[k])
  <2>1. 0 \in 0 .. n /\ \A k \in 1 .. n : k \in 0 .. n /\ k # 0
    BY <1>0
  <2> QED
    BY <1>6, <2>1, Zenon
<1>8. BySegments(round, mem, f, b)
  BY <1>1, <1>7, Zenon DEF BySegments, n
<1> QED
  BY <1>8

\* The states g of memory, relocation by relocation.
ByRelocations(g, mem, f, b) ==
    /\ g[0] = mem
    /\ \A k \in 1 .. Len(relocations(f)) : g[k] = applyOne(g[k - 1], b, relocations(f)[k])
    /\ applyELF32Relocations(mem, f, b) = g[Len(relocations(f))]

LEMMA RelocationLoop ==
    ASSUME NEW mem, NEW f, NEW b, Len(relocations(f)) \in Nat
    PROVE  \E g : ByRelocations(g, mem, f, b)
<1> DEFINE n == Len(relocations(f))
           Is(g, j) == g = [k \in 0 .. j |-> IF k = 0 THEN mem ELSE applyOne(g[k - 1], b, relocations(f)[k])]
           G == {j \in Nat : \E g : Is(g, j)}
           round == CHOOSE g : Is(g, n)
<1>0. n \in Nat
  OBVIOUS
<1>1. applyELF32Relocations(mem, f, b) = round[n]
  BY Zenon DEF applyELF32Relocations
<1> HIDE DEF n
<1>2. 0 \in G
  <2>1. Is([k \in 0 .. 0 |-> mem], 0)
    OBVIOUS
  <2> HIDE DEF Is
  <2> QED
    BY <2>1
<1>3. ASSUME NEW j \in 1 .. n, j - 1 \in G
      PROVE  j \in G
  <2>1. PICK g : Is(g, j - 1)
    BY <1>3
  <2> DEFINE last == applyOne(g[j - 1], b, relocations(f)[j])
             h == [k \in 0 .. j |-> IF k = j THEN last ELSE g[k]]
  <2>2. \A k \in 0 .. j - 1 : g[k] = IF k = 0 THEN mem ELSE applyOne(g[k - 1], b, relocations(f)[k])
    BY <1>0, <2>1
  <2>3. ASSUME NEW k \in 0 .. j
        PROVE  h[k] = IF k = 0 THEN mem ELSE applyOne(h[k - 1], b, relocations(f)[k])
    <3>1. CASE k = 0
      <4>1. h[k] = g[k] /\ k \in 0 .. j - 1
        BY <1>0, <3>1
      <4> HIDE DEF h
      <4> QED
        BY <2>2, <3>1, <4>1, Zenon
    <3>2. CASE k # 0
      <4>1. k - 1 \in 0 .. j - 1 /\ h[k - 1] = g[k - 1]
        BY <1>0, <3>2
      <4>2. CASE k = j
        <5>1. h[k] = last
          BY <4>2
        <5> HIDE DEF h
        <5> QED
          BY <3>2, <4>1, <4>2, <5>1, Zenon
      <4>3. CASE k # j
        <5>1. h[k] = g[k] /\ k \in 0 .. j - 1
          BY <1>0, <4>3
        <5> HIDE DEF h
        <5> QED
          BY <2>2, <3>2, <4>1, <5>1, Zenon
      <4> QED
        BY <4>2, <4>3
    <3> QED
      BY <3>1, <3>2
  <2>4. Is(h, j)
    <3>1. h = [k \in 0 .. j |-> h[k]]
      OBVIOUS
    <3> HIDE DEF h
    <3> QED
      BY <3>1, <2>3, Zenon
  <2> HIDE DEF Is, h
  <2> QED
    BY <1>0, <1>3, <2>4
<1>4. n \in G
  <2> HIDE DEF G
  <2>1. \A k \in 1 .. n : k - 1 \in G => k \in G
    BY <1>3
  <2>2. n \in 0 .. n
    BY <1>0
  <2> QED
    BY <1>0, <1>2, <2>1, <2>2, Climbs, Zenon
<1>5. Is(round, n)
  <2>1. \E g : Is(g, n)
    BY <1>4
  <2> HIDE DEF Is
  <2> QED
    BY <2>1, Zenon
<1> HIDE DEF round
<1>6. \A k \in 0 .. n : round[k] = IF k = 0 THEN mem ELSE applyOne(round[k - 1], b, relocations(f)[k])
  BY <1>0, <1>5
<1>7. round[0] = mem /\ \A k \in 1 .. n : round[k] = applyOne(round[k - 1], b, relocations(f)[k])
  <2>1. 0 \in 0 .. n /\ \A k \in 1 .. n : k \in 0 .. n /\ k # 0
    BY <1>0
  <2> QED
    BY <1>6, <2>1, Zenon
<1>8. ByRelocations(round, mem, f, b)
  BY <1>1, <1>7, Zenon DEF ByRelocations, n
<1> QED
  BY <1>8

\* The states g of the stack, element by element.
ByPushes(g, st, s) ==
    /\ g[0] = st
    /\ \A k \in 1 .. Len(s) : g[k] = push(g[k - 1], s[Len(s) - k + 1])
    /\ pushAll(st, s) = g[Len(s)]

LEMMA PushLoop ==
    ASSUME NEW st, NEW s, Len(s) \in Nat
    PROVE  \E g : ByPushes(g, st, s)
<1> DEFINE n == Len(s)
           Is(g, j) == g = [k \in 0 .. j |-> IF k = 0 THEN st ELSE push(g[k - 1], s[n - k + 1])]
           G == {j \in Nat : \E g : Is(g, j)}
           round == CHOOSE g : Is(g, n)
<1>0. n \in Nat
  OBVIOUS
<1>1. pushAll(st, s) = round[n]
  BY Zenon DEF pushAll
<1> HIDE DEF n
<1>2. 0 \in G
  <2>1. Is([k \in 0 .. 0 |-> st], 0)
    OBVIOUS
  <2> HIDE DEF Is
  <2> QED
    BY <2>1
<1>3. ASSUME NEW j \in 1 .. n, j - 1 \in G
      PROVE  j \in G
  <2>1. PICK g : Is(g, j - 1)
    BY <1>3
  <2> DEFINE last == push(g[j - 1], s[n - j + 1])
             h == [k \in 0 .. j |-> IF k = j THEN last ELSE g[k]]
  <2>2. \A k \in 0 .. j - 1 : g[k] = IF k = 0 THEN st ELSE push(g[k - 1], s[n - k + 1])
    BY <1>0, <2>1
  <2>3. ASSUME NEW k \in 0 .. j
        PROVE  h[k] = IF k = 0 THEN st ELSE push(h[k - 1], s[n - k + 1])
    <3>1. CASE k = 0
      <4>1. h[k] = g[k] /\ k \in 0 .. j - 1
        BY <1>0, <3>1
      <4> HIDE DEF h
      <4> QED
        BY <2>2, <3>1, <4>1, Zenon
    <3>2. CASE k # 0
      <4>1. k - 1 \in 0 .. j - 1 /\ h[k - 1] = g[k - 1]
        BY <1>0, <3>2
      <4>2. CASE k = j
        <5>1. h[k] = last
          BY <4>2
        <5> HIDE DEF h
        <5> QED
          BY <3>2, <4>1, <4>2, <5>1, Zenon
      <4>3. CASE k # j
        <5>1. h[k] = g[k] /\ k \in 0 .. j - 1
          BY <1>0, <4>3
        <5> HIDE DEF h
        <5> QED
          BY <2>2, <3>2, <4>1, <5>1, Zenon
      <4> QED
        BY <4>2, <4>3
    <3> QED
      BY <3>1, <3>2
  <2>4. Is(h, j)
    <3>1. h = [k \in 0 .. j |-> h[k]]
      OBVIOUS
    <3> HIDE DEF h
    <3> QED
      BY <3>1, <2>3, Zenon
  <2> HIDE DEF Is, h
  <2> QED
    BY <1>0, <1>3, <2>4
<1>4. n \in G
  <2> HIDE DEF G
  <2>1. \A k \in 1 .. n : k - 1 \in G => k \in G
    BY <1>3
  <2>2. n \in 0 .. n
    BY <1>0
  <2> QED
    BY <1>0, <1>2, <2>1, <2>2, Climbs, Zenon
<1>5. Is(round, n)
  <2>1. \E g : Is(g, n)
    BY <1>4
  <2> HIDE DEF Is
  <2> QED
    BY <2>1, Zenon
<1> HIDE DEF round
<1>6. \A k \in 0 .. n : round[k] = IF k = 0 THEN st ELSE push(round[k - 1], s[n - k + 1])
  BY <1>0, <1>5
<1>7. round[0] = st /\ \A k \in 1 .. n : round[k] = push(round[k - 1], s[n - k + 1])
  <2>1. 0 \in 0 .. n /\ \A k \in 1 .. n : k \in 0 .. n /\ k # 0
    BY <1>0
  <2> QED
    BY <1>6, <2>1, Zenon
<1>8. ByPushes(round, st, s)
  BY <1>1, <1>7, Zenon DEF ByPushes, n
<1> QED
  BY <1>8

\* The largest of some numbers up to n.
LEMMA LargestOf ==
    ASSUME NEW n \in Nat, NEW S, S \subseteq 1 .. n, S # {}
    PROVE  Max(S) \in S /\ \A k \in S : k <= Max(S)
<1> DEFINE T == {n - k : k \in S}
<1>1. T \subseteq Nat /\ T # {}
  <2>1. \A k \in S : n - k \in Nat
    OBVIOUS
  <2> QED
    BY <2>1, Zenon
<1>2. PICK a \in T : \A d \in T : a <= d
  <2> HIDE DEF T
  <2> QED
    BY <1>1, SmallestExists
<1>3. PICK x \in S : a = n - x
  BY <1>2
<1>4. \A y \in S : x >= y
  <2> SUFFICES ASSUME NEW y \in S
               PROVE  x >= y
    OBVIOUS
  <2>1. n - y \in T
    OBVIOUS
  <2> QED
    BY <1>2, <1>3, <2>1
<1>5. Max(S) \in S /\ \A y \in S : Max(S) >= y
  BY <1>4 DEF Max
<1> QED
  BY <1>5

\* Quotient and remainder.
LEMMA DivMod ==
    ASSUME NEW v \in Int, NEW p \in Nat \ {0}
    PROVE  v \div p \in Int /\ v % p \in 0 .. p - 1 /\ v = p * (v \div p) + (v % p)
OBVIOUS

\* A cell of a range is on a page of the range.
LEMMA OnItsPages ==
    ASSUME NEW lo \in Nat, NEW n \in Nat, NEW a \in lo .. lo + n - 1
    PROVE  a \div PageCells \in PagesOf(lo, n)
<1>0. PICK p \in Nat \ {0} : p = PageCells
  BY LoaderAssumption
<1>1. PICK x \in Int, r \in 0 .. p - 1 : x = lo \div p /\ lo = p * x + r
  BY <1>0, DivMod
<1>2. PICK y \in Int, s \in 0 .. p - 1 : y = a \div p /\ a = p * y + s
  BY <1>0, DivMod
<1>3. PICK z \in Int, t \in 0 .. p - 1 : z = (lo + n + p - 1) \div p /\ lo + n + p - 1 = p * z + t
  <2>1. lo + n + p - 1 \in Int
    BY <1>0
  <2> QED
    BY <1>0, <2>1, DivMod
<1>4. x <= y
  <2> SUFFICES ASSUME x - y >= 1
               PROVE  FALSE
    BY <1>1, <1>2
  <2>1. p * (x - y) >= p
    BY <1>0, <1>1, <1>2
  <2>2. p * (x - y) = p * x - p * y
    BY <1>0, <1>1, <1>2
  <2> QED
    BY <1>0, <1>1, <1>2, <2>1, <2>2
<1>5. y <= z - 1
  <2> SUFFICES ASSUME y - z >= 0
               PROVE  FALSE
    BY <1>2, <1>3
  <2>1. p * (y - z) >= 0
    BY <1>0, <1>2, <1>3
  <2>2. p * (y - z) = p * y - p * z
    BY <1>0, <1>2, <1>3
  <2> QED
    BY <1>0, <1>2, <1>3, <2>1, <2>2
<1> QED
  BY <1>0, <1>1, <1>2, <1>3, <1>4, <1>5 DEF PagesOf

\* A remainder may be taken before a term is added,
LEMMA RemainderOfSum ==
    ASSUME NEW v \in Int, NEW w \in Int, NEW p \in Nat \ {0}
    PROVE  ((v % p) + w) % p = (v + w) % p
<1>1. PICK d \in Int, r \in 0 .. p - 1 : r = v % p /\ v = p * d + r
  BY DivMod
<1>2. PICK e \in Int, s \in 0 .. p - 1 : s = (r + w) % p /\ r + w = p * e + s
  <2>1. r + w \in Int
    BY <1>1
  <2> QED
    BY <2>1, DivMod
<1>3. PICK x \in Int : x = v + w
  OBVIOUS
<1>4. PICK u \in Int, z \in 0 .. p - 1 : z = x % p /\ x = p * u + z
  BY DivMod
<1>5. p * (u - d - e) = s - z
  <2>1. p * (u - d - e) = p * u - p * d - p * e
    OBVIOUS
  <2>2. PICK i \in Int, j \in Int, k \in Int : i = p * u /\ j = p * d /\ k = p * e
    OBVIOUS
  <2>3. v = j + r /\ r + w = k + s /\ v + w = i + z
    BY <1>1, <1>2, <1>3, <1>4, <2>2
  <2>4. i - j - k = s - z
    BY <2>3
  <2> QED
    BY <2>1, <2>2, <2>4
<1>6. PICK q \in Int : q = u - d - e
  OBVIOUS
<1>7. p * q = s - z
  BY <1>5, <1>6
<1>8. q < 1
  <2>1. q >= 1 => p * q >= p
    BY <1>6
  <2> QED
    BY <1>2, <1>4, <1>7, <2>1
<1>9. q > -1
  <2>1. q <= -1 => p * q <= -p
    BY <1>6
  <2> QED
    BY <1>2, <1>4, <1>7, <2>1
<1>10. s = z
  BY <1>2, <1>4, <1>6, <1>7, <1>8, <1>9
<1> QED
  BY <1>1, <1>2, <1>3, <1>4, <1>10

\* and a number below the modulus is its remainder.
LEMMA RemainderOfSmall ==
    ASSUME NEW p \in Nat \ {0}, NEW v \in 0 .. p - 1
    PROVE  v % p = v
<1>0. v \in Int
  OBVIOUS
<1>1. PICK d \in Int, r \in 0 .. p - 1 : r = v % p /\ v = p * d + r
  BY <1>0, DivMod
<1>2. d < 1
  <2>1. d >= 1 => p * d >= p
    BY <1>1
  <2> QED
    BY <1>1, <2>1
<1>3. d > -1
  <2>1. d <= -1 => p * d <= -p
    BY <1>1
  <2> QED
    BY <1>1, <2>1
<1> QED
  BY <1>1, <1>2, <1>3

-----------------------------------------------------------------------------
(* Segments.                                                               *)

\* A page table with the cells of all addresses.
IsMemory(mem) == /\ mem = [perm |-> mem.perm, cell |-> mem.cell, ok |-> mem.ok]
                 /\ mem.cell = [a \in Addr |-> mem.cell[a]]
                 /\ mem.ok \in BOOLEAN

\* Cells and pages of one segment, and what its file has for a cell.
Over(b, p, c)   == c \in b + p.vaddr .. b + p.vaddr + p.memsz - 1
SegPages(b, p)  == PagesOf(b + p.vaddr, p.memsz)
Raw(b, p, c)    == IF c - b - p.vaddr < p.filesz THEN p.file[c - b - p.vaddr + 1] ELSE 0

\* What loading a segment does to memory.
SegmentDone(mem, b, p, r) ==
    /\ IsMemory(r) /\ r.ok = mem.ok
    /\ DOMAIN r.perm = DOMAIN mem.perm \cup SegPages(b, p)
    /\ \A q \in DOMAIN r.perm : r.perm[q] = IF q \in SegPages(b, p) THEN flagsToPerm(p.flags) ELSE mem.perm[q]
    /\ \A a \in Addr : r.cell[a] = IF Over(b, p, a) THEN Raw(b, p, a) ELSE mem.cell[a]

LEMMA SegmentLoads ==
    ASSUME NEW mem, IsMemory(mem), NEW b \in Nat, NEW p \in Segment, p.filesz <= p.memsz
    PROVE  SegmentDone(mem, b, p, loadSegment(mem, b, p))
<1> DEFINE lo     == b + p.vaddr
           range  == SegPages(b, p)
           mapped == setPerm(mem, range, RWX)
           cell   == [a \in Addr |-> IF a \in lo .. lo + p.filesz - 1 THEN p.file[a - lo + 1]
                                     ELSE IF a \in lo + p.filesz .. lo + p.memsz - 1 THEN 0
                                     ELSE mapped.cell[a]]
           filled == [mapped EXCEPT !.cell = cell]
           r      == setPerm(filled, range, flagsToPerm(p.flags))
<1>1. loadSegment(mem, b, p) = r
  BY DEF loadSegment, map, SegPages
<1>2. /\ mapped = [perm |-> mapped.perm, cell |-> mem.cell, ok |-> mem.ok]
      /\ DOMAIN mapped.perm = DOMAIN mem.perm \cup range
      /\ \A q \in DOMAIN mapped.perm : q \notin range => mapped.perm[q] = mem.perm[q]
  BY DEF setPerm, IsMemory
<1> HIDE DEF mapped
<1>3. filled = [perm |-> mapped.perm, cell |-> cell, ok |-> mem.ok]
  BY <1>2
<1> HIDE DEF filled, cell
<1>4. /\ r = [perm |-> r.perm, cell |-> cell, ok |-> mem.ok]
      /\ DOMAIN r.perm = DOMAIN mem.perm \cup range
      /\ \A q \in DOMAIN r.perm : r.perm[q] = IF q \in range THEN flagsToPerm(p.flags) ELSE mem.perm[q]
  BY <1>2, <1>3 DEF setPerm
<1> HIDE DEF r
<1>5. \A a \in Addr : cell[a] = IF Over(b, p, a) THEN Raw(b, p, a) ELSE mem.cell[a]
  <2> SUFFICES ASSUME NEW a \in Addr
               PROVE  cell[a] = IF Over(b, p, a) THEN Raw(b, p, a) ELSE mem.cell[a]
    OBVIOUS
  <2>1. cell[a] = IF a \in lo .. lo + p.filesz - 1 THEN p.file[a - lo + 1]
                  ELSE IF a \in lo + p.filesz .. lo + p.memsz - 1 THEN 0
                  ELSE mem.cell[a]
    BY <1>2 DEF cell
  <2>2. lo \in Nat /\ p.filesz \in Nat /\ p.memsz \in Nat /\ a \in Int /\ a - lo = a - b - p.vaddr /\ p.vaddr \in Nat
    BY LoaderAssumption DEF Segment, Addr
  <2> QED
    BY <2>1, <2>2 DEF Over, Raw
<1>6. cell = [a \in Addr |-> cell[a]]
  BY DEF cell
<1>7. IsMemory(r) /\ r.ok = mem.ok /\ r.cell = cell
  BY <1>4, <1>6 DEF IsMemory
<1> QED
  BY <1>1, <1>4, <1>5, <1>7 DEF SegmentDone

\* What loading the first j segments does: the last one over a cell or a page
\* decides.
SegmentsDone(mem, b, s, j, r) ==
    /\ IsMemory(r) /\ r.ok = mem.ok
    /\ \A q : q \in DOMAIN r.perm <=> q \in DOMAIN mem.perm \/ \E k \in 1 .. j : q \in SegPages(b, s[k])
    /\ \A q \in DOMAIN r.perm : (\A k \in 1 .. j : q \notin SegPages(b, s[k])) => r.perm[q] = mem.perm[q]
    /\ \A k \in 1 .. j : \A q \in SegPages(b, s[k]) :
          (\A i \in k + 1 .. j : q \notin SegPages(b, s[i])) => r.perm[q] = flagsToPerm(s[k].flags)
    /\ \A a \in Addr : (\A k \in 1 .. j : ~Over(b, s[k], a)) => r.cell[a] = mem.cell[a]
    /\ \A k \in 1 .. j : \A a \in Addr :
          Over(b, s[k], a) /\ (\A i \in k + 1 .. j : ~Over(b, s[i], a)) => r.cell[a] = Raw(b, s[k], a)

LEMMA OneMoreSegment ==
    ASSUME NEW mem, NEW b, NEW s, NEW j \in Nat, NEW r, NEW t,
           SegmentsDone(mem, b, s, j, r), SegmentDone(r, b, s[j + 1], t)
    PROVE  SegmentsDone(mem, b, s, j + 1, t)
<1>1. IsMemory(t) /\ t.ok = mem.ok
  BY DEF SegmentsDone, SegmentDone
<1>2. \A k : k \in 1 .. j + 1 <=> k \in 1 .. j \/ k = j + 1
  OBVIOUS
<1>3. \A q : q \in DOMAIN t.perm <=> q \in DOMAIN mem.perm \/ \E k \in 1 .. j + 1 : q \in SegPages(b, s[k])
  <2>1. \A q : q \in DOMAIN t.perm <=> q \in DOMAIN r.perm \/ q \in SegPages(b, s[j + 1])
    BY DEF SegmentDone
  <2>2. \A q : q \in DOMAIN r.perm <=> q \in DOMAIN mem.perm \/ \E k \in 1 .. j : q \in SegPages(b, s[k])
    BY DEF SegmentsDone
  <2> QED
    BY <1>2, <2>1, <2>2, Zenon
<1>4. ASSUME NEW q \in DOMAIN t.perm, \A k \in 1 .. j + 1 : q \notin SegPages(b, s[k])
      PROVE  t.perm[q] = mem.perm[q]
  <2>1. q \notin SegPages(b, s[j + 1]) /\ \A k \in 1 .. j : q \notin SegPages(b, s[k])
    BY <1>2, <1>4, Zenon
  <2>2. q \in DOMAIN r.perm /\ t.perm[q] = r.perm[q]
    BY <2>1 DEF SegmentDone
  <2> QED
    BY <2>1, <2>2 DEF SegmentsDone
<1>5. ASSUME NEW k \in 1 .. j + 1, NEW q \in SegPages(b, s[k]),
             \A i \in k + 1 .. j + 1 : q \notin SegPages(b, s[i])
      PROVE  t.perm[q] = flagsToPerm(s[k].flags)
  <2>1. CASE k = j + 1
    <3>1. q \in DOMAIN t.perm
      BY <2>1 DEF SegmentDone
    <3> QED
      BY <2>1, <3>1 DEF SegmentDone
  <2>2. CASE k # j + 1
    <3>1. k \in 1 .. j /\ j + 1 \in k + 1 .. j + 1 /\ \A i \in k + 1 .. j : i \in k + 1 .. j + 1
      BY <2>2
    <3>2. r.perm[q] = flagsToPerm(s[k].flags) /\ q \in DOMAIN r.perm
      BY <1>5, <3>1, Zenon DEF SegmentsDone
    <3>3. q \in DOMAIN t.perm /\ q \notin SegPages(b, s[j + 1])
      BY <1>5, <3>1, <3>2 DEF SegmentDone
    <3> QED
      BY <3>2, <3>3 DEF SegmentDone
  <2> QED
    BY <2>1, <2>2
<1>6. ASSUME NEW a \in Addr, \A k \in 1 .. j + 1 : ~Over(b, s[k], a)
      PROVE  t.cell[a] = mem.cell[a]
  <2>1. ~Over(b, s[j + 1], a) /\ \A k \in 1 .. j : ~Over(b, s[k], a)
    BY <1>2, <1>6, Zenon
  <2> QED
    BY <2>1, Zenon DEF SegmentDone, SegmentsDone
<1>7. ASSUME NEW k \in 1 .. j + 1, NEW a \in Addr, Over(b, s[k], a), \A i \in k + 1 .. j + 1 : ~Over(b, s[i], a)
      PROVE  t.cell[a] = Raw(b, s[k], a)
  <2>1. CASE k = j + 1
    BY <1>7, <2>1, Zenon DEF SegmentDone
  <2>2. CASE k # j + 1
    <3>1. k \in 1 .. j /\ j + 1 \in k + 1 .. j + 1 /\ \A i \in k + 1 .. j : i \in k + 1 .. j + 1
      BY <2>2
    <3>2. r.cell[a] = Raw(b, s[k], a) /\ ~Over(b, s[j + 1], a)
      BY <1>7, <3>1, Zenon DEF SegmentsDone
    <3> QED
      BY <3>2, Zenon DEF SegmentDone
  <2> QED
    BY <2>1, <2>2
<1> QED
  BY <1>1, <1>3, <1>4, <1>5, <1>6, <1>7, Zenon DEF SegmentsDone

\* The loop over the headers loads them all.
LEMMA SegmentsLoad ==
    ASSUME NEW mem, IsMemory(mem), NEW b \in Nat, NEW f, f.loads \in Seq(Segment),
           \A k \in DOMAIN f.loads : f.loads[k].filesz <= f.loads[k].memsz
    PROVE  SegmentsDone(mem, b, f.loads, Len(f.loads), loadSegments(mem, f, b))
<1>1. PICK n \in Nat : n = Len(f.loads)
  BY LenProperties
<1>2. PICK g : BySegments(g, mem, f, b)
  BY <1>1, SegmentLoop
<1>3. g[0] = mem /\ loadSegments(mem, f, b) = g[n] /\ \A k \in 1 .. n : g[k] = loadSegment(g[k - 1], b, f.loads[k])
  BY <1>1, <1>2 DEF BySegments
<1>4. \A k \in 1 .. n : k \in DOMAIN f.loads /\ f.loads[k] \in Segment
  BY <1>1, LenProperties, ElementOfSeq
<1> DEFINE G == {j \in Nat : j <= n => SegmentsDone(mem, b, f.loads, j, g[j])}
<1>5. 0 \in G
  BY <1>3 DEF SegmentsDone
<1>6. ASSUME NEW j \in 1 .. n, j - 1 \in G
      PROVE  j \in G
  <2>1. PICK i \in Nat : i = j - 1 /\ j = i + 1
    OBVIOUS
  <2>2. SegmentsDone(mem, b, f.loads, i, g[i])
    BY <1>6, <2>1
  <2>3. g[j] = loadSegment(g[i], b, f.loads[j]) /\ IsMemory(g[i])
    BY <1>3, <2>1, <2>2 DEF SegmentsDone
  <2>4. SegmentDone(g[i], b, f.loads[j], g[j])
    BY <1>4, <2>3, SegmentLoads
  <2>5. SegmentsDone(mem, b, f.loads, i + 1, g[j])
    BY <2>1, <2>2, <2>4, OneMoreSegment
  <2> QED
    BY <2>1, <2>5
<1> HIDE DEF G
<1>7. \A k \in 0 .. n : k \in G
  BY <1>5, <1>6, Climbs
<1>8. n \in G
  BY <1>7
<1> QED
  BY <1>1, <1>3, <1>8 DEF G

-----------------------------------------------------------------------------
(* Relocations.                                                            *)

Biases == {0, MainBias, InterpBias}

\* Entries among the first k that change cell c, by what they do.
Moves(f, b, k, c, t) == {i \in 1 .. k : /\ relocations(f)[i].offset = c - b /\ relocations(f)[i].type = t
                                        /\ t = "PC32" => relocations(f)[i].sym = 0}

\* What they add to it,
MovedBy(f, b, k, c) == b * Cardinality(Moves(f, b, k, c, "RELATIVE")) - c * Cardinality(Moves(f, b, k, c, "PC32"))

\* and what one of them adds.
OneMove(x, b, c) == IF x.type = "RELATIVE" THEN b ELSE IF x.type = "PC32" /\ x.sym = 0 THEN - c ELSE 0

\* Programs are sequences of segments and of relocations.
LEMMA FileFacts ==
    ASSUME NEW f \in File
    PROVE  /\ f \in Program /\ f \notin {BadFile, NoFile}
           /\ f.loads \in Seq(Segment) /\ Len(f.loads) \in Nat /\ DOMAIN f.loads = 1 .. Len(f.loads)
           /\ \A k \in 1 .. Len(f.loads) : f.loads[k] \in Segment /\ f.loads[k].filesz <= f.loads[k].memsz
                                           /\ f.loads[k].filesz = Len(f.loads[k].file)
           /\ relocations(f) \in Seq(Reloc) /\ Len(relocations(f)) \in Nat
           /\ DOMAIN relocations(f) = 1 .. Len(relocations(f))
           /\ \A k \in 1 .. Len(relocations(f)) : relocations(f)[k] \in Reloc
           /\ biasOf(f) \in Biases
<1>1. f \in Program /\ f \notin {BadFile, NoFile}
  BY LoaderAssumption
<1>2. f.loads \in Seq(Segment) /\ f.rel \in Seq(Reloc) /\ f.jmprel \in Seq(Reloc)
  BY <1>1 DEF Program
<1>3. Len(f.loads) \in Nat /\ DOMAIN f.loads = 1 .. Len(f.loads)
  BY <1>2, LenProperties
<1>4. \A k \in 1 .. Len(f.loads) : f.loads[k] \in Segment
  BY <1>2, ElementOfSeq
<1>5. relocations(f) \in Seq(Reloc)
  <2>1. parseELF32DynamicInfo(f).rel \in Seq(Reloc) /\ parseELF32DynamicInfo(f).jmprel \in Seq(Reloc)
    BY <1>2 DEF parseELF32DynamicInfo
  <2> QED
    BY <2>1, ConcatProperties DEF relocations
<1>6. Len(relocations(f)) \in Nat /\ DOMAIN relocations(f) = 1 .. Len(relocations(f))
  BY <1>5, LenProperties
<1>7. \A k \in 1 .. Len(relocations(f)) : relocations(f)[k] \in Reloc
  BY <1>5, ElementOfSeq
<1>8. biasOf(f) \in Biases
  BY <1>1 DEF biasOf, Biases
<1>9. \A k \in 1 .. Len(f.loads) : f.loads[k].filesz <= f.loads[k].memsz /\ f.loads[k].filesz = Len(f.loads[k].file)
  BY <1>3, LayoutAssumption
<1> QED
  BY <1>1, <1>2, <1>3, <1>4, <1>5, <1>6, <1>7, <1>8, <1>9

\* Segments as a linker makes them.
Loadable(f) == /\ f.loads \in Seq(Segment)
               /\ \A k \in DOMAIN f.loads : /\ f.loads[k].filesz = Len(f.loads[k].file)
                                            /\ f.loads[k].filesz <= f.loads[k].memsz

\* The cells of a file are those of its segments.
LEMMA CoverOfSegments ==
    ASSUME NEW f, Loadable(f), NEW b \in Nat
    PROVE  /\ \A c : c \in Covered(f, b) <=> \E k \in 1 .. Len(f.loads) : Over(b, f.loads[k], c)
           /\ \A q : q \in ImagePages(f, b) <=> \E k \in 1 .. Len(f.loads) : q \in SegPages(b, f.loads[k])
           /\ \A c \in Covered(f, b) : c \div PageCells \in ImagePages(f, b)
           /\ Covered(f, b) \subseteq Nat
<1>1. Len(f.loads) \in Nat /\ DOMAIN f.loads = 1 .. Len(f.loads)
  BY LenProperties DEF Loadable
<1>2. \A c : c \in Covered(f, b) <=> \E k \in 1 .. Len(f.loads) : Over(b, f.loads[k], c)
  BY <1>1 DEF Covered, Over
<1>3. \A q : q \in ImagePages(f, b) <=> \E k \in 1 .. Len(f.loads) : q \in SegPages(b, f.loads[k])
  BY <1>1 DEF ImagePages, SegPages
<1>5. ASSUME NEW c \in Covered(f, b)
      PROVE  c \div PageCells \in ImagePages(f, b) /\ c \in Nat
  <2>1. PICK k \in 1 .. Len(f.loads) : Over(b, f.loads[k], c)
    BY <1>2
  <2>2. f.loads[k].vaddr \in Nat /\ f.loads[k].memsz \in Nat
    <3>1. f.loads[k] \in Segment
      BY <1>1, ElementOfSeq DEF Loadable
    <3> QED
      BY <3>1 DEF Segment
  <2>3. PICK lo \in Nat : lo = b + f.loads[k].vaddr
    BY <2>2
  <2>4. c \in lo .. lo + f.loads[k].memsz - 1
    BY <2>1, <2>3 DEF Over
  <2>5. c \div PageCells \in SegPages(b, f.loads[k])
    BY <2>2, <2>3, <2>4, OnItsPages DEF SegPages
  <2> QED
    BY <1>3, <2>3, <2>4, <2>5
<1> QED
  BY <1>2, <1>3, <1>5

LEMMA CoveredFacts ==
    ASSUME NEW f \in File, NEW b \in Biases
    PROVE  /\ b \in Nat /\ Loadable(f)
           /\ \A c : c \in Covered(f, b) <=> \E k \in 1 .. Len(f.loads) : Over(b, f.loads[k], c)
           /\ Covered(f, b) \subseteq Addr
<1>1. b \in Nat /\ Loadable(f)
  <2>1. b \in Nat
    BY LoaderAssumption DEF Biases
  <2>2. f.loads \in Seq(Segment)
    BY FileFacts
  <2> QED
    BY <2>1, <2>2, LayoutAssumption DEF Loadable
<1>2. Covered(f, b) \subseteq Addr
  BY LayoutAssumption DEF Biases
<1> QED
  BY <1>1, <1>2, CoverOfSegments

\* A relocation is of a cell of its file.
LEMMA RelocationInside ==
    ASSUME NEW f \in File, NEW b \in Biases, NEW k \in 1 .. Len(relocations(f))
    PROVE  /\ b + relocations(f)[k].offset \in Covered(f, b)
           /\ (b + relocations(f)[k].offset) % Size = b + relocations(f)[k].offset
<1>1. PICK x \in Reloc : x = relocations(f)[k]
  BY FileFacts
<1>2. x.offset \in Nat /\ x.offset \in Covered(f, 0)
  BY <1>1, FileFacts, LayoutAssumption DEF Reloc
<1>3. PICK j \in 1 .. Len(f.loads) : Over(0, f.loads[j], x.offset)
  <2>1. 0 \in Biases
    BY DEF Biases
  <2> QED
    BY <1>2, <2>1, CoveredFacts
<1>4. f.loads[j].vaddr \in Nat /\ f.loads[j].memsz \in Nat /\ b \in Nat
  BY FileFacts, CoveredFacts DEF Segment
<1>5. Over(b, f.loads[j], b + x.offset)
  <2>1. PICK v \in Nat, m \in Nat : v = f.loads[j].vaddr /\ m = f.loads[j].memsz
    BY <1>4
  <2>2. x.offset \in 0 + v .. 0 + v + m - 1
    BY <1>3, <2>1 DEF Over
  <2>3. b + x.offset \in b + v .. b + v + m - 1
    BY <1>2, <1>4, <2>2
  <2> QED
    BY <2>1, <2>3 DEF Over
<1>6. b + x.offset \in Covered(f, b) /\ b + x.offset \in Addr
  BY <1>5, CoveredFacts
<1>7. (b + x.offset) % Size = b + x.offset
  <2>1. Size \in Nat \ {0} /\ b + x.offset \in 0 .. Size - 1
    BY <1>6, LoaderAssumption DEF Addr
  <2> QED
    BY <2>1, RemainderOfSmall
<1> QED
  BY <1>1, <1>6, <1>7

\* What the next entry adds to the count of a cell.
LEMMA OneMoreMove ==
    ASSUME NEW f \in File, NEW b \in Biases, NEW k \in Nat, k < Len(relocations(f)), NEW c \in Addr, NEW x,
           x = relocations(f)[k + 1]
    PROVE  /\ MovedBy(f, b, k, c) \in Int
           /\ MovedBy(f, b, k + 1, c) = MovedBy(f, b, k, c) + (IF x.offset = c - b THEN OneMove(x, b, c) ELSE 0)
<1> DEFINE Hits(t) == x.offset = c - b /\ x.type = t /\ (t = "PC32" => x.sym = 0)
<1>1. ASSUME NEW t
      PROVE  /\ IsFiniteSet(Moves(f, b, k, c, t)) /\ Cardinality(Moves(f, b, k, c, t)) \in Nat
             /\ Cardinality(Moves(f, b, k + 1, c, t)) =
                   Cardinality(Moves(f, b, k, c, t)) + (IF Hits(t) THEN 1 ELSE 0)
  <2>1. IsFiniteSet(Moves(f, b, k, c, t))
    <3>1. IsFiniteSet(1 .. k) /\ Moves(f, b, k, c, t) \subseteq 1 .. k
      BY FS_Interval DEF Moves
    <3> QED
      BY <3>1, FS_Subset
  <2>2. Cardinality(Moves(f, b, k, c, t)) \in Nat
    BY <2>1, FS_CardinalityType
  <2>3. k + 1 \notin Moves(f, b, k, c, t)
    BY DEF Moves
  <2>4. \A i : i \in 1 .. k + 1 <=> i \in 1 .. k \/ i = k + 1
    OBVIOUS
  <2>5. CASE Hits(t)
    <3>1. Moves(f, b, k + 1, c, t) = Moves(f, b, k, c, t) \cup {k + 1}
      BY <2>4, <2>5, Zenon DEF Moves
    <3>2. Cardinality(Moves(f, b, k, c, t) \cup {k + 1}) = Cardinality(Moves(f, b, k, c, t)) + 1
      BY <2>1, <2>3, FS_AddElement
    <3> QED
      BY <2>1, <2>2, <2>5, <3>1, <3>2, Zenon
  <2>6. CASE ~Hits(t)
    <3>1. Moves(f, b, k + 1, c, t) = Moves(f, b, k, c, t)
      BY <2>4, <2>6, Zenon DEF Moves
    <3> QED
      BY <2>1, <2>2, <2>6, <3>1
  <2> QED
    BY <2>5, <2>6
<1>2. PICK i \in Nat, j \in Nat : /\ i = Cardinality(Moves(f, b, k, c, "RELATIVE"))
                                  /\ j = Cardinality(Moves(f, b, k, c, "PC32"))
  BY <1>1
<1>3. b \in Nat /\ c \in Nat
  BY CoveredFacts DEF Addr
<1>4. MovedBy(f, b, k, c) = b * i - c * j /\ b * i \in Int /\ c * j \in Int
  <2>1. MovedBy(f, b, k, c) = b * i - c * j
    BY <1>2, Zenon DEF MovedBy
  <2>2. b * i \in Int /\ c * j \in Int
    BY <1>3
  <2> QED
    BY <2>1, <2>2
<1>5. /\ Cardinality(Moves(f, b, k + 1, c, "RELATIVE")) = i + (IF Hits("RELATIVE") THEN 1 ELSE 0)
      /\ Cardinality(Moves(f, b, k + 1, c, "PC32")) = j + (IF Hits("PC32") THEN 1 ELSE 0)
  BY <1>1, <1>2
<1>6. PICK y \in Int, z \in Int : /\ y = b * i /\ z = c * j
                                  /\ b * (i + 1) = y + b /\ c * (j + 1) = z + c
  <2>1. b * (i + 1) = b * i + b /\ c * (j + 1) = c * j + c
    BY <1>3
  <2> QED
    BY <1>4, <2>1
<1>7. CASE x.offset # c - b
  BY <1>4, <1>5, <1>7 DEF MovedBy
<1>8. CASE x.offset = c - b /\ x.type = "RELATIVE"
  <2>1. MovedBy(f, b, k + 1, c) = b * (i + 1) - c * j
    BY <1>5, <1>8 DEF MovedBy
  <2>2. OneMove(x, b, c) = b
    BY <1>8 DEF OneMove
  <2>3. MovedBy(f, b, k + 1, c) = (y + b) - z /\ MovedBy(f, b, k, c) = y - z
    BY <1>4, <1>6, <2>1
  <2>4. (y + b) - z = (y - z) + b /\ y - z \in Int
    BY <1>3
  <2> QED
    BY <1>8, <2>2, <2>3, <2>4
<1>9. CASE x.offset = c - b /\ x.type = "PC32" /\ x.sym = 0
  <2>1. MovedBy(f, b, k + 1, c) = b * i - c * (j + 1)
    BY <1>5, <1>9 DEF MovedBy
  <2>2. OneMove(x, b, c) = - c
    BY <1>9 DEF OneMove
  <2>3. MovedBy(f, b, k + 1, c) = y - (z + c) /\ MovedBy(f, b, k, c) = y - z
    BY <1>4, <1>6, <2>1
  <2>4. y - (z + c) = (y - z) + (- c) /\ y - z \in Int
    BY <1>3
  <2> QED
    BY <1>9, <2>2, <2>3, <2>4
<1>10. CASE x.offset = c - b /\ x.type # "RELATIVE" /\ ~(x.type = "PC32" /\ x.sym = 0)
  <2>1. MovedBy(f, b, k + 1, c) = b * i - c * j
    BY <1>5, <1>10 DEF MovedBy
  <2>2. OneMove(x, b, c) = 0
    BY <1>10 DEF OneMove
  <2> QED
    BY <1>3, <1>4, <1>6, <1>10, <2>1, <2>2
<1> QED
  BY <1>7, <1>8, <1>9, <1>10

\* What relocations leave alone, and what the first k of them have done to the
\* cells of the file unless one of them has faulted.
RelocationsDone(mem, f, b, k, r) ==
    /\ IsMemory(r) /\ r.perm = mem.perm
    /\ \A a \in Addr \ Covered(f, b) : r.cell[a] = mem.cell[a]
    /\ r.ok => mem.ok /\ \A c \in Covered(f, b) : r.cell[c] = (mem.cell[c] + MovedBy(f, b, k, c)) % Size

LEMMA RelocationStep ==
    ASSUME NEW f \in File, NEW b \in Biases, NEW mem, \A c \in Covered(f, b) : mem.cell[c] \in Addr,
           NEW k \in Nat, k < Len(relocations(f)), NEW r, RelocationsDone(mem, f, b, k, r)
    PROVE  RelocationsDone(mem, f, b, k + 1, applyOne(r, b, relocations(f)[k + 1]))
<1>1. PICK x \in Reloc : x = relocations(f)[k + 1]
  BY FileFacts
<1>2. PICK addr \in Covered(f, b) : addr = b + x.offset /\ (b + x.offset) % Size = addr
  <2>1. k + 1 \in 1 .. Len(relocations(f))
    BY FileFacts
  <2> QED
    BY <1>1, <2>1, RelocationInside
<1>3. PICK t : t = applyOne(r, b, x)
  OBVIOUS
<1>4. IsMemory(r) /\ r.perm = mem.perm /\ \A a \in Addr \ Covered(f, b) : r.cell[a] = mem.cell[a]
  BY DEF RelocationsDone
<1>5. addr \in Addr /\ b \in Nat /\ x.offset \in Nat /\ addr \in Nat
  BY CoveredFacts, <1>2 DEF Reloc, Addr
<1>6. CASE ~r.ok
  <2>1. t = r
    BY <1>3, <1>6 DEF applyOne
  <2> QED
    BY <1>1, <1>3, <1>4, <1>6, <2>1 DEF RelocationsDone
<1>7. CASE r.ok /\ ~Readable(r, addr)
  <2>1. t = [r EXCEPT !.ok = FALSE]
    BY <1>2, <1>3, <1>7 DEF applyOne
  <2>2. t = [perm |-> r.perm, cell |-> r.cell, ok |-> FALSE]
    BY <1>4, <2>1 DEF IsMemory
  <2>3. IsMemory(t)
    BY <1>4, <2>2 DEF IsMemory
  <2> QED
    BY <1>1, <1>3, <1>4, <2>2, <2>3 DEF RelocationsDone
<1>8. CASE r.ok /\ Readable(r, addr)
  <2> DEFINE old == r.cell[addr]
             new == CASE x.type = "RELATIVE"          -> b + old
                      [] x.type = "32" /\ x.sym = 0   -> old
                      [] x.type = "PC32" /\ x.sym = 0 -> old - addr
                      [] OTHER                        -> old
  <2>1. t = [r EXCEPT !.cell[addr] = new % Size]
    BY <1>2, <1>3, <1>8 DEF applyOne
  <2>2. mem.ok /\ \A c \in Covered(f, b) : r.cell[c] = (mem.cell[c] + MovedBy(f, b, k, c)) % Size
    BY <1>8 DEF RelocationsDone
  <2>3. PICK v \in Int : v = mem.cell[addr] + MovedBy(f, b, k, addr) /\ old = v % Size /\ old \in Int
    <3>1. mem.cell[addr] \in Int /\ MovedBy(f, b, k, addr) \in Int /\ Size \in Nat \ {0}
      BY <1>1, <1>5, OneMoreMove, LoaderAssumption DEF Addr
    <3>2. PICK v \in Int : v = mem.cell[addr] + MovedBy(f, b, k, addr)
      BY <3>1
    <3>3. v % Size \in Int
      BY <3>1
    <3> QED
      BY <2>2, <3>2, <3>3
  <2>4. new = old + OneMove(x, b, addr)
    BY <1>5, <2>3 DEF OneMove
  <2> HIDE DEF old, new
  <2>5. /\ t = [perm |-> r.perm, cell |-> [r.cell EXCEPT ![addr] = new % Size], ok |-> r.ok]
    BY <1>4, <2>1 DEF IsMemory
  <2>6. /\ IsMemory(t) /\ t.perm = mem.perm
        /\ t.cell[addr] = new % Size
        /\ \A a \in Addr : a # addr => t.cell[a] = r.cell[a]
    BY <1>4, <1>5, <2>5 DEF IsMemory
  <2>7. ASSUME NEW c \in Covered(f, b)
        PROVE  t.cell[c] = (mem.cell[c] + MovedBy(f, b, k + 1, c)) % Size
    <3>1. c \in Addr /\ mem.cell[c] \in Int
      BY CoveredFacts, LoaderAssumption DEF Addr
    <3>2. /\ MovedBy(f, b, k, c) \in Int
          /\ MovedBy(f, b, k + 1, c) = MovedBy(f, b, k, c) + (IF x.offset = c - b THEN OneMove(x, b, c) ELSE 0)
      BY <1>1, <3>1, OneMoreMove
    <3>3. CASE c = addr
      <4>1. x.offset = c - b
        BY <1>2, <1>5, <3>3
      <4>2. PICK w \in Int : w = OneMove(x, b, addr)
        BY <1>5 DEF OneMove
      <4>3. ((v % Size) + w) % Size = (v + w) % Size
        BY <2>3, LoaderAssumption, RemainderOfSum
      <4>4. v + w = mem.cell[c] + MovedBy(f, b, k + 1, c)
        <5>1. MovedBy(f, b, k + 1, c) = MovedBy(f, b, k, c) + w
          BY <3>2, <3>3, <4>1, <4>2
        <5>2. PICK y \in Int, z \in Int : y = mem.cell[c] /\ z = MovedBy(f, b, k, c)
          BY <3>1, <3>2
        <5>3. v = y + z
          BY <2>3, <3>3, <5>2
        <5> QED
          BY <5>1, <5>2, <5>3
      <4> QED
        BY <2>3, <2>4, <2>6, <3>3, <4>2, <4>3, <4>4
    <3>4. CASE c # addr
      <4>1. x.offset # c - b
        BY <1>2, <1>5, <3>1, <3>4 DEF Addr
      <4>2. MovedBy(f, b, k + 1, c) = MovedBy(f, b, k, c)
        BY <3>2, <4>1
      <4> QED
        BY <2>2, <2>6, <3>1, <3>4, <4>2
    <3> QED
      BY <3>3, <3>4
  <2>8. \A a \in Addr \ Covered(f, b) : t.cell[a] = mem.cell[a]
    BY <1>2, <1>4, <2>6
  <2> QED
    BY <1>1, <1>3, <2>2, <2>6, <2>7, <2>8 DEF RelocationsDone
<1> QED
  BY <1>6, <1>7, <1>8

LEMMA RelocationsApply ==
    ASSUME NEW f \in File, NEW b \in Biases, NEW mem, IsMemory(mem), \A c \in Covered(f, b) : mem.cell[c] \in Addr
    PROVE  RelocationsDone(mem, f, b, Len(relocations(f)), applyELF32Relocations(mem, f, b))
<1>1. PICK n \in Nat : n = Len(relocations(f))
  BY FileFacts
<1>2. PICK g : ByRelocations(g, mem, f, b)
  BY <1>1, RelocationLoop
<1>3. /\ g[0] = mem /\ applyELF32Relocations(mem, f, b) = g[n]
      /\ \A k \in 1 .. n : g[k] = applyOne(g[k - 1], b, relocations(f)[k])
  BY <1>1, <1>2 DEF ByRelocations
<1> DEFINE G == {j \in Nat : j <= n => RelocationsDone(mem, f, b, j, g[j])}
<1>4. 0 \in G
  <2>1. \A c, t : Cardinality(Moves(f, b, 0, c, t)) = 0
    <3>1. \A c, t : Moves(f, b, 0, c, t) = {}
      BY DEF Moves
    <3> QED
      BY <3>1, FS_EmptySet
  <2>2. ASSUME NEW c \in Covered(f, b)
        PROVE  mem.cell[c] = (mem.cell[c] + MovedBy(f, b, 0, c)) % Size
    <3>1. c \in Nat /\ b \in Nat /\ mem.cell[c] \in 0 .. Size - 1
      BY CoveredFacts DEF Addr
    <3>2. MovedBy(f, b, 0, c) = 0
      BY <2>1, <3>1 DEF MovedBy
    <3>3. mem.cell[c] % Size = mem.cell[c]
      BY <3>1, LoaderAssumption, RemainderOfSmall
    <3> QED
      BY <3>1, <3>2, <3>3
  <2> QED
    BY <1>3, <2>2 DEF RelocationsDone
<1>5. ASSUME NEW j \in 1 .. n, j - 1 \in G
      PROVE  j \in G
  <2>1. PICK i \in Nat : i = j - 1 /\ j = i + 1 /\ i < n
    OBVIOUS
  <2>2. RelocationsDone(mem, f, b, i, g[i])
    BY <1>5, <2>1
  <2>3. g[j] = applyOne(g[i], b, relocations(f)[i + 1])
    BY <1>3, <2>1
  <2>4. RelocationsDone(mem, f, b, i + 1, g[j])
    BY <1>1, <2>1, <2>2, <2>3, RelocationStep
  <2> QED
    BY <2>1, <2>4
<1> HIDE DEF G
<1>6. \A k \in 0 .. n : k \in G
  BY <1>4, <1>5, Climbs
<1>7. n \in G
  BY <1>6
<1> QED
  BY <1>1, <1>3, <1>7 DEF G

-----------------------------------------------------------------------------
(* Images.                                                                 *)

\* The last segment over a cell, and over a page.
LastOver(f, b, c)   == Max({k \in DOMAIN f.loads : c - b \in f.loads[k].vaddr .. f.loads[k].vaddr + f.loads[k].memsz - 1})
LastOnPage(f, b, q) == Max({k \in DOMAIN f.loads : q \in PagesOf(b + f.loads[k].vaddr, f.loads[k].memsz)})

LEMMA LastOverFacts ==
    ASSUME NEW f, Loadable(f), NEW b \in Nat, NEW c \in Covered(f, b)
    PROVE  /\ LastOver(f, b, c) \in 1 .. Len(f.loads) /\ Over(b, f.loads[LastOver(f, b, c)], c)
           /\ \A i \in LastOver(f, b, c) + 1 .. Len(f.loads) : ~Over(b, f.loads[i], c)
           /\ Raw(b, f.loads[LastOver(f, b, c)], c) \in Addr
<1> DEFINE S == {k \in DOMAIN f.loads : c - b \in f.loads[k].vaddr .. f.loads[k].vaddr + f.loads[k].memsz - 1}
<1>1. PICK n \in Nat : n = Len(f.loads) /\ DOMAIN f.loads = 1 .. n
  BY LenProperties DEF Loadable
<1>2. \A k \in 1 .. n : f.loads[k] \in Segment
  BY <1>1, ElementOfSeq DEF Loadable
<1>3. c \in Nat
  BY CoverOfSegments
<1>4. \A k \in 1 .. n : k \in S <=> Over(b, f.loads[k], c)
  <2> SUFFICES ASSUME NEW k \in 1 .. n
               PROVE  k \in S <=> Over(b, f.loads[k], c)
    OBVIOUS
  <2>1. PICK v \in Nat, m \in Nat : v = f.loads[k].vaddr /\ m = f.loads[k].memsz
    BY <1>2 DEF Segment
  <2>2. c - b \in v .. v + m - 1 <=> c \in b + v .. b + v + m - 1
    BY <1>3
  <2> QED
    BY <1>1, <2>1, <2>2 DEF Over
<1>5. S \subseteq 1 .. n /\ S # {}
  <2>1. \E k \in 1 .. n : Over(b, f.loads[k], c)
    BY <1>1, CoverOfSegments
  <2> QED
    BY <1>1, <1>4, <2>1
<1>6. PICK l \in 1 .. n : l = LastOver(f, b, c) /\ l \in S /\ \A k \in S : k <= l
  <2> HIDE DEF S
  <2>1. Max(S) \in S /\ \A k \in S : k <= Max(S)
    BY <1>5, LargestOf
  <2> QED
    BY <1>5, <2>1 DEF LastOver, S
<1>7. Over(b, f.loads[l], c) /\ \A i \in l + 1 .. n : ~Over(b, f.loads[i], c)
  <2>1. \A i \in l + 1 .. n : i \in 1 .. n /\ ~(i <= l)
    OBVIOUS
  <2> HIDE DEF S
  <2> QED
    BY <1>4, <1>6, <2>1
<1>8. Raw(b, f.loads[l], c) \in Addr
  <2>1. PICK p \in Segment : p = f.loads[l] /\ p.filesz = Len(p.file)
    BY <1>1, <1>2 DEF Loadable
  <2>2. p.vaddr \in Nat /\ p.filesz \in Nat /\ p.file \in Seq(Addr)
    BY <2>1 DEF Segment
  <2>3. 0 \in Addr
    BY LoaderAssumption DEF Addr
  <2>4. CASE c - b - p.vaddr < p.filesz
    <3>1. c - b - p.vaddr >= 0
      BY <1>3, <1>7, <2>1, <2>2 DEF Over
    <3>2. PICK i \in 1 .. Len(p.file) : i = c - b - p.vaddr + 1
      BY <1>3, <2>1, <2>2, <2>4, <3>1
    <3>3. p.file[i] \in Addr
      BY <2>2, ElementOfSeq
    <3> QED
      BY <2>1, <2>4, <3>2, <3>3 DEF Raw
  <2> QED
    BY <2>1, <2>3, <2>4 DEF Raw
<1> QED
  BY <1>1, <1>6, <1>7, <1>8

LEMMA LastOnPageFacts ==
    ASSUME NEW f, Loadable(f), NEW b \in Nat, NEW q \in ImagePages(f, b)
    PROVE  /\ LastOnPage(f, b, q) \in 1 .. Len(f.loads) /\ q \in SegPages(b, f.loads[LastOnPage(f, b, q)])
           /\ \A i \in LastOnPage(f, b, q) + 1 .. Len(f.loads) : q \notin SegPages(b, f.loads[i])
<1> DEFINE S == {k \in DOMAIN f.loads : q \in PagesOf(b + f.loads[k].vaddr, f.loads[k].memsz)}
<1>1. PICK n \in Nat : n = Len(f.loads) /\ DOMAIN f.loads = 1 .. n
  BY LenProperties DEF Loadable
<1>2. \A k \in 1 .. n : k \in S <=> q \in SegPages(b, f.loads[k])
  BY <1>1 DEF SegPages
<1>3. S \subseteq 1 .. n /\ S # {}
  <2>1. \E k \in 1 .. n : q \in SegPages(b, f.loads[k])
    BY <1>1, CoverOfSegments
  <2> QED
    BY <1>1, <1>2, <2>1
<1>4. PICK l \in 1 .. n : l = LastOnPage(f, b, q) /\ l \in S /\ \A k \in S : k <= l
  <2> HIDE DEF S
  <2>1. Max(S) \in S /\ \A k \in S : k <= Max(S)
    BY <1>3, LargestOf
  <2> QED
    BY <1>3, <2>1 DEF LastOnPage, S
<1>5. q \in SegPages(b, f.loads[l]) /\ \A i \in l + 1 .. n : q \notin SegPages(b, f.loads[i])
  <2>1. \A i \in l + 1 .. n : i \in 1 .. n /\ ~(i <= l)
    OBVIOUS
  <2> HIDE DEF S
  <2> QED
    BY <1>2, <1>4, <2>1
<1> QED
  BY <1>1, <1>4, <1>5

\* Memory r differs from mem only where the file is.
OnlyThere(mem, f, b, r) ==
    /\ IsMemory(r)
    /\ DOMAIN mem.perm \subseteq DOMAIN r.perm /\ DOMAIN r.perm \subseteq DOMAIN mem.perm \cup ImagePages(f, b)
    /\ \A q \in DOMAIN mem.perm \ ImagePages(f, b) : r.perm[q] = mem.perm[q]
    /\ \A a \in Addr \ Covered(f, b) : r.cell[a] = mem.cell[a]

\* The pages of a file have the permissions of the last segment on them.
HasPages(f, b, perm) == \A q \in ImagePages(f, b) : q \in DOMAIN perm /\ perm[q] = PageFlags(f, b, q)

\* The cells of a file hold its words, relocated.
HasWords(f, b, cell) == \A c \in Covered(f, b) : cell[c] = WordOf(f, b, c)

LEMMA SegmentsGive ==
    ASSUME NEW f, Loadable(f), NEW b \in Nat, Covered(f, b) \subseteq Addr, NEW mem, IsMemory(mem), NEW r,
           r = loadSegments(mem, f, b)
    PROVE  /\ OnlyThere(mem, f, b, r) /\ HasPages(f, b, r.perm) /\ r.ok = mem.ok
           /\ \A c \in Covered(f, b) : /\ r.cell[c] = Raw(b, f.loads[LastOver(f, b, c)], c)
                                       /\ r.cell[c] \in Addr
<1>0. f.loads \in Seq(Segment) /\ \A k \in DOMAIN f.loads : f.loads[k].filesz <= f.loads[k].memsz
  BY DEF Loadable
<1>1. PICK s \in Seq(Segment), n \in Nat : s = f.loads /\ n = Len(s) /\ SegmentsDone(mem, b, s, n, r)
  <2>1. SegmentsDone(mem, b, f.loads, Len(f.loads), r) /\ Len(f.loads) \in Nat
    BY <1>0, LenProperties, SegmentsLoad
  <2> QED
    BY <1>0, <2>1, Zenon
<1>2. OnlyThere(mem, f, b, r)
  <2>1. IsMemory(r)
    BY <1>1 DEF SegmentsDone
  <2>2. /\ \A c : c \in Covered(f, b) <=> \E k \in 1 .. n : Over(b, s[k], c)
        /\ \A q : q \in ImagePages(f, b) <=> \E k \in 1 .. n : q \in SegPages(b, s[k])
    BY <1>1, CoverOfSegments
  <2>3. \A q : q \in DOMAIN r.perm <=> q \in DOMAIN mem.perm \/ q \in ImagePages(f, b)
    BY <1>1, <2>2 DEF SegmentsDone
  <2>4. \A q \in DOMAIN r.perm : q \notin ImagePages(f, b) => r.perm[q] = mem.perm[q]
    BY <1>1, <2>2 DEF SegmentsDone
  <2>5. \A a \in Addr \ Covered(f, b) : r.cell[a] = mem.cell[a]
    BY <1>1, <2>2 DEF SegmentsDone
  <2> QED
    BY <2>1, <2>3, <2>4, <2>5 DEF OnlyThere
<1>3. HasPages(f, b, r.perm)
  <2> SUFFICES ASSUME NEW q \in ImagePages(f, b)
               PROVE  q \in DOMAIN r.perm /\ r.perm[q] = PageFlags(f, b, q)
    BY DEF HasPages
  <2>1. PICK l \in 1 .. n : /\ l = LastOnPage(f, b, q) /\ q \in SegPages(b, s[l])
                            /\ \A i \in l + 1 .. n : q \notin SegPages(b, s[i])
    BY <1>1, LastOnPageFacts
  <2>2. q \in DOMAIN r.perm /\ r.perm[q] = flagsToPerm(s[l].flags)
    BY <1>1, <2>1, Zenon DEF SegmentsDone
  <2>3. PageFlags(f, b, q) = flagsToPerm(f.loads[LastOnPage(f, b, q)].flags)
    BY DEF PageFlags, LastOnPage
  <2> QED
    BY <1>1, <2>1, <2>2, <2>3
<1>4. ASSUME NEW c \in Covered(f, b)
      PROVE  r.cell[c] = Raw(b, f.loads[LastOver(f, b, c)], c) /\ r.cell[c] \in Addr
  <2>1. PICK l \in 1 .. n : /\ l = LastOver(f, b, c) /\ Over(b, s[l], c)
                            /\ \A i \in l + 1 .. n : ~Over(b, s[i], c)
                            /\ Raw(b, s[l], c) \in Addr
    BY <1>1, LastOverFacts
  <2>2. r.cell[c] = Raw(b, s[l], c)
    BY <1>1, <2>1, Zenon DEF SegmentsDone
  <2> QED
    BY <1>1, <2>1, <2>2
<1> QED
  BY <1>1, <1>2, <1>3, <1>4 DEF SegmentsDone

\* The word of a cell from its raw word, with and without relocations.
LEMMA WordFromRaw ==
    ASSUME NEW f, Loadable(f), NEW b \in Nat, NEW c \in Covered(f, b), NEW w \in Int,
           w = Raw(b, f.loads[LastOver(f, b, c)], c)
    PROVE  /\ ~f.dynamic => WordOf(f, b, c) = w % Size
           /\ f.dynamic /\ f \in File /\ b \in Biases =>
                 WordOf(f, b, c) = (w + MovedBy(f, b, Len(relocations(f)), c)) % Size
<1>1. PICK n : n = LastOver(f, b, c)
  OBVIOUS
<1>2. w = IF c - b - f.loads[n].vaddr < f.loads[n].filesz THEN f.loads[n].file[c - b - f.loads[n].vaddr + 1] ELSE 0
  BY <1>1 DEF Raw
<1> DEFINE all == IF f.dynamic THEN relocations(f) ELSE <<>>
           N(t) == Cardinality({k \in DOMAIN all : /\ all[k].offset = c - b /\ all[k].type = t
                                                   /\ t = "PC32" => all[k].sym = 0})
<1>3. WordOf(f, b, c) = (w + b * N("RELATIVE") - c * N("PC32")) % Size
  BY <1>1, <1>2 DEF WordOf, LastOver
<1>4. c \in Nat
  BY CoverOfSegments
<1>5. ASSUME ~f.dynamic
      PROVE  WordOf(f, b, c) = w % Size
  <2>1. \A t : N(t) = 0
    <3>1. all = <<>>
      BY <1>5
    <3>2. DOMAIN all = {}
      BY <3>1
    <3> HIDE DEF all
    <3>3. \A t : {k \in DOMAIN all : /\ all[k].offset = c - b /\ all[k].type = t
                                     /\ t = "PC32" => all[k].sym = 0} = {}
      BY <3>2
    <3> QED
      BY <3>3, FS_EmptySet, Zenon
  <2> HIDE DEF N
  <2> QED
    BY <1>3, <1>4, <2>1
<1>6. ASSUME f.dynamic, f \in File, b \in Biases
      PROVE  WordOf(f, b, c) = (w + MovedBy(f, b, Len(relocations(f)), c)) % Size
  <2>1. all = relocations(f) /\ DOMAIN relocations(f) = 1 .. Len(relocations(f)) /\ Len(relocations(f)) \in Nat
    BY <1>6, FileFacts
  <2>2. \A t : N(t) = Cardinality(Moves(f, b, Len(relocations(f)), c, t))
    BY <2>1, Zenon DEF Moves
  <2>3. \A t : N(t) \in Nat
    <3>1. ASSUME NEW t
          PROVE  Cardinality(Moves(f, b, Len(relocations(f)), c, t)) \in Nat
      <4>1. IsFiniteSet(1 .. Len(relocations(f))) /\ Moves(f, b, Len(relocations(f)), c, t) \subseteq 1 .. Len(relocations(f))
        BY <2>1, FS_Interval DEF Moves
      <4> QED
        BY <4>1, FS_Subset, FS_CardinalityType
    <3> QED
      BY <2>2, <3>1, Zenon
  <2> HIDE DEF N
  <2>4. PICK y \in Int, z \in Int : y = b * N("RELATIVE") /\ z = c * N("PC32")
    BY <1>4, <2>3
  <2>5. MovedBy(f, b, Len(relocations(f)), c) = y - z
    BY <2>2, <2>4, Zenon DEF MovedBy
  <2>6. w + y - z = w + (y - z)
    OBVIOUS
  <2> QED
    BY <1>3, <2>4, <2>5, <2>6
<1> QED
  BY <1>5, <1>6

\* A file that loads has its words and pages, and only those are new.
LEMMA ImageLoads ==
    ASSUME NEW f \in File, NEW b \in Biases, NEW mem, IsMemory(mem), NEW r, r = loadELF32Image(mem, f, b)
    PROVE  /\ OnlyThere(mem, f, b, r)
           /\ r.ok => mem.ok /\ HasPages(f, b, r.perm) /\ HasWords(f, b, r.cell)
<1>1. b \in Nat /\ Loadable(f) /\ Covered(f, b) \subseteq Addr /\ f \notin {BadFile, NoFile} /\ Size \in Nat \ {0}
  BY CoveredFacts, FileFacts, LoaderAssumption
<1>2. PICK l : l = loadSegments(mem, f, b)
  OBVIOUS
<1>3. /\ OnlyThere(mem, f, b, l) /\ HasPages(f, b, l.perm) /\ l.ok = mem.ok
      /\ \A c \in Covered(f, b) : l.cell[c] = Raw(b, f.loads[LastOver(f, b, c)], c) /\ l.cell[c] \in Addr
  BY <1>1, <1>2, SegmentsGive
<1>4. CASE f.type \notin {"EXEC", "DYN"}
  <2>1. r = [mem EXCEPT !.ok = FALSE]
    BY <1>1, <1>4 DEF loadELF32Image
  <2>2. r = [perm |-> mem.perm, cell |-> mem.cell, ok |-> FALSE]
    BY <2>1 DEF IsMemory
  <2>3. IsMemory(r)
    BY <2>2 DEF IsMemory
  <2> QED
    BY <2>2, <2>3 DEF OnlyThere
<1>5. CASE f.type \in {"EXEC", "DYN"} /\ ~f.dynamic
  <2>1. r = l
    BY <1>1, <1>2, <1>5 DEF loadELF32Image
  <2>2. ASSUME NEW c \in Covered(f, b)
        PROVE  l.cell[c] = WordOf(f, b, c)
    <3>1. PICK w \in Addr : w = l.cell[c] /\ w = Raw(b, f.loads[LastOver(f, b, c)], c)
      BY <1>3
    <3>2. w \in Int /\ w % Size = w
      BY <1>1, <3>1, RemainderOfSmall DEF Addr
    <3>3. WordOf(f, b, c) = w % Size
      BY <1>1, <1>5, <3>1, <3>2, WordFromRaw
    <3> QED
      BY <3>1, <3>2, <3>3
  <2> QED
    BY <1>3, <2>1, <2>2 DEF HasWords
<1>6. CASE f.type \in {"EXEC", "DYN"} /\ f.dynamic
  <2>1. r = applyELF32Relocations(l, f, b)
    BY <1>1, <1>2, <1>6 DEF loadELF32Image
  <2>2. IsMemory(l)
    BY <1>3 DEF OnlyThere
  <2>3. RelocationsDone(l, f, b, Len(relocations(f)), r)
    BY <1>3, <2>1, <2>2, RelocationsApply
  <2>4. OnlyThere(mem, f, b, r)
    BY <1>3, <2>3 DEF OnlyThere, RelocationsDone
  <2>5. ASSUME r.ok
        PROVE  mem.ok /\ HasPages(f, b, r.perm) /\ HasWords(f, b, r.cell)
    <3>1. HasPages(f, b, r.perm) /\ mem.ok
      BY <1>3, <2>3, <2>5 DEF RelocationsDone
    <3>2. ASSUME NEW c \in Covered(f, b)
          PROVE  r.cell[c] = WordOf(f, b, c)
      <4>1. PICK w \in Addr : w = l.cell[c] /\ w = Raw(b, f.loads[LastOver(f, b, c)], c)
        BY <1>3
      <4>2. w \in Int
        BY LoaderAssumption DEF Addr
      <4>3. WordOf(f, b, c) = (w + MovedBy(f, b, Len(relocations(f)), c)) % Size
        BY <1>1, <1>6, <4>1, <4>2, WordFromRaw
      <4>4. r.cell[c] = (w + MovedBy(f, b, Len(relocations(f)), c)) % Size
        BY <2>3, <2>5, <4>1 DEF RelocationsDone
      <4> QED
        BY <4>3, <4>4
    <3> QED
      BY <3>1, <3>2 DEF HasWords
  <2> QED
    BY <2>4, <2>5
<1> QED
  BY <1>4, <1>5, <1>6

-----------------------------------------------------------------------------
(* Processes.                                                              *)

FilesOK == files \in [Path -> File \cup {BadFile, NoFile}]

\* What a load must return: the images it names are in memory and not on the
\* stack, and unless errors are passed over nothing else has been mapped.
WellLoaded(mem, p) ==
    /\ p = [mem |-> p.mem, ok |-> p.ok, main |-> p.main, bias |-> p.bias, interp |-> p.interp,
            entry |-> p.entry, base |-> p.base, brk |-> p.brk]
    /\ IsMemory(p.mem)
    /\ p.bias \in Nat /\ p.base \in Nat /\ p.main.entry \in Nat /\ p.main.phdr \in Nat
    /\ \A im \in Images(p) : /\ HasPages(im[1], im[2], p.mem.perm) /\ HasWords(im[1], im[2], p.mem.cell)
                             /\ ImagePages(im[1], im[2]) \cap StackPages = {}
                             /\ \A c \in Covered(im[1], im[2]) : /\ c \in Addr
                                                                 /\ c \div PageCells \in ImagePages(im[1], im[2])
    /\ ~lenient => \A q \in DOMAIN p.mem.perm : \/ q \in DOMAIN mem.perm \/ q \in StackPages
                                               \/ \E im \in Images(p) : q \in ImagePages(im[1], im[2])

\* An image is not touched by one that is loaded on other pages.
LEMMA OthersStay ==
    ASSUME NEW f \in File, NEW b \in Biases, NEW g \in File, NEW d \in Biases,
           ImagePages(f, b) \cap ImagePages(g, d) = {}, NEW mem, NEW r, OnlyThere(mem, g, d, r),
           HasPages(f, b, mem.perm), HasWords(f, b, mem.cell)
    PROVE  HasPages(f, b, r.perm) /\ HasWords(f, b, r.cell)
<1>1. /\ b \in Nat /\ Loadable(f) /\ d \in Nat /\ Loadable(g)
      /\ Covered(f, b) \subseteq Addr
  BY CoveredFacts
<1>2. /\ \A c \in Covered(f, b) : c \div PageCells \in ImagePages(f, b)
      /\ \A c \in Covered(g, d) : c \div PageCells \in ImagePages(g, d)
  BY <1>1, CoverOfSegments
<1>3. HasPages(f, b, r.perm)
  BY DEF HasPages, OnlyThere
<1>4. HasWords(f, b, r.cell)
  BY <1>1, <1>2 DEF HasWords, OnlyThere
<1> QED
  BY <1>3, <1>4

\* Mapping the stack leaves cells and other pages.
WithStack(mem, r) == /\ IsMemory(r) /\ r.cell = mem.cell
                     /\ DOMAIN r.perm = DOMAIN mem.perm \cup StackPages
                     /\ \A q \in DOMAIN mem.perm \ StackPages : r.perm[q] = mem.perm[q]

LEMMA StackIsMapped ==
    ASSUME NEW t, IsMemory(t)
    PROVE  WithStack(t, mapStack(t))
<1> DEFINE r == setPerm(t, StackPages, {"R", "W"})
<1>1. mapStack(t) = r
  BY DEF mapStack, map
<1>2. /\ r = [perm |-> r.perm, cell |-> t.cell, ok |-> t.ok]
      /\ DOMAIN r.perm = DOMAIN t.perm \cup StackPages
      /\ \A q \in DOMAIN t.perm : q \notin StackPages => r.perm[q] = t.perm[q]
  BY DEF setPerm, IsMemory
<1> HIDE DEF r
<1>3. IsMemory(r)
  BY <1>2 DEF IsMemory
<1>4. r.cell = t.cell
  BY <1>2
<1> QED
  BY <1>1, <1>2, <1>3, <1>4 DEF WithStack

LEMMA StackMapped ==
    ASSUME NEW mem, IsMemory(mem), NEW r, r = mapStack([mem EXCEPT !.ok = TRUE])
    PROVE  WithStack(mem, r)
<1>1. PICK t : t = [mem EXCEPT !.ok = TRUE]
  OBVIOUS
<1>2. IsMemory(t) /\ t.perm = mem.perm /\ t.cell = mem.cell
  BY <1>1 DEF IsMemory
<1>3. r = mapStack(t)
  BY <1>1, Zenon
<1>4. WithStack(t, mapStack(t))
  BY <1>2, StackIsMapped, Zenon
<1> QED
  BY <1>2, <1>3, <1>4, Zenon DEF WithStack

\* One image as it is in memory before and after the stack is mapped.
ImageThere(f, b, mem) ==
    /\ HasPages(f, b, mem.perm) /\ HasWords(f, b, mem.cell)
    /\ ImagePages(f, b) \cap StackPages = {}
    /\ \A c \in Covered(f, b) : c \in Addr /\ c \div PageCells \in ImagePages(f, b)

LEMMA ThereWithStack ==
    ASSUME NEW f, NEW b, NEW mem, NEW r, WithStack(mem, r), ImageThere(f, b, mem)
    PROVE  ImageThere(f, b, r)
BY DEF ImageThere, HasPages, WithStack

LEMMA FileThere ==
    ASSUME NEW f \in File, NEW b \in Biases, NEW mem, HasPages(f, b, mem.perm), HasWords(f, b, mem.cell)
    PROVE  ImageThere(f, b, mem)
<1>1. b \in Nat /\ Loadable(f) /\ Covered(f, b) \subseteq Addr
  BY CoveredFacts
<1>2. ImagePages(f, b) \cap StackPages = {}
  BY LayoutAssumption DEF Biases
<1>3. \A c \in Covered(f, b) : c \div PageCells \in ImagePages(f, b)
  BY <1>1, CoverOfSegments
<1> QED
  BY <1>1, <1>2, <1>3 DEF ImageThere

\* A file that is no program leaves memory as it was.
LEMMA NoImage ==
    ASSUME NEW f, f = BadFile \/ f = NoFile, NEW b, NEW mem, IsMemory(mem), NEW r, r = loadELF32Image(mem, f, b)
    PROVE  IsMemory(r) /\ ~r.ok /\ r.perm = mem.perm /\ r.cell = mem.cell
<1>1. r = [mem EXCEPT !.ok = FALSE]
  BY DEF loadELF32Image
<1>2. r = [perm |-> mem.perm, cell |-> mem.cell, ok |-> FALSE]
  BY <1>1 DEF IsMemory
<1> QED
  BY <1>2 DEF IsMemory

LEMMA ProcessLoads ==
    ASSUME FilesOK, NEW f \in File \cup {BadFile, NoFile}, NEW mem, IsMemory(mem), NEW p,
           p = loadELF32Process(mem, f)
    PROVE  /\ IsMemory(p.mem) /\ p.ok \in BOOLEAN
           /\ p.ok => f \in File /\ WellLoaded(mem, p)
<1>1. PICK b, main : b = biasOf(f) /\ main = loadELF32Image(mem, f, b)
  OBVIOUS
<1>2. PICK g \in File \cup {BadFile, NoFile} : g = files[InterpPath]
  BY LoaderAssumption DEF FilesOK
<1>3. PICK second : second = loadELF32Image(main, g, InterpBias)
  OBVIOUS
<1>4. IsMemory(main) /\ main.ok \in BOOLEAN /\ (main.ok => f \in File)
  <2>1. CASE f \in File
    <3>1. b \in Biases
      BY <1>1, <2>1, FileFacts
    <3> QED
      BY <1>1, <2>1, <3>1, ImageLoads DEF OnlyThere, IsMemory
  <2>2. CASE f = BadFile \/ f = NoFile
    BY <1>1, <2>2, NoImage DEF IsMemory
  <2> QED
    BY <2>1, <2>2
<1>5. IsMemory(second) /\ second.ok \in BOOLEAN /\ (second.ok => g \in File)
  <2>1. CASE g \in File
    <3>1. InterpBias \in Biases
      BY DEF Biases
    <3> QED
      BY <1>3, <1>4, <2>1, <3>1, ImageLoads DEF OnlyThere, IsMemory
  <2>2. CASE g = BadFile \/ g = NoFile
    BY <1>3, <1>4, <2>2, NoImage DEF IsMemory
  <2> QED
    BY <2>1, <2>2
<1> DEFINE wants == main.ok /\ f.interp
           ip    == wants /\ second.ok
           all   == IF wants THEN second ELSE main
<1>6. p = IF ~main.ok \/ (wants /\ ~second.ok /\ ~lenient) THEN [mem |-> all, ok |-> FALSE]
          ELSE [mem |-> mapStack([all EXCEPT !.ok = TRUE]), ok |-> TRUE,
                main |-> f, bias |-> b,
                interp |-> IF ip THEN g ELSE NoFile,
                entry |-> IF ip THEN InterpBias + g.entry ELSE b + f.entry,
                base |-> IF ip THEN InterpBias ELSE 0,
                brk |-> brkOf(f, b)]
  BY <1>1, <1>2, <1>3 DEF loadELF32Process
<1>7. IsMemory(all)
  BY <1>4, <1>5
<1>8. CASE ~main.ok \/ (wants /\ ~second.ok /\ ~lenient)
  <2> HIDE DEF all, wants
  <2> QED
    BY <1>6, <1>7, <1>8
<1>9. CASE ~(~main.ok \/ (wants /\ ~second.ok /\ ~lenient))
  <2>1. f \in File /\ main.ok /\ b \in Biases /\ b \in Nat /\ f.entry \in Nat /\ f.phdr \in Nat /\ InterpBias \in Nat
        /\ InterpBias \in Biases
    BY <1>1, <1>4, <1>9, FileFacts, CoveredFacts, LoaderAssumption DEF Program, Biases
  <2>2. OnlyThere(mem, f, b, main) /\ HasPages(f, b, main.perm) /\ HasWords(f, b, main.cell)
    BY <1>1, <2>1, ImageLoads
  <2>3. PICK stacked : stacked = mapStack([all EXCEPT !.ok = TRUE])
    OBVIOUS
  <2>4. ImageThere(f, b, all)
    <3>1. CASE ~wants
      BY <2>1, <2>2, <3>1, FileThere
    <3>2. CASE wants /\ g \in File
      <4>1. OnlyThere(main, g, InterpBias, second)
        BY <1>3, <1>4, <2>1, <3>2, ImageLoads
      <4>2. ImagePages(f, b) \cap ImagePages(g, InterpBias) = {}
        BY <1>1, <2>1, <3>2, LayoutAssumption
      <4>3. HasPages(f, b, second.perm) /\ HasWords(f, b, second.cell)
        BY <2>1, <2>2, <3>2, <4>1, <4>2, OthersStay
      <4> QED
        BY <2>1, <3>2, <4>3, FileThere
    <3>3. CASE wants /\ (g = BadFile \/ g = NoFile)
      <4>1. second.perm = main.perm /\ second.cell = main.cell
        BY <1>3, <1>4, <3>3, NoImage
      <4> QED
        BY <2>1, <2>2, <3>3, <4>1, FileThere
    <3> QED
      BY <3>1, <3>2, <3>3
  <2>5. ip => g \in File /\ ImageThere(g, InterpBias, all)
    <3> SUFFICES ASSUME ip
                 PROVE  g \in File /\ ImageThere(g, InterpBias, all)
      OBVIOUS
    <3>1. g \in File /\ all = second
      BY <1>5
    <3>2. HasPages(g, InterpBias, second.perm) /\ HasWords(g, InterpBias, second.cell)
      BY <1>3, <1>4, <2>1, <3>1, ImageLoads
    <3> QED
      BY <2>1, <3>1, <3>2, FileThere
  <2>6. ~lenient => \A q \in DOMAIN all.perm : \/ q \in DOMAIN mem.perm \/ q \in ImagePages(f, b)
                                               \/ ip /\ q \in ImagePages(g, InterpBias)
    <3> SUFFICES ASSUME ~lenient
                 PROVE  \A q \in DOMAIN all.perm : \/ q \in DOMAIN mem.perm \/ q \in ImagePages(f, b)
                                                   \/ ip /\ q \in ImagePages(g, InterpBias)
      OBVIOUS
    <3>1. CASE ~wants
      BY <2>2, <3>1 DEF OnlyThere
    <3>2. CASE wants
      <4>1. second.ok /\ ip /\ g \in File /\ all = second
        BY <1>5, <1>9, <3>2
      <4>2. OnlyThere(main, g, InterpBias, second)
        BY <1>3, <1>4, <2>1, <4>1, ImageLoads
      <4> HIDE DEF all, wants, ip
      <4> QED
        BY <2>2, <4>1, <4>2 DEF OnlyThere
    <3> QED
      BY <3>1, <3>2
  <2>7. ip \in BOOLEAN
    OBVIOUS
  <2> HIDE DEF all, wants, ip
  <2>8. p = [mem |-> stacked, ok |-> TRUE, main |-> f, bias |-> b,
             interp |-> IF ip THEN g ELSE NoFile,
             entry |-> IF ip THEN InterpBias + g.entry ELSE b + f.entry,
             base |-> IF ip THEN InterpBias ELSE 0,
             brk |-> brkOf(f, b)]
    BY <1>6, <1>9, <2>3
  <2>9. /\ IsMemory(stacked) /\ DOMAIN stacked.perm = DOMAIN all.perm \cup StackPages
        /\ ImageThere(f, b, stacked) /\ (ip => ImageThere(g, InterpBias, stacked))
    <3>1. WithStack(all, stacked)
      BY <1>7, <2>3, StackMapped, Zenon
    <3> QED
      BY <2>4, <2>5, <3>1, ThereWithStack DEF WithStack
  <2>10. Images(p) = {<<f, b>>} \cup (IF ip THEN {<<g, InterpBias>>} ELSE {})
    <3>1. ip => g # NoFile
      BY <2>5, LoaderAssumption
    <3>2. p.main = f /\ p.bias = b /\ p.interp = IF ip THEN g ELSE NoFile
      BY <2>8
    <3> QED
      BY <2>7, <3>1, <3>2 DEF Images
  <2>11. /\ p = [mem |-> p.mem, ok |-> p.ok, main |-> p.main, bias |-> p.bias, interp |-> p.interp,
                 entry |-> p.entry, base |-> p.base, brk |-> p.brk]
         /\ p.mem = stacked /\ p.ok = TRUE /\ p.bias = b /\ p.main = f /\ p.base \in Nat
    BY <2>1, <2>8
  <2>12. \A im \in Images(p) : ImageThere(im[1], im[2], stacked)
    BY <2>9, <2>10
  <2>13. ~lenient => \A q \in DOMAIN stacked.perm : \/ q \in DOMAIN mem.perm \/ q \in StackPages
                                                   \/ \E im \in Images(p) : q \in ImagePages(im[1], im[2])
    <3>1. <<f, b>> \in Images(p) /\ (ip => <<g, InterpBias>> \in Images(p))
      BY <2>10
    <3>2. /\ \A q \in ImagePages(f, b) : \E im \in Images(p) : q \in ImagePages(im[1], im[2])
          /\ ip => \A q \in ImagePages(g, InterpBias) : \E im \in Images(p) : q \in ImagePages(im[1], im[2])
      <4>1. <<f, b>>[1] = f /\ <<f, b>>[2] = b /\ <<g, InterpBias>>[1] = g /\ <<g, InterpBias>>[2] = InterpBias
        OBVIOUS
      <4> QED
        BY <3>1, <4>1, Zenon
    <3> QED
      BY <2>6, <2>9, <3>2, Zenon
  <2>14. WellLoaded(mem, p)
    BY <2>1, <2>9, <2>11, <2>12, <2>13, Zenon DEF WellLoaded, ImageThere
  <2> QED
    BY <2>1, <2>9, <2>11, <2>14
<1> QED
  BY <1>8, <1>9

\* A range that ends earlier has no page that the longer one has not.
LEMMA FewerPages ==
    ASSUME NEW lo \in Nat, NEW n \in Nat, NEW w \in Nat, n <= w
    PROVE  PagesOf(lo, n) \subseteq PagesOf(lo, w)
<1>0. PICK p \in Nat \ {0} : p = PageCells
  BY LoaderAssumption
<1>1. PICK v \in Int, u \in Int : v = lo + n + p - 1 /\ u = lo + w + p - 1 /\ v <= u
  OBVIOUS
<1>2. PICK x \in Int, r \in 0 .. p - 1 : x = v \div p /\ v = p * x + r
  BY DivMod
<1>3. PICK y \in Int, s \in 0 .. p - 1 : y = u \div p /\ u = p * y + s
  BY DivMod
<1>4. x <= y
  <2> SUFFICES ASSUME x - y >= 1
               PROVE  FALSE
    OBVIOUS
  <2>1. p * (x - y) >= p
    OBVIOUS
  <2>2. p * (x - y) = p * x - p * y
    OBVIOUS
  <2>3. PICK i \in Int, j \in Int : i = p * x /\ j = p * y
    OBVIOUS
  <2> QED
    BY <1>1, <1>2, <1>3, <2>1, <2>2, <2>3
<1>5. lo \div p \in Int
  BY DivMod
<1> QED
  BY <1>0, <1>1, <1>2, <1>3, <1>4, <1>5 DEF PagesOf

\* Raw code is there like a program of one segment.
LEMMA FlatLoads ==
    ASSUME NEW f \in File, NEW mem, IsMemory(mem), NEW p, p = loadFlatBinary(mem, f)
    PROVE  WellLoaded(mem, p)
<1> DEFINE code == [f.loads[1] EXCEPT !.memsz = f.loads[1].filesz, !.flags = {"R", "X"}]
           flat == [f EXCEPT !.loads = <<code>>, !.dynamic = FALSE, !.phdr = 0]
<1>1. PICK s \in Segment : s = f.loads[1] /\ s.filesz <= s.memsz /\ s.filesz = Len(s.file)
  <2>1. 1 \in 1 .. Len(f.loads)
    BY FileFacts, LayoutAssumption
  <2> QED
    BY <2>1, FileFacts
<1>2. /\ code \in Segment /\ code.filesz = s.filesz /\ code.memsz = s.filesz /\ code.vaddr = s.vaddr
      /\ code.file = s.file
  BY <1>1 DEF Segment, RWX
<1> HIDE DEF code
<1>3. /\ flat.loads = <<code>> /\ ~flat.dynamic /\ flat.phdr = 0 /\ flat.entry = f.entry /\ f.entry \in Nat
  BY FileFacts DEF Program
<1>4. p = [mem |-> mapStack(loadSegment(mem, 0, code)), ok |-> TRUE,
           main |-> flat, bias |-> 0, interp |-> NoFile, entry |-> f.entry, base |-> 0,
           brk |-> brkOf(flat, 0)]
  BY Zenon DEF loadFlatBinary, code
<1> HIDE DEF flat
<1>5. /\ flat.loads \in Seq(Segment) /\ Len(flat.loads) = 1 /\ flat.loads[1] = code
      /\ DOMAIN flat.loads = 1 .. 1
  BY <1>2, <1>3
<1>6. Loadable(flat)
  <2>1. \A k \in 1 .. 1 : k = 1
    OBVIOUS
  <2>2. code.filesz = Len(code.file) /\ code.filesz <= code.memsz
    BY <1>1, <1>2 DEF Segment
  <2> QED
    BY <1>5, <2>1, <2>2 DEF Loadable
<1>7. 0 \in Biases /\ Loadable(f) /\ Covered(f, 0) \subseteq Addr
  BY CoveredFacts DEF Biases
<1>8. Covered(flat, 0) \subseteq Addr
  <2> SUFFICES ASSUME NEW c \in Covered(flat, 0)
               PROVE  c \in Covered(f, 0)
    BY <1>7
  <2>1. Over(0, code, c)
    BY <1>5, <1>6, CoverOfSegments
  <2>2. Over(0, s, c)
    <3>1. PICK v \in Nat, m \in Nat, n \in Nat : v = s.vaddr /\ m = s.memsz /\ n = s.filesz /\ n <= m
      BY <1>1 DEF Segment
    <3>2. c \in 0 + v .. 0 + v + n - 1
      BY <1>2, <2>1, <3>1 DEF Over
    <3>3. c \in 0 + v .. 0 + v + m - 1
      BY <3>1, <3>2
    <3> QED
      BY <3>1, <3>3 DEF Over
  <2>3. 1 \in 1 .. Len(f.loads)
    BY FileFacts, LayoutAssumption
  <2> QED
    BY <1>1, <1>7, <2>2, <2>3, CoverOfSegments
<1>9. ImagePages(flat, 0) \cap StackPages = {}
  <2>1. ASSUME NEW q \in ImagePages(flat, 0)
        PROVE  q \in ImagePages(f, 0)
    <3>1. q \in SegPages(0, code)
      BY <1>5, <1>6, <2>1, CoverOfSegments
    <3>2. PICK v \in Nat, m \in Nat, n \in Nat : v = 0 + s.vaddr /\ m = s.memsz /\ n = s.filesz /\ n <= m
      BY <1>1 DEF Segment
    <3>3. q \in PagesOf(v, n)
      BY <1>2, <3>1, <3>2 DEF SegPages
    <3>4. q \in PagesOf(v, m)
      BY <3>2, <3>3, FewerPages
    <3>5. q \in SegPages(0, s) /\ 1 \in 1 .. Len(f.loads)
      BY <3>2, <3>4, FileFacts, LayoutAssumption DEF SegPages
    <3> QED
      BY <1>1, <1>7, <3>5, CoverOfSegments
  <2>2. ImagePages(f, 0) \cap StackPages = {}
    BY LayoutAssumption
  <2> QED
    BY <2>1, <2>2
<1>10. PICK l : l = loadSegment(mem, 0, code) /\ l = loadSegments(mem, flat, 0)
  <2>0. Len(flat.loads) \in Nat
    BY <1>5
  <2>1. PICK g : BySegments(g, mem, flat, 0)
    BY <2>0, SegmentLoop, Zenon
  <2>2. g[0] = mem /\ g[1] = loadSegment(g[1 - 1], 0, flat.loads[1]) /\ loadSegments(mem, flat, 0) = g[1]
    BY <1>5, <2>1 DEF BySegments
  <2>3. loadSegments(mem, flat, 0) = loadSegment(mem, 0, code)
    BY <1>5, <2>2
  <2> QED
    BY <2>3
<1>11. /\ OnlyThere(mem, flat, 0, l) /\ HasPages(flat, 0, l.perm)
       /\ \A c \in Covered(flat, 0) : l.cell[c] = Raw(0, flat.loads[LastOver(flat, 0, c)], c) /\ l.cell[c] \in Addr
  BY <1>6, <1>8, <1>10, SegmentsGive
<1>12. HasWords(flat, 0, l.cell)
  <2> SUFFICES ASSUME NEW c \in Covered(flat, 0)
               PROVE  l.cell[c] = WordOf(flat, 0, c)
    BY DEF HasWords
  <2>1. PICK w \in Addr : w = l.cell[c] /\ w = Raw(0, flat.loads[LastOver(flat, 0, c)], c)
    BY <1>11
  <2>2. w \in Int /\ w % Size = w
    BY LoaderAssumption, RemainderOfSmall DEF Addr
  <2>3. WordOf(flat, 0, c) = w % Size
    BY <1>3, <1>6, <2>1, <2>2, WordFromRaw
  <2> QED
    BY <2>1, <2>2, <2>3
<1>13. ImageThere(flat, 0, l)
  BY <1>6, <1>8, <1>9, <1>11, <1>12, CoverOfSegments DEF ImageThere
<1>14. PICK r : r = mapStack(l) /\ WithStack(l, r)
  BY <1>11, StackIsMapped DEF OnlyThere
<1>15. ImageThere(flat, 0, r)
  BY <1>13, <1>14, ThereWithStack
<1>16. /\ p = [mem |-> p.mem, ok |-> p.ok, main |-> p.main, bias |-> p.bias, interp |-> p.interp,
               entry |-> p.entry, base |-> p.base, brk |-> p.brk]
       /\ p.mem = r /\ p.bias = 0 /\ p.main = flat /\ p.base = 0 /\ p.interp = NoFile
  <2>1. p = [mem |-> r, ok |-> TRUE, main |-> flat, bias |-> 0, interp |-> NoFile, entry |-> f.entry, base |-> 0,
             brk |-> brkOf(flat, 0)]
    BY <1>4, <1>10, <1>14, Zenon
  <2> QED
    BY <2>1
<1>17. Images(p) = {<<flat, 0>>}
  BY <1>16 DEF Images
<1>18. \A im \in Images(p) : ImageThere(im[1], im[2], r)
  BY <1>15, <1>17
<1>19. \A q \in DOMAIN r.perm : \/ q \in DOMAIN mem.perm \/ q \in StackPages
                                \/ \E im \in Images(p) : q \in ImagePages(im[1], im[2])
  <2>1. \A q \in DOMAIN r.perm : q \in DOMAIN mem.perm \/ q \in StackPages \/ q \in ImagePages(flat, 0)
    BY <1>11, <1>14 DEF OnlyThere, WithStack
  <2>2. \A q \in ImagePages(flat, 0) : \E im \in Images(p) : q \in ImagePages(im[1], im[2])
    <3>1. <<flat, 0>>[1] = flat /\ <<flat, 0>>[2] = 0 /\ <<flat, 0>> \in Images(p)
      BY <1>17
    <3> QED
      BY <3>1, Zenon
  <2> QED
    BY <2>1, <2>2, Zenon
<1>20. IsMemory(r) /\ p.main.entry \in Nat /\ p.main.phdr \in Nat /\ p.bias \in Nat /\ p.base \in Nat
  BY <1>3, <1>14, <1>16 DEF WithStack
<1> QED
  BY <1>16, <1>18, <1>19, <1>20, Zenon DEF WellLoaded, ImageThere

-----------------------------------------------------------------------------
(* The initial stack.                                                      *)

IsStack(st) == /\ st = [sp |-> st.sp, cell |-> st.cell]
               /\ st.sp \in 0 .. Size
               /\ st.cell = [a \in Addr |-> st.cell[a]]

\* What pushing the last k elements of s does.
PushedLast(st, s, n, k, r) ==
    /\ IsStack(r) /\ r.sp = st.sp - k
    /\ \A i \in n - k + 1 .. n : r.cell[st.sp - n + i - 1] = s[i]
    /\ \A a \in Addr : a \notin st.sp - k .. st.sp - 1 => r.cell[a] = st.cell[a]

\* What pushing all of s does: they lie in their order from the new top on.
Pushed(st, s, r) ==
    /\ IsStack(r) /\ r.sp = st.sp - Len(s)
    /\ \A i \in 1 .. Len(s) : r.cell[r.sp + i - 1] = s[i]
    /\ \A a \in Addr : a \notin r.sp .. st.sp - 1 => r.cell[a] = st.cell[a]

LEMMA OneMorePush ==
    ASSUME NEW st, IsStack(st), NEW s, NEW n \in Nat, n <= st.sp, NEW k \in Nat, k < n, NEW r,
           PushedLast(st, s, n, k, r)
    PROVE  PushedLast(st, s, n, k + 1, push(r, s[n - k]))
<1>1. PICK top \in Nat : top = st.sp /\ top <= Size /\ n <= top
  BY LoaderAssumption DEF IsStack
<1>2. IsStack(r) /\ r.sp = top - k /\ r.sp - 1 = top - k - 1 /\ top - k - 1 \in Addr /\ top - k - 1 \in 0 .. Size
  BY <1>1, LoaderAssumption DEF PushedLast, Addr
<1>3. PICK x, v, t : x \in Addr /\ x = top - k - 1 /\ v = s[n - k] /\ t = push(r, s[n - k])
  BY <1>2
<1>4. t = [sp |-> x, cell |-> [r.cell EXCEPT ![x] = v]]
  BY <1>2, <1>3 DEF push
<1>5. IsStack(t) /\ t.sp = top - (k + 1) /\ t.cell[x] = v /\ \A a \in Addr : a # x => t.cell[a] = r.cell[a]
  BY <1>1, <1>2, <1>3, <1>4 DEF IsStack
<1>6. ASSUME NEW i \in n - (k + 1) + 1 .. n
      PROVE  t.cell[st.sp - n + i - 1] = s[i]
  <2>1. CASE i = n - k
    <3>1. st.sp - n + i - 1 = x
      BY <1>1, <1>3, <2>1
    <3> QED
      BY <1>3, <1>5, <2>1, <3>1
  <2>2. CASE i # n - k
    <3>1. i \in n - k + 1 .. n
      BY <2>2
    <3>2. PICK a \in Addr : a = st.sp - n + i - 1 /\ a # x
      BY <1>1, <1>3, <3>1, LoaderAssumption DEF Addr
    <3>3. r.cell[a] = s[i]
      BY <3>1, <3>2 DEF PushedLast
    <3> QED
      BY <1>5, <3>2, <3>3
  <2> QED
    BY <2>1, <2>2
<1>7. ASSUME NEW a \in Addr, a \notin st.sp - (k + 1) .. st.sp - 1
      PROVE  t.cell[a] = st.cell[a]
  <2>1. a # x /\ a \notin st.sp - k .. st.sp - 1
    BY <1>1, <1>3, <1>7 DEF Addr
  <2> QED
    BY <1>5, <2>1 DEF PushedLast
<1> QED
  BY <1>1, <1>3, <1>5, <1>6, <1>7 DEF PushedLast

LEMMA PushAllDoes ==
    ASSUME NEW st, IsStack(st), NEW s, Len(s) \in Nat, Len(s) <= st.sp
    PROVE  Pushed(st, s, pushAll(st, s))
<1>1. PICK n \in Nat : n = Len(s) /\ n <= st.sp
  OBVIOUS
<1>2. PICK g : ByPushes(g, st, s)
  BY PushLoop
<1>3. g[0] = st /\ pushAll(st, s) = g[n] /\ \A k \in 1 .. n : g[k] = push(g[k - 1], s[n - k + 1])
  BY <1>1, <1>2 DEF ByPushes
<1> DEFINE G == {j \in Nat : j <= n => PushedLast(st, s, n, j, g[j])}
<1>4. 0 \in G
  <2>1. st.sp \in Int
    BY LoaderAssumption DEF IsStack
  <2>2. n - 0 + 1 .. n = {} /\ st.sp - 0 = st.sp
    BY <2>1
  <2> QED
    BY <1>3, <2>2 DEF PushedLast
<1>5. ASSUME NEW j \in 1 .. n, j - 1 \in G
      PROVE  j \in G
  <2>1. PICK i \in Nat : i = j - 1 /\ j = i + 1 /\ i < n /\ n - j + 1 = n - i
    OBVIOUS
  <2>2. PushedLast(st, s, n, i, g[i])
    BY <1>5, <2>1
  <2>3. g[j] = push(g[i], s[n - i])
    BY <1>3, <2>1
  <2>4. PushedLast(st, s, n, i + 1, g[j])
    BY <1>1, <2>1, <2>2, <2>3, OneMorePush
  <2> QED
    BY <2>1, <2>4
<1> HIDE DEF G
<1>6. \A k \in 0 .. n : k \in G
  BY <1>4, <1>5, Climbs
<1>7. n \in G
  BY <1>6
<1>8. PICK r : r = pushAll(st, s) /\ PushedLast(st, s, n, n, r)
  BY <1>3, <1>7 DEF G
<1>9. st.sp \in Int /\ n - n + 1 = 1
  BY LoaderAssumption DEF IsStack
<1>10. r.sp = st.sp - n /\ IsStack(r)
  BY <1>8 DEF PushedLast
<1>11. \A i \in 1 .. n : r.cell[r.sp + i - 1] = s[i]
  BY <1>8, <1>9, <1>10 DEF PushedLast
<1> QED
  BY <1>1, <1>8, <1>10, <1>11 DEF Pushed, PushedLast

\* The elements of two sequences one after the other.
LEMMA Joined ==
    ASSUME NEW s \in Seq(Int), NEW t \in Seq(Int)
    PROVE  /\ s \o t \in Seq(Int) /\ Len(s \o t) = Len(s) + Len(t)
           /\ Len(s) \in Nat /\ Len(t) \in Nat
           /\ \A i \in 1 .. Len(s) : (s \o t)[i] = s[i]
           /\ \A i \in 1 .. Len(t) : (s \o t)[Len(s) + i] = t[i]
<1>1. /\ s \o t \in Seq(Int) /\ Len(s \o t) = Len(s) + Len(t)
      /\ Len(s) \in Nat /\ Len(t) \in Nat
  BY ConcatProperties, LenProperties
<1>2. \A i \in 1 .. Len(s) + Len(t) : (s \o t)[i] = IF i <= Len(s) THEN s[i] ELSE t[i - Len(s)]
  BY ConcatProperties
<1>3. ASSUME NEW i \in 1 .. Len(s)
      PROVE  (s \o t)[i] = s[i]
  <2>1. i \in 1 .. Len(s) + Len(t) /\ i <= Len(s)
    BY <1>1
  <2> QED
    BY <1>2, <2>1
<1>4. ASSUME NEW i \in 1 .. Len(t)
      PROVE  (s \o t)[Len(s) + i] = t[i]
  <2>1. PICK k \in 1 .. Len(s) + Len(t) : k = Len(s) + i /\ ~(k <= Len(s)) /\ k - Len(s) = i
    BY <1>1
  <2> QED
    BY <1>2, <2>1
<1> QED
  BY <1>1, <1>3, <1>4

IsJoin(s, t, r, a, b) == /\ r \in Seq(Int) /\ Len(r) = a + b
                         /\ \A i \in 1 .. a : r[i] = s[i]
                         /\ \A i \in 1 .. b : r[a + i] = t[i]

LEMMA JoinIs ==
    ASSUME NEW s \in Seq(Int), NEW t \in Seq(Int), NEW a, NEW b, Len(s) = a, Len(t) = b
    PROVE  IsJoin(s, t, s \o t, a, b)
BY Joined, Zenon DEF IsJoin

\* Where argc, the pointers and the auxiliary entries are in the vector.
VectorOf(V, n, P, m, Q, l, X) ==
    /\ V \in Seq(Int) /\ Len(V) = n + m + 3 + l
    /\ V[1] = n /\ V[n + 2] = 0 /\ V[n + m + 3] = 0
    /\ \A i \in 1 .. n : V[1 + i] = P[i]
    /\ \A i \in 1 .. m : V[n + 2 + i] = Q[i]
    /\ \A i \in 1 .. l : V[n + m + 3 + i] = X[i]

LEMMA FiveJoins ==
    ASSUME NEW n \in Nat, NEW m \in Nat, NEW l \in Nat, NEW one, one[1] = n, NEW zero, zero[1] = 0,
           NEW P, NEW Q, NEW X, NEW A, NEW B, NEW C, NEW D, NEW V,
           IsJoin(one, P, A, 1, n), IsJoin(A, zero, B, n + 1, 1), IsJoin(B, Q, C, n + 2, m),
           IsJoin(C, zero, D, n + m + 2, 1), IsJoin(D, X, V, n + m + 3, l)
    PROVE  VectorOf(V, n, P, m, Q, l, X)
<1>1. A[1] = n /\ \A i \in 1 .. n : A[1 + i] = P[i]
  <2>1. 1 \in 1 .. 1
    OBVIOUS
  <2> QED
    BY <2>1, Zenon DEF IsJoin
<1>2. (\A i \in 1 .. n + 1 : B[i] = A[i]) /\ B[n + 2] = 0
  <2>1. n + 2 = (n + 1) + 1 /\ 1 \in 1 .. 1
    OBVIOUS
  <2>2. (\A i \in 1 .. n + 1 : B[i] = A[i]) /\ \A i \in 1 .. 1 : B[n + 1 + i] = zero[i]
    BY Zenon DEF IsJoin
  <2> QED
    BY <2>1, <2>2, Zenon
<1>3. (\A i \in 1 .. n + 2 : C[i] = B[i]) /\ \A i \in 1 .. m : C[n + 2 + i] = Q[i]
  BY Zenon DEF IsJoin
<1>4. (\A i \in 1 .. n + m + 2 : D[i] = C[i]) /\ D[n + m + 3] = 0
  <2>1. n + m + 3 = (n + m + 2) + 1 /\ 1 \in 1 .. 1
    OBVIOUS
  <2>2. (\A i \in 1 .. n + m + 2 : D[i] = C[i]) /\ \A i \in 1 .. 1 : D[n + m + 2 + i] = zero[i]
    BY Zenon DEF IsJoin
  <2> QED
    BY <2>1, <2>2, Zenon
<1>5. /\ V \in Seq(Int) /\ Len(V) = n + m + 3 + l
      /\ \A i \in 1 .. n + m + 3 : V[i] = D[i]
      /\ \A i \in 1 .. l : V[n + m + 3 + i] = X[i]
  BY Zenon DEF IsJoin
<1>6. V[1] = n /\ V[n + 2] = 0 /\ V[n + m + 3] = 0
  <2>1. 1 \in 1 .. n + 1 /\ 1 \in 1 .. n + 2 /\ 1 \in 1 .. n + m + 2 /\ 1 \in 1 .. n + m + 3
        /\ n + 2 \in 1 .. n + 2 /\ n + 2 \in 1 .. n + m + 2 /\ n + 2 \in 1 .. n + m + 3
        /\ n + m + 3 \in 1 .. n + m + 3
    OBVIOUS
  <2>2. V[1] = D[1] /\ D[1] = C[1] /\ C[1] = B[1] /\ B[1] = A[1]
    BY <1>2, <1>3, <1>4, <1>5, <2>1, Zenon
  <2>3. V[n + 2] = D[n + 2] /\ D[n + 2] = C[n + 2] /\ C[n + 2] = B[n + 2]
    BY <1>3, <1>4, <1>5, <2>1, Zenon
  <2>4. V[n + m + 3] = D[n + m + 3]
    BY <1>5, <2>1, Zenon
  <2> QED
    BY <1>1, <1>2, <1>4, <2>2, <2>3, <2>4, Zenon
<1>7. ASSUME NEW i \in 1 .. n
      PROVE  V[1 + i] = P[i]
  <2>1. PICK k \in 1 .. n + 1 : k = 1 + i /\ k \in 1 .. n + 2 /\ k \in 1 .. n + m + 2 /\ k \in 1 .. n + m + 3
    OBVIOUS
  <2> QED
    BY <1>1, <1>2, <1>3, <1>4, <1>5, <2>1, Zenon
<1>8. ASSUME NEW i \in 1 .. m
      PROVE  V[n + 2 + i] = Q[i]
  <2>1. PICK k \in 1 .. n + m + 2 : k = n + 2 + i /\ k \in 1 .. n + m + 3
    OBVIOUS
  <2> QED
    BY <1>3, <1>4, <1>5, <2>1, Zenon
<1> QED
  BY <1>5, <1>6, <1>7, <1>8, Zenon DEF VectorOf

LEMMA OneElement ==
    ASSUME NEW x \in Int
    PROVE  <<x>> \in Seq(Int) /\ Len(<<x>>) = 1 /\ <<x>>[1] = x
OBVIOUS

LEMMA VectorFacts ==
    ASSUME NEW n \in Nat, NEW m \in Nat, NEW l \in Nat, NEW P \in Seq(Int), NEW Q \in Seq(Int), NEW X \in Seq(Int),
           Len(P) = n, Len(Q) = m, Len(X) = l
    PROVE  VectorOf(<<n>> \o P \o <<0>> \o Q \o <<0>> \o X, n, P, m, Q, l, X)
<1>0. PICK one, zero : one = <<n>> /\ zero = <<0>>
  OBVIOUS
<1>1. /\ one \in Seq(Int) /\ Len(one) = 1 /\ one[1] = n
      /\ zero \in Seq(Int) /\ Len(zero) = 1 /\ zero[1] = 0
  <2>1. n \in Int /\ 0 \in Int
    OBVIOUS
  <2> QED
    BY <1>0, <2>1, OneElement, Zenon
<1>2. PICK A : A = one \o P
  OBVIOUS
<1>3. IsJoin(one, P, A, 1, n)
  BY <1>1, <1>2, JoinIs, Zenon
<1>4. PICK B : B = A \o zero
  OBVIOUS
<1>5. A \in Seq(Int) /\ Len(A) = n + 1
  BY <1>3 DEF IsJoin
<1>6. IsJoin(A, zero, B, n + 1, 1)
  BY <1>1, <1>4, <1>5, JoinIs, Zenon
<1>7. PICK C : C = B \o Q
  OBVIOUS
<1>8. B \in Seq(Int) /\ Len(B) = n + 2
  BY <1>6 DEF IsJoin
<1>9. IsJoin(B, Q, C, n + 2, m)
  BY <1>7, <1>8, JoinIs, Zenon
<1>10. PICK D : D = C \o zero
  OBVIOUS
<1>11. C \in Seq(Int) /\ Len(C) = n + m + 2
  BY <1>9 DEF IsJoin
<1>12. IsJoin(C, zero, D, n + m + 2, 1)
  BY <1>1, <1>10, <1>11, JoinIs, Zenon
<1>13. PICK V : V = D \o X
  OBVIOUS
<1>14. D \in Seq(Int) /\ Len(D) = n + m + 3
  BY <1>12 DEF IsJoin
<1>15. IsJoin(D, X, V, n + m + 3, l)
  BY <1>13, <1>14, JoinIs, Zenon
<1>16. VectorOf(V, n, P, m, Q, l, X)
  BY <1>1, <1>3, <1>6, <1>9, <1>12, <1>15, FiveJoins
<1> QED
  BY <1>0, <1>2, <1>4, <1>7, <1>10, <1>13, <1>16, Zenon

\* The smallest of some numbers, when it is known.
LEMMA SmallestIs ==
    ASSUME NEW S, S \subseteq Int, NEW x \in S, \A y \in S : x <= y
    PROVE  Min(S) = x
<1>1. Min(S) \in S /\ \A y \in S : Min(S) <= y
  BY DEF Min
<1>2. PICK z \in Int : z = Min(S)
  BY <1>1
<1>3. x \in Int /\ x <= z /\ z <= x
  BY <1>1, <1>2
<1> QED
  BY <1>2, <1>3

\* What a program finds on its stack.
ReadAs(cell, sp, p, argv, env, n, e) ==
    /\ cell[sp + 0] = n
    /\ \A i \in 1 .. n : cell[cell[sp + i]] = argv[i]
    /\ cell[sp + (n + 1)] = 0
    /\ \A i \in DOMAIN env : cell[cell[sp + (n + 1 + i)]] = env[i]
    /\ cell[sp + e] = 0
    /\ cell[sp + (e + 2 + 2 * Min({k \in 0 .. 7 : cell[sp + (e + 1 + 2 * k)] = 9}))] = p.bias + p.main.entry
    /\ cell[sp + (e + 2 + 2 * Min({k \in 0 .. 7 : cell[sp + (e + 1 + 2 * k)] = 7}))] = p.base
    /\ cell[cell[sp + (e + 2 + 2 * Min({k \in 0 .. 7 : cell[sp + (e + 1 + 2 * k)] = 25}))]] = RandomBlock
    /\ cell[cell[sp + (e + 2 + 2 * Min({k \in 0 .. 7 : cell[sp + (e + 1 + 2 * k)] = 31}))]] = ExecName

Parsed(cell, sp, p, argv, env) == ReadAs(cell, sp, p, argv, env, Len(argv), Len(argv) + 2 + Len(env))

\* The auxiliary entries of a program.
Aux(p) == << 3, p.bias + p.main.phdr, 7, p.base, 9, p.bias + p.main.entry,
             25, StackTop - 1, 15, StackTop - 2, 31, StackTop - 3, 0, 0 >>

LEMMA AuxFacts ==
    ASSUME NEW p, p.bias \in Nat, p.base \in Nat, p.main.entry \in Nat, p.main.phdr \in Nat
    PROVE  /\ Aux(p) \in Seq(Int) /\ Len(Aux(p)) = 14
           /\ Aux(p)[1] = 3 /\ Aux(p)[3] = 7 /\ Aux(p)[5] = 9 /\ Aux(p)[7] = 25
           /\ Aux(p)[9] = 15 /\ Aux(p)[11] = 31 /\ Aux(p)[13] = 0
           /\ Aux(p)[4] = p.base /\ Aux(p)[6] = p.bias + p.main.entry
           /\ Aux(p)[8] = StackTop - 1 /\ Aux(p)[12] = StackTop - 3
<1>1. PICK u \in Int, v \in Int, w \in Int, x \in Int, y \in Int, z \in Int :
         /\ u = p.bias + p.main.phdr /\ v = p.base /\ w = p.bias + p.main.entry
         /\ x = StackTop - 1 /\ y = StackTop - 2 /\ z = StackTop - 3
  BY LoaderAssumption
<1>2. Aux(p) = << 3, u, 7, v, 9, w, 25, x, 15, y, 31, z, 0, 0 >>
  BY <1>1, Zenon DEF Aux
<1>3. PICK s : s = << 3, u, 7, v, 9, w, 25, x, 15, y, 31, z, 0, 0 >>
  OBVIOUS
<1>4. /\ s \in Seq(Int) /\ Len(s) = 14
      /\ s[1] = 3 /\ s[3] = 7 /\ s[5] = 9 /\ s[7] = 25 /\ s[9] = 15 /\ s[11] = 31 /\ s[13] = 0
      /\ s[4] = v /\ s[6] = w /\ s[8] = x /\ s[12] = z
  BY <1>3
<1>5. Aux(p) = s
  BY <1>2, <1>3, Zenon
<1> QED
  BY <1>1, <1>4, <1>5, Zenon

\* An entry of the auxiliary vector is found by its tag: h has the words from
\* the first tag on.
HasEntry(p) == p.bias \in Nat /\ p.base \in Nat /\ p.main.entry \in Nat /\ p.main.phdr \in Nat

Entries(h, p) == \A i \in 1 .. 14 : h[i] = Aux(p)[i]

TagsFound(h, p) ==
    /\ h[2 + 2 * Min({k \in 0 .. 7 : h[1 + 2 * k] = 9})] = p.bias + p.main.entry
    /\ h[2 + 2 * Min({k \in 0 .. 7 : h[1 + 2 * k] = 7})] = p.base
    /\ h[2 + 2 * Min({k \in 0 .. 7 : h[1 + 2 * k] = 25})] = StackTop - 1
    /\ h[2 + 2 * Min({k \in 0 .. 7 : h[1 + 2 * k] = 31})] = StackTop - 3
    /\ \A t \in {9, 7, 25, 31} : Min({k \in 0 .. 7 : h[1 + 2 * k] = t}) \in 0 .. 7

LEMMA TagFinds ==
    ASSUME NEW h, NEW p, HasEntry(p), Entries(h, p)
    PROVE  TagsFound(h, p)
<1>0. p.bias \in Nat /\ p.base \in Nat /\ p.main.entry \in Nat /\ p.main.phdr \in Nat
  BY DEF HasEntry
<1>1. /\ h[1] = 3 /\ h[3] = 7 /\ h[5] = 9 /\ h[7] = 25 /\ h[9] = 15 /\ h[11] = 31
      /\ h[4] = p.base /\ h[6] = p.bias + p.main.entry /\ h[8] = StackTop - 1 /\ h[12] = StackTop - 3
  <2>1. \A i \in {1, 3, 4, 5, 6, 7, 8, 9, 11, 12} : i \in 1 .. 14
    OBVIOUS
  <2>2. \A i \in {1, 3, 4, 5, 6, 7, 8, 9, 11, 12} : h[i] = Aux(p)[i]
    BY <2>1 DEF Entries
  <2>3. /\ h[1] = Aux(p)[1] /\ h[3] = Aux(p)[3] /\ h[4] = Aux(p)[4] /\ h[5] = Aux(p)[5] /\ h[6] = Aux(p)[6]
        /\ h[7] = Aux(p)[7] /\ h[8] = Aux(p)[8] /\ h[9] = Aux(p)[9] /\ h[11] = Aux(p)[11] /\ h[12] = Aux(p)[12]
    BY <2>2
  <2> QED
    <3>1. /\ Aux(p)[1] = 3 /\ Aux(p)[3] = 7 /\ Aux(p)[5] = 9 /\ Aux(p)[7] = 25
          /\ Aux(p)[9] = 15 /\ Aux(p)[11] = 31
          /\ Aux(p)[4] = p.base /\ Aux(p)[6] = p.bias + p.main.entry
          /\ Aux(p)[8] = StackTop - 1 /\ Aux(p)[12] = StackTop - 3
      BY <1>0, AuxFacts, Zenon
    <3> QED
      BY <2>3, <3>1, Zenon
<1>2. \A k \in 0 .. 7 : k = 0 \/ k = 1 \/ k = 2 \/ k = 3 \/ k = 4 \/ k >= 5
  OBVIOUS
<1>3. 1 + 2 * 0 = 1 /\ 1 + 2 * 1 = 3 /\ 1 + 2 * 2 = 5 /\ 1 + 2 * 3 = 7 /\ 1 + 2 * 4 = 9 /\ 1 + 2 * 5 = 11
  OBVIOUS
<1>4. Min({k \in 0 .. 7 : h[1 + 2 * k] = 9}) = 2
  <2> DEFINE S == {k \in 0 .. 7 : h[1 + 2 * k] = 9}
  <2>1. S \subseteq Int /\ 2 \in S /\ \A y \in S : 2 <= y
    BY <1>1, <1>2, <1>3
  <2> HIDE DEF S
  <2>2. Min(S) = 2
    BY <2>1, SmallestIs
  <2> QED
    BY <2>2 DEF S
<1>5. Min({k \in 0 .. 7 : h[1 + 2 * k] = 7}) = 1
  <2> DEFINE S == {k \in 0 .. 7 : h[1 + 2 * k] = 7}
  <2>1. S \subseteq Int /\ 1 \in S /\ \A y \in S : 1 <= y
    BY <1>1, <1>2, <1>3
  <2> HIDE DEF S
  <2>2. Min(S) = 1
    BY <2>1, SmallestIs
  <2> QED
    BY <2>2 DEF S
<1>6. Min({k \in 0 .. 7 : h[1 + 2 * k] = 25}) = 3
  <2> DEFINE S == {k \in 0 .. 7 : h[1 + 2 * k] = 25}
  <2>1. S \subseteq Int /\ 3 \in S /\ \A y \in S : 3 <= y
    BY <1>1, <1>2, <1>3
  <2> HIDE DEF S
  <2>2. Min(S) = 3
    BY <2>1, SmallestIs
  <2> QED
    BY <2>2 DEF S
<1>7. Min({k \in 0 .. 7 : h[1 + 2 * k] = 31}) = 5
  <2> DEFINE S == {k \in 0 .. 7 : h[1 + 2 * k] = 31}
  <2>1. S \subseteq Int /\ 5 \in S /\ \A y \in S : 5 <= y
    BY <1>1, <1>2, <1>3
  <2> HIDE DEF S
  <2>2. Min(S) = 5
    BY <2>1, SmallestIs
  <2> QED
    BY <2>2 DEF S
<1>8. 2 + 2 * 2 = 6 /\ 2 + 2 * 1 = 4 /\ 2 + 2 * 3 = 8 /\ 2 + 2 * 5 = 12
  OBVIOUS
<1>9. \A t \in {9, 7, 25, 31} : Min({k \in 0 .. 7 : h[1 + 2 * k] = t}) \in 0 .. 7
  <2>1. 1 \in 0 .. 7 /\ 2 \in 0 .. 7 /\ 3 \in 0 .. 7 /\ 5 \in 0 .. 7
    OBVIOUS
  <2> SUFFICES ASSUME NEW t \in {9, 7, 25, 31}
               PROVE  Min({k \in 0 .. 7 : h[1 + 2 * k] = t}) \in 0 .. 7
    BY Zenon
  <2>2. CASE t = 9
    BY <1>4, <2>1, <2>2, Zenon
  <2>3. CASE t = 7
    BY <1>5, <2>1, <2>3, Zenon
  <2>4. CASE t = 25
    BY <1>6, <2>1, <2>4, Zenon
  <2>5. CASE t = 31
    BY <1>7, <2>1, <2>5, Zenon
  <2> QED
    BY <2>2, <2>3, <2>4, <2>5, Zenon
<1> QED
  BY <1>1, <1>4, <1>5, <1>6, <1>7, <1>8, <1>9, Zenon DEF TagsFound

\* What reading the stack gives, for a frame whose vector is V and whose strings
\* are where the pointers in it say.
Lies(cell, sp, V)      == \A i \in 1 .. Len(V) : cell[sp + i - 1] = V[i]
StringsAt(cell, P, s)  == \A i \in 1 .. Len(s) : cell[P[i]] = s[i]
BlocksOnTop(cell)      == cell[StackTop - 1] = RandomBlock /\ cell[StackTop - 3] = ExecName

LEMMA FrameReads ==
    ASSUME NEW cell, NEW sp \in Nat, NEW p, HasEntry(p),
           NEW argv \in Seq(Nat), NEW env \in Seq(Nat), NEW P, NEW Q, NEW V,
           VectorOf(V, Len(argv), P, Len(env), Q, 14, Aux(p)),
           Lies(cell, sp, V), StringsAt(cell, P, argv), StringsAt(cell, Q, env), BlocksOnTop(cell)
    PROVE  Parsed(cell, sp, p, argv, env)
<1>0. /\ \A i \in 1 .. Len(V) : cell[sp + i - 1] = V[i]
      /\ \A i \in 1 .. Len(argv) : cell[P[i]] = argv[i]
      /\ \A i \in 1 .. Len(env) : cell[Q[i]] = env[i]
      /\ cell[StackTop - 1] = RandomBlock /\ cell[StackTop - 3] = ExecName
  BY Zenon DEF Lies, StringsAt, BlocksOnTop
<1>1. PICK n \in Nat, m \in Nat : n = Len(argv) /\ m = Len(env) /\ DOMAIN env = 1 .. m
  BY LenProperties
<1>2. PICK e \in Nat : e = n + 2 + m
  BY <1>1
<1>3. Len(V) = n + m + 17
  BY <1>1 DEF VectorOf
<1>4. \A i \in 0 .. n + m + 16 : cell[sp + i] = V[i + 1]
  <2> SUFFICES ASSUME NEW i \in 0 .. n + m + 16
               PROVE  cell[sp + i] = V[i + 1]
    OBVIOUS
  <2>1. PICK k \in 1 .. Len(V) : k = i + 1 /\ sp + k - 1 = sp + i
    BY <1>1, <1>3
  <2> QED
    BY <1>0, <2>1
<1>5. cell[sp + 0] = n
  <2>1. 0 \in 0 .. n + m + 16 /\ 0 + 1 = 1
    OBVIOUS
  <2>2. V[1] = n
    BY <1>1 DEF VectorOf
  <2> QED
    BY <1>4, <2>1, <2>2
<1>6. ASSUME NEW i \in 1 .. n
      PROVE  cell[cell[sp + i]] = argv[i]
  <2>1. i \in 0 .. n + m + 16 /\ i + 1 = 1 + i
    OBVIOUS
  <2>2. V[1 + i] = P[i]
    BY <1>1 DEF VectorOf
  <2> QED
    BY <1>0, <1>1, <1>4, <2>1, <2>2
<1>7. cell[sp + (n + 1)] = 0
  <2>1. n + 1 \in 0 .. n + m + 16 /\ (n + 1) + 1 = n + 2
    OBVIOUS
  <2>2. V[n + 2] = 0
    BY <1>1 DEF VectorOf
  <2> QED
    BY <1>4, <2>1, <2>2
<1>8. ASSUME NEW i \in 1 .. m
      PROVE  cell[cell[sp + (n + 1 + i)]] = env[i]
  <2>1. PICK k \in 0 .. n + m + 16 : k = n + 1 + i /\ k + 1 = n + 2 + i
    OBVIOUS
  <2>2. V[n + 2 + i] = Q[i]
    BY <1>1 DEF VectorOf
  <2>3. cell[sp + k] = Q[i]
    BY <1>4, <2>1, <2>2
  <2>4. cell[Q[i]] = env[i]
    BY <1>0, <1>1
  <2> QED
    BY <2>1, <2>3, <2>4
<1>9. cell[sp + e] = 0
  <2>1. e \in 0 .. n + m + 16 /\ e + 1 = n + m + 3
    BY <1>2
  <2>2. V[n + m + 3] = 0
    BY <1>1 DEF VectorOf
  <2> QED
    BY <1>4, <2>1, <2>2
<1> DEFINE h == [i \in 1 .. 16 |-> cell[sp + (e + i)]]
<1>10. \A i \in 1 .. 14 : h[i] = Aux(p)[i]
  <2> SUFFICES ASSUME NEW i \in 1 .. 14
               PROVE  h[i] = Aux(p)[i]
    OBVIOUS
  <2>1. PICK k \in 0 .. n + m + 16 : k = e + i /\ k + 1 = n + m + 3 + i
    BY <1>2
  <2>2. V[n + m + 3 + i] = Aux(p)[i]
    BY <1>1 DEF VectorOf
  <2>3. h[i] = cell[sp + k]
    BY <2>1
  <2> QED
    BY <1>4, <2>1, <2>2, <2>3
<1>11. \A k \in 0 .. 7 : h[1 + 2 * k] = cell[sp + (e + 1 + 2 * k)] /\ h[2 + 2 * k] = cell[sp + (e + 2 + 2 * k)]
  <2> SUFFICES ASSUME NEW k \in 0 .. 7
               PROVE  h[1 + 2 * k] = cell[sp + (e + 1 + 2 * k)] /\ h[2 + 2 * k] = cell[sp + (e + 2 + 2 * k)]
    OBVIOUS
  <2>1. 1 + 2 * k \in 1 .. 16 /\ e + (1 + 2 * k) = e + 1 + 2 * k
        /\ 2 + 2 * k \in 1 .. 16 /\ e + (2 + 2 * k) = e + 2 + 2 * k
    BY <1>2
  <2> QED
    BY <2>1
<1> HIDE DEF h
<1>12. TagsFound(h, p)
  <2>1. Entries(h, p)
    BY <1>10 DEF Entries
  <2> QED
    BY <2>1, TagFinds
<1>13. PICK T : T = [t \in {9, 7, 25, 31} |-> Min({k \in 0 .. 7 : h[1 + 2 * k] = t})]
  OBVIOUS
<1>14. \A t \in {9, 7, 25, 31} : /\ T[t] = Min({k \in 0 .. 7 : h[1 + 2 * k] = t})
                                 /\ T[t] \in 0 .. 7
  <2>1. \A t \in {9, 7, 25, 31} : T[t] = Min({k \in 0 .. 7 : h[1 + 2 * k] = t})
    BY <1>13, Zenon
  <2> QED
    BY <1>12, <2>1, Zenon DEF TagsFound
<1>15. 9 \in {9, 7, 25, 31} /\ 7 \in {9, 7, 25, 31} /\ 25 \in {9, 7, 25, 31} /\ 31 \in {9, 7, 25, 31}
  OBVIOUS
<1>16. /\ h[2 + 2 * T[9]] = p.bias + p.main.entry /\ h[2 + 2 * T[7]] = p.base
       /\ h[2 + 2 * T[25]] = StackTop - 1 /\ h[2 + 2 * T[31]] = StackTop - 3
  BY <1>12, <1>14, <1>15, Zenon DEF TagsFound
<1>17. \A t : {k \in 0 .. 7 : h[1 + 2 * k] = t} = {k \in 0 .. 7 : cell[sp + (e + 1 + 2 * k)] = t}
  BY <1>11, Zenon
<1>18. \A t \in {9, 7, 25, 31} : /\ T[t] = Min({k \in 0 .. 7 : cell[sp + (e + 1 + 2 * k)] = t})
                                 /\ h[2 + 2 * T[t]] = cell[sp + (e + 2 + 2 * T[t])]
  <2> SUFFICES ASSUME NEW t \in {9, 7, 25, 31}
               PROVE  /\ T[t] = Min({k \in 0 .. 7 : cell[sp + (e + 1 + 2 * k)] = t})
                      /\ h[2 + 2 * T[t]] = cell[sp + (e + 2 + 2 * T[t])]
    BY Zenon
  <2>1. T[t] = Min({k \in 0 .. 7 : h[1 + 2 * k] = t}) /\ T[t] \in 0 .. 7
    BY <1>14, Zenon
  <2>2. T[t] = Min({k \in 0 .. 7 : cell[sp + (e + 1 + 2 * k)] = t})
    <3> DEFINE X == {k \in 0 .. 7 : h[1 + 2 * k] = t}
               Y == {k \in 0 .. 7 : cell[sp + (e + 1 + 2 * k)] = t}
    <3>1. X = Y
      BY <1>17, Zenon
    <3>2. T[t] = Min(X)
      BY <2>1
    <3> HIDE DEF X, Y
    <3>3. T[t] = Min(Y)
      BY <3>1, <3>2
    <3> QED
      BY <3>3 DEF Y
  <2>3. h[2 + 2 * T[t]] = cell[sp + (e + 2 + 2 * T[t])]
    BY <1>11, <2>1, Zenon
  <2> QED
    BY <2>2, <2>3, Zenon
<1>19. /\ cell[sp + (e + 2 + 2 * T[9])] = p.bias + p.main.entry /\ cell[sp + (e + 2 + 2 * T[7])] = p.base
       /\ cell[cell[sp + (e + 2 + 2 * T[25])]] = RandomBlock /\ cell[cell[sp + (e + 2 + 2 * T[31])]] = ExecName
  BY <1>0, <1>15, <1>16, <1>18, Zenon
<1>20. /\ T[9] = Min({k \in 0 .. 7 : cell[sp + (e + 1 + 2 * k)] = 9})
       /\ T[7] = Min({k \in 0 .. 7 : cell[sp + (e + 1 + 2 * k)] = 7})
       /\ T[25] = Min({k \in 0 .. 7 : cell[sp + (e + 1 + 2 * k)] = 25})
       /\ T[31] = Min({k \in 0 .. 7 : cell[sp + (e + 1 + 2 * k)] = 31})
  BY <1>15, <1>18, Zenon
<1>21. /\ cell[sp + (e + 2 + 2 * Min({k \in 0 .. 7 : cell[sp + (e + 1 + 2 * k)] = 9}))] = p.bias + p.main.entry
       /\ cell[sp + (e + 2 + 2 * Min({k \in 0 .. 7 : cell[sp + (e + 1 + 2 * k)] = 7}))] = p.base
       /\ cell[cell[sp + (e + 2 + 2 * Min({k \in 0 .. 7 : cell[sp + (e + 1 + 2 * k)] = 25}))]] = RandomBlock
       /\ cell[cell[sp + (e + 2 + 2 * Min({k \in 0 .. 7 : cell[sp + (e + 1 + 2 * k)] = 31}))]] = ExecName
  BY <1>19, <1>20, Zenon
<1>22. /\ \A i \in 1 .. n : cell[cell[sp + i]] = argv[i]
       /\ \A i \in DOMAIN env : cell[cell[sp + (n + 1 + i)]] = env[i]
  BY <1>1, <1>6, <1>8, Zenon
<1>23. /\ n = Len(argv) /\ e = Len(argv) + 2 + Len(env)
  BY <1>1, <1>2
<1>24. ReadAs(cell, sp, p, argv, env, n, e)
  BY <1>5, <1>7, <1>9, <1>21, <1>22, Zenon DEF ReadAs
<1> QED
  BY <1>23, <1>24, Zenon DEF Parsed

PointersAre(P, s, top) == /\ P \in Seq(Int) /\ Len(P) = Len(s)
                          /\ \A i \in 1 .. Len(s) : P[i] = top - Len(s) + i - 1

LEMMA PointersFacts ==
    ASSUME NEW st, NEW top \in Int, st.sp = top, NEW s \in Seq(Nat), NEW P, P = Pointers(st, s)
    PROVE  PointersAre(P, s, top)
<1>1. PICK n \in Nat : n = Len(s) /\ DOMAIN s = 1 .. n
  BY LenProperties
<1>2. P = [i \in 1 .. n |-> top - n + i - 1]
  BY <1>1 DEF Pointers
<1>3. \A i \in 1 .. n : top - n + i - 1 \in Int
  OBVIOUS
<1>4. P \in Seq(Int) /\ Len(P) = n
  BY <1>2, <1>3
<1> QED
  BY <1>1, <1>2, <1>4 DEF PointersAre

LEMMA ThreeStrings ==
    ASSUME NEW s, s = <<ExecName, Platform, RandomBlock>>
    PROVE  Len(s) = 3 /\ s[1] = ExecName /\ s[3] = RandomBlock
<1>1. PICK x, y, z : x = ExecName /\ y = Platform /\ z = RandomBlock
  OBVIOUS
<1>2. s = <<x, y, z>>
  BY <1>1, Zenon
<1>3. Len(s) = 3 /\ s[1] = x /\ s[3] = z
  BY <1>2
<1> QED
  BY <1>1, <1>3, Zenon

\* The frame lies in the stack, and reading it gives what it was made from.
FrameDone(cell, p, argv, env, st) ==
    /\ IsStack(st) /\ st.sp \in StackTop - StackCells .. StackTop
    /\ \A a \in Addr : a \notin StackTop - StackCells .. StackTop - 1 => st.cell[a] = cell[a]
    /\ Parsed(st.cell, st.sp, p, argv, env)

LEMMA FrameBuilt ==
    ASSUME NEW cell, cell = [a \in Addr |-> cell[a]], NEW p, HasEntry(p),
           NEW argv \in Argv, NEW env \in Env, NEW st, st = setupInitialStack(cell, p, argv, env)
    PROVE  FrameDone(cell, p, argv, env, st)
<1>1. PICK n \in Nat, m \in Nat : /\ n = Len(argv) /\ m = Len(env)
                                  /\ 2 * n + 2 * m + Align + 19 <= StackCells
                                  /\ argv \in Seq(Nat) /\ env \in Seq(Nat)
  BY FrameAssumption, LenProperties
<1>2. PICK T \in Nat, al \in Nat \ {0}, C \in Nat, sz \in Nat :
         /\ T = StackTop /\ al = Align /\ C = StackCells /\ sz = Size /\ C <= T /\ T <= sz
         /\ 2 * n + 2 * m + al + 19 <= C
  BY <1>1, LoaderAssumption
<1>3. \A x \in Int : x >= 0 /\ x < sz => x \in Addr
  BY <1>2 DEF Addr
<1>4. PICK top, strings : /\ top = [sp |-> StackTop, cell |-> cell]
                          /\ strings = <<ExecName, Platform, RandomBlock>>
  OBVIOUS
<1>5. IsStack(top) /\ top.sp = T /\ top.cell = cell
  BY <1>2, <1>4, LoaderAssumption DEF IsStack
<1>6. Len(strings) = 3 /\ strings[1] = ExecName /\ strings[3] = RandomBlock
  BY <1>4, ThreeStrings
<1>7. PICK named : named = pushAll(top, strings) /\ Pushed(top, strings, named)
  <2>1. Len(strings) \in Nat /\ Len(strings) <= top.sp
    BY <1>1, <1>2, <1>5, <1>6
  <2> QED
    BY <1>5, <2>1, PushAllDoes
<1>8. IsStack(named) /\ named.sp = T - 3
  BY <1>5, <1>6, <1>7 DEF Pushed
<1>9. PICK args : args = pushAll(named, argv) /\ Pushed(named, argv, args)
  <2>1. Len(argv) \in Nat /\ Len(argv) <= named.sp
    BY <1>1, <1>2, <1>8
  <2> QED
    BY <1>8, <2>1, PushAllDoes
<1>10. IsStack(args) /\ args.sp = T - 3 - n
  BY <1>1, <1>8, <1>9 DEF Pushed
<1>11. PICK envs : envs = pushAll(args, env) /\ Pushed(args, env, envs)
  <2>1. Len(env) \in Nat /\ Len(env) <= args.sp
    BY <1>1, <1>2, <1>10
  <2> QED
    BY <1>10, <2>1, PushAllDoes
<1>12. IsStack(envs) /\ envs.sp = T - 3 - n - m
  BY <1>1, <1>10, <1>11 DEF Pushed
<1>13. PICK r \in 0 .. al - 1 : r = envs.sp % Align
  <2>1. envs.sp \in Int
    BY <1>12
  <2> QED
    BY <1>2, <2>1, DivMod
<1>14. PICK aligned : aligned = [envs EXCEPT !.sp = @ - (@ % Align)]
  OBVIOUS
<1>15. aligned.sp = T - 3 - n - m - r /\ aligned.cell = envs.cell /\ IsStack(aligned)
  <2>1. aligned = [sp |-> envs.sp - r, cell |-> envs.cell]
    BY <1>12, <1>13, <1>14 DEF IsStack
  <2>2. envs.sp - r \in 0 .. Size
    <3>1. PICK u \in Int : u = envs.sp - r /\ u = T - 3 - n - m - r
      BY <1>12
    <3>2. u >= 0 /\ u <= sz
      BY <1>2, <3>1
    <3> QED
      BY <1>2, <3>1, <3>2
  <2> QED
    BY <1>12, <2>1, <2>2 DEF IsStack
<1>16. PICK P, Q : P = Pointers(named, argv) /\ Q = Pointers(args, env)
  OBVIOUS
<1>17. /\ P \in Seq(Int) /\ Len(P) = n /\ \A i \in 1 .. n : P[i] = T - 3 - n + i - 1
       /\ Q \in Seq(Int) /\ Len(Q) = m /\ \A i \in 1 .. m : Q[i] = T - 3 - n - m + i - 1
  <2>1. PICK u \in Int, w \in Int : u = T - 3 /\ w = T - 3 - n
    OBVIOUS
  <2>2. P \in Seq(Int) /\ Len(P) = Len(argv) /\ \A i \in 1 .. Len(argv) : P[i] = u - Len(argv) + i - 1
    <3>1. named.sp = u
      BY <1>8, <2>1
    <3>2. PointersAre(P, argv, u)
      BY <1>1, <1>16, <3>1, PointersFacts
    <3> QED
      BY <3>2, Zenon DEF PointersAre
  <2>3. Q \in Seq(Int) /\ Len(Q) = Len(env) /\ \A i \in 1 .. Len(env) : Q[i] = w - Len(env) + i - 1
    <3>1. args.sp = w
      BY <1>10, <2>1
    <3>2. PointersAre(Q, env, w)
      BY <1>1, <1>16, <3>1, PointersFacts
    <3> QED
      BY <3>2, Zenon DEF PointersAre
  <2>4. \A i \in 1 .. n : P[i] = T - 3 - n + i - 1
    BY <1>1, <2>1, <2>2
  <2>5. \A i \in 1 .. m : Q[i] = T - 3 - n - m + i - 1
    BY <1>1, <2>1, <2>3
  <2> QED
    BY <1>1, <2>2, <2>3, <2>4, <2>5
<1>18. PICK V : V = <<n>> \o P \o <<0>> \o Q \o <<0>> \o Aux(p)
  OBVIOUS
<1>19. VectorOf(V, n, P, m, Q, 14, Aux(p))
  <2>1. Aux(p) \in Seq(Int) /\ Len(Aux(p)) = 14 /\ 14 \in Nat
    BY AuxFacts DEF HasEntry
  <2> QED
    BY <1>17, <1>18, <2>1, VectorFacts, Zenon
<1>20. st = pushAll(aligned, V)
  BY <1>1, <1>4, <1>7, <1>9, <1>11, <1>14, <1>16, <1>18, Zenon DEF setupInitialStack, Aux
<1>21. Len(V) = n + m + 17
  <2>1. Len(V) = n + m + 3 + 14
    BY <1>19, Zenon DEF VectorOf
  <2> QED
    BY <2>1
<1>22. Pushed(aligned, V, st)
  <2>1. Len(V) \in Nat /\ Len(V) <= aligned.sp
    <3>1. n + m + 17 \in Nat /\ n + m + 17 <= T - 3 - n - m - r
      BY <1>2
    <3> QED
      BY <1>15, <1>21, <3>1
  <2> QED
    BY <1>15, <1>20, <2>1, PushAllDoes
<1>23. PICK sp \in Nat : /\ sp = st.sp /\ sp = T - 3 - n - m - r - (n + m + 17)
                         /\ sp >= T - C /\ sp <= T /\ IsStack(st)
  <2>1. IsStack(st) /\ st.sp = aligned.sp - Len(V)
    BY <1>22 DEF Pushed
  <2>2. PICK u \in Int : u = T - 3 - n - m - r - (n + m + 17)
    OBVIOUS
  <2>3. u = st.sp
    BY <1>15, <1>21, <2>1, <2>2
  <2>4. u >= T - C /\ u <= T /\ u >= 0
    BY <1>2, <2>2
  <2> QED
    <3>1. u \in Nat
      BY <2>4
    <3> QED
      BY <2>1, <2>2, <2>3, <2>4, <3>1, Zenon
<1>24. ASSUME NEW a \in Addr, a >= T - 3 - n - m - r
       PROVE  st.cell[a] = envs.cell[a]
  <2>1. a \in Int
    BY DEF Addr
  <2>2. a \notin st.sp .. aligned.sp - 1
    BY <1>15, <1>24, <2>1
  <2> QED
    BY <1>15, <1>22, <2>2 DEF Pushed
<1>25. ASSUME NEW a \in Addr, a >= T - 3 - n
       PROVE  st.cell[a] = args.cell[a]
  <2>1. a \in Int
    BY DEF Addr
  <2>2. a \notin envs.sp .. args.sp - 1 /\ a >= T - 3 - n - m - r
    BY <1>10, <1>25, <2>1
  <2>3. envs.cell[a] = args.cell[a]
    BY <1>11, <2>2 DEF Pushed
  <2> QED
    BY <1>24, <2>2, <2>3
<1>26. ASSUME NEW a \in Addr, a >= T - 3
       PROVE  st.cell[a] = named.cell[a]
  <2>1. a \in Int
    BY DEF Addr
  <2>2. a \notin args.sp .. named.sp - 1 /\ a >= T - 3 - n
    BY <1>8, <1>26, <2>1
  <2>3. args.cell[a] = named.cell[a]
    BY <1>9, <2>2 DEF Pushed
  <2> QED
    BY <1>25, <2>2, <2>3
<1>27. ASSUME NEW i \in 1 .. n
       PROVE  st.cell[P[i]] = argv[i]
  <2>0. PICK a \in Int : a = T - 3 - n + i - 1 /\ a >= T - 3 - n /\ a >= 0 /\ a < sz
    BY <1>2
  <2>1. a \in Addr /\ a = P[i] /\ a = args.sp + i - 1
    <3>1. a \in Addr
      BY <1>3, <2>0
    <3> QED
      BY <1>10, <1>17, <2>0, <3>1
  <2>2. args.cell[args.sp + i - 1] = argv[i]
    BY <1>1, <1>9 DEF Pushed
  <2> QED
    BY <1>25, <2>0, <2>1, <2>2
<1>28. ASSUME NEW i \in 1 .. m
       PROVE  st.cell[Q[i]] = env[i]
  <2>0. PICK a \in Int : a = T - 3 - n - m + i - 1 /\ a >= T - 3 - n - m - r /\ a >= 0 /\ a < sz
    BY <1>2
  <2>1. a \in Addr /\ a = Q[i] /\ a = envs.sp + i - 1
    <3>1. a \in Addr
      BY <1>3, <2>0
    <3> QED
      BY <1>12, <1>17, <2>0, <3>1
  <2>2. envs.cell[envs.sp + i - 1] = env[i]
    BY <1>1, <1>11 DEF Pushed
  <2> QED
    BY <1>24, <2>0, <2>1, <2>2
<1>29. st.cell[StackTop - 1] = RandomBlock /\ st.cell[StackTop - 3] = ExecName
  <2>0. T >= 3 /\ T <= sz
    BY <1>2
  <2>1. /\ T - 1 \in Addr /\ T - 3 \in Addr /\ T - 1 >= T - 3 /\ T - 3 >= T - 3
        /\ named.sp + 1 - 1 = T - 3 /\ named.sp + 3 - 1 = T - 1 /\ 1 \in 1 .. 3 /\ 3 \in 1 .. 3
    <3>1. T - 1 \in Addr /\ T - 3 \in Addr
      BY <1>3, <2>0
    <3> QED
      BY <1>8, <3>1
  <2>2. named.cell[named.sp + 1 - 1] = ExecName /\ named.cell[named.sp + 3 - 1] = RandomBlock
    BY <1>6, <1>7, <2>1 DEF Pushed
  <2> QED
    BY <1>2, <1>26, <2>1, <2>2
<1>30. Parsed(st.cell, st.sp, p, argv, env)
  <2>1. \A i \in 1 .. Len(V) : st.cell[sp + i - 1] = V[i]
    BY <1>22, <1>23 DEF Pushed
  <2>2. VectorOf(V, Len(argv), P, Len(env), Q, 14, Aux(p))
    BY <1>1, <1>19
  <2>3. /\ \A i \in 1 .. Len(argv) : st.cell[P[i]] = argv[i]
        /\ \A i \in 1 .. Len(env) : st.cell[Q[i]] = env[i]
    BY <1>1, <1>27, <1>28
  <2>4. Lies(st.cell, sp, V) /\ StringsAt(st.cell, P, argv) /\ StringsAt(st.cell, Q, env) /\ BlocksOnTop(st.cell)
    BY <1>29, <2>1, <2>3, Zenon DEF Lies, StringsAt, BlocksOnTop
  <2>5. Parsed(st.cell, sp, p, argv, env)
    BY <1>1, <2>2, <2>4, FrameReads, Zenon
  <2> QED
    BY <1>23, <2>5
<1>31. ASSUME NEW a \in Addr, a \notin StackTop - StackCells .. StackTop - 1
       PROVE  st.cell[a] = cell[a]
  <2>1. a < T - C \/ a >= T
    <3>1. a \in Int
      BY DEF Addr
    <3> QED
      BY <1>2, <1>31, <3>1
  <2>2. /\ a \notin st.sp .. aligned.sp - 1 /\ a \notin envs.sp .. args.sp - 1
        /\ a \notin args.sp .. named.sp - 1 /\ a \notin named.sp .. top.sp - 1
    <3>1. a \in Int
      BY DEF Addr
    <3>2. /\ T - 3 - n - m - r - (n + m + 17) >= T - C
          /\ T - 3 - n - m - r <= T /\ T - 3 - n - m >= T - C /\ T - 3 - n >= T - C /\ T - 3 >= T - C
      BY <1>2
    <3>3. a \notin st.sp .. aligned.sp - 1
      BY <1>15, <1>23, <2>1, <3>1, <3>2
    <3>4. a \notin envs.sp .. args.sp - 1
      BY <1>10, <1>12, <2>1, <3>1, <3>2
    <3>5. a \notin args.sp .. named.sp - 1 /\ a \notin named.sp .. top.sp - 1
      BY <1>5, <1>8, <1>10, <2>1, <3>1, <3>2
    <3> QED
      BY <3>3, <3>4, <3>5
  <2>3. st.cell[a] = aligned.cell[a]
    BY <1>22, <2>2 DEF Pushed
  <2>4. envs.cell[a] = args.cell[a]
    BY <1>11, <2>2 DEF Pushed
  <2>5. args.cell[a] = named.cell[a]
    BY <1>9, <2>2 DEF Pushed
  <2>6. named.cell[a] = top.cell[a]
    BY <1>7, <2>2 DEF Pushed
  <2> QED
    BY <1>5, <1>15, <2>3, <2>4, <2>5, <2>6
<1>32. st.sp \in StackTop - StackCells .. StackTop
  BY <1>2, <1>23
<1> QED
  BY <1>23, <1>30, <1>31, <1>32 DEF FrameDone

-----------------------------------------------------------------------------
(* Steps of the loader.                                                    *)

\* Memory is one.
LoaderOK == FilesOK /\ IsMemory(memory)

LEMMA BlankIsMemory == IsMemory(Blank) /\ DOMAIN Blank.perm = {}
<1>0. DOMAIN <<>> = {}
  OBVIOUS
<1>1. PICK e, z : e = <<>> /\ z = [a \in Addr |-> 0] /\ DOMAIN e = {}
  BY <1>0, Zenon
<1>2. PICK b : b = Blank
  OBVIOUS
<1>3. b = [perm |-> e, cell |-> z, ok |-> TRUE]
  BY <1>1, <1>2, Zenon DEF Blank
<1>4. b.perm = e /\ b.cell = z /\ b.ok = TRUE /\ z = [a \in Addr |-> z[a]]
  BY <1>1, <1>3
<1>5. b = [perm |-> b.perm, cell |-> b.cell, ok |-> b.ok]
  BY <1>3
<1> QED
  BY <1>1, <1>2, <1>4, <1>5 DEF IsMemory

\* A load that failed leaves a memory.
LEMMA StillMemory ==
    ASSUME NEW mem, IsMemory(mem), NEW r, r = [mem EXCEPT !.ok = TRUE]
    PROVE  IsMemory(r)
<1>1. r = [perm |-> mem.perm, cell |-> mem.cell, ok |-> TRUE]
  BY DEF IsMemory
<1> QED
  BY <1>1 DEF IsMemory

LEMMA StoreIsMemory ==
    ASSUME NEW mem, IsMemory(mem), NEW a \in Addr, NEW v, NEW r, r = [mem EXCEPT !.cell[a] = v]
    PROVE  IsMemory(r)
<1>1. PICK c : c = [mem.cell EXCEPT ![a] = v]
  OBVIOUS
<1>2. r = [perm |-> mem.perm, cell |-> c, ok |-> mem.ok]
  BY <1>1 DEF IsMemory
<1>3. c = [x \in Addr |-> c[x]]
  BY <1>1 DEF IsMemory
<1> QED
  BY <1>2, <1>3 DEF IsMemory

\* An image is not on the stack, so a frame leaves it.
LEMMA FrameLeavesImages ==
    ASSUME NEW f, NEW b, NEW mem, ImageThere(f, b, mem), NEW r, r.perm = mem.perm,
           \A a \in Addr : a \notin StackTop - StackCells .. StackTop - 1 => r.cell[a] = mem.cell[a]
    PROVE  ImageThere(f, b, r)
<1>1. PICK T \in Nat, C \in Nat, lo \in Nat : T = StackTop /\ C = StackCells /\ lo = T - C /\ lo + C - 1 = T - 1
  BY LoaderAssumption
<1>2. \A c \in lo .. lo + C - 1 : c \div PageCells \in StackPages
  BY <1>1, OnItsPages DEF StackPages
<1>3. ASSUME NEW c \in Covered(f, b)
      PROVE  r.cell[c] = mem.cell[c]
  <2>1. c \in Addr /\ c \div PageCells \notin StackPages
    BY DEF ImageThere
  <2>2. c \notin StackTop - StackCells .. StackTop - 1
    BY <1>1, <1>2, <2>1
  <2> QED
    BY <2>1, <2>2
<1>4. HasWords(f, b, r.cell)
  BY <1>3 DEF ImageThere, HasWords
<1> QED
  BY <1>4 DEF ImageThere

\* What a program starts with.
BegunWith(p, argv, env) ==
    /\ IsMemory(memory') /\ memory'.perm = p.mem.perm
    /\ proc'.main = p.main /\ proc'.bias = p.bias /\ proc'.base = p.base /\ Images(proc') = Images(p)
    /\ \A im \in Images(p) : ImageThere(im[1], im[2], memory')
    /\ Parsed(memory'.cell, esp', proc', argv, env)

LEMMA StartDoes ==
    ASSUME NEW mem, NEW p, WellLoaded(mem, p), NEW argv \in Argv, NEW env \in Env, NEW own,
           Start(p, argv, env, own)
    PROVE  BegunWith(p, argv, env)
<1>1. PICK c, m : c = p.mem.cell /\ m = p.mem
  OBVIOUS
<1>2. PICK st : st = setupInitialStack(c, p, argv, env)
  OBVIOUS
<1>3. /\ memory' = [m EXCEPT !.cell = st.cell] /\ esp' = st.sp /\ proc' = [p EXCEPT !.mem = {}]
  BY <1>1, <1>2, Zenon DEF Start
<1>4. /\ p = [mem |-> p.mem, ok |-> p.ok, main |-> p.main, bias |-> p.bias, interp |-> p.interp,
              entry |-> p.entry, base |-> p.base, brk |-> p.brk]
      /\ IsMemory(m) /\ HasEntry(p)
      /\ \A im \in Images(p) : ImageThere(im[1], im[2], m)
  BY <1>1, Zenon DEF WellLoaded, ImageThere, HasEntry
<1>5. proc'.main = p.main /\ proc'.bias = p.bias /\ proc'.base = p.base /\ proc'.interp = p.interp
  BY <1>3, <1>4
<1>6. Images(proc') = Images(p)
  BY <1>5, Zenon DEF Images
<1>7. c = [a \in Addr |-> c[a]]
  BY <1>1, <1>4 DEF IsMemory
<1>8. FrameDone(c, p, argv, env, st)
  BY <1>2, <1>4, <1>7, FrameBuilt
<1>9. /\ memory'.perm = m.perm /\ memory'.cell = st.cell /\ IsMemory(memory')
  <2>1. memory' = [perm |-> m.perm, cell |-> st.cell, ok |-> m.ok]
    BY <1>3, <1>4 DEF IsMemory
  <2>2. st.cell = [a \in Addr |-> st.cell[a]]
    BY <1>8 DEF FrameDone, IsStack
  <2> QED
    BY <1>4, <2>1, <2>2 DEF IsMemory
<1>10. \A im \in Images(p) : ImageThere(im[1], im[2], memory')
  <2>1. \A a \in Addr : a \notin StackTop - StackCells .. StackTop - 1 => memory'.cell[a] = m.cell[a]
    BY <1>1, <1>8, <1>9, Zenon DEF FrameDone
  <2> QED
    BY <1>4, <1>9, <2>1, FrameLeavesImages, Zenon
<1>11. Parsed(memory'.cell, esp', proc', argv, env)
  <2>1. Parsed(st.cell, st.sp, p, argv, env)
    BY <1>8 DEF FrameDone
  <2>2. PICK n, e : n = Len(argv) /\ e = Len(argv) + 2 + Len(env)
    OBVIOUS
  <2>3. ReadAs(st.cell, st.sp, p, argv, env, n, e)
    BY <2>1, <2>2, Zenon DEF Parsed
  <2>4. ReadAs(st.cell, st.sp, proc', argv, env, n, e)
    BY <1>5, <2>3, Zenon DEF ReadAs
  <2> QED
    BY <1>3, <1>9, <2>2, <2>4, Zenon DEF Parsed
<1> QED
  BY <1>1, <1>5, <1>6, <1>9, <1>10, <1>11, Zenon DEF BegunWith

\* A load that ended well started a program.
Launched(argv, env, own) == \E mem, p : /\ WellLoaded(mem, p) /\ Start(p, argv, env, own)
                                        /\ own => mem = Blank

\* Other steps leave no program as it was loaded.
NoneBegun == IsMemory(memory') /\ live' # "begun"

LEMMA LoadELFStep ==
    ASSUME LoaderOK, NEW path \in Path, NEW argv \in Argv, NEW env \in Env, loadELF(path, argv, env)
    PROVE  NoneBegun \/ Launched(argv, env, FALSE)
<1>1. PICK f \in File \cup {BadFile, NoFile} : f = files[path]
  BY DEF LoaderOK, FilesOK
<1>2. PICK p : p = loadELF32Process(memory, f)
  OBVIOUS
<1>3. IsMemory(p.mem) /\ p.ok \in BOOLEAN /\ (p.ok => WellLoaded(memory, p))
  BY <1>2, ProcessLoads DEF LoaderOK
<1>4. IF p.ok THEN Start(p, argv, env, FALSE)
      ELSE memory' = [p.mem EXCEPT !.ok = TRUE] /\ Disturbed /\ UNCHANGED <<esp, proc, given>>
  BY <1>1, <1>2, Zenon DEF loadELF
<1>5. CASE p.ok
  BY <1>3, <1>4, <1>5 DEF Launched
<1>6. CASE ~p.ok
  <2>1. memory' = [p.mem EXCEPT !.ok = TRUE] /\ Disturbed
    BY <1>4, <1>6
  <2>2. IsMemory(memory')
    BY <1>3, <2>1, StillMemory, Zenon
  <2>3. live' # "begun"
    BY <2>1 DEF Disturbed
  <2> QED
    BY <2>2, <2>3 DEF NoneBegun
<1> QED
  BY <1>3, <1>5, <1>6

LEMMA LoadFlatStep ==
    ASSUME LoaderOK, NEW path \in Path, NEW argv \in Argv, NEW env \in Env, loadFlat(path, argv, env)
    PROVE  Launched(argv, env, FALSE)
<1>1. PICK f, p : f \in File /\ f = files[path] /\ p = loadFlatBinary(memory, f)
  BY DEF loadFlat
<1>2. WellLoaded(memory, p)
  BY <1>1, FlatLoads DEF LoaderOK
<1>3. Start(p, argv, env, FALSE)
  BY <1>1, Zenon DEF loadFlat
<1> QED
  BY <1>2, <1>3 DEF Launched

LEMMA ExecveStep ==
    ASSUME LoaderOK, NEW path \in Path, NEW argv \in Argv, NEW env \in Env, execve(path, argv, env)
    PROVE  UNCHANGED elfVars \/ NoneBegun \/ Launched(argv, env, TRUE)
<1>1. PICK f \in File \cup {BadFile, NoFile} : f = files[path]
  BY DEF LoaderOK, FilesOK
<1>2. PICK p : p = loadELF32Process(Blank, f)
  OBVIOUS
<1>3. IsMemory(p.mem) /\ p.ok \in BOOLEAN /\ (p.ok => WellLoaded(Blank, p))
  BY <1>2, BlankIsMemory, ProcessLoads DEF LoaderOK
<1>4. /\ IF f = NoFile THEN UNCHANGED <<memory, esp, proc, given, live>>
         ELSE IF p.ok THEN Start(p, argv, env, TRUE)
         ELSE /\ memory' = [p.mem EXCEPT !.ok = TRUE]
              /\ live' = "over"
              /\ UNCHANGED <<esp, proc, given>>
      /\ UNCHANGED <<files, lenient>>
  BY <1>1, <1>2, Zenon DEF execve
<1>5. CASE f = NoFile
  BY <1>4, <1>5 DEF elfVars
<1>6. CASE f # NoFile /\ p.ok
  BY <1>3, <1>4, <1>6 DEF Launched
<1>7. CASE f # NoFile /\ ~p.ok
  <2>1. memory' = [p.mem EXCEPT !.ok = TRUE] /\ live' = "over"
    BY <1>4, <1>7
  <2>2. IsMemory(memory')
    BY <1>3, <2>1, StillMemory, Zenon
  <2> QED
    BY <2>1, <2>2 DEF NoneBegun
<1> QED
  BY <1>3, <1>5, <1>6, <1>7

\* A program that has begun is laid out and its stack can be read.
OnlyItsPages(perm, p) == \A q \in DOMAIN perm : \/ q \in StackPages
                                               \/ \E im \in Images(p) : q \in ImagePages(im[1], im[2])

BegunOK == /\ \A im \in Images(proc) : ImageThere(im[1], im[2], memory)
           /\ given.own /\ ~lenient => OnlyItsPages(memory.perm, proc)
           /\ Parsed(memory.cell, esp, proc, given.argv, given.env)

\* The inductive invariant.
LoaderInv == LoaderOK /\ (live = "begun" => BegunOK)

LEMMA LaunchedIsThere ==
    ASSUME NEW argv \in Argv, NEW env \in Env, NEW own \in BOOLEAN, Launched(argv, env, own),
           UNCHANGED lenient
    PROVE  IsMemory(memory') /\ BegunOK'
<1>1. PICK mem, p : WellLoaded(mem, p) /\ Start(p, argv, env, own) /\ (own => mem = Blank)
  BY DEF Launched
<1>2. BegunWith(p, argv, env)
  BY <1>1, StartDoes
<1>3. given'.argv = argv /\ given'.env = env /\ given'.own = own
  BY <1>1 DEF Start
<1>4. ASSUME own, ~lenient, NEW q \in DOMAIN memory'.perm
      PROVE  q \in StackPages \/ \E im \in Images(proc') : q \in ImagePages(im[1], im[2])
  <2>1. DOMAIN mem.perm = {} /\ q \in DOMAIN p.mem.perm /\ Images(proc') = Images(p)
    BY <1>1, <1>2, <1>4, BlankIsMemory, Zenon DEF BegunWith
  <2>2. \/ q \in DOMAIN mem.perm \/ q \in StackPages
        \/ \E im \in Images(p) : q \in ImagePages(im[1], im[2])
    BY <1>1, <1>4, <2>1, Zenon DEF WellLoaded
  <2> QED
    BY <2>1, <2>2, Zenon
<1>5. given'.own /\ ~lenient' => OnlyItsPages(memory'.perm, proc')
  BY <1>3, <1>4, Zenon DEF OnlyItsPages
<1>6. Parsed(memory'.cell, esp', proc', given'.argv, given'.env)
  BY <1>2, <1>3, Zenon DEF BegunWith
<1>7. \A im \in Images(proc') : ImageThere(im[1], im[2], memory')
  BY <1>2, Zenon DEF BegunWith
<1> QED
  BY <1>2, <1>5, <1>6, <1>7, Zenon DEF BegunWith, BegunOK

LEMMA LoaderSteps ==
    ASSUME LoaderInv, [ElfNext]_elfVars
    PROVE  LoaderInv'
<1>1. CASE UNCHANGED elfVars
  <2>1. LoaderOK'
    BY <1>1 DEF LoaderInv, LoaderOK, FilesOK, IsMemory, elfVars
  <2>2. /\ live' = live /\ memory' = memory /\ proc' = proc /\ esp' = esp
        /\ given' = given /\ lenient' = lenient
    BY <1>1 DEF elfVars
  <2>3. live' = "begun" => BegunOK'
    BY <2>2, Zenon DEF LoaderInv, BegunOK
  <2> QED
    BY <2>1, <2>3 DEF LoaderInv
<1>2. ASSUME NEW path \in Path, NEW argv \in Argv, NEW env \in Env,
             loadELF(path, argv, env) \/ loadFlat(path, argv, env) \/ execve(path, argv, env)
      PROVE  LoaderInv'
  <2>1. UNCHANGED <<files, lenient>>
    BY <1>2 DEF loadELF, loadFlat, execve
  <2>2. LoaderOK
    BY DEF LoaderInv
  <2>3. UNCHANGED elfVars \/ NoneBegun \/ (\E own \in BOOLEAN : Launched(argv, env, own))
    BY <1>2, <2>2, LoadELFStep, LoadFlatStep, ExecveStep
  <2>4. CASE NoneBegun
    BY <2>1, <2>2, <2>4 DEF NoneBegun, LoaderInv, LoaderOK, FilesOK
  <2>5. CASE \E own \in BOOLEAN : Launched(argv, env, own)
    <3>1. IsMemory(memory') /\ BegunOK'
      BY <2>1, <2>5, LaunchedIsThere
    <3> QED
      BY <2>1, <2>2, <3>1 DEF LoaderInv, LoaderOK, FilesOK
  <2> QED
    BY <1>1, <2>3, <2>4, <2>5
<1>3. ASSUME NEW a \in GuestStore, guestStore(a)
      PROVE  LoaderInv'
  <2>1. a \in Addr /\ UNCHANGED files /\ live' # "begun"
    BY <1>3, LoaderAssumption DEF guestStore, Disturbed
  <2>2. memory' = [memory EXCEPT !.cell[a] = Size - 1]
    BY <1>3 DEF guestStore
  <2>3. IsMemory(memory')
    BY <2>1, <2>2, StoreIsMemory, Zenon DEF LoaderInv, LoaderOK
  <2> QED
    BY <2>1, <2>3 DEF LoaderInv, LoaderOK, FilesOK
<1> QED
  BY <1>1, <1>2, <1>3 DEF ElfNext

LEMMA LoaderInvariant == ElfSpec => []LoaderInv
<1>1. ElfInit => LoaderInv
  BY BlankIsMemory DEF ElfInit, LoaderInv, LoaderOK, FilesOK
<1> QED
  BY <1>1, LoaderSteps, PTL DEF ElfSpec

\* What a program and its interpreter are in memory after a load that ends well
\* is what their files say, relocated once, whatever was loaded and has run in
\* that memory before: elf.js loadELF32Process, with loadFlatBinary and execve
\* of runtime.js.
THEOREM ImagesAreLaidOut == ElfSpec => []ImageIsLaidOut
<1>1. LoaderInv => ImageIsLaidOut
  <2> SUFFICES ASSUME BegunOK
               PROVE  /\ \A im \in Images(proc) : \A c \in Covered(im[1], im[2]) :
                            /\ memory.cell[c] = WordOf(im[1], im[2], c)
                            /\ memory.perm[c \div PageCells] = PageFlags(im[1], im[2], c \div PageCells)
                      /\ given.own /\ ~lenient =>
                            \A q \in DOMAIN memory.perm :
                               \/ q \in StackPages
                               \/ \E im \in Images(proc) : q \in ImagePages(im[1], im[2])
    BY Zenon DEF LoaderInv, ImageIsLaidOut
  <2> QED
    BY Zenon DEF BegunOK, OnlyItsPages, ImageThere, HasPages, HasWords
<1> QED
  BY <1>1, LoaderInvariant, PTL

\* Startup code that walks its stack from argc up finds the arguments, the
\* environment and the auxiliary entries: elf.js setupInitialStack.
THEOREM FramesParse == ElfSpec => []FrameParses
<1>1. LoaderInv => FrameParses
  BY Zenon DEF LoaderInv, BegunOK, FrameParses, Parsed, ReadAs
<1> QED
  BY <1>1, LoaderInvariant, PTL

-----------------------------------------------------------------------------
(* The processes of a runtime: fork, wait4 and exit.                       *)

IInv == /\ TypeOK
        /\ TreeShape
        /\ OneThreadOfControl
        /\ WaitingIsAChain
        /\ \A a, b \in Live : pid[a] = pid[b] => a = b
        /\ EveryChildCollectedOnce

USE RuntimeAssumption, PidAssumption, CodeAssumption, DirAssumption

\* The inductive invariant holds of a lone root.
LEMMA InitIInv == Init => IInv
<1> SUFFICES ASSUME Init PROVE IInv
  OBVIOUS
<1>1. TypeOK
  BY DEF Init, TypeOK, States, Free, Answer
<1>2. TreeShape
  BY DEF Init, TreeShape, Free
<1>3. Returning = {} /\ Started = {Root}
  BY DEF Init, Returning, Started, Free
<1>4. Live = {Root} /\ Active = {Root}
  BY <1>3 DEF Init, Live, Active, Free
<1>5. OneThreadOfControl
  BY <1>3, <1>4 DEF OneThreadOfControl
<1>6. WaitingIsAChain /\ \A a, b \in Live : pid[a] = pid[b] => a = b
  BY <1>4 DEF Init, WaitingIsAChain, Free
<1>7. EveryChildCollectedOnce
  BY DEF Init, EveryChildCollectedOnce, Free
<1> QED
  BY <1>1, <1>2, <1>5, <1>6, <1>7 DEF IInv

-----------------------------------------------------------------------------
\* Who is running, waiting or about to be resumed is live, and the child a
\* process waits for is.
LEMMA LiveFacts ==
    ASSUME IInv
    PROVE  /\ Live \subseteq Runtime /\ Active \subseteq Live
           /\ \A r \in Runtime : state[r] = "running" => r \in Active
           /\ \A r \in Runtime : state[r] = "waiting" =>
                 /\ r \in Live
                 /\ waitsFor[r] \in Runtime /\ waitsFor[r] \in Live
                 /\ parent[waitsFor[r]] = r /\ waitsFor[r] # Root
           /\ \A r \in Runtime : r # Root /\ state[r] \in {"running", "waiting"} =>
                 /\ parent[r] \in Runtime /\ waitsFor[parent[r]] = r
                 /\ state[parent[r]] = "waiting" /\ r \in children[parent[r]]
<1>1. Live \subseteq Runtime /\ Active \subseteq Live
  BY DEF Live, Active, Started, Returning
<1>2. \A r \in Runtime : state[r] = "running" => r \in Active
  BY DEF Active
<1>3. ASSUME NEW r \in Runtime, state[r] = "waiting"
      PROVE  /\ r \in Live
             /\ waitsFor[r] \in Runtime /\ waitsFor[r] \in Live
             /\ parent[waitsFor[r]] = r /\ waitsFor[r] # Root
  <2>1. r \in Live
    BY <1>3 DEF Live, Started
  <2>2. waitsFor[r] \in children[r] /\ state[waitsFor[r]] \notin {Free, "forked"}
    BY <1>3 DEF IInv, TreeShape
  <2>3. waitsFor[r] \in Runtime /\ parent[waitsFor[r]] = r /\ waitsFor[r] # Root
    BY <2>2 DEF IInv, TypeOK, TreeShape
  <2>4. waitsFor[r] \in Live
    BY <2>2, <2>3 DEF Live, Started, Returning, IInv, TypeOK, States, Ended, Free
  <2> QED
    BY <2>1, <2>3, <2>4
<1>4. ASSUME NEW r \in Runtime, r # Root, state[r] \in {"running", "waiting"}
      PROVE  /\ parent[r] \in Runtime /\ waitsFor[parent[r]] = r
             /\ state[parent[r]] = "waiting" /\ r \in children[parent[r]]
  <2>1. parent[r] \in Runtime
    BY <1>4 DEF IInv, TypeOK, TreeShape, Free
  <2>2. waitsFor[parent[r]] = r
    BY <1>4 DEF IInv, OneThreadOfControl, Started
  <2>3. state[parent[r]] = "waiting"
    BY <2>1, <2>2 DEF IInv, TreeShape
  <2> QED
    BY <2>1, <2>2, <2>3 DEF IInv, TreeShape
<1> QED
  BY <1>1, <1>2, <1>3, <1>4

\* The running process is the only one that is active, and the child wait4
\* waits for is once it has ended.
LEMMA RunningIsActive ==
    ASSUME IInv, NEW r \in Runtime, state[r] = "running"
    PROVE  Active = {r}
<1>1. r \in Active
  BY DEF Active
<1> QED
  BY <1>1 DEF IInv, OneThreadOfControl

\* A child that has ended and has not been collected is the active process.
LEMMA EndedChildIsActive ==
    ASSUME IInv, NEW r \in Runtime, state[r] = "waiting", state[waitsFor[r]] \in Ended
    PROVE  Active = {waitsFor[r]}
<1>1. waitsFor[r] \in Active
  BY LiveFacts DEF Active, Returning
<1> QED
  BY <1>1 DEF IInv, OneThreadOfControl

-----------------------------------------------------------------------------
\* A step that takes processes out of the live ones and gives nobody a new
\* number or somebody new to wait for keeps the order of the numbers.
LEMMA FewerLiveKeepsChain ==
    ASSUME IInv, Live' \subseteq Live, Active' \subseteq Active, pid' = pid,
           \A r \in Runtime : state'[r] = "waiting" =>
               state[r] = "waiting" /\ waitsFor'[r] = waitsFor[r]
    PROVE  /\ WaitingIsAChain'
           /\ \A a, b \in Active' : a = b
           /\ \A a, b \in Live' : pid'[a] = pid'[b] => a = b
BY DEF IInv, WaitingIsAChain, OneThreadOfControl

\* chdir and, apart from the record of the child, fork.
LEMMA ChdirIInv ==
    ASSUME IInv, NEW r \in Runtime, NEW d \in Dir, chdir(r, d)
    PROVE  IInv'
<1>1. UNCHANGED <<state, parent, pid, nextPid, children, waitsFor, exitCode, collected>>
  BY DEF chdir, tree
<1>2. TypeOK'
  BY <1>1 DEF chdir, IInv, TypeOK
<1>3. Started' = Started /\ Returning' = Returning
  BY <1>1 DEF Started, Returning
<1>4. Live' = Live /\ Active' = Active
  BY <1>1, <1>3 DEF Live, Active
<1> QED
  BY <1>1, <1>2, <1>3, <1>4 DEF IInv, TreeShape, OneThreadOfControl, WaitingIsAChain,
                                EveryChildCollectedOnce

\* A run suspends itself in a system call, or goes on after one: the thread of
\* control stays where it is.
LEMMA BlocksIInv ==
    ASSUME IInv, NEW r \in Runtime, blocks(r) \/ unblocks(r)
    PROVE  IInv'
<1>1. UNCHANGED <<state, parent, pid, nextPid, children, waitsFor, exitCode, cwd, vfsCwd, collected>>
  BY DEF blocks, unblocks, tree, dirs
<1>2. TypeOK'
  BY <1>1 DEF blocks, unblocks, IInv, TypeOK
<1>3. Started' = Started /\ Returning' = Returning
  BY <1>1 DEF Started, Returning
<1>4. Live' = Live /\ Active' = Active
  BY <1>1, <1>3 DEF Live, Active
<1> QED
  BY <1>1, <1>2, <1>3, <1>4 DEF IInv, TreeShape, OneThreadOfControl, WaitingIsAChain,
                                EveryChildCollectedOnce

\* forkProcess keeps the invariant: the new number is above all that are live.
LEMMA ForkIInv ==
    ASSUME IInv, NEW r \in Runtime, NEW c \in Runtime, forkProcess(r, c)
    PROVE  IInv'
<1>1. /\ c # r /\ c # Root /\ parent[c] = NoRuntime /\ children[c] = {}
      /\ \A q \in Runtime : parent[q] # c /\ waitsFor[q] # c
      /\ \A q \in Runtime : c \notin children[q]
  <2>1. c # r /\ c # Root
    BY DEF forkProcess, Free, IInv, TreeShape
  <2>2. parent[c] = NoRuntime /\ children[c] = {}
    BY <2>1 DEF forkProcess, IInv, TreeShape
  <2>3. \A q \in Runtime : parent[q] # c
    BY DEF forkProcess, IInv, TreeShape
  <2>4. \A q \in Runtime : c \notin children[q]
    BY <2>2 DEF IInv, TreeShape
  <2>5. ASSUME NEW q \in Runtime PROVE waitsFor[q] # c
    <3>1. waitsFor[q] = NoRuntime \/ waitsFor[q] \in children[q]
      BY DEF IInv, TreeShape
    <3> QED
      BY <3>1, <2>4
  <2> QED
    BY <2>1, <2>2, <2>3, <2>4, <2>5
<1>2. TypeOK'
  BY DEF forkProcess, IInv, TypeOK, States, AfterFork, ChildNextPid
<1>3. TreeShape'
  <2>1. /\ \A q \in Runtime \ {c} : state'[q] = state[q] /\ parent'[q] = parent[q] /\ pid'[q] = pid[q]
        /\ \A q \in Runtime \ {r, c} : nextPid'[q] = nextPid[q]
        /\ \A q \in Runtime \ {r} : children'[q] = children[q]
        /\ state'[c] = "forked" /\ parent'[c] = r /\ pid'[c] = nextPid[r]
        /\ nextPid'[r] = nextPid[r] + 1 /\ nextPid'[c] = nextPid[r] + 1
        /\ children'[r] = children[r] \cup {c}
        /\ waitsFor' = waitsFor /\ exitCode' = exitCode
    BY <1>1 DEF forkProcess, IInv, TypeOK, AfterFork, ChildNextPid
  <2>2. state[r] = "running" /\ nextPid[r] \in Nat /\ pid[r] < nextPid[r]
    BY DEF forkProcess, IInv, TypeOK, TreeShape, Free
  <2>3. \A q \in Runtime : state'[q] # Free => pid'[q] < nextPid'[q]
    BY <1>1, <2>1, <2>2 DEF IInv, TypeOK, TreeShape, Free
  <2>4. ASSUME NEW q \in Runtime, parent'[q] # NoRuntime
        PROVE  /\ state'[parent'[q]] # Free
               /\ pid'[parent'[q]] < pid'[q] /\ pid'[q] < nextPid'[parent'[q]]
    <3>1. CASE q = c
      BY <3>1, <1>1, <2>1, <2>2 DEF Free, IInv, TypeOK
    <3>2. CASE q # c
      <4>1. parent'[q] = parent[q] /\ parent[q] \in Runtime \ {c} /\ pid'[q] = pid[q]
        BY <3>2, <1>1, <2>1, <2>4 DEF IInv, TypeOK
      <4>2. nextPid'[parent[q]] >= nextPid[parent[q]]
        BY <4>1, <2>1, <2>2 DEF IInv, TypeOK
      <4> QED
        BY <4>1, <4>2, <2>1, <2>4 DEF IInv, TypeOK, TreeShape
    <3> QED
      BY <3>1, <3>2
  <2>5. ASSUME NEW a \in Runtime, NEW b \in Runtime,
               parent'[a] = parent'[b], parent'[a] # NoRuntime, pid'[a] = pid'[b]
        PROVE  a = b
    <3>1. \A q \in Runtime \ {c} : parent[q] = r => pid[q] < nextPid[r]
      BY DEF IInv, TreeShape
    <3>2. \A q \in Runtime \ {c} : parent'[q] = r => pid'[q] # nextPid[r]
      BY <3>1, <2>1, <2>2 DEF IInv, TypeOK
    <3>3. CASE a # c /\ b # c
      BY <3>3, <2>1, <2>5 DEF IInv, TreeShape
    <3>4. CASE a = c \/ b = c
      BY <3>4, <3>2, <2>1, <2>5
    <3> QED
      BY <3>3, <3>4
  <2>6. \A q \in Runtime : \A d \in children'[q] : parent'[d] = q
    BY <1>1, <2>1 DEF IInv, TypeOK, TreeShape
  <2>7. \A q \in Runtime : state'[q] # "waiting" => waitsFor'[q] = NoRuntime
    BY <1>1, <2>1 DEF IInv, TreeShape, forkProcess, Free
  <2>8. \A q \in Runtime : state'[q] = "waiting" =>
            waitsFor'[q] \in children'[q] /\ state'[waitsFor'[q]] \notin {Free, "forked"}
    BY <1>1, <2>1, <2>2 DEF IInv, TypeOK, TreeShape
  <2>9. /\ state'[Root] # Free /\ parent'[Root] = NoRuntime
        /\ \A q \in Runtime \ {Root} : parent'[q] = NoRuntime <=> state'[q] = Free
        /\ \A q \in Runtime : state'[q] = Free => children'[q] = {}
        /\ \A q \in Runtime : state'[q] = "exited" => exitCode'[q] \in Code
    BY <1>1, <2>1, <2>2 DEF IInv, TreeShape, Free
  <2> QED
    BY <2>3, <2>4, <2>5, <2>6, <2>7, <2>8, <2>9 DEF TreeShape
<1>4. Started' = Started /\ Returning' = Returning
  BY <1>1 DEF forkProcess, IInv, TypeOK, Started, Returning, Free, Ended
<1>5. Live' = Live /\ Active' = Active
  BY <1>4 DEF Live, Active, forkProcess, IInv, TypeOK, Free
<1>6. \A q \in Live : q # c /\ pid'[q] = pid[q]
  BY LiveFacts DEF Live, Started, Returning, forkProcess, Free, Ended, IInv, TypeOK
<1>7. OneThreadOfControl'
  BY <1>1, <1>4, <1>5 DEF OneThreadOfControl, IInv, forkProcess, TypeOK, Started, Free
<1>8. WaitingIsAChain' /\ \A a, b \in Live' : pid'[a] = pid'[b] => a = b
  <2>1. \A q \in Runtime : state'[q] = "waiting" =>
            /\ state[q] = "waiting" /\ q \in Live /\ waitsFor[q] \in Live
            /\ waitsFor'[q] = waitsFor[q]
    BY LiveFacts DEF forkProcess, IInv, TypeOK
  <2> QED
    BY <2>1, <1>5, <1>6, LiveFacts DEF IInv, WaitingIsAChain
<1>9. EveryChildCollectedOnce'
  <2>1. \A a \in collected : a.child \in Runtime /\ a.by \in Runtime /\ a.child # c
    BY DEF IInv, TypeOK, Answer, EveryChildCollectedOnce, forkProcess, Free
  <2>2. \A q \in Runtime \ {c} : state'[q] = state[q] /\ parent'[q] = parent[q] /\ pid'[q] = pid[q]
    BY DEF forkProcess, IInv, TypeOK
  <2>3. \A q \in Runtime : children[q] \subseteq children'[q] /\ children'[q] \subseteq children[q] \cup {c}
    BY DEF forkProcess, IInv, TypeOK
  <2>4. state'[c] = "forked" /\ collected' = collected /\ exitCode' = exitCode
    BY DEF forkProcess, IInv, TypeOK
  <2>5. \A q \in Runtime \ {Root} : state[q] = "exited" => parent[q] \in Runtime
    BY DEF IInv, TypeOK, TreeShape, Free
  <2> QED
    BY <2>1, <2>2, <2>3, <2>4, <2>5 DEF IInv, EveryChildCollectedOnce
<1> QED
  BY <1>2, <1>3, <1>7, <1>8, <1>9 DEF IInv
-----------------------------------------------------------------------------
\* A child that has been forked is started by its running parent.
LEMMA Wait4IInv ==
    ASSUME IInv, NEW r \in Runtime, NEW c \in Runtime, wait4(r, c)
    PROVE  IInv'
<1>1. /\ state[r] = "running" /\ state[c] = "forked" /\ c # r
      /\ c \in children[r] /\ parent[c] = r /\ c # Root /\ pid[r] < pid[c]
  BY DEF wait4, Selected, IInv, TypeOK, TreeShape
<1>2. /\ \A q \in Runtime \ {r, c} : state'[q] = state[q]
      /\ \A q \in Runtime \ {r} : waitsFor'[q] = waitsFor[q]
      /\ state'[r] = "waiting" /\ state'[c] = "running" /\ waitsFor'[r] = c
      /\ UNCHANGED <<parent, pid, nextPid, children, exitCode, cwd, vfsCwd, collected>>
  BY <1>1 DEF wait4, IInv, TypeOK, tree, dirs
<1>3. TypeOK'
  BY DEF wait4, tree, dirs, IInv, TypeOK, States
<1>4. TreeShape'
  BY <1>1, <1>2, SMTT(60) DEF IInv, TypeOK, TreeShape, Free
<1>5. /\ waitsFor[r] = NoRuntime
      /\ \A q \in Runtime : waitsFor[q] # c
  <2>1. \A q \in Runtime : waitsFor[q] = NoRuntime \/ waitsFor[q] \in children[q]
    BY DEF IInv, TreeShape
  <2>2. waitsFor[r] = NoRuntime
    BY <1>1 DEF IInv, TreeShape
  <2>3. \A q \in Runtime : c \in children[q] => q = r
    BY <1>1 DEF IInv, TreeShape
  <2> QED
    BY <2>1, <2>2, <2>3
<1>6. Returning = {} /\ Active = {r}
  <2>1. Active = {r}
    BY <1>1, RunningIsActive
  <2>2. r \notin Returning
    BY <1>1 DEF Returning, Ended
  <2> QED
    BY <2>1, <2>2 DEF Active
<1>7. Started' = Started \cup {c}
  BY <1>1, <1>2 DEF Started
<1>8. Returning' = {}
  <2> SUFFICES ASSUME NEW d \in Returning' PROVE FALSE
    OBVIOUS
  <2>1. d \in Runtime /\ state'[d] \in Ended /\ parent[d] # NoRuntime /\ waitsFor'[parent[d]] = d
    BY <1>2 DEF Returning
  <2>2. d # r /\ d # c /\ state[d] \in Ended /\ parent[d] \in Runtime
    BY <1>2, <2>1 DEF Ended, IInv, TypeOK
  <2>3. waitsFor[parent[d]] = d
    BY <1>2, <2>1, <2>2
  <2> QED
    BY <2>1, <2>2, <2>3, <1>6 DEF Returning
<1>9. Live' = Live \cup {c} /\ Active' = {c}
  <2>1. Live' = Live \cup {c}
    BY <1>6, <1>7, <1>8 DEF Live
  <2>2. \A q \in Runtime : state'[q] = "running" <=> q = c
    <3>1. \A q \in Runtime : state[q] = "running" => q = r
      BY <1>6 DEF Active
    <3> QED
      BY <3>1, <1>1, <1>2
  <2> QED
    BY <2>1, <2>2, <1>8 DEF Active
<1>10. OneThreadOfControl'
  <2>1. \A q \in Started \ {Root} : waitsFor'[parent[q]] = q
    <3> SUFFICES ASSUME NEW q \in Started, q # Root PROVE waitsFor'[parent[q]] = q
      OBVIOUS
    <3>1. waitsFor[parent[q]] = q /\ parent[q] \in Runtime /\ q \in Runtime
      BY LiveFacts DEF Started
    <3>2. parent[q] # r
      BY <3>1, <1>5
    <3> QED
      BY <3>1, <3>2, <1>2
  <2> QED
    BY <2>1, <1>1, <1>2, <1>7, <1>9 DEF OneThreadOfControl
<1>11. WaitingIsAChain' /\ \A a, b \in Live' : pid'[a] = pid'[b] => a = b
  <2>1. /\ Live \subseteq Runtime /\ r \in Live
        /\ \A b \in Live : pid[b] \in Nat /\ pid[b] <= pid[r]
        /\ pid[r] \in Nat /\ pid[c] \in Nat
    BY LiveFacts, <1>1, <1>6 DEF IInv, TypeOK, WaitingIsAChain
  <2>2. \A a, b \in Live' : pid'[a] = pid'[b] => a = b
    BY <2>1, <1>1, <1>2, <1>9 DEF IInv
  <2>3. \A b \in Live' : pid'[b] <= pid'[c]
    BY <2>1, <1>1, <1>2, <1>9
  <2>4. ASSUME NEW q \in Runtime, state'[q] = "waiting",
               NEW b \in Live', pid'[b] > pid'[q]
        PROVE  pid'[b] >= pid'[waitsFor'[q]]
    <3>1. CASE q = r
      BY <3>1, <2>1, <2>4, <1>2, <1>9
    <3>2. CASE q # r
      <4>1. state[q] = "waiting" /\ waitsFor'[q] = waitsFor[q] /\ waitsFor[q] \in Live
        BY <3>2, <2>4, <1>1, <1>2, LiveFacts
      <4>2. CASE b = c
        BY <4>1, <4>2, <2>1, <1>1, <1>2
      <4>3. CASE b \in Live
        BY <4>1, <4>3, <2>4, <1>2 DEF IInv, WaitingIsAChain
      <4> QED
        BY <4>2, <4>3, <1>9
    <3> QED
      BY <3>1, <3>2
  <2> QED
    BY <2>2, <2>3, <2>4, <1>9 DEF WaitingIsAChain
<1>12. EveryChildCollectedOnce'
  BY <1>1, <1>2 DEF IInv, TypeOK, EveryChildCollectedOnce, Answer
<1> QED
  BY <1>3, <1>4, <1>10, <1>11, <1>12 DEF IInv

-----------------------------------------------------------------------------
\* The run of a process ends in the state st, by exit or by a fault.
LEMMA EndIInv ==
    ASSUME IInv, NEW r \in Runtime, NEW st \in Ended, state[r] = "running",
           state' = [state EXCEPT ![r] = st],
           UNCHANGED <<parent, pid, nextPid, children, waitsFor, blocked, cwd, vfsCwd, collected>>,
           \/ st = "failed" /\ exitCode' = exitCode
           \/ \E code \in Code : exitCode' = [exitCode EXCEPT ![r] = code]
    PROVE  IInv'
<1>1. /\ \A q \in Runtime \ {r} : state'[q] = state[q] /\ exitCode'[q] = exitCode[q]
      /\ state'[r] = st /\ st \in {"exited", "failed"}
      /\ st = "exited" => exitCode'[r] \in Code
  BY DEF IInv, TypeOK, Ended
<1>2. TypeOK'
  BY <1>1 DEF IInv, TypeOK, States, Ended
<1>3. TreeShape'
  BY <1>1 DEF IInv, TypeOK, TreeShape, Free
<1>4. Started' = Started \ {r}
  BY <1>1 DEF Started
<1>5. Returning = {} /\ Active = {r} /\ r \in Live
  <2>1. Active = {r}
    BY RunningIsActive
  <2>2. r \notin Returning
    BY DEF Returning, Ended
  <2> QED
    BY <2>1, <2>2, LiveFacts DEF Active
<1>6. Returning' \subseteq {r}
  <2> SUFFICES ASSUME NEW d \in Returning', d # r PROVE FALSE
    OBVIOUS
  <2>1. d \in Runtime /\ state'[d] \in Ended /\ parent[d] # NoRuntime /\ waitsFor[parent[d]] = d
    BY DEF Returning
  <2> QED
    BY <2>1, <1>1, <1>5 DEF Returning
<1>7. Live' \subseteq Live
  BY <1>4, <1>5, <1>6 DEF Live
<1>8. Active' \subseteq Active
  <2>1. \A q \in Runtime : state'[q] # "running"
    <3>1. \A q \in Runtime : state[q] = "running" => q = r
      BY <1>5 DEF Active
    <3> QED
      BY <3>1, <1>1
  <2> QED
    BY <2>1, <1>5, <1>6 DEF Active
<1>9. \A q \in Runtime : state'[q] = "waiting" => state[q] = "waiting" /\ waitsFor'[q] = waitsFor[q]
  BY <1>1
<1>10. WaitingIsAChain' /\ (\A a, b \in Active' : a = b)
       /\ \A a, b \in Live' : pid'[a] = pid'[b] => a = b
  BY <1>7, <1>8, <1>9, FewerLiveKeepsChain
<1>11. OneThreadOfControl'
  BY <1>4, <1>10 DEF IInv, OneThreadOfControl
<1>12. EveryChildCollectedOnce'
  <2>1. \A a \in collected : a.child \in Runtime /\ a.child # r
    BY DEF IInv, TypeOK, Answer, EveryChildCollectedOnce
  <2>2. r # Root => r \in children[parent[r]]
    BY LiveFacts
  <2> QED
    BY <1>1, <2>1, <2>2 DEF IInv, EveryChildCollectedOnce
<1> QED
  BY <1>2, <1>3, <1>10, <1>11, <1>12 DEF IInv

-----------------------------------------------------------------------------
\* A parent whose child has ended resumes in the state st, or fails.
LEMMA ResumeKeepsThread ==
    ASSUME IInv, NEW r \in Runtime, NEW st \in {"running", "failed"},
           state[r] = "waiting", state[waitsFor[r]] \in Ended,
           state' = [state EXCEPT ![r] = st],
           waitsFor' = [waitsFor EXCEPT ![r] = NoRuntime],
           UNCHANGED <<parent, pid, nextPid, exitCode, cwd, vfsCwd>>
    PROVE  /\ OneThreadOfControl'
           /\ WaitingIsAChain'
           /\ \A a, b \in Live' : pid'[a] = pid'[b] => a = b
<1> DEFINE c == waitsFor[r]
<1>1. /\ c \in Runtime /\ c \in Live /\ parent[c] = r /\ c # Root /\ c # r /\ r \in Live
      /\ Active = {c}
  BY LiveFacts, EndedChildIsActive DEF Ended
<1>2. /\ \A q \in Runtime \ {r} : state'[q] = state[q] /\ waitsFor'[q] = waitsFor[q]
      /\ state'[r] = st /\ waitsFor'[r] = NoRuntime
  BY DEF IInv, TypeOK
<1>3. Returning' \subseteq {r}
  <2> SUFFICES ASSUME NEW d \in Returning', d # r PROVE FALSE
    OBVIOUS
  <2>1. /\ d \in Runtime /\ state'[d] \in Ended /\ parent[d] \in Runtime
        /\ waitsFor'[parent[d]] = d
    BY DEF Returning, IInv, TypeOK
  <2>2. parent[d] # r
    BY <2>1, <1>2
  <2>3. d \in Returning
    BY <2>1, <2>2, <1>2 DEF Returning
  <2>4. d = c
    BY <2>3, <1>1 DEF Active
  <2> QED
    BY <2>2, <2>4, <1>1
<1>4. Started' \subseteq Started
  BY <1>2 DEF Started
<1>5. c \notin Live' /\ Live' \subseteq Live
  <2>1. c \notin Started'
    BY <1>1, <1>2 DEF Started, Ended
  <2> QED
    BY <2>1, <1>1, <1>3, <1>4 DEF Live
<1>6. Active' \subseteq {r}
  <2>1. \A q \in Runtime \ {r} : state'[q] # "running"
    <3>1. \A q \in Runtime : state[q] = "running" => q = c
      BY <1>1 DEF Active
    <3> QED
      BY <3>1, <1>1, <1>2 DEF Ended
  <2> QED
    BY <2>1, <1>3 DEF Active
<1>7. \A b \in Live' : pid[b] <= pid[r]
  <2> SUFFICES ASSUME NEW b \in Live', ~(pid[b] <= pid[r]) PROVE FALSE
    OBVIOUS
  <2>1. b \in Live /\ b # c /\ pid[b] \in Nat /\ pid[r] \in Nat /\ pid[c] \in Nat
    BY <1>1, <1>5, LiveFacts DEF IInv, TypeOK
  <2>2. pid[b] >= pid[c]
    BY <2>1 DEF IInv, WaitingIsAChain
  <2>3. pid[b] <= pid[c]
    BY <2>1, <1>1 DEF IInv, WaitingIsAChain
  <2> QED
    BY <2>1, <2>2, <2>3, <1>1 DEF IInv
<1>8. \A a, b \in Live' : pid'[a] = pid'[b] => a = b
  BY <1>5 DEF IInv
<1>9. WaitingIsAChain'
  <2>1. \A q \in Runtime : state'[q] = "waiting" =>
            q # r /\ state[q] = "waiting" /\ waitsFor'[q] = waitsFor[q]
    BY <1>2
  <2> QED
    BY <2>1, <1>5, <1>6, <1>7 DEF IInv, WaitingIsAChain
<1>10. OneThreadOfControl'
  <2> SUFFICES ASSUME NEW q \in Started', q # Root PROVE waitsFor'[parent'[q]] = q
    BY <1>6 DEF OneThreadOfControl
  <2>1. q \in Started /\ q \in Runtime /\ q # c
    BY <1>1, <1>4, <1>5 DEF Started, Live
  <2>2. waitsFor[parent[q]] = q /\ parent[q] \in Runtime
    BY <2>1, LiveFacts DEF Started
  <2> QED
    BY <2>1, <2>2, <1>2
<1> QED
  BY <1>8, <1>9, <1>10

\* wait4 that throws ends its process and keeps the invariant.
LEMMA Wait4ThrowsIInv ==
    ASSUME IInv, NEW r \in Runtime, wait4Throws(r)
    PROVE  IInv'
<1>1. /\ state[r] = "waiting"
      /\ \A q \in Runtime \ {r} : state'[q] = state[q] /\ waitsFor'[q] = waitsFor[q]
      /\ state'[r] = "failed" /\ waitsFor'[r] = NoRuntime
      /\ UNCHANGED <<parent, pid, nextPid, children, exitCode, cwd, vfsCwd, collected>>
  BY DEF wait4Throws, tree, dirs, IInv, TypeOK
<1>2. TypeOK'
  BY DEF wait4Throws, tree, dirs, IInv, TypeOK, States
<1>3. TreeShape'
  BY <1>1 DEF IInv, TypeOK, TreeShape, Free
<1>4. /\ OneThreadOfControl' /\ WaitingIsAChain'
      /\ \A a, b \in Live' : pid'[a] = pid'[b] => a = b
  BY ResumeKeepsThread DEF wait4Throws, tree, dirs
<1>5. EveryChildCollectedOnce'
  <2>1. \A a \in collected : a.child \in Runtime /\ a.child # r
    BY <1>1 DEF IInv, TypeOK, Answer, EveryChildCollectedOnce
  <2> QED
    BY <1>1, <2>1 DEF IInv, EveryChildCollectedOnce
<1> QED
  BY <1>2, <1>3, <1>4, <1>5 DEF IInv

\* wait4 that returns collects its child and keeps the invariant.
LEMMA Wait4ReturnsIInv ==
    ASSUME IInv, NEW r \in Runtime, wait4Returns(r)
    PROVE  IInv'
<1> DEFINE c == waitsFor[r]
           answer == [by |-> r, child |-> c, pid |-> pid[c], code |-> exitCode[c] % 256]
<1>1. /\ state[r] = "waiting" /\ state[c] = "exited"
      /\ c \in Runtime /\ parent[c] = r /\ c # Root /\ c # r
  BY LiveFacts DEF wait4Returns
<1>2. /\ \A q \in Runtime \ {r} : /\ state'[q] = state[q] /\ waitsFor'[q] = waitsFor[q]
                                  /\ children'[q] = children[q]
      /\ state'[r] = "running" /\ waitsFor'[r] = NoRuntime
      /\ children'[r] = children[r] \ {c} /\ collected' = collected \cup {answer}
      /\ UNCHANGED <<parent, pid, nextPid, exitCode, cwd, vfsCwd>>
  BY DEF wait4Returns, ChildrenLeft, StatusOf, tree, dirs, IInv, TypeOK
<1>3. answer \in Answer
  <2>1. exitCode[c] \in Nat /\ pid[c] \in Nat
    BY <1>1 DEF IInv, TypeOK, TreeShape
  <2>2. exitCode[c] % 256 \in 0 .. 255
    BY <2>1
  <2> QED
    BY <1>1, <2>1, <2>2 DEF Answer
<1>4. TypeOK'
  BY <1>2, <1>3 DEF wait4Returns, ChildrenLeft, tree, dirs, IInv, TypeOK, States
<1>5. TreeShape'
  BY <1>1, <1>2, SMTT(60) DEF IInv, TypeOK, TreeShape, Free
<1>6. /\ OneThreadOfControl' /\ WaitingIsAChain'
      /\ \A a, b \in Live' : pid'[a] = pid'[b] => a = b
  BY ResumeKeepsThread DEF wait4Returns, tree, dirs, Ended
<1>7. EveryChildCollectedOnce'
  <2>1. ASSUME NEW a \in collected'
        PROVE  /\ parent'[a.child] = a.by /\ a.child \notin children'[a.by]
               /\ state'[a.child] = "exited"
               /\ a.pid = pid'[a.child] /\ a.code = exitCode'[a.child] % 256
    <3>1. CASE a = answer
      BY <3>1, <1>1, <1>2
    <3>2. CASE a \in collected
      <4>1. a.child \in Runtime /\ a.by \in Runtime /\ a.child # r
        BY <3>2, <1>1 DEF IInv, TypeOK, Answer, EveryChildCollectedOnce
      <4>2. children'[a.by] \subseteq children[a.by]
        BY <4>1, <1>2
      <4> QED
        BY <3>2, <4>1, <4>2, <1>2 DEF IInv, EveryChildCollectedOnce
    <3> QED
      BY <3>1, <3>2, <1>2
  <2>2. ASSUME NEW d \in Runtime \ {Root}, state'[d] = "exited"
        PROVE  d \in children'[parent'[d]] \/ \E a \in collected' : a.child = d
    <3>1. state[d] = "exited" /\ parent[d] \in Runtime
      BY <2>2, <1>2 DEF IInv, TypeOK, TreeShape, Free
    <3>2. CASE d = c
      <4>1. answer \in collected' /\ answer.child = c
        BY <1>2
      <4> QED
        BY <3>2, <4>1
    <3>3. CASE d # c
      BY <3>1, <3>3, <1>2 DEF IInv, EveryChildCollectedOnce
    <3> QED
      BY <3>2, <3>3
  <2> QED
    BY <2>1, <2>2 DEF EveryChildCollectedOnce
<1> QED
  BY <1>4, <1>5, <1>6, <1>7 DEF IInv

-----------------------------------------------------------------------------
\* Every operation keeps the inductive invariant.
LEMMA NextIInv == IInv /\ [Next]_vars => IInv'
<1> SUFFICES ASSUME IInv, [Next]_vars PROVE IInv'
  OBVIOUS
<1>1. ASSUME NEW r \in Runtime, NEW c \in Runtime, forkProcess(r, c) PROVE IInv'
  BY <1>1, ForkIInv
<1>2. ASSUME NEW r \in Runtime, NEW c \in Runtime, wait4(r, c) PROVE IInv'
  BY <1>2, Wait4IInv
<1>3. ASSUME NEW r \in Runtime, NEW code \in Code, exit(r, code) PROVE IInv'
  BY <1>3, EndIInv DEF exit, tree, dirs, Ended
<1>4. ASSUME NEW r \in Runtime, fault(r) PROVE IInv'
  BY <1>4, EndIInv DEF fault, tree, dirs, Ended
<1>5. ASSUME NEW r \in Runtime, wait4Returns(r) PROVE IInv'
  BY <1>5, Wait4ReturnsIInv
<1>6. ASSUME NEW r \in Runtime, wait4Throws(r) PROVE IInv'
  BY <1>6, Wait4ThrowsIInv
<1>7. ASSUME NEW r \in Runtime, NEW d \in Dir, chdir(r, d) PROVE IInv'
  BY <1>7, ChdirIInv
<1>8. CASE UNCHANGED vars
  <2>1. Started' = Started /\ Returning' = Returning
    BY <1>8 DEF vars, Started, Returning
  <2>2. Live' = Live /\ Active' = Active
    BY <1>8, <2>1 DEF vars, Live, Active
  <2> QED
    BY <1>8, <2>1, <2>2 DEF vars, IInv, TypeOK, TreeShape, OneThreadOfControl, WaitingIsAChain,
                            EveryChildCollectedOnce
<1>9. ASSUME NEW r \in Runtime, blocks(r) \/ unblocks(r) PROVE IInv'
  BY <1>9, BlocksIInv
<1> QED
  BY <1>1, <1>2, <1>3, <1>4, <1>5, <1>6, <1>7, <1>8, <1>9 DEF Next, Ends, Resumes

\* The inductive invariant holds in every reachable state.
THEOREM Invariance == Spec => []IInv
BY InitIInv, NextIInv, PTL DEF Spec

\* Every reachable state of the process tree is well typed.
THEOREM TypeCorrect == Spec => []TypeOK
<1>1. IInv => TypeOK
  BY DEF IInv
<1> QED
  BY <1>1, Invariance, PTL

\* runAsync of a tree of processes is one thread of control: at most one of
\* them runs, whoever else has started waits in wait4 for the next one.
THEOREM OneRunsAtATime == Spec => []OneThreadOfControl
<1>1. IInv => OneThreadOfControl
  BY DEF IInv
<1> QED
  BY <1>1, Invariance, PTL

\* The numbers forkProcess hands out from the counters it copies from parent to
\* child tell apart the processes under way and the children of one parent.
THEOREM PidsAreDistinct == Spec => []PidsTellApart
<1>1. IInv => PidsTellApart
  BY DEF IInv, TypeOK, TreeShape, PidsTellApart
<1> QED
  BY <1>1, Invariance, PTL

\* The numbers grow along the chain of processes that wait for each other.
THEOREM WaitersFormAChain == Spec => []WaitingIsAChain
<1>1. IInv => WaitingIsAChain
  BY DEF IInv
<1> QED
  BY <1>1, Invariance, PTL

\* wait4 reports every child that exits once, with its own number and code.
THEOREM ChildrenCollectedOnce == Spec => []EveryChildCollectedOnce
<1>1. IInv => EveryChildCollectedOnce
  BY DEF IInv
<1> QED
  BY <1>1, Invariance, PTL
=============================================================================
