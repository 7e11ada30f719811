-------------------------- MODULE FileTreesProofs ---------------------------
(***************************************************************************)
(* Proofs about the trees that are kept as maps from paths.                *)
(*                                                                         *)
(* The overlay of OverlayVFS, for any names, depths, contents and base:    *)
(* the upper tree stays a tree whatever copy-up, failing operations and    *)
(* renames do to it, the base stays as it is, and changes show.            *)
(*                                                                         *)
(* The snapshots and archives of TreeImages, for any trees, names and      *)
(* archives: what was saved comes back, and what was mounted is there.     *)
(***************************************************************************)
EXTENDS OverlayVFS, TreeImages, SequenceTheorems, WellFoundedInduction, TLAPS

-----------------------------------------------------------------------------
(* Paths.                                                                  *)

\* A sequence is a prefix if it agrees as far as it goes.
LEMMA PrefixByElements ==
    ASSUME NEW N, NEW s \in Seq(N), NEW t \in Seq(N)
    PROVE  IsPrefix(s, t) <=> Len(s) <= Len(t) /\ \A i \in 1 .. Len(s) : s[i] = t[i]
<1>1. Len(s) \in Nat /\ Len(t) \in Nat /\ SubSeq(s, 1, Len(s)) = s
  BY LenProperties, SubSeqFull
<1>2. CASE Len(s) <= Len(t)
  <2>1. \A i \in 1 .. Len(s) : t[i] \in N
    BY <1>1, <1>2, ElementOfSeq
  <2>2. PICK u \in Seq(N) : u = SubSeq(t, 1, Len(s)) /\ Len(u) = Len(s) /\ \A i \in 1 .. Len(s) : u[i] = t[i]
    <3>1. /\ SubSeq(t, 1, Len(s)) \in Seq(N)
          /\ Len(SubSeq(t, 1, Len(s))) = IF 1 <= Len(s) THEN Len(s) - 1 + 1 ELSE 0
          /\ \A i \in 1 .. Len(s) - 1 + 1 : SubSeq(t, 1, Len(s))[i] = t[1 + i - 1]
      BY <1>1, <2>1, SubSeqProperties
    <3>2. PICK u \in Seq(N) : /\ u = SubSeq(t, 1, Len(s))
                              /\ Len(u) = IF 1 <= Len(s) THEN Len(s) - 1 + 1 ELSE 0
                              /\ \A i \in 1 .. Len(s) - 1 + 1 : u[i] = t[1 + i - 1]
      BY <3>1, Zenon
    <3>3. Len(u) = Len(s)
      BY <1>1, <3>2
    <3>4. ASSUME NEW i \in 1 .. Len(s)
          PROVE  u[i] = t[i]
      <4>1. i \in 1 .. Len(s) - 1 + 1 /\ 1 + i - 1 = i
        BY <1>1
      <4> QED
        BY <3>2, <4>1
    <3> QED
      BY <3>2, <3>3, <3>4
  <2>3. IsPrefix(s, t) <=> s = u
    BY <1>1, <1>2, <2>2, Zenon DEF IsPrefix
  <2>4. s = u <=> \A i \in 1 .. Len(s) : s[i] = u[i]
    BY <2>2, SeqEqual, Zenon
  <2> QED
    BY <1>2, <2>2, <2>3, <2>4, Zenon
<1>3. CASE ~(Len(s) <= Len(t))
  BY <1>3, Zenon DEF IsPrefix
<1> QED
  BY <1>2, <1>3

\* Prefixes of prefixes; two prefixes of one path are prefixes of each other.
LEMMA PrefixOrder ==
    ASSUME NEW N, NEW r \in Seq(N), NEW s \in Seq(N), NEW t \in Seq(N), IsPrefix(s, t)
    PROVE  /\ IsPrefix(r, s) => IsPrefix(r, t)
           /\ IsPrefix(r, t) /\ Len(r) <= Len(s) => IsPrefix(r, s)
           /\ Len(s) = Len(t) => s = t
           /\ Len(s) <= Len(t)
<1>1. Len(r) \in Nat /\ Len(s) \in Nat /\ Len(t) \in Nat
  BY LenProperties
<1>2. Len(s) <= Len(t) /\ \A i \in 1 .. Len(s) : s[i] = t[i]
  BY PrefixByElements
<1>3. IsPrefix(r, s) => IsPrefix(r, t)
  <2>1. SUFFICES ASSUME IsPrefix(r, s)
                 PROVE  IsPrefix(r, t)
    OBVIOUS
  <2>2. Len(r) <= Len(s) /\ \A i \in 1 .. Len(r) : r[i] = s[i]
    BY <2>1, PrefixByElements
  <2>3. Len(r) <= Len(t) /\ \A i \in 1 .. Len(r) : r[i] = t[i]
    BY <1>1, <1>2, <2>2
  <2> QED
    BY <2>3, PrefixByElements
<1>4. ASSUME IsPrefix(r, t), Len(r) <= Len(s)
      PROVE  IsPrefix(r, s)
  <2>1. \A i \in 1 .. Len(r) : r[i] = t[i]
    BY <1>4, PrefixByElements
  <2>2. \A i \in 1 .. Len(r) : r[i] = s[i]
    BY <1>1, <1>2, <1>4, <2>1
  <2> QED
    BY <1>4, <2>2, PrefixByElements
<1>5. Len(s) = Len(t) => s = t
  BY <1>2, SeqEqual
<1> QED
  BY <1>2, <1>3, <1>4, <1>5

\* The path u with q in place of its beginning p.
Swap(p, q, u) == q \o SubSeq(u, Len(p) + 1, Len(u))

\* Element by element.
LEMMA SwapElements ==
    ASSUME NEW p \in Seq(Name), NEW q \in Seq(Name), NEW u \in Seq(Name), IsPrefix(p, u)
    PROVE  /\ Swap(p, q, u) \in Seq(Name) /\ Len(Swap(p, q, u)) = Len(q) + Len(u) - Len(p)
           /\ \A i \in 1 .. Len(q) : Swap(p, q, u)[i] = q[i]
           /\ \A i \in Len(q) + 1 .. Len(q) + Len(u) - Len(p) : Swap(p, q, u)[i] = u[i - Len(q) + Len(p)]
<1>1. Len(p) \in Nat /\ Len(q) \in Nat /\ Len(u) \in Nat /\ Len(p) <= Len(u)
  BY LenProperties, PrefixOrder
<1>2. PICK v \in Seq(Name) : /\ v = SubSeq(u, Len(p) + 1, Len(u)) /\ Len(v) = Len(u) - Len(p)
                             /\ \A i \in 1 .. Len(u) - Len(p) : v[i] = u[Len(p) + i]
  <2>1. \A i \in Len(p) + 1 .. Len(u) : u[i] \in Name
    BY <1>1, ElementOfSeq
  <2>2. PICK m \in Nat : m = Len(p) + 1
    BY <1>1
  <2>3. /\ SubSeq(u, m, Len(u)) \in Seq(Name)
        /\ Len(SubSeq(u, m, Len(u))) = IF m <= Len(u) THEN Len(u) - m + 1 ELSE 0
        /\ \A i \in 1 .. Len(u) - m + 1 : SubSeq(u, m, Len(u))[i] = u[m + i - 1]
    BY <1>1, <2>1, <2>2, SubSeqProperties
  <2>4. PICK v \in Seq(Name) : /\ v = SubSeq(u, m, Len(u))
                               /\ Len(v) = IF m <= Len(u) THEN Len(u) - m + 1 ELSE 0
                               /\ \A i \in 1 .. Len(u) - m + 1 : v[i] = u[m + i - 1]
    BY <2>3, Zenon
  <2>5. Len(v) = Len(u) - Len(p)
    BY <1>1, <2>2, <2>4
  <2>6. ASSUME NEW i \in 1 .. Len(u) - Len(p)
        PROVE  v[i] = u[Len(p) + i]
    <3>1. i \in 1 .. Len(u) - m + 1 /\ m + i - 1 = Len(p) + i
      BY <1>1, <2>2
    <3> QED
      BY <2>4, <3>1
  <2> QED
    BY <2>2, <2>4, <2>5, <2>6
<1>3. /\ q \o v \in Seq(Name) /\ Len(q \o v) = Len(q) + Len(v)
      /\ \A i \in 1 .. Len(q) + Len(v) : (q \o v)[i] = IF i <= Len(q) THEN q[i] ELSE v[i - Len(q)]
  BY ConcatProperties
<1>4. PICK w \in Seq(Name) : /\ w = Swap(p, q, u) /\ Len(w) = Len(q) + Len(v)
                             /\ \A i \in 1 .. Len(q) + Len(v) : w[i] = IF i <= Len(q) THEN q[i] ELSE v[i - Len(q)]
  BY <1>2, <1>3, Zenon DEF Swap
<1>5. Len(w) = Len(q) + Len(u) - Len(p)
  BY <1>1, <1>2, <1>4
<1>6. ASSUME NEW i \in 1 .. Len(q)
      PROVE  w[i] = q[i]
  <2>1. i \in 1 .. Len(q) + Len(v) /\ i <= Len(q)
    BY <1>1, <1>2
  <2> QED
    BY <1>4, <2>1
<1>7. ASSUME NEW i \in Len(q) + 1 .. Len(q) + Len(u) - Len(p)
      PROVE  w[i] = u[i - Len(q) + Len(p)]
  <2>1. i \in 1 .. Len(q) + Len(v) /\ ~(i <= Len(q)) /\ i - Len(q) \in 1 .. Len(u) - Len(p)
    BY <1>1, <1>2
  <2>2. w[i] = v[i - Len(q)] /\ v[i - Len(q)] = u[Len(p) + (i - Len(q))]
    BY <1>2, <1>4, <2>1
  <2>3. Len(p) + (i - Len(q)) = i - Len(q) + Len(p)
    BY <1>1
  <2> QED
    BY <2>2, <2>3
<1> QED
  BY <1>4, <1>5, <1>6, <1>7, Zenon

\* Swapping there and back; what is swapped is below the new beginning.
LEMMA SwapBack ==
    ASSUME NEW p \in Seq(Name), NEW q \in Seq(Name), NEW u \in Seq(Name), IsPrefix(p, u)
    PROVE  /\ Swap(p, q, u) \in Seq(Name) /\ Len(Swap(p, q, u)) = Len(q) + Len(u) - Len(p)
           /\ IsPrefix(q, Swap(p, q, u)) /\ Swap(q, p, Swap(p, q, u)) = u
<1>1. Len(p) \in Nat /\ Len(q) \in Nat /\ Len(u) \in Nat /\ Len(p) <= Len(u)
  BY LenProperties, PrefixOrder
<1>2. PICK w \in Seq(Name) :
         /\ w = Swap(p, q, u) /\ Len(w) = Len(q) + Len(u) - Len(p)
         /\ \A i \in 1 .. Len(q) : w[i] = q[i]
         /\ \A i \in Len(q) + 1 .. Len(q) + Len(u) - Len(p) : w[i] = u[i - Len(q) + Len(p)]
  BY SwapElements, Zenon
<1>3. IsPrefix(q, w)
  <2>1. Len(q) <= Len(w)
    BY <1>1, <1>2
  <2> QED
    BY <1>2, <2>1, PrefixByElements
<1>4. PICK x \in Seq(Name) :
         /\ x = Swap(q, p, w) /\ Len(x) = Len(p) + Len(w) - Len(q)
         /\ \A i \in 1 .. Len(p) : x[i] = p[i]
         /\ \A i \in Len(p) + 1 .. Len(p) + Len(w) - Len(q) : x[i] = w[i - Len(p) + Len(q)]
  BY <1>3, SwapElements, ZenonT(60)
<1>5. Len(x) = Len(u)
  BY <1>1, <1>2, <1>4
<1>6. ASSUME NEW i \in 1 .. Len(u)
      PROVE  x[i] = u[i]
  <2>1. CASE i <= Len(p)
    <3>1. i \in 1 .. Len(p)
      BY <1>1, <2>1
    <3>2. p[i] = u[i]
      BY <3>1, PrefixByElements
    <3> QED
      BY <1>4, <3>1, <3>2
  <2>2. CASE ~(i <= Len(p))
    <3>1. i \in Len(p) + 1 .. Len(p) + Len(w) - Len(q)
      BY <1>1, <1>2, <2>2
    <3>2. PICK j \in Len(q) + 1 .. Len(q) + Len(u) - Len(p) : j = i - Len(p) + Len(q) /\ j - Len(q) + Len(p) = i
      <4>1. /\ i - Len(p) + Len(q) \in Len(q) + 1 .. Len(q) + Len(u) - Len(p)
            /\ (i - Len(p) + Len(q)) - Len(q) + Len(p) = i
        BY <1>1, <2>2
      <4> QED
        BY <4>1, Zenon
    <3>3. x[i] = w[j] /\ w[j] = u[i]
      BY <1>2, <1>4, <3>1, <3>2
    <3> QED
      BY <3>3
  <2> QED
    BY <2>1, <2>2
<1>7. x = u
  BY <1>5, <1>6, SeqEqual, Zenon
<1> QED
  BY <1>2, <1>3, <1>4, <1>7, Zenon

\* A prefix of a swapped path that has the new beginning was swapped from a prefix.
LEMMA SwapPrefix ==
    ASSUME NEW p \in Seq(Name), NEW q \in Seq(Name), NEW u \in Seq(Name), IsPrefix(p, u),
           NEW r \in Seq(Name), IsPrefix(r, Swap(p, q, u)), Len(q) <= Len(r)
    PROVE  /\ IsPrefix(q, r) /\ Swap(q, p, r) \in Seq(Name)
           /\ IsPrefix(p, Swap(q, p, r)) /\ Swap(p, q, Swap(q, p, r)) = r
           /\ IsPrefix(Swap(q, p, r), u) /\ Len(Swap(q, p, r)) = Len(p) + Len(r) - Len(q)
<1>1. Len(p) \in Nat /\ Len(q) \in Nat /\ Len(u) \in Nat /\ Len(p) <= Len(u) /\ Len(r) \in Nat
  BY LenProperties, PrefixOrder
<1>2. PICK w \in Seq(Name) :
         /\ w = Swap(p, q, u) /\ Len(w) = Len(q) + Len(u) - Len(p) /\ IsPrefix(q, w)
         /\ \A i \in Len(q) + 1 .. Len(q) + Len(u) - Len(p) : w[i] = u[i - Len(q) + Len(p)]
  <2>1. /\ Swap(p, q, u) \in Seq(Name) /\ Len(Swap(p, q, u)) = Len(q) + Len(u) - Len(p)
        /\ \A i \in Len(q) + 1 .. Len(q) + Len(u) - Len(p) : Swap(p, q, u)[i] = u[i - Len(q) + Len(p)]
    BY SwapElements
  <2>2. IsPrefix(q, Swap(p, q, u))
    BY SwapBack
  <2> QED
    BY <2>1, <2>2, Zenon
<1>3. IsPrefix(r, w) /\ IsPrefix(q, r)
  BY <1>2, PrefixOrder
<1>4. PICK x \in Seq(Name) :
         /\ x = Swap(q, p, r) /\ Len(x) = Len(p) + Len(r) - Len(q)
         /\ \A i \in 1 .. Len(p) : x[i] = p[i]
         /\ \A i \in Len(p) + 1 .. Len(p) + Len(r) - Len(q) : x[i] = r[i - Len(p) + Len(q)]
         /\ IsPrefix(p, x) /\ Swap(p, q, x) = r
  <2>1. /\ Swap(q, p, r) \in Seq(Name) /\ Len(Swap(q, p, r)) = Len(p) + Len(r) - Len(q)
        /\ \A i \in 1 .. Len(p) : Swap(q, p, r)[i] = p[i]
        /\ \A i \in Len(p) + 1 .. Len(p) + Len(r) - Len(q) : Swap(q, p, r)[i] = r[i - Len(p) + Len(q)]
    BY <1>3, SwapElements
  <2>2. IsPrefix(p, Swap(q, p, r)) /\ Swap(p, q, Swap(q, p, r)) = r
    BY <1>3, SwapBack
  <2> QED
    BY <2>1, <2>2, Zenon
<1>5. Len(r) <= Len(w) /\ \A i \in 1 .. Len(r) : r[i] = w[i]
  BY <1>3, PrefixByElements
<1>6. Len(x) <= Len(u)
  BY <1>1, <1>2, <1>4, <1>5
<1>7. ASSUME NEW i \in 1 .. Len(x)
      PROVE  x[i] = u[i]
  <2>1. CASE i <= Len(p)
    <3>1. i \in 1 .. Len(p)
      BY <1>1, <1>4, <2>1
    <3>2. p[i] = u[i]
      BY <3>1, PrefixByElements
    <3> QED
      BY <1>4, <3>1, <3>2
  <2>2. CASE ~(i <= Len(p))
    <3>1. i \in Len(p) + 1 .. Len(p) + Len(r) - Len(q)
      BY <1>1, <1>4, <2>2
    <3>2. PICK j \in 1 .. Len(r) : /\ j = i - Len(p) + Len(q) /\ j - Len(q) + Len(p) = i
                                   /\ j \in Len(q) + 1 .. Len(q) + Len(u) - Len(p)
      <4>1. /\ i - Len(p) + Len(q) \in Len(q) + 1 .. Len(q) + Len(u) - Len(p)
            /\ (i - Len(p) + Len(q)) - Len(q) + Len(p) = i /\ i - Len(p) + Len(q) \in 1 .. Len(r)
        BY <1>1, <1>4, <1>6, <2>2
      <4> QED
        BY <4>1, Zenon
    <3>3. x[i] = r[j] /\ r[j] = w[j] /\ w[j] = u[i]
      BY <1>2, <1>4, <1>5, <3>1, <3>2
    <3> QED
      BY <3>3
  <2> QED
    BY <2>1, <2>2
<1>8. IsPrefix(x, u)
  BY <1>6, <1>7, PrefixByElements
<1> QED
  BY <1>3, <1>4, <1>8, Zenon

\* Paths are the sequences of 1 to Depth names.
LEMMA Paths ==
    ASSUME NEW p
    PROVE  p \in Path <=> p \in Seq(Name) /\ Len(p) \in 1 .. Depth
<1>1. ASSUME p \in Path
      PROVE  p \in Seq(Name) /\ Len(p) \in 1 .. Depth
  <2>1. PICK n \in 1 .. Depth : p \in [1 .. n -> Name]
    BY <1>1 DEF Path
  <2>2. n \in Nat
    BY BaseAssumption
  <2> QED
    BY <2>1, <2>2
<1>2. ASSUME p \in Seq(Name), Len(p) \in 1 .. Depth
      PROVE  p \in Path
  <2>1. p \in [1 .. Len(p) -> Name]
    BY <1>2, LenProperties
  <2> QED
    BY <1>2, <2>1 DEF Path
<1> QED
  BY <1>1, <1>2

\* Sequences of names other than that of the root.
NonRoot == Seq(Name) \ {<<>>}

\* A prefix of a path is one.
LEMMA PrefixIsPath ==
    ASSUME NEW p \in Path, NEW q \in NonRoot, IsPrefix(q, p)
    PROVE  q \in Path /\ p \in NonRoot
<1>1. p \in Seq(Name) /\ Len(p) \in 1 .. Depth
  BY Paths
<1>2. Len(q) \in Nat /\ Len(q) # 0 /\ Len(q) <= Len(p)
  BY <1>1, LenProperties, EmptySeq, PrefixOrder DEF NonRoot
<1>3. p # <<>>
  BY <1>1, EmptySeq
<1> QED
  BY <1>1, <1>2, <1>3, Paths, BaseAssumption DEF NonRoot

\* Paths are not the root.
LEMMA PathsAreNonRoot ==
    ASSUME NEW p \in Path
    PROVE  p \in NonRoot
<1>1. p \in Seq(Name) /\ Len(p) \in 1 .. Depth
  BY Paths
<1> QED
  BY <1>1, EmptySeq DEF NonRoot

\* The directory a path is in.
LEMMA UpFacts ==
    ASSUME NEW q \in NonRoot
    PROVE  /\ Up(q) \in Seq(Name) /\ Len(Up(q)) = Len(q) - 1 /\ IsPrefix(Up(q), q) /\ Up(q) # q
           /\ \A r \in Seq(Name) : IsStrictPrefix(r, q) => IsPrefix(r, Up(q))
<1>1. q \in Seq(Name) /\ Len(q) \in Nat /\ Len(q) # 0
  BY LenProperties, EmptySeq DEF NonRoot
<1>2. PICK u \in Seq(Name) : u = Up(q) /\ Len(u) = Len(q) - 1 /\ \A i \in 1 .. Len(u) : u[i] = q[i]
  <2>1. PICK m \in Nat : m = Len(q) - 1
    BY <1>1
  <2>2. \A i \in 1 .. m : q[i] \in Name
    BY <1>1, <2>1, ElementOfSeq
  <2>3. /\ SubSeq(q, 1, m) \in Seq(Name) /\ Len(SubSeq(q, 1, m)) = IF 1 <= m THEN m - 1 + 1 ELSE 0
        /\ \A i \in 1 .. m - 1 + 1 : SubSeq(q, 1, m)[i] = q[1 + i - 1]
    BY <1>1, <2>1, <2>2, SubSeqProperties
  <2>4. PICK u \in Seq(Name) : /\ u = SubSeq(q, 1, m) /\ Len(u) = IF 1 <= m THEN m - 1 + 1 ELSE 0
                               /\ \A i \in 1 .. m - 1 + 1 : u[i] = q[1 + i - 1]
    BY <2>3, Zenon
  <2>5. Len(u) = m
    BY <2>1, <2>4
  <2>6. ASSUME NEW i \in 1 .. Len(u)
        PROVE  u[i] = q[i]
    <3>1. i \in 1 .. m - 1 + 1 /\ 1 + i - 1 = i
      BY <2>1, <2>5
    <3> QED
      BY <2>4, <3>1
  <2>7. u = Up(q)
    BY <2>1, <2>4 DEF Up
  <2> QED
    BY <2>1, <2>5, <2>6, <2>7
<1>3. Len(u) <= Len(q)
  BY <1>1, <1>2
<1>4. IsPrefix(u, q)
  BY <1>1, <1>2, <1>3, PrefixByElements
<1>5. u # q
  BY <1>1, <1>2
<1>6. ASSUME NEW r \in Seq(Name), IsStrictPrefix(r, q)
      PROVE  IsPrefix(r, u)
  <2>1. IsPrefix(r, q) /\ r # q /\ Len(r) \in Nat
    BY <1>6, LenProperties DEF IsStrictPrefix
  <2>2. Len(r) <= Len(q) /\ Len(r) # Len(q)
    BY <1>1, <2>1, PrefixOrder
  <2>3. Len(r) <= Len(u)
    BY <1>1, <1>2, <2>1, <2>2
  <2> QED
    BY <1>1, <1>4, <2>1, <2>3, PrefixOrder
<1> QED
  BY <1>2, <1>4, <1>5, <1>6, Zenon

-----------------------------------------------------------------------------
(* Trees.                                                                  *)

IsEntry(e) == e = [type |-> e.type, data |-> e.data]

\* Every entry is in directories that are there.
Rooted(t) ==
    /\ DOMAIN t \subseteq NonRoot
    /\ \A p \in DOMAIN t : IsEntry(t[p])
    /\ \A p \in DOMAIN t, q \in NonRoot : IsStrictPrefix(q, p) => q \in DOMAIN t /\ t[q].type = "dir"

\* What has entries below it is a directory, so nothing is in the way to an entry.
LEMMA NotBlocked ==
    ASSUME NEW t, Rooted(t), NEW p \in DOMAIN t
    PROVE  ~Blocked(t, p)
BY DEF Rooted, Blocked

\* Entries keep their type when their data change.
LEMMA EntryFacts ==
    /\ \A e, d : IsEntry(e) => IsEntry([e EXCEPT !.data = d]) /\ [e EXCEPT !.data = d].type = e.type
    /\ \A d : IsEntry(File(d)) /\ File(d).type = "file"
    /\ IsEntry(Dir) /\ Dir.type = "dir" /\ IsEntry(Special) /\ Special.type = "special"
    /\ \A e \in Entry : IsEntry(e)
<1>1. ASSUME NEW e, NEW d, IsEntry(e)
      PROVE  IsEntry([e EXCEPT !.data = d]) /\ [e EXCEPT !.data = d].type = e.type
  <2>1. PICK x, y : e = [type |-> x, data |-> y] /\ x = e.type
    BY <1>1 DEF IsEntry
  <2>2. [[type |-> x, data |-> y] EXCEPT !.data = d] = [type |-> x, data |-> d]
    OBVIOUS
  <2>3. [e EXCEPT !.data = d] = [type |-> x, data |-> d]
    BY <2>1, <2>2, Zenon
  <2> QED
    BY <2>1, <2>3 DEF IsEntry
<1>2. \A d : IsEntry(File(d)) /\ File(d).type = "file"
  BY DEF IsEntry, File
<1>3. IsEntry(Dir) /\ Dir.type = "dir" /\ IsEntry(Special) /\ Special.type = "special"
  BY DEF IsEntry, Dir, Special
<1>4. \A e \in Entry : IsEntry(e)
  BY <1>2, <1>3 DEF Entry
<1> QED
  BY <1>1, <1>2, <1>3, <1>4

\* mkdirp of the way to p, where nothing is in the way, and an entry there.
LEMMA PutKeeps ==
    ASSUME NEW t, Rooted(t), NEW p \in Path, NEW e, IsEntry(e), ~Blocked(t, p),
           p \in DOMAIN t => e.type = "dir" \/ t[p].type # "dir"
    PROVE  Rooted(Put(t, p, e)) /\ p \in DOMAIN Put(t, p, e) /\ Put(t, p, e)[p] = e
<1> DEFINE D == DOMAIN t \cup {r \in Path : IsPrefix(r, p)}
           F(q) == IF q = p THEN e ELSE IF q \in DOMAIN t THEN t[q] ELSE Dir
<1>1. Put(t, p, e) = [q \in D |-> F(q)]
  BY Zenon DEF Put
<1>2. p \in NonRoot /\ p \in Seq(Name) /\ IsPrefix(p, p)
  BY PathsAreNonRoot, PrefixByElements, LenProperties DEF NonRoot
<1>3. PICK n : n = Put(t, p, e) /\ DOMAIN n = D /\ \A q \in D : n[q] = F(q)
  BY <1>1
<1>4. p \in D /\ D \subseteq NonRoot
  BY <1>2, PathsAreNonRoot DEF Rooted
<1>5. \A q \in D : IsEntry(n[q])
  BY <1>3, EntryFacts DEF Rooted
<1>6. ASSUME NEW q \in D, NEW r \in NonRoot, IsStrictPrefix(r, q)
      PROVE  r \in D /\ n[r].type = "dir"
  <2>1. q \in Seq(Name) /\ r \in Seq(Name) /\ IsPrefix(r, q) /\ r # q
    BY <1>4, <1>6 DEF NonRoot, IsStrictPrefix
  <2>2. CASE q \in DOMAIN t
    <3>1. r \in DOMAIN t /\ t[r].type = "dir"
      BY <1>6, <2>2 DEF Rooted
    <3> QED
      BY <1>3, <3>1
  <2>3. CASE q \notin DOMAIN t
    <3>1. IsPrefix(q, p) /\ q \in Path
      BY <2>3
    <3>2. IsPrefix(r, p) /\ r \in Path
      <4>1. IsPrefix(r, p)
        BY <1>2, <2>1, <3>1, PrefixOrder
      <4> QED
        BY <4>1, PrefixIsPath
    <3>3. r # p
      <4>1. Len(r) <= Len(q) /\ Len(q) <= Len(p) /\ (Len(r) = Len(q) => r = q)
        BY <1>2, <2>1, <3>1, PrefixOrder
      <4>2. Len(r) \in Nat /\ Len(q) \in Nat /\ Len(p) \in Nat
        BY <1>2, <2>1, LenProperties
      <4> QED
        BY <2>1, <4>1, <4>2
    <3>4. r \in DOMAIN t => t[r].type = "dir"
      BY <3>2, <3>3 DEF IsStrictPrefix, Blocked
    <3> QED
      BY <1>3, <3>2, <3>3, <3>4 DEF Dir
  <2> QED
    BY <2>2, <2>3
<1> HIDE DEF D
<1>7. Rooted(n)
  BY <1>3, <1>4, <1>5, <1>6 DEF Rooted
<1> QED
  BY <1>3, <1>4, <1>7

\* Entries are taken out, with all that is below them.
LEMMA DropKeeps ==
    ASSUME NEW t, Rooted(t), NEW P,
           \A q \in DOMAIN t : \A r \in P \cap DOMAIN t : IsStrictPrefix(r, q) => q \in P
    PROVE  Rooted(Drop(t, P))
<1>1. PICK n : n = Drop(t, P) /\ DOMAIN n = DOMAIN t \ P /\ \A q \in DOMAIN t \ P : n[q] = t[q]
  <2>1. DOMAIN Drop(t, P) = DOMAIN t \ P /\ \A q \in DOMAIN t \ P : Drop(t, P)[q] = t[q]
    BY DEF Drop
  <2> QED
    BY <2>1, Zenon
<1>2. Rooted(n)
  BY <1>1 DEF Rooted
<1> QED
  BY <1>1, <1>2

\* All that is below p.
LEMMA DropBelow ==
    ASSUME NEW t, Rooted(t), NEW p \in Seq(Name)
    PROVE  Rooted(Drop(t, Below(t, p)))
<1>1. ASSUME NEW q \in DOMAIN t, NEW r \in Below(t, p) \cap DOMAIN t, IsStrictPrefix(r, q)
      PROVE  q \in Below(t, p)
  <2>1. q \in Seq(Name) /\ r \in Seq(Name) /\ IsPrefix(p, r) /\ IsPrefix(r, q)
    BY <1>1 DEF Rooted, NonRoot, IsStrictPrefix, Below
  <2>2. IsPrefix(p, q)
    BY <2>1, PrefixOrder
  <2> QED
    BY <2>2 DEF Below
<1> QED
  BY <1>1, DropKeeps

\* What is not a directory, or is empty, has nothing below it.
LEMMA DropOne ==
    ASSUME NEW t, Rooted(t), NEW p \in NonRoot, ~DirAt(t, p) \/ Below(t, p) = {p}
    PROVE  Rooted(Drop(t, {p}))
<1>1. ASSUME NEW q \in DOMAIN t, p \in DOMAIN t, IsStrictPrefix(p, q)
      PROVE  q \in {p}
  <2>1. DirAt(t, p)
    BY <1>1 DEF Rooted, DirAt, Has
  <2>2. q \in Below(t, p)
    BY <1>1 DEF IsStrictPrefix, Below
  <2> QED
    BY <2>1, <2>2
<1> QED
  BY <1>1, DropKeeps

\* Contents change.
LEMMA DataKeeps ==
    ASSUME NEW t, Rooted(t), NEW p, NEW d, NEW u, u = [t EXCEPT ![p].data = d]
    PROVE  Rooted(u)
<1>1. /\ DOMAIN [t EXCEPT ![p].data = d] = DOMAIN t
      /\ p \in DOMAIN t => [t EXCEPT ![p].data = d][p] = [t[p] EXCEPT !.data = d]
      /\ \A q \in DOMAIN t : q # p => [t EXCEPT ![p].data = d][q] = t[q]
  OBVIOUS
<1>2. PICK n : /\ n = [t EXCEPT ![p].data = d] /\ DOMAIN n = DOMAIN t
               /\ p \in DOMAIN t => n[p] = [t[p] EXCEPT !.data = d]
               /\ \A q \in DOMAIN t : q # p => n[q] = t[q]
  BY <1>1, Zenon
<1>3. \A q \in DOMAIN t : IsEntry(n[q]) /\ n[q].type = t[q].type
  <2>1. ASSUME NEW q \in DOMAIN t
        PROVE  IsEntry(n[q]) /\ n[q].type = t[q].type
    <3>1. CASE q = p
      BY <1>2, <3>1, EntryFacts, Zenon DEF Rooted
    <3>2. CASE q # p
      BY <1>2, <3>2, Zenon DEF Rooted
    <3> QED
      BY <3>1, <3>2
  <2> QED
    BY <2>1
<1>4. Rooted(n)
  BY <1>2, <1>3 DEF Rooted
<1> QED
  BY <1>2, <1>4, Zenon

\* VFS.rename of a tree.  An entry that is moved has the directories that moved
\* with it and those on the way to q, which are not among what is replaced.
LEMMA MovedKeeps ==
    ASSUME NEW t, Rooted(t), NEW p \in NonRoot, NEW q \in NonRoot, p \in DOMAIN t, CanRename(t, p, q)
    PROVE  Rooted(Moved(t, p, q))
<1>1. p \in Seq(Name) /\ q \in Seq(Name) /\ DOMAIN t \subseteq Seq(Name) /\ Len(p) \in Nat /\ Len(q) \in Nat
  BY LenProperties DEF Rooted, NonRoot
<1>2. CASE p = q
  BY <1>2 DEF Moved
<1>3. CASE p # q /\ IsPrefix(p, q)
  <2>1. Moved(t, p, q) = Drop(t, Below(t, p))
    BY <1>3 DEF Moved
  <2> QED
    BY <1>1, <2>1, DropBelow
<1>4. CASE p # q /\ ~IsPrefix(p, q)
  <2> DEFINE B == Below(t, p)
             C == Below(t, q)
             T == {Swap(p, q, u) : u \in B}
             R == DOMAIN t \ (B \cup C)
             F(r) == IF r \in T THEN t[Swap(q, p, r)] ELSE t[r]
  <2>1. Moved(t, p, q) = [r \in T \cup R |-> F(r)]
    BY <1>4 DEF Moved, Swap, Below
  <2>2. PICK n : n = Moved(t, p, q) /\ DOMAIN n = T \cup R /\ \A r \in T \cup R : n[r] = F(r)
    BY <2>1
  <2>3. B = {u \in DOMAIN t : IsPrefix(p, u)} /\ C = {u \in DOMAIN t : IsPrefix(q, u)}
    BY DEF Below
  <2>4. ASSUME NEW r \in T
        PROVE  /\ r \in NonRoot /\ IsPrefix(q, r) /\ Swap(q, p, r) \in B /\ Len(q) <= Len(r)
               /\ Swap(p, q, Swap(q, p, r)) = r
    <3>1. PICK u \in B : r = Swap(p, q, u)
      OBVIOUS
    <3>2. u \in Seq(Name) /\ IsPrefix(p, u)
      BY <1>1, <2>3
    <3>3. r \in Seq(Name) /\ IsPrefix(q, r) /\ Swap(q, p, r) = u
      BY <1>1, <3>1, <3>2, SwapBack
    <3>4. Len(q) <= Len(r) /\ Len(q) # 0 /\ Len(r) \in Nat
      BY <1>1, <3>3, PrefixOrder, EmptySeq, LenProperties DEF NonRoot
    <3>5. r # <<>>
      BY <1>1, <3>3, <3>4, EmptySeq
    <3> QED
      BY <3>1, <3>3, <3>4, <3>5 DEF NonRoot
  <2>5. \A r \in R : r \in DOMAIN t /\ r \in NonRoot /\ ~IsPrefix(p, r) /\ ~IsPrefix(q, r)
    BY <2>3 DEF Rooted
  <2>6. \A r \in B : r \in DOMAIN t /\ r \in NonRoot /\ IsPrefix(p, r)
    BY <2>3 DEF Rooted
  <2>7. ASSUME NEW r \in DOMAIN t, ~IsPrefix(p, r), ~IsPrefix(q, r)
        PROVE  r \in R
    BY <2>3, <2>7
  <2>8. ASSUME NEW u \in B
        PROVE  Swap(p, q, u) \in T
    OBVIOUS
  <2> HIDE DEF B, C, T, R
  <2>9. \A s \in T \cup R : s \in NonRoot /\ IsEntry(n[s])
    BY <2>2, <2>4, <2>5, <2>6 DEF Rooted
  <2>10. ASSUME NEW s \in T \cup R, NEW r \in NonRoot, IsStrictPrefix(r, s)
         PROVE  r \in T \cup R /\ n[r].type = "dir"
    <3>1. /\ r \in Seq(Name) /\ s \in Seq(Name) /\ IsPrefix(r, s) /\ r # s
          /\ Len(r) \in Nat /\ Len(s) \in Nat
      BY <2>9, <2>10, LenProperties DEF NonRoot, IsStrictPrefix
    <3>2. CASE s \in R
      <4>1. r \in DOMAIN t /\ t[r].type = "dir"
        BY <2>5, <2>10, <3>2 DEF Rooted
      <4>2. ~IsPrefix(p, r) /\ ~IsPrefix(q, r)
        BY <1>1, <2>5, <3>1, <3>2, PrefixOrder
      <4>3. r \in R /\ r \notin T
        BY <2>4, <2>7, <4>1, <4>2
      <4> QED
        BY <2>2, <4>1, <4>3
    <3>3. CASE s \in T /\ Len(q) <= Len(r)
      <4>1. PICK u \in B : u = Swap(q, p, s) /\ Swap(p, q, u) = s
        BY <2>4, <3>3
      <4>2. u \in Seq(Name) /\ IsPrefix(p, u) /\ u \in DOMAIN t /\ Len(u) \in Nat
        BY <1>1, <2>6, LenProperties
      <4>3. PICK v \in Seq(Name) : /\ v = Swap(q, p, r) /\ IsPrefix(p, v) /\ Swap(p, q, v) = r /\ IsPrefix(v, u)
                                   /\ Len(v) = Len(p) + Len(r) - Len(q)
        <5>1. IsPrefix(r, Swap(p, q, u))
          BY <3>1, <4>1, Zenon
        <5>2. /\ Swap(q, p, r) \in Seq(Name) /\ IsPrefix(p, Swap(q, p, r)) /\ Swap(p, q, Swap(q, p, r)) = r
              /\ IsPrefix(Swap(q, p, r), u) /\ Len(Swap(q, p, r)) = Len(p) + Len(r) - Len(q)
          BY <1>1, <3>1, <3>3, <4>2, <5>1, SwapPrefix
        <5> QED
          BY <5>2, Zenon
      <4>4. v # u
        BY <3>1, <4>1, <4>3
      <4>5. v \in NonRoot
        <5>1. Len(p) <= Len(v) /\ Len(p) # 0 /\ Len(v) \in Nat
          BY <1>1, <4>3, PrefixOrder, EmptySeq, LenProperties DEF NonRoot
        <5>2. v # <<>>
          BY <1>1, <5>1, EmptySeq
        <5> QED
          BY <5>2 DEF NonRoot
      <4>6. v \in DOMAIN t /\ t[v].type = "dir"
        BY <4>2, <4>3, <4>4, <4>5 DEF Rooted, IsStrictPrefix
      <4>7. v \in B
        BY <2>3, <4>3, <4>6
      <4>8. r \in T
        BY <2>8, <4>3, <4>7
      <4> QED
        BY <2>2, <4>3, <4>6, <4>8
    <3>4. CASE s \in T /\ ~(Len(q) <= Len(r))
      <4>1. IsPrefix(q, s)
        BY <2>4, <3>4
      <4>2. IsPrefix(r, q) /\ r # q
        BY <1>1, <3>1, <3>4, <4>1, PrefixOrder
      <4>3. r \in DOMAIN t /\ t[r].type = "dir"
        <5>1. CASE q \in DOMAIN t
          BY <4>2, <5>1 DEF Rooted, IsStrictPrefix
        <5>2. CASE q \notin DOMAIN t
          <6>1. DirAt(t, Up(q))
            BY <5>2 DEF CanRename, Has
          <6>2. IsPrefix(r, Up(q)) /\ Up(q) \in Seq(Name)
            BY <3>1, <4>2, UpFacts DEF IsStrictPrefix
          <6>3. r # <<>>
            BY DEF NonRoot
          <6>4. Up(q) # <<>>
            <7>1. Len(r) <= Len(Up(q)) /\ Len(r) # 0
              BY <3>1, <6>2, <6>3, PrefixOrder, EmptySeq
            <7>2. Len(Up(q)) # 0
              BY <3>1, <6>2, <7>1, LenProperties
            <7> QED
              BY <7>2, EmptySeq
          <6>5. Up(q) \in DOMAIN t /\ t[Up(q)].type = "dir"
            BY <6>1, <6>4 DEF DirAt, Has
          <6> QED
            BY <6>2, <6>5 DEF Rooted, IsStrictPrefix
        <5> QED
          BY <5>1, <5>2
      <4>4. ~IsPrefix(q, r)
        BY <1>1, <3>1, <3>4, PrefixOrder
      <4>5. ~IsPrefix(p, r)
        BY <1>1, <1>4, <3>1, <4>2, PrefixOrder
      <4>6. r \in R /\ r \notin T
        BY <2>4, <2>7, <4>3, <4>4, <4>5
      <4> QED
        BY <2>2, <4>3, <4>6
    <3> QED
      BY <3>2, <3>3, <3>4
  <2>11. Rooted(n)
    BY <2>2, <2>9, <2>10 DEF Rooted
  <2> QED
    BY <2>2, <2>11
<1> QED
  BY <1>2, <1>3, <1>4

\* Where the parent is a directory, nothing is in the way.
LEMMA ParentUnblocks ==
    ASSUME NEW t, Rooted(t), NEW p \in NonRoot, DirAt(t, Up(p))
    PROVE  ~Blocked(t, p)
<1>1. ASSUME NEW q \in DOMAIN t, IsStrictPrefix(q, p)
      PROVE  t[q].type = "dir"
  <2>1. q \in NonRoot /\ q \in Seq(Name) /\ q # <<>> /\ IsPrefix(q, Up(p)) /\ Up(p) \in Seq(Name)
    BY <1>1, UpFacts DEF Rooted, NonRoot
  <2>2. Up(p) # <<>>
    <3>1. Len(q) <= Len(Up(p)) /\ Len(q) # 0 /\ Len(q) \in Nat /\ Len(Up(p)) \in Nat
      BY <2>1, PrefixOrder, EmptySeq, LenProperties
    <3>2. Len(Up(p)) # 0
      BY <3>1
    <3> QED
      BY <3>2, EmptySeq
  <2>3. Up(p) \in DOMAIN t /\ t[Up(p)].type = "dir"
    BY <2>2 DEF DirAt, Has
  <2> QED
    BY <2>1, <2>3 DEF Rooted, IsStrictPrefix
<1> QED
  BY <1>1 DEF Blocked

\* The other way around: every entry is in a directory.
LEMMA ParentIsThere ==
    ASSUME NEW t, Rooted(t), NEW p \in DOMAIN t
    PROVE  DirAt(t, Up(p))
<1>1. p \in NonRoot
  BY DEF Rooted
<1>2. Up(p) \in Seq(Name) /\ IsPrefix(Up(p), p) /\ Up(p) # p
  BY <1>1, UpFacts
<1> QED
  BY <1>2 DEF Rooted, NonRoot, IsStrictPrefix, DirAt, Has

\* Something else in place of p and all that is below it.
LEMMA ReplaceKeeps ==
    ASSUME NEW t, Rooted(t), NEW p \in Path, NEW e, IsEntry(e), ~Blocked(t, p)
    PROVE  Rooted(Put(Drop(t, Below(t, p)), p, e))
<1>1. p \in NonRoot /\ p \in Seq(Name) /\ IsPrefix(p, p)
  BY PathsAreNonRoot, PrefixByElements, LenProperties DEF NonRoot
<1>2. PICK n : /\ n = Drop(t, Below(t, p)) /\ DOMAIN n = DOMAIN t \ Below(t, p)
               /\ \A q \in DOMAIN n : n[q] = t[q]
  <2>1. /\ DOMAIN Drop(t, Below(t, p)) = DOMAIN t \ Below(t, p)
        /\ \A q \in DOMAIN t \ Below(t, p) : Drop(t, Below(t, p))[q] = t[q]
    BY DEF Drop
  <2> QED
    BY <2>1, Zenon
<1>3. Rooted(n)
  BY <1>1, <1>2, DropBelow
<1>4. p \notin DOMAIN n
  BY <1>1, <1>2 DEF Below
<1>5. ~Blocked(n, p)
  BY <1>2 DEF Blocked
<1> QED
  BY <1>2, <1>3, <1>4, <1>5, PutKeeps

\* Data change in a tree that is not rooted.
LEMMA DataOfEntries ==
    ASSUME NEW t, NEW p, NEW d, \A q \in DOMAIN t : IsEntry(t[q])
    PROVE  /\ DOMAIN [t EXCEPT ![p].data = d] = DOMAIN t
           /\ \A q \in DOMAIN t : IsEntry([t EXCEPT ![p].data = d][q])
<1>1. ASSUME NEW q \in DOMAIN t
      PROVE  IsEntry([t EXCEPT ![p].data = d][q])
  <2>1. CASE q = p
    <3>1. [t EXCEPT ![p].data = d][q] = [t[q] EXCEPT !.data = d]
      BY <2>1
    <3> QED
      BY <3>1, EntryFacts, Zenon
  <2>2. CASE q # p
    <3>1. [t EXCEPT ![p].data = d][q] = t[q]
      BY <2>2
    <3> QED
      BY <3>1, Zenon
  <2> QED
    BY <2>1, <2>2
<1> QED
  BY <1>1

-----------------------------------------------------------------------------
(* The overlay.                                                            *)

\* The tree of changes is rooted, both trees hold entries, whiteouts hide what
\* the base has, and a file that is open in the base is not open for writing.
IInv ==
    /\ Rooted(upper)
    /\ \A p \in DOMAIN base : IsEntry(base[p])
    /\ white \subseteq DOMAIN base
    /\ fd = [layer |-> fd.layer, path |-> fd.path, writable |-> fd.writable]
    /\ fd.layer = "base" => fd.writable = FALSE

\* Copy-up.
LEMMA CopyKeeps ==
    ASSUME IInv, NEW p \in Path
    PROVE  Rooted(AfterCopy(p)) /\ WhiteAfterCopy(p) \subseteq DOMAIN base
<1>1. CASE CopiesUp(p)
  <2>1. p \in DOMAIN base /\ p \notin DOMAIN upper /\ ~Blocked(upper, p)
    BY <1>1 DEF CopiesUp, Has
  <2>2. Rooted(Put(upper, p, base[p]))
    BY <2>1, PutKeeps DEF IInv
  <2> QED
    BY <1>1, <2>2 DEF IInv, AfterCopy, WhiteAfterCopy
<1>2. CASE ~CopiesUp(p)
  BY <1>2 DEF IInv, AfterCopy, WhiteAfterCopy
<1> QED
  BY <1>1, <1>2

\* The open file, as it is seen by what takes nodes out of upper.
LEMMA FdKept ==
    ASSUME IInv, NEW f, \/ f = NoFile \/ f = Gone \/ f = fd
                        \/ \E x : fd.layer = "upper" /\ f = [fd EXCEPT !.path = x]
                        \/ \E x, b : f = [layer |-> "upper", path |-> x, writable |-> b]
                        \/ \E x : f = [layer |-> "base", path |-> x, writable |-> FALSE]
    PROVE  /\ f = [layer |-> f.layer, path |-> f.path, writable |-> f.writable]
           /\ f.layer = "base" => f.writable = FALSE
<1>1. CASE f = NoFile
  BY <1>1 DEF NoFile
<1>2. CASE f = Gone
  <2>1. Gone = [layer |-> "gone", path |-> <<>>, writable |-> FALSE]
    <3>1. PICK y, b : y = <<>> /\ b = FALSE
      OBVIOUS
    <3>2. [[layer |-> "none", path |-> y, writable |-> b] EXCEPT !.layer = "gone"]
             = [layer |-> "gone", path |-> y, writable |-> b]
      OBVIOUS
    <3>3. NoFile = [layer |-> "none", path |-> y, writable |-> b]
      BY <3>1 DEF NoFile
    <3>4. Gone = [layer |-> "gone", path |-> y, writable |-> b]
      BY <3>2, <3>3, Zenon DEF Gone
    <3> QED
      BY <3>1, <3>4
  <2> QED
    BY <1>2, <2>1
<1>3. CASE f = fd
  BY <1>3 DEF IInv
<1>4. ASSUME NEW x, fd.layer = "upper", f = [fd EXCEPT !.path = x]
      PROVE  /\ f = [layer |-> f.layer, path |-> f.path, writable |-> f.writable]
             /\ f.layer = "base" => f.writable = FALSE
  <2>1. PICK l, y, b : fd = [layer |-> l, path |-> y, writable |-> b] /\ l = "upper"
    BY <1>4 DEF IInv
  <2>2. [[layer |-> l, path |-> y, writable |-> b] EXCEPT !.path = x] = [layer |-> l, path |-> x, writable |-> b]
    OBVIOUS
  <2>3. f = [layer |-> l, path |-> x, writable |-> b]
    BY <1>4, <2>1, <2>2, Zenon
  <2> QED
    BY <2>1, <2>3
<1>5. ASSUME NEW x, NEW b, f = [layer |-> "upper", path |-> x, writable |-> b]
      PROVE  /\ f = [layer |-> f.layer, path |-> f.path, writable |-> f.writable]
             /\ f.layer = "base" => f.writable = FALSE
  BY <1>5
<1>6. ASSUME NEW x, f = [layer |-> "base", path |-> x, writable |-> FALSE]
      PROVE  /\ f = [layer |-> f.layer, path |-> f.path, writable |-> f.writable]
             /\ f.layer = "base" => f.writable = FALSE
  BY <1>6
<1> QED
  BY <1>1, <1>2, <1>3, <1>4, <1>5, <1>6, Zenon

LEMMA InitIInv ==
    ASSUME Init
    PROVE  IInv
<1>1. DOMAIN upper = {}
  BY DEF Init
<1>2. Rooted(upper)
  BY <1>1 DEF Rooted
<1>3. \A p \in DOMAIN base : IsEntry(base[p])
  BY BaseAssumption, EntryFacts DEF Init, IsTree
<1>4. fd = [layer |-> "none", path |-> <<>>, writable |-> FALSE] /\ white = {}
  BY DEF Init, NoFile
<1> QED
  BY <1>2, <1>3, <1>4 DEF IInv

\* A step that leaves the base alone: upper stays rooted, the whiteouts stay in
\* the base, and the open file is one of those above.
LEMMA StepKeeps ==
    ASSUME IInv, base' = base, Rooted(upper'), white' \subseteq DOMAIN base,
           \/ fd' = NoFile \/ fd' = Gone \/ fd' = fd
           \/ \E x : fd.layer = "upper" /\ fd' = [fd EXCEPT !.path = x]
           \/ \E x, b : fd' = [layer |-> "upper", path |-> x, writable |-> b]
           \/ \E x : fd' = [layer |-> "base", path |-> x, writable |-> FALSE]
    PROVE  IInv'
<1>1. /\ fd' = [layer |-> fd'.layer, path |-> fd'.path, writable |-> fd'.writable]
      /\ fd'.layer = "base" => fd'.writable = FALSE
  BY FdKept
<1>2. \A p \in DOMAIN base' : IsEntry(base'[p])
  BY DEF IInv
<1>3. Rooted(upper)'
  BY DEF Rooted, NonRoot, IsEntry
<1> QED
  BY <1>1, <1>2, <1>3 DEF IInv, IsEntry

\* The base and the attributes of its entries stay.
BaseKept == base' = base /\ touched' = touched

\* The operations that create.
LEMMA CreatingKeeps ==
    ASSUME IInv, NEW p \in Path,
           (\E d \in Data : writeFile(p, d)) \/ mkdirp(p) \/ mkdir(p) \/ mknod(p)
    PROVE  IInv' /\ BaseKept
<1>1. Rooted(upper) /\ white \subseteq DOMAIN base /\ white \ {p} \subseteq DOMAIN base /\ p \in NonRoot
  BY PathsAreNonRoot DEF IInv
<1>2. ASSUME NEW d \in Data, writeFile(p, d)
      PROVE  IInv' /\ BaseKept
  <2>1. Rooted(upper')
    <3>1. CASE CanWrite(p)
      <4>1. ~Blocked(upper, p) /\ (p \in DOMAIN upper => upper[p].type = "file")
        BY <3>1 DEF CanWrite, FileAt, Has
      <4>2. Rooted(Put(upper, p, File(d)))
        BY <1>1, <4>1, EntryFacts, PutKeeps
      <4> QED
        BY <1>2, <3>1, <4>2 DEF writeFile
    <3>2. CASE ~CanWrite(p)
      BY <1>1, <1>2, <3>2 DEF writeFile
    <3> QED
      BY <3>1, <3>2
  <2> QED
    BY <1>1, <1>2, <2>1, StepKeeps DEF writeFile, BaseKept
<1>3. ASSUME mkdirp(p)
      PROVE  IInv' /\ BaseKept
  <2>1. Rooted(upper')
    <3>1. CASE ~Blocked(upper, p)
      <4>1. Rooted(Put(upper, p, Dir))
        BY <1>1, <3>1, EntryFacts, PutKeeps
      <4> QED
        BY <1>1, <1>3, <4>1 DEF mkdirp
    <3>2. CASE Blocked(upper, p)
      BY <1>1, <1>3, <3>2 DEF mkdirp
    <3> QED
      BY <3>1, <3>2
  <2> QED
    BY <1>1, <1>3, <2>1, StepKeeps DEF mkdirp, BaseKept
<1>4. ASSUME mkdir(p)
      PROVE  IInv' /\ BaseKept
  <2>1. Rooted(upper')
    <3>1. CASE CanMake(p)
      <4>1. p \notin DOMAIN upper /\ ~Blocked(upper, p)
        BY <1>1, <3>1, ParentUnblocks DEF CanMake, Has
      <4>2. Rooted(Put(upper, p, Dir))
        BY <1>1, <4>1, EntryFacts, PutKeeps
      <4> QED
        BY <1>4, <3>1, <4>2 DEF mkdir
    <3>2. CASE ~CanMake(p)
      BY <1>1, <1>4, <3>2 DEF mkdir
    <3> QED
      BY <3>1, <3>2
  <2> QED
    BY <1>1, <1>4, <2>1, StepKeeps DEF mkdir, BaseKept
<1>5. ASSUME mknod(p)
      PROVE  IInv' /\ BaseKept
  <2>1. CASE Blocked(upper, p)
    BY <1>1, <1>5, <2>1, StepKeeps DEF mknod, BaseKept
  <2>2. CASE ~Blocked(upper, p)
    <3>1. Rooted(Put(Drop(upper, Below(upper, p)), p, Special))
      BY <1>1, <2>2, EntryFacts, ReplaceKeeps
    <3>2. fd' = Gone \/ fd' = fd
      BY <1>5, <2>2 DEF mknod, FdWithout
    <3> QED
      BY <1>1, <1>5, <2>2, <3>1, <3>2, StepKeeps DEF mknod, BaseKept
  <2> QED
    BY <2>1, <2>2
<1> QED
  BY <1>2, <1>3, <1>4, <1>5

\* The operations that change, move and delete.
LEMMA ChangingKeeps ==
    ASSUME IInv, NEW p \in Path,
           chmod(p) \/ truncate(p) \/ unlink(p) \/ rmdir(p) \/ \E q \in Path : rename(p, q)
    PROVE  IInv' /\ BaseKept
<1>1. Rooted(upper) /\ white \subseteq DOMAIN base /\ Whiteout(p) \subseteq DOMAIN base /\ p \in NonRoot
  BY PathsAreNonRoot DEF IInv, Whiteout
<1>2. PICK t : t = AfterCopy(p) /\ Rooted(t) /\ WhiteAfterCopy(p) \subseteq DOMAIN base
  BY CopyKeeps, Zenon
<1>3. ASSUME chmod(p)
      PROVE  IInv' /\ BaseKept
  BY <1>2, <1>3, StepKeeps DEF chmod, BaseKept
<1>4. ASSUME truncate(p)
      PROVE  IInv' /\ BaseKept
  <2>1. upper' = [t EXCEPT ![p].data = Empty] \/ upper' = t
    BY <1>2, <1>4 DEF truncate
  <2>2. Rooted(upper')
    BY <1>2, <2>1, DataKeeps
  <2> QED
    BY <1>2, <1>4, <2>2, StepKeeps DEF truncate, BaseKept
<1>5. ASSUME unlink(p)
      PROVE  IInv' /\ BaseKept
  <2>1. Rooted(upper')
    BY <1>1, <1>5, DropOne DEF unlink
  <2>2. fd' = Gone \/ fd' = fd
    BY <1>5 DEF unlink, FdWithout
  <2> QED
    BY <1>1, <1>5, <2>1, <2>2, StepKeeps DEF unlink, BaseKept
<1>6. ASSUME rmdir(p)
      PROVE  IInv' /\ BaseKept
  <2>1. ~DirAt(upper, p) \/ Below(upper, p) = {p}
    BY <1>1, <1>6 DEF rmdir, DirAt, NonRoot
  <2>2. Rooted(upper')
    BY <1>1, <1>6, <2>1, DropOne DEF rmdir
  <2>3. fd' = Gone \/ fd' = fd
    BY <1>6 DEF rmdir, FdWithout
  <2> QED
    BY <1>1, <1>6, <2>2, <2>3, StepKeeps DEF rmdir, BaseKept
<1>7. ASSUME NEW q \in Path, rename(p, q)
      PROVE  IInv' /\ BaseKept
  <2>1. q \in NonRoot
    BY PathsAreNonRoot
  <2>2. CASE ~Has(t, p)
    BY <1>1, <1>2, <1>7, <2>2, StepKeeps DEF rename, BaseKept
  <2>3. CASE Has(t, p) /\ CanRename(t, p, q)
    <3>1. Rooted(Moved(t, p, q))
      BY <1>1, <1>2, <2>1, <2>3, MovedKeeps DEF Has
    <3>2. /\ upper' = Moved(t, p, q) /\ white' = (WhiteAfterCopy(p) \ {q}) \cup ({p} \cap DOMAIN base)
          /\ fd' = FdMoved(t, p, q) /\ base' = base /\ touched' = touched
      BY <1>2, <1>7, <2>3 DEF rename
    <3>3. \/ fd' = Gone \/ fd' = fd
          \/ \E x : fd.layer = "upper" /\ fd' = [fd EXCEPT !.path = x]
      BY <3>2 DEF FdMoved, FdWithout
    <3>4. Rooted(upper') /\ white' \subseteq DOMAIN base
      BY <1>2, <3>1, <3>2
    <3> QED
      BY <3>2, <3>3, <3>4, StepKeeps DEF BaseKept
  <2>4. CASE Has(t, p) /\ ~CanRename(t, p, q)
    <3>1. /\ upper' = t /\ white' = WhiteAfterCopy(p) \ {q} /\ fd' = fd /\ base' = base /\ touched' = touched
      BY <1>2, <1>7, <2>4 DEF rename
    <3>2. white' \subseteq DOMAIN base
      BY <1>2, <3>1
    <3> QED
      BY <1>2, <3>1, <3>2, StepKeeps DEF BaseKept
  <2> QED
    BY <2>2, <2>3, <2>4
<1> QED
  BY <1>3, <1>4, <1>5, <1>6, <1>7

\* Open files.  What is open for writing is not in the base, so that only files
\* that were opened for reading lead to it.
LEMMA OpenFilesKeep ==
    ASSUME IInv, \/ \E p \in Path : \/ \E creat, trunc \in BOOLEAN : openWrite(p, creat, trunc)
                                    \/ openRead(p)
                 \/ \E d \in Data : write(d)
                 \/ ftruncate \/ fchmod
                 \/ close
    PROVE  IInv' /\ (fd.layer # "base" => BaseKept)
<1>1. Rooted(upper) /\ white \subseteq DOMAIN base
  BY DEF IInv
<1>2. ASSUME NEW p \in Path, NEW creat \in BOOLEAN, NEW trunc \in BOOLEAN, openWrite(p, creat, trunc)
      PROVE  IInv' /\ BaseKept
  <2>1. PICK c : c = AfterCopy(p) /\ Rooted(c)
    BY CopyKeeps, Zenon
  <2> DEFINE makes == creat /\ ~Has(c, p) /\ DirAt(c, Up(p))
  <2>2. PICK t : t = IF makes THEN Put(c, p, File(Empty)) ELSE c
    OBVIOUS
  <2>3. Rooted(t)
    <3>1. CASE makes
      <4>1. p \in NonRoot /\ p \notin DOMAIN c
        BY <3>1, PathsAreNonRoot DEF Has
      <4>2. ~Blocked(c, p)
        BY <2>1, <3>1, <4>1, ParentUnblocks
      <4>3. Rooted(Put(c, p, File(Empty)))
        BY <2>1, <4>1, <4>2, EntryFacts, PutKeeps
      <4> QED
        BY <2>2, <3>1, <4>3
    <3>2. CASE ~makes
      BY <2>1, <2>2, <3>2
    <3> QED
      BY <3>1, <3>2
  <2>4. /\ white' = white \ {p} /\ base' = base /\ touched' = touched /\ fd' = Opened(t, p)
        /\ upper' = [t EXCEPT ![p].data = Empty] \/ upper' = t
    BY <1>2, <2>1, <2>2 DEF openWrite
  <2>5. Rooted(upper')
    BY <2>3, <2>4, DataKeeps
  <2>6. fd' = fd \/ \E x, b : fd' = [layer |-> "upper", path |-> x, writable |-> b]
    BY <2>4 DEF Opened, WritableAt
  <2>7. white' \subseteq DOMAIN base
    BY <1>1, <2>4
  <2> QED
    BY <2>4, <2>5, <2>6, <2>7, StepKeeps DEF BaseKept
<1>3. ASSUME NEW p \in Path, openRead(p)
      PROVE  IInv' /\ BaseKept
  <2>1. /\ base' = base /\ upper' = upper /\ touched' = touched /\ white' = white
        /\ \/ fd' = [layer |-> "upper", path |-> p, writable |-> FALSE]
           \/ fd' = [layer |-> "base", path |-> p, writable |-> FALSE]
    BY <1>3 DEF openRead
  <2>2. \/ \E x, b : fd' = [layer |-> "upper", path |-> x, writable |-> b]
        \/ \E x : fd' = [layer |-> "base", path |-> x, writable |-> FALSE]
    BY <2>1, Zenon
  <2> QED
    BY <1>1, <2>1, <2>2, StepKeeps DEF BaseKept
<1>4. ASSUME NEW d, NodeBecomes(d)
      PROVE  IInv' /\ (fd.layer # "base" => BaseKept)
  <2>1. Rooted(upper')
    <3>1. upper' = [upper EXCEPT ![fd.path].data = d] \/ upper' = upper
      BY <1>4 DEF NodeBecomes
    <3> QED
      BY <1>1, <3>1, DataKeeps
  <2>2. white' = white /\ fd' = fd /\ touched' = touched
    BY <1>4 DEF NodeBecomes
  <2>3. CASE fd.layer = "base"
    <3>1. base' = [base EXCEPT ![fd.path].data = d]
      BY <1>4, <2>3 DEF NodeBecomes
    <3>2. DOMAIN base' = DOMAIN base /\ \A q \in DOMAIN base : IsEntry(base'[q])
      BY <3>1, DataOfEntries, Zenon DEF IInv
    <3>3. Rooted(upper)'
      BY <2>1 DEF Rooted, NonRoot, IsEntry
    <3> QED
      BY <1>1, <2>2, <2>3, <3>2, <3>3 DEF IInv, IsEntry
  <2>4. CASE fd.layer # "base"
    <3>1. base' = base
      BY <1>4, <2>4 DEF NodeBecomes
    <3> QED
      BY <1>1, <2>1, <2>2, <3>1, StepKeeps DEF BaseKept
  <2> QED
    BY <2>3, <2>4
<1>5. ASSUME NEW d \in Data, write(d)
      PROVE  IInv' /\ BaseKept
  <2>1. fd.layer # "base" /\ NodeBecomes(d)
    BY <1>5 DEF IInv, write
  <2> QED
    BY <1>4, <2>1
<1>6. ASSUME ftruncate
      PROVE  IInv' /\ (fd.layer # "base" => BaseKept)
  BY <1>4, <1>6 DEF ftruncate
<1>7. ASSUME close
      PROVE  IInv' /\ BaseKept
  BY <1>1, <1>7, StepKeeps DEF close, BaseKept
<1>8. ASSUME fchmod
      PROVE  IInv' /\ (fd.layer # "base" => BaseKept)
  <2>1. base' = base /\ upper' = upper /\ white' = white /\ fd' = fd
    BY <1>8 DEF fchmod
  <2>2. fd.layer # "base" => touched' = touched
    BY <1>8 DEF fchmod
  <2> QED
    BY <1>1, <2>1, <2>2, StepKeeps DEF BaseKept
<1> QED
  BY <1>2, <1>3, <1>5, <1>6, <1>7, <1>8

\* Every step keeps the invariant, and the base too unless a file of it is open.
LEMMA OverlaySteps ==
    ASSUME IInv, [Next]_vars
    PROVE  IInv' /\ (fd.layer # "base" => BaseKept)
<1>1. CASE UNCHANGED vars
  <2>1. base' = base /\ upper' = upper /\ touched' = touched /\ white' = white /\ fd' = fd
    BY <1>1 DEF vars
  <2> QED
    BY <2>1, StepKeeps DEF IInv, BaseKept
<1>2. ASSUME NEW p \in Path,
             (\E d \in Data : writeFile(p, d)) \/ mkdirp(p) \/ mkdir(p) \/ mknod(p)
      PROVE  IInv' /\ BaseKept
  BY <1>2, CreatingKeeps
<1>3. ASSUME NEW p \in Path,
             chmod(p) \/ truncate(p) \/ unlink(p) \/ rmdir(p) \/ \E q \in Path : rename(p, q)
      PROVE  IInv' /\ BaseKept
  BY <1>3, ChangingKeeps
<1>4. ASSUME \/ \E p \in Path : \/ \E creat, trunc \in BOOLEAN : openWrite(p, creat, trunc)
                                \/ openRead(p)
             \/ \E d \in Data : write(d)
             \/ ftruncate \/ fchmod
             \/ close
      PROVE  IInv' /\ (fd.layer # "base" => BaseKept)
  BY <1>4, OpenFilesKeep
<1>5. CASE Next
  BY <1>2, <1>3, <1>4, <1>5, Zenon DEF Next
<1> QED
  BY <1>1, <1>5

\* Over any base that is a tree, whatever copy-up, failing operations, renames
\* and open files do: the upper tree stays rooted, whiteouts hide what the base
\* has, and no file of the base is open for writing (overlay-vfs.js).
THEOREM OverlayInvariance ==
    Spec => []IInv
<1>1. Init => IInv
  BY InitIInv
<1>2. IInv /\ [Next]_vars => IInv'
  BY OverlaySteps
<1> QED
  BY <1>1, <1>2, PTL DEF Spec

\* The layers fit, always: every entry of the upper tree is in a directory that
\* is there, so that overlay-vfs.js can look up all that was copied up.
THEOREM LayersAlwaysFit ==
    Spec => []LayersFit
<1>1. IInv => LayersFit
  <2>1. ASSUME IInv, NEW p \in DOMAIN upper
        PROVE  DirAt(upper, Up(p))
    BY <2>1, ParentIsThere DEF IInv
  <2> QED
    BY <2>1 DEF IInv, LayersFit
<1> QED
  BY <1>1, OverlayInvariance, PTL

\* All that is written goes to the upper tree: open copies a file up before it
\* gives a writable handle out, and no later rename, unlink or copy-up turns
\* that handle into one on the base, so that the base is reached only through
\* its files that were opened for reading (ftruncate, fchmod and fchown).
THEOREM WritersStayAbove ==
    Spec => WritersLeaveBase
<1> DEFINE Reader == base' # base \/ touched' # touched => fd.layer = "base" /\ ~fd.writable
<1>1. IInv /\ [Next]_vars => Reader
  BY OverlaySteps DEF IInv, BaseKept
<1>2. WritersLeaveBase <=> [][Reader]_vars
  BY DEF WritersLeaveBase
<1> HIDE DEF Reader
<1> QED
  BY <1>1, <1>2, OverlayInvariance, PTL DEF Spec

\* What writeFile has written is found, with what was written, and what unlink
\* has removed is not, whichever tree had it.
LEMMA ChangeShows ==
    ASSUME IInv, NEW p \in Path
    PROVE  /\ \A d \in Data : FileAt(upper', p) /\ writeFile(p, d) =>
                 Visible(p)' /\ Shown(p)' = File(d)
           /\ unlink(p) => ~Visible(p)'
<1>1. ASSUME NEW d \in Data, FileAt(upper', p), writeFile(p, d)
      PROVE  Visible(p)' /\ Shown(p)' = File(d)
  <2>1. CanWrite(p)
    <3>1. SUFFICES ASSUME ~CanWrite(p)
                   PROVE  FALSE
      OBVIOUS
    <3>2. upper' = upper
      BY <1>1, <3>1 DEF writeFile
    <3>3. p \in DOMAIN upper /\ FileAt(upper, p)
      BY <1>1, <3>2 DEF FileAt, Has
    <3>4. ~Blocked(upper, p)
      BY <3>3, NotBlocked DEF IInv
    <3> QED
      BY <3>1, <3>3, <3>4 DEF CanWrite
  <2>2. upper' = Put(upper, p, File(d)) /\ p \notin white'
    BY <1>1, <2>1 DEF writeFile
  <2>3. ~Blocked(upper, p) /\ (p \in DOMAIN upper => upper[p].type = "file")
    BY <2>1 DEF CanWrite, FileAt, Has
  <2>4. p \in DOMAIN upper' /\ upper'[p] = File(d)
    BY <2>2, <2>3, EntryFacts, PutKeeps DEF IInv
  <2> QED
    BY <2>2, <2>4 DEF Visible, Shown, Has, File
<1>2. ASSUME unlink(p)
      PROVE  ~Visible(p)'
  <2>1. base' = base /\ white' = white \cup ({p} \cap DOMAIN base) /\ upper' = Drop(upper, {p})
    BY <1>2 DEF unlink, Whiteout
  <2>2. p \notin DOMAIN upper'
    BY <2>1 DEF Drop
  <2> QED
    BY <2>1, <2>2 DEF Visible, Has
<1> QED
  BY <1>1, <1>2

\* The changes show, at every step, over any base: a file that is in the upper
\* tree cannot be in anyone's way, so that writeFile never returns without
\* having written it.
THEOREM ChangesShow ==
    Spec => ChangesAreSeen
<1> DEFINE Seen == \A p \in Path :
              /\ \A d \in Data : FileAt(upper', p) /\ writeFile(p, d) =>
                    Visible(p)' /\ Shown(p)' = File(d)
              /\ unlink(p) => ~Visible(p)'
<1>1. IInv => Seen
  BY ChangeShows
<1>2. ChangesAreSeen <=> [][Seen]_vars
  BY DEF ChangesAreSeen
<1> HIDE DEF Seen
<1> QED
  BY <1>1, <1>2, OverlayInvariance, PTL DEF Spec

-----------------------------------------------------------------------------
(* Images of trees.  Induction over numbers, and ways.                     *)

\* A set of natural numbers that is not empty has a smallest element.
LEMMA SmallestExists ==
    ASSUME NEW T, T \subseteq Nat, T # {}
    PROVE  \E a \in T : \A b \in T : a <= b
<1> DEFINE R == OpToRel(<, Nat)
<1>1. R = {ss \in Nat \X Nat : ss[1] < ss[2]}
  BY Zenon DEF OpToRel
<1>2. IsWellFoundedOn(R, Nat)
  BY NatLessThanWellFounded, Zenon
<1> HIDE DEF R
<1>3. PICK a \in T : \A b \in T : ~(<<b, a>> \in R)
  BY <1>2, WFMin, Zenon
<1>4. \A b \in T : ~(b < a)
  BY <1>1, <1>3
<1> QED
  BY <1>3, <1>4

\* A set that holds 0 and with every number the next holds all up to n.
LEMMA Climbs ==
    ASSUME NEW n \in Nat, NEW G, 0 \in G,
           \A k \in 1 .. n : k - 1 \in G => k \in G
    PROVE  \A k \in 0 .. n : k \in G
<1> DEFINE T == {k \in 0 .. n : k \notin G}
<1> SUFFICES ASSUME T # {}
             PROVE  FALSE
  OBVIOUS
<1>1. PICK a \in T : \A b \in T : a <= b
  <2>1. T \subseteq Nat
    OBVIOUS
  <2> HIDE DEF T
  <2> QED
    BY <2>1, SmallestExists
<1>2. a \in 1 .. n /\ a - 1 \in 0 .. n /\ a - 1 \notin T
  BY <1>1
<1> QED
  BY <1>1, <1>2

\* The names on the way to a path.
LEMMA BeginningFacts ==
    ASSUME NEW N, NEW p \in Seq(N), NEW i \in 0 .. Len(p)
    PROVE  /\ SubSeq(p, 1, i) \in Seq(N) /\ Len(SubSeq(p, 1, i)) = i
           /\ \A j \in 1 .. i : SubSeq(p, 1, i)[j] = p[j]
           /\ IsPrefix(SubSeq(p, 1, i), p)
<1>1. Len(p) \in Nat /\ i \in Nat /\ i <= Len(p)
  BY LenProperties
<1>2. \A j \in 1 .. i : p[j] \in N
  BY <1>1, ElementOfSeq
<1>3. PICK u \in Seq(N) : /\ u = SubSeq(p, 1, i) /\ Len(u) = IF 1 <= i THEN i - 1 + 1 ELSE 0
                          /\ \A j \in 1 .. i - 1 + 1 : u[j] = p[1 + j - 1]
  <2>1. /\ SubSeq(p, 1, i) \in Seq(N)
        /\ Len(SubSeq(p, 1, i)) = IF 1 <= i THEN i - 1 + 1 ELSE 0
        /\ \A j \in 1 .. i - 1 + 1 : SubSeq(p, 1, i)[j] = p[1 + j - 1]
    BY <1>1, <1>2, SubSeqProperties
  <2> QED
    BY <2>1, Zenon
<1>4. Len(u) = i
  BY <1>1, <1>3
<1>5. ASSUME NEW j \in 1 .. i
      PROVE  u[j] = p[j]
  <2>1. j \in 1 .. i - 1 + 1 /\ 1 + j - 1 = j
    BY <1>1
  <2> QED
    BY <1>3, <2>1
<1>6. IsPrefix(u, p)
  BY <1>1, <1>3, <1>4, <1>5, PrefixByElements
<1> QED
  BY <1>3, <1>4, <1>5, <1>6

\* Ways are the prefixes other than the root.
LEMMA WaysArePrefixes ==
    ASSUME NEW N, NEW p \in Seq(N), NEW q
    PROVE  q \in Ways(p) <=> q \in Seq(N) \ {<<>>} /\ IsPrefix(q, p)
<1>1. Len(p) \in Nat
  BY LenProperties
<1>2. ASSUME q \in Ways(p)
      PROVE  q \in Seq(N) \ {<<>>} /\ IsPrefix(q, p)
  <2>1. PICK i \in 1 .. Len(p) : q = SubSeq(p, 1, i)
    BY <1>2, Zenon DEF Ways
  <2>2. q \in Seq(N) /\ Len(q) = i /\ IsPrefix(q, p)
    <3>1. i \in 0 .. Len(p)
      BY <1>1
    <3> QED
      BY <2>1, <3>1, BeginningFacts, Zenon
  <2>3. q # <<>>
    BY <1>1, <2>2
  <2> QED
    BY <2>2, <2>3
<1>3. ASSUME q \in Seq(N) \ {<<>>}, IsPrefix(q, p)
      PROVE  q \in Ways(p)
  <2>1. Len(q) \in Nat /\ Len(q) # 0 /\ Len(q) <= Len(p) /\ \A i \in 1 .. Len(q) : q[i] = p[i]
    BY <1>3, LenProperties, EmptySeq, PrefixByElements
  <2>2. Len(q) \in 0 .. Len(p) /\ Len(q) \in 1 .. Len(p)
    BY <1>1, <2>1
  <2>3. q = SubSeq(p, 1, Len(q))
    <3>1. PICK u \in Seq(N) : u = SubSeq(p, 1, Len(q)) /\ Len(u) = Len(q) /\ \A j \in 1 .. Len(q) : u[j] = p[j]
      BY <2>2, BeginningFacts, Zenon
    <3> QED
      BY <1>3, <2>1, <3>1, SeqEqual
  <2> QED
    BY <2>2, <2>3, Zenon DEF Ways
<1> QED
  BY <1>2, <1>3

\* The way to a path is the way to its directory and the path itself.
LEMMA WayFacts ==
    ASSUME NEW N, NEW p \in Seq(N) \ {<<>>}
    PROVE  /\ UpTo(p) \in Seq(N)
           /\ Ways(p) = Ways(UpTo(p)) \cup {p} /\ p \notin Ways(UpTo(p))
           /\ UpTo(p) = <<>> \/ UpTo(p) \in Ways(p)
           /\ Ways(p) \subseteq Seq(N) \ {<<>>}
           /\ \A q \in Ways(p) : Ways(q) \subseteq Ways(p)
           /\ \A q \in Ways(UpTo(p)) : Ways(q) \subseteq Ways(UpTo(p)) /\ p \notin Ways(q)
           /\ \A q \in Seq(N) \ {<<>>} : IsPrefix(p, q) <=> p \in Ways(q)
<1>1. Len(p) \in Nat /\ Len(p) # 0
  BY LenProperties, EmptySeq
<1>2. UpTo(p) \in Seq(N) /\ Len(UpTo(p)) = Len(p) - 1 /\ IsPrefix(UpTo(p), p)
  <2>1. Len(p) - 1 \in 0 .. Len(p)
    BY <1>1
  <2> QED
    BY <2>1, BeginningFacts, Zenon DEF UpTo
<1>3. \A q \in Seq(N) \ {<<>>} : /\ q \in Ways(p) <=> IsPrefix(q, p)
                                 /\ q \in Ways(UpTo(p)) <=> IsPrefix(q, UpTo(p))
                                 /\ p \in Ways(q) <=> IsPrefix(p, q)
  BY <1>2, WaysArePrefixes
<1>4. Ways(p) \subseteq Seq(N) \ {<<>>} /\ Ways(UpTo(p)) \subseteq Seq(N) \ {<<>>}
  BY <1>2, WaysArePrefixes
<1>5. ASSUME NEW q \in Seq(N) \ {<<>>}
      PROVE  /\ q \in Ways(p) <=> q \in Ways(UpTo(p)) \/ q = p
             /\ q \in Ways(UpTo(p)) => p \notin Ways(q) /\ q # p
  <2>1. Len(q) \in Nat
    BY LenProperties
  <2>2. ASSUME IsPrefix(q, UpTo(p))
        PROVE  IsPrefix(q, p) /\ ~IsPrefix(p, q) /\ q # p
    <3>1. IsPrefix(q, p) /\ Len(q) <= Len(UpTo(p))
      BY <1>2, <2>2, PrefixOrder
    <3>2. ~(Len(p) <= Len(q))
      BY <1>1, <1>2, <2>1, <3>1
    <3>3. ~IsPrefix(p, q)
      BY <3>2, PrefixOrder
    <3> QED
      BY <1>1, <3>1, <3>2, <3>3
  <2>3. ASSUME IsPrefix(q, p), q # p
        PROVE  IsPrefix(q, UpTo(p))
    <3>1. Len(q) <= Len(p) /\ Len(q) # Len(p)
      BY <2>3, PrefixOrder
    <3>2. Len(q) <= Len(UpTo(p))
      BY <1>1, <1>2, <2>1, <3>1
    <3> QED
      BY <1>2, <2>3, <3>2, PrefixOrder
  <2>4. IsPrefix(p, p)
    BY <1>1, PrefixByElements
  <2> QED
    BY <1>3, <2>2, <2>3, <2>4
<1>6. ASSUME NEW s \in Seq(N), NEW q \in Ways(s)
      PROVE  Ways(q) \subseteq Ways(s)
  <2>1. q \in Seq(N) /\ IsPrefix(q, s)
    BY WaysArePrefixes
  <2>2. ASSUME NEW r \in Ways(q)
        PROVE  r \in Ways(s)
    <3>1. r \in Seq(N) \ {<<>>} /\ IsPrefix(r, q)
      BY <2>1, WaysArePrefixes
    <3>2. IsPrefix(r, s)
      BY <2>1, <3>1, PrefixOrder
    <3> QED
      BY <3>1, <3>2, WaysArePrefixes
  <2> QED
    BY <2>2
<1>7. Ways(p) = Ways(UpTo(p)) \cup {p} /\ p \notin Ways(UpTo(p))
  BY <1>4, <1>5
<1>8. UpTo(p) = <<>> \/ UpTo(p) \in Ways(p)
  BY <1>2, <1>3
<1>9. \A q \in Ways(UpTo(p)) : p \notin Ways(q)
  BY <1>4, <1>5
<1> QED
  BY <1>2, <1>3, <1>4, <1>6, <1>7, <1>8, <1>9

-----------------------------------------------------------------------------
(* What the operations do to a tree.                                       *)

\* s is t with a node at p: what else is new are directories, and what is gone
\* was below p.
Adds(t, s, p) ==
    /\ WellFormed(s) /\ p \in DOMAIN s /\ DOMAIN s \subseteq DOMAIN t \cup Ways(p)
    /\ \A q \in DOMAIN t : p \notin Ways(q) => q \in DOMAIN s /\ s[q].type = t[q].type
    /\ \A q \in DOMAIN s \ DOMAIN t : q # p => s[q] = DirNode

\* Nothing else changes.
Keeps(t, s, p) == \A q \in DOMAIN t : p \notin Ways(q) => s[q] = t[q]

LEMMA PathWays ==
    ASSUME NEW p \in NamePath
    PROVE  /\ Ways(p) = Ways(UpTo(p)) \cup {p} /\ p \notin Ways(UpTo(p)) /\ p \in Ways(p)
           /\ \A q \in Ways(p) : Ways(q) \subseteq Ways(p)
  BY WayFacts, ZenonT(60) DEF NamePath

LEMMA TreeWays ==
    ASSUME NEW t, WellFormed(t), NEW p \in DOMAIN t
    PROVE  /\ p \in NamePath /\ \A q \in Ways(p) : q = p \/ q \in DirsOf(t)
           /\ \A q \in Ways(p) : q \in DOMAIN t
           /\ p \in Ways(p)
<1>1. p \in NamePath /\ Ways(UpTo(p)) \subseteq DirsOf(t)
  BY DEF WellFormed
<1>2. Ways(p) = Ways(UpTo(p)) \cup {p}
  BY <1>1, WayFacts DEF NamePath
<1> QED
  BY <1>1, <1>2 DEF DirsOf

\* s is t with all the directories of p.
Paved(t, s, p) ==
    /\ WellFormed(s) /\ DOMAIN s = DOMAIN t \cup Ways(p) /\ Ways(p) \subseteq DirsOf(s)
    /\ \A q \in DOMAIN t : s[q] = t[q]
    /\ \A q \in DOMAIN s \ DOMAIN t : s[q] = DirNode

\* mkdirp adds directories on the way, and throws only if something else is there.
LEMMA MakeWayFacts ==
    ASSUME NEW t, WellFormed(t), NEW p \in NamePath \cup {<<>>}
    PROVE  /\ \A s \in makeWay(t, p) : Paved(t, s, p)
           /\ Ways(p) \cap DOMAIN t \subseteq DirsOf(t) => makeWay(t, p) # {}
<1>1. ASSUME NEW s \in makeWay(t, p)
      PROVE  Paved(t, s, p)
  <2>1. /\ Ways(p) \cap DOMAIN t \subseteq DirsOf(t)
        /\ s = [q \in DOMAIN t \cup Ways(p) |-> IF q \in DOMAIN t THEN t[q] ELSE DirNode]
    BY DEF makeWay
  <2>2. /\ DOMAIN s = DOMAIN t \cup Ways(p)
        /\ \A q \in DOMAIN t : s[q] = t[q]
        /\ \A q \in DOMAIN s \ DOMAIN t : s[q] = DirNode
    BY <2>1, Zenon
  <2>3. DirNode.type = "dir" /\ DirNode.data = 0
    BY DEF DirNode, Leads
  <2>4. Ways(p) \subseteq DirsOf(s)
    BY <2>1, <2>2, <2>3 DEF DirsOf
  <2>5. \A q \in DirsOf(t) : q \in DirsOf(s)
    BY <2>2 DEF DirsOf
  <2>6. ASSUME NEW q \in DOMAIN s
        PROVE  q \in NamePath /\ Ways(UpTo(q)) \subseteq DirsOf(s) /\ (s[q].type = "dir" => s[q].data = 0)
    <3>1. CASE q \in DOMAIN t
      BY <2>2, <2>5, <3>1 DEF WellFormed
    <3>2. CASE q \notin DOMAIN t
      <4>1. q \in Ways(p) /\ s[q] = DirNode
        BY <2>2, <3>2
      <4>2. q \in NamePath /\ Ways(q) \subseteq Ways(p)
        <5>1. p \in NamePath
          <6>1. Ways(<<>>) = {}
            BY DEF Ways
          <6> QED
            BY <4>1, <6>1
        <5> QED
          BY <4>1, <5>1, WayFacts DEF NamePath
      <4>3. Ways(UpTo(q)) \subseteq Ways(q)
        BY <4>2, WayFacts DEF NamePath
      <4> QED
        BY <2>3, <2>4, <4>1, <4>2, <4>3
    <3> QED
      BY <3>1, <3>2
  <2> QED
    BY <2>2, <2>4, <2>6 DEF WellFormed, Paved
<1>2. Ways(p) \cap DOMAIN t \subseteq DirsOf(t) => makeWay(t, p) # {}
  BY DEF makeWay
<1> QED
  BY <1>1, <1>2

LEMMA PutNodeFacts ==
    ASSUME NEW t, WellFormed(t), NEW p \in NamePath, NEW type, NEW data, type = "dir" => data = 0
    PROVE  /\ \A s \in putNode(t, p, type, data) :
                 Adds(t, s, p) /\ Keeps(t, s, p) /\ s[p].type = type /\ s[p].data = data
           /\ Ways(UpTo(p)) \cap DOMAIN t \subseteq DirsOf(t) => putNode(t, p, type, data) # {}
<1>0. /\ UpTo(p) \in NamePath \cup {<<>>}
      /\ Ways(p) = Ways(UpTo(p)) \cup {p} /\ p \notin Ways(UpTo(p))
      /\ \A q \in NamePath : IsPrefix(p, q) <=> p \in Ways(q)
  BY WayFacts DEF NamePath
<1>1. ASSUME NEW s \in putNode(t, p, type, data)
      PROVE  Adds(t, s, p) /\ Keeps(t, s, p) /\ s[p].type = type /\ s[p].data = data
  <2>1. PICK u \in makeWay(t, UpTo(p)) :
            s = [q \in {r \in DOMAIN u : ~IsPrefix(p, r)} \cup {p} |->
                   IF q = p THEN Leads(type, IF type = "dir" THEN 0 ELSE FreshIn(u), data) ELSE u[q]]
    BY Zenon DEF putNode
  <2>2. /\ WellFormed(u) /\ DOMAIN u = DOMAIN t \cup Ways(UpTo(p)) /\ Ways(UpTo(p)) \subseteq DirsOf(u)
        /\ \A q \in DOMAIN t : u[q] = t[q]
        /\ \A q \in DOMAIN u \ DOMAIN t : u[q] = DirNode
    <3>1. Paved(t, u, UpTo(p))
      BY <1>0, MakeWayFacts, Zenon
    <3> QED
      BY <3>1 DEF Paved
  <2>3. /\ DOMAIN s = {r \in DOMAIN u : ~IsPrefix(p, r)} \cup {p}
        /\ s[p] = Leads(type, IF type = "dir" THEN 0 ELSE FreshIn(u), data)
        /\ \A q \in DOMAIN s : q # p => s[q] = u[q]
    BY <2>1, Zenon
  <2>4. s[p].type = type /\ s[p].data = data
    BY <2>3 DEF Leads
  <2>5. \A q \in DOMAIN u : q \in NamePath /\ Ways(UpTo(q)) \subseteq DirsOf(u) /\ (u[q].type = "dir" => u[q].data = 0)
    BY <2>2 DEF WellFormed
  <2>6. /\ DOMAIN s = {r \in DOMAIN u : p \notin Ways(r)} \cup {p}
    BY <1>0, <2>3, <2>5
  <2>7. \A q \in DirsOf(u) : p \notin Ways(q) /\ q # p => q \in DirsOf(s)
    BY <2>3, <2>6 DEF DirsOf
  <2>8. ASSUME NEW q \in DOMAIN s
        PROVE  q \in NamePath /\ Ways(UpTo(q)) \subseteq DirsOf(s) /\ (s[q].type = "dir" => s[q].data = 0)
    <3>1. q \in NamePath /\ Ways(UpTo(q)) \subseteq DirsOf(u)
      BY <2>2, <2>5, <2>6
    <3>2. /\ Ways(q) = Ways(UpTo(q)) \cup {q}
          /\ \A r \in Ways(UpTo(q)) : Ways(r) \subseteq Ways(UpTo(q)) /\ q \notin Ways(r)
          /\ q \notin Ways(UpTo(q))
      BY <3>1, WayFacts DEF NamePath
    <3>3. CASE q = p
      BY <2>4, <2>7, <3>1, <3>2, <3>3
    <3>4. CASE q # p
      <4>1. p \notin Ways(q) /\ q \in DOMAIN u /\ s[q] = u[q]
        BY <2>3, <2>6, <3>4
      <4>2. \A r \in Ways(UpTo(q)) : p \notin Ways(r) /\ r # p
        BY <3>2, <4>1
      <4> QED
        BY <2>5, <2>7, <3>1, <4>1, <4>2
    <3> QED
      BY <3>3, <3>4
  <2>9. WellFormed(s)
    BY <2>8 DEF WellFormed
  <2>10. \A q \in DOMAIN t : p \notin Ways(q) => q \in DOMAIN s /\ s[q] = t[q]
    <3>1. \A q \in DOMAIN t : q \in Ways(q)
      BY TreeWays
    <3> QED
      BY <2>2, <2>3, <2>6, <3>1
  <2>11. DOMAIN s \subseteq DOMAIN t \cup Ways(p) /\ p \in DOMAIN s
    BY <1>0, <2>2, <2>6
  <2>12. \A q \in DOMAIN s \ DOMAIN t : q # p => s[q] = DirNode
    BY <2>2, <2>3, <2>6
  <2> QED
    BY <2>4, <2>9, <2>10, <2>11, <2>12 DEF Adds, Keeps
<1>2. ASSUME Ways(UpTo(p)) \cap DOMAIN t \subseteq DirsOf(t)
      PROVE  putNode(t, p, type, data) # {}
  <2>1. PICK u : u \in makeWay(t, UpTo(p))
    BY <1>0, <1>2, MakeWayFacts, Zenon
  <2> QED
    BY <2>1, Zenon DEF putNode
<1> QED
  BY <1>1, <1>2

LEMMA PutFileFacts ==
    ASSUME NEW t, WellFormed(t), NEW p \in NamePath, NEW data
    PROVE  /\ \A s \in putFile(t, p, data) :
                 /\ Adds(t, s, p) /\ s[p].type = "file" /\ s[p].data = data
                 /\ p \notin DOMAIN t => Keeps(t, s, p)
           /\ p \notin DOMAIN t /\ Ways(UpTo(p)) \cap DOMAIN t \subseteq DirsOf(t) => putFile(t, p, data) # {}
<1>1. CASE p \notin DOMAIN t
  <2>1. putFile(t, p, data) = putNode(t, p, "file", data)
    BY <1>1, Zenon DEF putFile
  <2>2. "file" = "dir" => data = 0
    OBVIOUS
  <2> QED
    BY <1>1, <2>1, <2>2, PutNodeFacts
<1>2. CASE p \in DOMAIN t
  <2>1. ASSUME NEW s \in putFile(t, p, data)
        PROVE  Adds(t, s, p) /\ s[p].type = "file" /\ s[p].data = data
    <3> DEFINE file == Leads("file", t[p].node, data)
    <3>1. /\ t[p].type = "file"
          /\ s = [q \in DOMAIN t |-> IF t[q] = t[p] THEN file ELSE t[q]]
      BY <1>2, <2>1 DEF putFile
    <3>2. file.type = "file" /\ file.data = data
      BY DEF Leads
    <3> HIDE DEF file
    <3>3. /\ DOMAIN s = DOMAIN t
          /\ \A q \in DOMAIN t : s[q] = IF t[q] = t[p] THEN file ELSE t[q]
      BY <3>1, Zenon
    <3>4. \A q \in DOMAIN t : s[q].type = t[q].type /\ (s[q].type = "dir" => s[q] = t[q])
      BY <3>1, <3>2, <3>3
    <3>5. DirsOf(s) = DirsOf(t)
      BY <3>3, <3>4 DEF DirsOf
    <3>6. WellFormed(s)
      BY <3>3, <3>4, <3>5 DEF WellFormed
    <3> QED
      BY <1>2, <3>2, <3>3, <3>4, <3>6 DEF Adds
  <2> QED
    BY <1>2, <2>1
<1> QED
  BY <1>1, <1>2

\* s is t with the node of p at q.
Linked(t, s, p, q) ==
    /\ WellFormed(s) /\ DOMAIN s = DOMAIN t \cup {q} /\ q \notin DOMAIN t /\ p \in DOMAIN t
    /\ s[q] = t[p] /\ \A r \in DOMAIN t : s[r] = t[r]

LEMMA LinkFacts ==
    ASSUME NEW t, WellFormed(t), NEW p, NEW q \in NamePath
    PROVE  /\ \A s \in linkNode(t, p, q) : Linked(t, s, p, q)
           /\ (p \in DOMAIN t \ DirsOf(t) /\ q \notin DOMAIN t /\ UpTo(q) \in DirsOf(t) \cup {<<>>})
                 => linkNode(t, p, q) # {}
<1>1. ASSUME NEW s \in linkNode(t, p, q)
      PROVE  Linked(t, s, p, q)
  <2>1. /\ p \in DOMAIN t \ DirsOf(t) /\ q \notin DOMAIN t
        /\ UpTo(q) \in DirsOf(t) \cup {<<>>}
        /\ s = [r \in DOMAIN t \cup {q} |-> IF r = q THEN t[p] ELSE t[r]]
    BY DEF linkNode
  <2>2. DOMAIN s = DOMAIN t \cup {q} /\ s[q] = t[p] /\ \A r \in DOMAIN t : s[r] = t[r]
    BY <2>1
  <2>3. \A r \in DirsOf(t) : r \in DirsOf(s)
    BY <2>2 DEF DirsOf
  <2>4. Ways(UpTo(q)) \subseteq DirsOf(t)
    <3>1. CASE UpTo(q) = <<>>
      <4>1. Ways(<<>>) = {}
        BY DEF Ways
      <4> QED
        BY <3>1, <4>1
    <3>2. CASE UpTo(q) \in DirsOf(t)
      <4>1. UpTo(q) \in DOMAIN t
        BY <3>2 DEF DirsOf
      <4> QED
        BY <3>2, <4>1, TreeWays
    <3> QED
      BY <2>1, <3>1, <3>2
  <2>5. t[p].type # "dir"
    BY <2>1 DEF DirsOf
  <2>6. WellFormed(s)
    BY <2>2, <2>3, <2>4, <2>5 DEF WellFormed
  <2> QED
    BY <2>1, <2>2, <2>6 DEF Linked
<1>2. (p \in DOMAIN t \ DirsOf(t) /\ q \notin DOMAIN t /\ UpTo(q) \in DirsOf(t) \cup {<<>>})
         => linkNode(t, p, q) # {}
  BY DEF linkNode
<1> QED
  BY <1>1, <1>2

-----------------------------------------------------------------------------
(* The loops, round by round.                                              *)

\* The length of a path, name by name.
LEMMA SizeRounds ==
    ASSUME NEW p, Len(p) \in Nat
    PROVE  \E f : /\ f[0] = 0
                  /\ \A k \in 1 .. Len(p) : f[k] = f[k - 1] + 1 + NameSize[p[k]]
                  /\ PathSize(p) = f[Len(p)]
<1> DEFINE Is(f, m) == f = [k \in 0 .. m |-> IF k = 0 THEN 0 ELSE f[k - 1] + 1 + NameSize[p[k]]]
           G == {m \in Nat : \E f : Is(f, m)}
           round == CHOOSE f : Is(f, Len(p))
<1>1. PathSize(p) = round[Len(p)]
  BY Zenon DEF PathSize
<1>2. 0 \in G
  <2>1. Is([k \in 0 .. 0 |-> 0], 0)
    OBVIOUS
  <2> HIDE DEF Is
  <2> QED
    BY <2>1
<1>3. ASSUME NEW m \in 1 .. Len(p), m - 1 \in G
      PROVE  m \in G
  <2>1. PICK f : Is(f, m - 1)
    BY <1>3
  <2> DEFINE last == f[m - 1] + 1 + NameSize[p[m]]
             g == [k \in 0 .. m |-> IF k = m THEN last ELSE f[k]]
  <2>2. \A k \in 0 .. m - 1 : f[k] = IF k = 0 THEN 0 ELSE f[k - 1] + 1 + NameSize[p[k]]
    BY <2>1
  <2>3. ASSUME NEW k \in 0 .. m
        PROVE  g[k] = IF k = 0 THEN 0 ELSE g[k - 1] + 1 + NameSize[p[k]]
    <3>1. CASE k = 0
      <4>1. g[k] = f[k] /\ k \in 0 .. m - 1
        BY <3>1
      <4> HIDE DEF g
      <4> QED
        BY <2>2, <3>1, <4>1, Zenon
    <3>2. CASE k # 0
      <4>1. k - 1 \in 0 .. m - 1 /\ g[k - 1] = f[k - 1]
        BY <3>2
      <4>2. CASE k = m
        <5>1. g[k] = last
          BY <4>2
        <5> HIDE DEF g
        <5> QED
          BY <3>2, <4>1, <4>2, <5>1, Zenon
      <4>3. CASE k # m
        <5>1. g[k] = f[k] /\ k \in 0 .. m - 1
          BY <4>3
        <5> HIDE DEF g
        <5> QED
          BY <2>2, <3>2, <4>1, <5>1, Zenon
      <4> QED
        BY <4>2, <4>3
    <3> QED
      BY <3>1, <3>2
  <2>4. Is(g, m)
    <3>1. g = [k \in 0 .. m |-> g[k]]
      OBVIOUS
    <3> HIDE DEF g
    <3> QED
      BY <3>1, <2>3, Zenon
  <2> HIDE DEF Is, g
  <2> QED
    BY <2>4, <1>3
<1>4. Len(p) \in G
  <2> HIDE DEF G
  <2>1. \A k \in 1 .. Len(p) : k - 1 \in G => k \in G
    BY <1>3
  <2>2. \A k \in 0 .. Len(p) : k \in G
    BY <1>2, <2>1, Climbs
  <2> QED
    BY <2>2
<1>5. Is(round, Len(p))
  <2>1. \E f : Is(f, Len(p))
    BY <1>4
  <2> HIDE DEF Is
  <2> QED
    BY <2>1, Zenon
<1> HIDE DEF round
<1>6. \A k \in 0 .. Len(p) : round[k] = IF k = 0 THEN 0 ELSE round[k - 1] + 1 + NameSize[p[k]]
  BY <1>5
<1>7. round[0] = 0 /\ \A k \in 1 .. Len(p) : round[k] = round[k - 1] + 1 + NameSize[p[k]]
  <2>1. 0 \in 0 .. Len(p) /\ \A k \in 1 .. Len(p) : k \in 0 .. Len(p) /\ k # 0
    OBVIOUS
  <2> QED
    BY <1>6, <2>1, Zenon
<1> QED
  BY <1>1, <1>7, Zenon

\* Entry by entry.
LEMMA BuildRounds ==
    ASSUME NEW es, Len(es) \in Nat, NEW installed
    PROVE  \E f : /\ f[0] = {<<>>}
                  /\ \A k \in 1 .. Len(es) : f[k] = UNION {install(t, es[k], installed) : t \in f[k - 1]}
                  /\ build(es, installed) = f[Len(es)]
<1> DEFINE Is(f, m) == f = [k \in 0 .. m |-> IF k = 0 THEN {<<>>} ELSE UNION {install(t, es[k], installed) : t \in f[k - 1]}]
           G == {m \in Nat : \E f : Is(f, m)}
           round == CHOOSE f : Is(f, Len(es))
<1>1. build(es, installed) = round[Len(es)]
  BY Zenon DEF build
<1>2. 0 \in G
  <2>1. Is([k \in 0 .. 0 |-> {<<>>}], 0)
    OBVIOUS
  <2> HIDE DEF Is
  <2> QED
    BY <2>1
<1>3. ASSUME NEW m \in 1 .. Len(es), m - 1 \in G
      PROVE  m \in G
  <2>1. PICK f : Is(f, m - 1)
    BY <1>3
  <2> DEFINE last == UNION {install(t, es[m], installed) : t \in f[m - 1]}
             g == [k \in 0 .. m |-> IF k = m THEN last ELSE f[k]]
  <2>2. \A k \in 0 .. m - 1 : f[k] = IF k = 0 THEN {<<>>} ELSE UNION {install(t, es[k], installed) : t \in f[k - 1]}
    BY <2>1
  <2>3. ASSUME NEW k \in 0 .. m
        PROVE  g[k] = IF k = 0 THEN {<<>>} ELSE UNION {install(t, es[k], installed) : t \in g[k - 1]}
    <3>1. CASE k = 0
      <4>1. g[k] = f[k] /\ k \in 0 .. m - 1
        BY <3>1
      <4> HIDE DEF g
      <4> QED
        BY <2>2, <3>1, <4>1, Zenon
    <3>2. CASE k # 0
      <4>1. k - 1 \in 0 .. m - 1 /\ g[k - 1] = f[k - 1]
        BY <3>2
      <4>2. CASE k = m
        <5>1. g[k] = last
          BY <4>2
        <5> HIDE DEF g
        <5> QED
          BY <3>2, <4>1, <4>2, <5>1, Zenon
      <4>3. CASE k # m
        <5>1. g[k] = f[k] /\ k \in 0 .. m - 1
          BY <4>3
        <5> HIDE DEF g
        <5> QED
          BY <2>2, <3>2, <4>1, <5>1, Zenon
      <4> QED
        BY <4>2, <4>3
    <3> QED
      BY <3>1, <3>2
  <2>4. Is(g, m)
    <3>1. g = [k \in 0 .. m |-> g[k]]
      OBVIOUS
    <3> HIDE DEF g
    <3> QED
      BY <3>1, <2>3, Zenon
  <2> HIDE DEF Is, g
  <2> QED
    BY <2>4, <1>3
<1>4. Len(es) \in G
  <2> HIDE DEF G
  <2>1. \A k \in 1 .. Len(es) : k - 1 \in G => k \in G
    BY <1>3
  <2>2. \A k \in 0 .. Len(es) : k \in G
    BY <1>2, <2>1, Climbs
  <2> QED
    BY <2>2
<1>5. Is(round, Len(es))
  <2>1. \E f : Is(f, Len(es))
    BY <1>4
  <2> HIDE DEF Is
  <2> QED
    BY <2>1, Zenon
<1> HIDE DEF round
<1>6. \A k \in 0 .. Len(es) : round[k] = IF k = 0 THEN {<<>>} ELSE UNION {install(t, es[k], installed) : t \in round[k - 1]}
  BY <1>5
<1>7. round[0] = {<<>>} /\ \A k \in 1 .. Len(es) : round[k] = UNION {install(t, es[k], installed) : t \in round[k - 1]}
  <2>1. 0 \in 0 .. Len(es) /\ \A k \in 1 .. Len(es) : k \in 0 .. Len(es) /\ k # 0
    OBVIOUS
  <2> QED
    BY <1>6, <2>1, Zenon
<1> QED
  BY <1>1, <1>7, Zenon

\* The runs f of a loop of mountTar, entry by entry.
IsRun(f, es, first, links, ign) ==
    /\ f[0] = first
    /\ \A k \in 1 .. Len(es) : f[k] = mountOne(f[k - 1], es[k], links, ign)
    /\ mountAll(first, es, links, ign) = f[Len(es)]

\* Either loop of mountTar, entry by entry.
LEMMA MountRounds ==
    ASSUME NEW es, Len(es) \in Nat, NEW first, NEW links, NEW ign
    PROVE  \E f : IsRun(f, es, first, links, ign)
<1> DEFINE Is(f, m) == f = [k \in 0 .. m |-> IF k = 0 THEN first ELSE mountOne(f[k - 1], es[k], links, ign)]
           G == {m \in Nat : \E f : Is(f, m)}
           round == CHOOSE f : Is(f, Len(es))
<1>1. mountAll(first, es, links, ign) = round[Len(es)]
  BY Zenon DEF mountAll
<1>2. 0 \in G
  <2>1. Is([k \in 0 .. 0 |-> first], 0)
    OBVIOUS
  <2> HIDE DEF Is
  <2> QED
    BY <2>1
<1>3. ASSUME NEW m \in 1 .. Len(es), m - 1 \in G
      PROVE  m \in G
  <2>1. PICK f : Is(f, m - 1)
    BY <1>3
  <2> DEFINE last == mountOne(f[m - 1], es[m], links, ign)
             g == [k \in 0 .. m |-> IF k = m THEN last ELSE f[k]]
  <2>2. \A k \in 0 .. m - 1 : f[k] = IF k = 0 THEN first ELSE mountOne(f[k - 1], es[k], links, ign)
    BY <2>1
  <2>3. ASSUME NEW k \in 0 .. m
        PROVE  g[k] = IF k = 0 THEN first ELSE mountOne(g[k - 1], es[k], links, ign)
    <3>1. CASE k = 0
      <4>1. g[k] = f[k] /\ k \in 0 .. m - 1
        BY <3>1
      <4> HIDE DEF g
      <4> QED
        BY <2>2, <3>1, <4>1, Zenon
    <3>2. CASE k # 0
      <4>1. k - 1 \in 0 .. m - 1 /\ g[k - 1] = f[k - 1]
        BY <3>2
      <4>2. CASE k = m
        <5>1. g[k] = last
          BY <4>2
        <5> HIDE DEF g
        <5> QED
          BY <3>2, <4>1, <4>2, <5>1, Zenon
      <4>3. CASE k # m
        <5>1. g[k] = f[k] /\ k \in 0 .. m - 1
          BY <4>3
        <5> HIDE DEF g
        <5> QED
          BY <2>2, <3>2, <4>1, <5>1, Zenon
      <4> QED
        BY <4>2, <4>3
    <3> QED
      BY <3>1, <3>2
  <2>4. Is(g, m)
    <3>1. g = [k \in 0 .. m |-> g[k]]
      OBVIOUS
    <3> HIDE DEF g
    <3> QED
      BY <3>1, <2>3, Zenon
  <2> HIDE DEF Is, g
  <2> QED
    BY <2>4, <1>3
<1>4. Len(es) \in G
  <2> HIDE DEF G
  <2>1. \A k \in 1 .. Len(es) : k - 1 \in G => k \in G
    BY <1>3
  <2>2. \A k \in 0 .. Len(es) : k \in G
    BY <1>2, <2>1, Climbs
  <2> QED
    BY <2>2
<1>5. Is(round, Len(es))
  <2>1. \E f : Is(f, Len(es))
    BY <1>4
  <2> HIDE DEF Is
  <2> QED
    BY <2>1, Zenon
<1> HIDE DEF round
<1>6. \A k \in 0 .. Len(es) : round[k] = IF k = 0 THEN first ELSE mountOne(round[k - 1], es[k], links, ign)
  BY <1>5
<1>7. round[0] = first /\ \A k \in 1 .. Len(es) : round[k] = mountOne(round[k - 1], es[k], links, ign)
  <2>1. 0 \in 0 .. Len(es) /\ \A k \in 1 .. Len(es) : k \in 0 .. Len(es) /\ k # 0
    OBVIOUS
  <2> QED
    BY <1>6, <2>1, Zenon
<1>8. IsRun(round, es, first, links, ign)
  BY <1>1, <1>7, Zenon DEF IsRun
<1> QED
  BY <1>8

-----------------------------------------------------------------------------
(* Snapshots.                                                              *)

\* Lengths are numbers.
LEMMA SizeIsNat ==
    ASSUME NEW p \in Seq(DOMAIN NameSize)
    PROVE  \E f : /\ f[0] = 0
                  /\ \A k \in 1 .. Len(p) : f[k] = f[k - 1] + 1 + NameSize[p[k]] /\ NameSize[p[k]] \in Nat
                  /\ \A k \in 0 .. Len(p) : f[k] \in Nat
                  /\ PathSize(p) = f[Len(p)] /\ PathSize(p) \in Nat
<1>1. Len(p) \in Nat
  BY LenProperties
<1>2. PICK f : /\ f[0] = 0
               /\ \A k \in 1 .. Len(p) : f[k] = f[k - 1] + 1 + NameSize[p[k]]
               /\ PathSize(p) = f[Len(p)]
  BY <1>1, SizeRounds
<1>3. \A k \in 1 .. Len(p) : NameSize[p[k]] \in Nat
  <2>1. \A k \in 1 .. Len(p) : p[k] \in DOMAIN NameSize
    BY <1>1, ElementOfSeq
  <2> QED
    BY <2>1, ImageAssumption
<1> DEFINE G == {k \in 0 .. Len(p) : f[k] \in Nat}
<1>4. 0 \in G
  BY <1>1, <1>2
<1>5. ASSUME NEW k \in 1 .. Len(p), k - 1 \in G
      PROVE  k \in G
  BY <1>1, <1>2, <1>3, <1>5, SMTT(60)
<1>6. \A k \in 0 .. Len(p) : k \in G
  <2> HIDE DEF G
  <2> QED
    BY <1>1, <1>4, <1>5, Climbs
<1>7. \A k \in 0 .. Len(p) : f[k] \in Nat
  BY <1>6
<1>8. Len(p) \in 0 .. Len(p)
  BY <1>1
<1> QED
  BY <1>2, <1>3, <1>7, <1>8

\* A path is longer than what is on the way to it.
LEMMA SizeGrows ==
    ASSUME NEW p \in NamePath, NEW q \in Ways(UpTo(p))
    PROVE  PathSize(q) \in Nat /\ PathSize(p) \in Nat /\ PathSize(q) < PathSize(p)
<1>1. /\ p \in Seq(DOMAIN NameSize) /\ q \in Seq(DOMAIN NameSize) /\ q # p /\ IsPrefix(q, p)
  <2>1. q \in Ways(p) /\ q # p
    BY WayFacts DEF NamePath
  <2> QED
    BY <2>1, WaysArePrefixes DEF NamePath
<1>2. /\ Len(p) \in Nat /\ Len(q) \in Nat /\ Len(q) < Len(p)
      /\ \A i \in 1 .. Len(q) : q[i] = p[i]
  <2>1. Len(p) \in Nat /\ Len(q) \in Nat
    BY <1>1, LenProperties
  <2>2. Len(q) <= Len(p) /\ Len(q) # Len(p) /\ \A i \in 1 .. Len(q) : q[i] = p[i]
    BY <1>1, PrefixOrder, PrefixByElements
  <2> QED
    BY <2>1, <2>2
<1>3. PICK f : /\ f[0] = 0
               /\ \A k \in 1 .. Len(p) : f[k] = f[k - 1] + 1 + NameSize[p[k]] /\ NameSize[p[k]] \in Nat
               /\ \A k \in 0 .. Len(p) : f[k] \in Nat
               /\ PathSize(p) = f[Len(p)] /\ PathSize(p) \in Nat
  BY <1>1, SizeIsNat
<1>4. PICK g : /\ g[0] = 0
               /\ \A k \in 1 .. Len(q) : g[k] = g[k - 1] + 1 + NameSize[q[k]] /\ NameSize[q[k]] \in Nat
               /\ \A k \in 0 .. Len(q) : g[k] \in Nat
               /\ PathSize(q) = g[Len(q)] /\ PathSize(q) \in Nat
  BY <1>1, SizeIsNat
<1>5. g[Len(q)] = f[Len(q)]
  <2> DEFINE G == {k \in 0 .. Len(q) : g[k] = f[k]}
  <2>1. 0 \in G
    BY <1>2, <1>3, <1>4
  <2>2. ASSUME NEW k \in 1 .. Len(q), k - 1 \in G
        PROVE  k \in G
    <3>1. g[k - 1] = f[k - 1] /\ q[k] = p[k] /\ k \in 1 .. Len(p)
      BY <1>2, <2>2
    <3>2. g[k] = g[k - 1] + 1 + NameSize[q[k]] /\ f[k] = f[k - 1] + 1 + NameSize[p[k]]
      BY <1>3, <1>4, <3>1
    <3>3. g[k] = f[k]
      BY <3>1, <3>2, Zenon
    <3> QED
      BY <1>2, <3>3
  <2>3. \A k \in 0 .. Len(q) : k \in G
    <3> HIDE DEF G
    <3> QED
      BY <1>2, <2>1, <2>2, Climbs
  <2> QED
    BY <1>2, <2>3
<1>6. f[Len(q)] < f[Len(p)]
  <2> DEFINE B(k) == k > Len(q) => f[Len(q)] < f[k]
             G == {k \in 0 .. Len(p) : B(k)}
  <2>1. 0 \in G
    BY <1>2
  <2>2. ASSUME NEW k \in 1 .. Len(p), k - 1 \in G
        PROVE  k \in G
    <3>1. f[k - 1] \in Nat /\ f[Len(q)] \in Nat
      BY <1>2, <1>3
    <3>2. f[k] = f[k - 1] + 1 + NameSize[p[k]] /\ NameSize[p[k]] \in Nat
      BY <1>3
    <3>3. k - 1 > Len(q) => f[Len(q)] < f[k - 1]
      BY <2>2
    <3>4. k - 1 = Len(q) => f[Len(q)] = f[k - 1]
      BY Zenon
    <3> QED
      BY <1>2, <3>1, <3>2, <3>3, <3>4, SMTT(60)
  <2>3. \A k \in 0 .. Len(p) : k \in G
    <3> HIDE DEF G
    <3> QED
      BY <1>2, <2>1, <2>2, Climbs
  <2>4. B(Len(p))
    BY <1>2, <2>3
  <2> QED
    BY <1>2, <2>4
<1> QED
  BY <1>3, <1>4, <1>5, <1>6

\* Entries for every path of t, with what is below a path after it.
Ordered(t, es) ==
    /\ Len(es) \in Nat /\ DOMAIN es = 1 .. Len(es)
    /\ \A i \in 1 .. Len(es) : /\ es[i].path \in DOMAIN t
                               /\ es[i].type = t[es[i].path].type /\ es[i].data = t[es[i].path].data
    /\ \A p \in DOMAIN t : \E i \in 1 .. Len(es) : es[i].path = p
    /\ \A i, j \in 1 .. Len(es) : i < j => es[j].path \notin Ways(es[i].path)

\* The tree that the first i entries make.
Part(t, es, u, i) ==
    /\ WellFormed(u) /\ DOMAIN u = {es[k].path : k \in 1 .. i}
    /\ \A p \in DOMAIN u : u[p].type = t[p].type /\ u[p].data = t[p].data

LEMMA InstallStep ==
    ASSUME NEW t, WellFormed(t), NEW es, Ordered(t, es), NEW installed \in BOOLEAN,
           NEW i \in 1 .. Len(es), NEW u, Part(t, es, u, i - 1)
    PROVE  /\ install(u, es[i], installed) # {}
           /\ \A s \in install(u, es[i], installed) : Part(t, es, s, i)
<1> DEFINE p == es[i].path
<1>1. /\ Len(es) \in Nat /\ p \in DOMAIN t /\ es[i].type = t[p].type /\ es[i].data = t[p].data
      /\ WellFormed(u) /\ DOMAIN u = {es[k].path : k \in 1 .. i - 1}
      /\ \A q \in DOMAIN u : u[q].type = t[q].type /\ u[q].data = t[q].data
  BY DEF Ordered, Part
<1>0. /\ \A k \in 1 .. Len(es) : k < i => p \notin Ways(es[k].path)
      /\ \A k \in 1 .. Len(es) : i < k => es[k].path \notin Ways(p)
  BY DEF Ordered
<1>13. p = es[i].path
  OBVIOUS
<1> HIDE DEF p
<1>2. /\ p \in NamePath /\ p \in Ways(p) /\ Ways(UpTo(p)) \subseteq DirsOf(t) /\ p \notin Ways(UpTo(p))
      /\ Ways(p) = Ways(UpTo(p)) \cup {p} /\ (t[p].type = "dir" => t[p].data = 0)
  <2>1. p \in NamePath /\ Ways(UpTo(p)) \subseteq DirsOf(t) /\ (t[p].type = "dir" => t[p].data = 0)
    BY <1>1 DEF WellFormed
  <2> QED
    BY <2>1, WayFacts DEF NamePath
<1>3. \A q \in DOMAIN u : p \notin Ways(q)
  <2>1. \A k \in 1 .. i - 1 : k \in 1 .. Len(es) /\ k < i
    BY <1>1
  <2>2. \A k \in 1 .. i - 1 : p \notin Ways(es[k].path)
    BY <1>0, <2>1
  <2> QED
    BY <1>1, <2>2
<1>4. p \notin DOMAIN u
  BY <1>2, <1>3
<1>5. Ways(UpTo(p)) \subseteq DirsOf(u)
  <2>1. SUFFICES ASSUME NEW r \in Ways(UpTo(p))
                 PROVE  r \in DirsOf(u)
    OBVIOUS
  <2>2. r \in DOMAIN t /\ t[r].type = "dir" /\ r \in Ways(p) /\ r # p
    BY <1>2 DEF DirsOf
  <2>3. PICK k \in 1 .. Len(es) : es[k].path = r
    BY <2>2 DEF Ordered
  <2>4. ~(i < k)
    BY <1>0, <2>2, <2>3
  <2>5. k \in 1 .. i - 1
    BY <1>1, <1>13, <2>2, <2>3, <2>4
  <2>6. r \in DOMAIN u
    BY <1>1, <2>3, <2>5
  <2> QED
    BY <1>1, <2>2, <2>6 DEF DirsOf
<1>6. DOMAIN u \cup {p} = {es[k].path : k \in 1 .. i}
  <2>1. \A k : k \in 1 .. i <=> k \in 1 .. i - 1 \/ k = i
    BY <1>1
  <2> QED
    BY <1>1, <1>13, <2>1
<1>7. ASSUME NEW s, WellFormed(s), DOMAIN s = DOMAIN u \cup {p}, s[p].type = t[p].type, s[p].data = t[p].data,
             \A q \in DOMAIN u : s[q] = u[q]
      PROVE  Part(t, es, s, i)
  <2>1. \A q \in DOMAIN s : s[q].type = t[q].type /\ s[q].data = t[q].data
    BY <1>1, <1>7
  <2> QED
    BY <1>6, <1>7, <2>1 DEF Part
<1>8. ASSUME NEW s, Adds(u, s, p), Keeps(u, s, p), s[p].type = t[p].type, s[p].data = t[p].data
      PROVE  Part(t, es, s, i)
  <2>1. WellFormed(s) /\ p \in DOMAIN s /\ DOMAIN s \subseteq DOMAIN u \cup Ways(p)
    BY <1>8 DEF Adds
  <2>2. \A q \in DOMAIN u : q \in DOMAIN s /\ s[q] = u[q]
    BY <1>3, <1>8 DEF Adds, Keeps
  <2>3. DOMAIN s = DOMAIN u \cup {p}
    BY <1>2, <1>5, <2>1, <2>2 DEF DirsOf
  <2> QED
    BY <1>7, <1>8, <2>1, <2>2, <2>3
<1>9. Ways(UpTo(p)) \cap DOMAIN u \subseteq DirsOf(u) /\ Ways(p) \cap DOMAIN u \subseteq DirsOf(u)
  BY <1>2, <1>4, <1>5
<1>10. CASE installed \/ es[i].type \notin {"dir", "file"}
  <2>1. install(u, es[i], installed) = putNode(u, p, t[p].type, t[p].data)
    BY <1>1, <1>10, <1>13 DEF install
  <2>2. /\ \A s \in putNode(u, p, t[p].type, t[p].data) :
              Adds(u, s, p) /\ Keeps(u, s, p) /\ s[p].type = t[p].type /\ s[p].data = t[p].data
        /\ putNode(u, p, t[p].type, t[p].data) # {}
    BY <1>1, <1>2, <1>9, PutNodeFacts
  <2> QED
    BY <1>8, <2>1, <2>2, Zenon
<1>11. CASE ~installed /\ es[i].type = "dir"
  <2>1. install(u, es[i], installed) = makeWay(u, p)
    BY <1>11, <1>13 DEF install
  <2>2. makeWay(u, p) # {} /\ \A s \in makeWay(u, p) : Paved(u, s, p)
    <3>1. p \in NamePath \cup {<<>>}
      BY <1>2
    <3> QED
      BY <1>1, <1>9, <3>1, MakeWayFacts, Zenon
  <2>3. ASSUME NEW s \in makeWay(u, p)
        PROVE  Part(t, es, s, i)
    <3>1. /\ WellFormed(s) /\ DOMAIN s = DOMAIN u \cup Ways(p)
          /\ \A q \in DOMAIN u : s[q] = u[q]
          /\ \A q \in DOMAIN s \ DOMAIN u : s[q] = DirNode
      BY <2>2 DEF Paved
    <3>2. DOMAIN s = DOMAIN u \cup {p}
      BY <1>2, <1>5, <3>1 DEF DirsOf
    <3>3. s[p] = DirNode
      BY <1>4, <3>1, <3>2
    <3>4. s[p].type = t[p].type /\ s[p].data = t[p].data
      BY <1>1, <1>2, <1>11, <3>3 DEF DirNode, Leads
    <3> QED
      BY <1>7, <3>1, <3>2, <3>4
  <2> QED
    BY <2>1, <2>2, <2>3
<1>12. CASE ~installed /\ es[i].type = "file"
  <2>1. install(u, es[i], installed) = putFile(u, p, t[p].data)
    BY <1>1, <1>12, <1>13 DEF install
  <2>2. /\ \A s \in putFile(u, p, t[p].data) :
              Adds(u, s, p) /\ Keeps(u, s, p) /\ s[p].type = "file" /\ s[p].data = t[p].data
        /\ putFile(u, p, t[p].data) # {}
    BY <1>1, <1>2, <1>4, <1>9, PutFileFacts
  <2>3. t[p].type = "file"
    BY <1>1, <1>12
  <2> QED
    BY <1>8, <2>1, <2>2, <2>3, Zenon
<1> QED
  BY <1>10, <1>11, <1>12

\* Either way, all entries make the tree they were taken from.
LEMMA BuildGives ==
    ASSUME NEW t, WellFormed(t), NEW es, Ordered(t, es), NEW installed \in BOOLEAN
    PROVE  /\ build(es, installed) # {}
           /\ \A u \in build(es, installed) : WellFormed(u) /\ Plain(u) = Plain(t)
<1>1. Len(es) \in Nat
  BY DEF Ordered
<1>2. PICK f : /\ f[0] = {<<>>}
               /\ \A k \in 1 .. Len(es) : f[k] = UNION {install(s, es[k], installed) : s \in f[k - 1]}
               /\ build(es, installed) = f[Len(es)]
  BY <1>1, BuildRounds
<1> DEFINE A(k) == f[k] # {} /\ \A u \in f[k] : Part(t, es, u, k)
           G == {k \in 0 .. Len(es) : A(k)}
<1>3. 0 \in G
  <2>1. Part(t, es, <<>>, 0)
    <3>1. DOMAIN <<>> = {} /\ {es[k].path : k \in 1 .. 0} = {}
      OBVIOUS
    <3> QED
      BY <3>1 DEF Part, WellFormed
  <2> QED
    BY <1>1, <1>2, <2>1
<1>4. ASSUME NEW k \in 1 .. Len(es), k - 1 \in G
      PROVE  k \in G
  <2>1. f[k - 1] # {} /\ \A u \in f[k - 1] : Part(t, es, u, k - 1)
    BY <1>4
  <2>2. \A u \in f[k - 1] : /\ install(u, es[k], installed) # {}
                            /\ \A s \in install(u, es[k], installed) : Part(t, es, s, k)
    BY <2>1, InstallStep, Zenon
  <2>3. f[k] = UNION {install(s, es[k], installed) : s \in f[k - 1]}
    BY <1>2
  <2>4. f[k] # {}
    <3>1. PICK u : u \in f[k - 1]
      BY <2>1
    <3>2. PICK s : s \in install(u, es[k], installed)
      BY <2>2, <3>1
    <3> QED
      BY <2>3, <3>1, <3>2
  <2>5. ASSUME NEW s \in f[k]
        PROVE  Part(t, es, s, k)
    <3>1. PICK u \in f[k - 1] : s \in install(u, es[k], installed)
      BY <2>3, Zenon
    <3> QED
      BY <2>2, <3>1, Zenon
  <2> QED
    BY <1>1, <2>4, <2>5
<1>5. A(Len(es))
  <2> HIDE DEF G
  <2>1. \A k \in 0 .. Len(es) : k \in G
    BY <1>1, <1>3, <1>4, Climbs
  <2> QED
    BY <1>1, <2>1 DEF G
<1>6. ASSUME NEW u, Part(t, es, u, Len(es))
      PROVE  WellFormed(u) /\ Plain(u) = Plain(t)
  <2>1. DOMAIN u = {es[k].path : k \in 1 .. Len(es)}
    BY <1>6 DEF Part
  <2>2. \A k \in 1 .. Len(es) : es[k].path \in DOMAIN t
    BY DEF Ordered
  <2>3. \A p \in DOMAIN t : \E k \in 1 .. Len(es) : es[k].path = p
    BY DEF Ordered
  <2>4. DOMAIN u = DOMAIN t
    BY <2>1, <2>2, <2>3
  <2> QED
    BY <1>6, <2>4 DEF Part, Plain
<1> QED
  BY <1>2, <1>5, <1>6

\* The length of a function of the numbers up to n.
LEMMA SameLength ==
    ASSUME NEW n \in Nat, NEW s, DOMAIN s = 1 .. n, s = [i \in DOMAIN s |-> s[i]]
    PROVE  Len(s) = n
<1> DEFINE S == {s[i] : i \in 1 .. n}
<1>1. s \in [1 .. n -> S]
  OBVIOUS
<1> HIDE DEF S
<1>2. s \in Seq(S)
  BY <1>1, SeqDef
<1>3. Len(s) \in Nat /\ DOMAIN s = 1 .. Len(s)
  BY <1>2, LenProperties
<1> QED
  BY <1>3

\* A listing is a sequence.
LEMMA ListingFacts ==
    ASSUME NEW S, NEW n \in Nat, NEW w \in Listings(S, n)
    PROVE  /\ DOMAIN w = 1 .. n /\ Len(w) = n /\ \A i \in 1 .. n : w[i] \in S
           /\ \A x \in S : \E i \in 1 .. n : w[i] = x
<1>1. w \in [1 .. n -> S] /\ \A x \in S : \E i \in 1 .. n : w[i] = x
  BY Zenon DEF Listings
<1>4. DOMAIN w = 1 .. n /\ w = [i \in DOMAIN w |-> w[i]] /\ \A i \in 1 .. n : w[i] \in S
  BY <1>1
<1>5. Len(w) = n
  BY <1>4, SameLength
<1> QED
  BY <1>1, <1>4, <1>5

\* What a walk collects is ordered.
LEMMA CollectOrdered ==
    ASSUME NEW t, WellFormed(t), NEW es \in collect(t)
    PROVE  Ordered(t, es)
<1>0. PICK n \in 0 .. MaxPaths : \E w \in Listings(DOMAIN t, n) :
          /\ IsWalk(w)
          /\ es = [i \in DOMAIN w |-> [path |-> w[i], type |-> t[w[i]].type, data |-> t[w[i]].data]]
  <2>1. PICK w \in {v \in UNION {Listings(DOMAIN t, n) : n \in 0 .. MaxPaths} : IsWalk(v)} :
           es = [i \in DOMAIN w |-> [path |-> w[i], type |-> t[w[i]].type, data |-> t[w[i]].data]]
    BY Zenon DEF collect
  <2>2. PICK n \in 0 .. MaxPaths : w \in Listings(DOMAIN t, n)
    BY Zenon
  <2> QED
    BY <2>1, <2>2, Zenon
<1>1. PICK w \in Listings(DOMAIN t, n) :
          /\ IsWalk(w)
          /\ es = [i \in DOMAIN w |-> [path |-> w[i], type |-> t[w[i]].type, data |-> t[w[i]].data]]
  BY <1>0, Zenon
<1>2. n \in Nat
  BY ImageAssumption
<1>3. DOMAIN w = 1 .. n /\ (\A i \in 1 .. n : w[i] \in DOMAIN t) /\ \A p \in DOMAIN t : \E i \in 1 .. n : w[i] = p
  BY <1>2, ListingFacts
<1>4. /\ DOMAIN es = 1 .. n /\ es = [i \in DOMAIN es |-> es[i]]
      /\ \A i \in 1 .. n : es[i] = [path |-> w[i], type |-> t[w[i]].type, data |-> t[w[i]].data]
  BY <1>1, <1>3
<1>5. Len(es) = n
  BY <1>2, <1>4, SameLength
<1>6. ASSUME NEW i \in 1 .. n, NEW j \in 1 .. n, i < j
      PROVE  w[j] \notin Ways(w[i])
  <2>1. ~IsPrefix(w[j], w[i])
    BY <1>1, <1>3, <1>6 DEF IsWalk
  <2>2. w[i] \in Seq(DOMAIN NameSize)
    BY <1>3 DEF WellFormed, NamePath
  <2> QED
    BY <2>1, <2>2, WaysArePrefixes
<1>7. \A i \in 1 .. n : /\ es[i].path = w[i] /\ es[i].type = t[w[i]].type /\ es[i].data = t[w[i]].data
  BY <1>4
<1> QED
  BY <1>2, <1>3, <1>4, <1>5, <1>6, <1>7 DEF Ordered

\* So is what is sorted by the length of the paths.
LEMMA SortedOrdered ==
    ASSUME NEW t, WellFormed(t), NEW es, Ordered(t, es), NEW s \in inOrder(es)
    PROVE  Ordered(t, s)
<1> DEFINE n == Len(es)
<1>1. PICK f \in Listings(DOMAIN es, n) :
          /\ \A i, j \in DOMAIN es : i < j =>
                     \/ PathSize(es[f[i]].path) < PathSize(es[f[j]].path)
                     \/ PathSize(es[f[i]].path) = PathSize(es[f[j]].path) /\ f[i] < f[j]
          /\ s = [i \in DOMAIN es |-> es[f[i]]]
  BY Zenon DEF inOrder
<1>2. /\ n \in Nat /\ DOMAIN es = 1 .. n
      /\ \A i \in 1 .. n : /\ es[i].path \in DOMAIN t
                           /\ es[i].type = t[es[i].path].type /\ es[i].data = t[es[i].path].data
      /\ \A p \in DOMAIN t : \E i \in 1 .. n : es[i].path = p
      /\ \A i, j \in 1 .. n : i < j => es[j].path \notin Ways(es[i].path)
  BY DEF Ordered
<1> HIDE DEF n
<1>3. (\A i \in 1 .. n : f[i] \in 1 .. n) /\ \A k \in 1 .. n : \E i \in 1 .. n : f[i] = k
  <2>1. f \in Listings(1 .. n, n)
    BY <1>1, <1>2, Zenon
  <2> QED
    BY <2>1 DEF Listings
<1>4. /\ DOMAIN s = 1 .. n /\ s = [i \in DOMAIN s |-> s[i]]
      /\ \A i \in 1 .. n : s[i] = es[f[i]]
  BY <1>1, <1>2
<1>5. Len(s) = n
  BY <1>2, <1>4, SameLength
<1>6. ASSUME NEW i \in 1 .. n, NEW j \in 1 .. n, i < j
      PROVE  s[j].path \notin Ways(s[i].path)
  <2> DEFINE p == es[f[i]].path
             q == es[f[j]].path
  <2>1. PathSize(p) < PathSize(q) \/ (PathSize(p) = PathSize(q) /\ f[i] < f[j])
    BY <1>1, <1>2, <1>6
  <2>2. p \in DOMAIN t /\ q \in DOMAIN t /\ p \in NamePath /\ q \in NamePath
    BY <1>2, <1>3 DEF WellFormed
  <2>6. s[i].path = p /\ s[j].path = q
    BY <1>4
  <2>7. f[i] \in 1 .. n /\ f[j] \in 1 .. n /\ (f[i] < f[j] => q \notin Ways(p))
    BY <1>2, <1>3
  <2> HIDE DEF p, q
  <2>3. Ways(p) = Ways(UpTo(p)) \cup {p}
    BY <2>2, WayFacts DEF NamePath
  <2>4. CASE q \in Ways(UpTo(p))
    <3>1. PathSize(q) \in Nat /\ PathSize(p) \in Nat /\ PathSize(q) < PathSize(p)
      BY <2>2, <2>4, SizeGrows
    <3> QED
      BY <2>1, <3>1
  <2>5. CASE q = p
    <3>1. PathSize(p) \in Nat
      BY <2>2, SizeIsNat DEF NamePath
    <3>2. f[i] < f[j]
      BY <2>1, <2>5, <3>1
    <3> QED
      BY <2>6, <2>7, <3>2
  <2> QED
    BY <2>3, <2>4, <2>5, <2>6
<1>7. ASSUME NEW p \in DOMAIN t
      PROVE  \E i \in 1 .. n : s[i].path = p
  <2>1. PICK k \in 1 .. n : es[k].path = p
    BY <1>2, Zenon
  <2>2. PICK i \in 1 .. n : f[i] = k
    BY <1>3, Zenon
  <2>3. s[i].path = p
    BY <1>4, <2>1, <2>2, Zenon
  <2> QED
    BY <2>3
<1>8. ASSUME NEW i \in 1 .. n
      PROVE  /\ s[i].path \in DOMAIN t
             /\ s[i].type = t[s[i].path].type /\ s[i].data = t[s[i].path].data
  <2>1. f[i] \in 1 .. n /\ s[i] = es[f[i]]
    BY <1>3, <1>4
  <2> QED
    BY <1>2, <2>1, SMTT(60)
<1> QED
  BY <1>2, <1>4, <1>5, <1>6, <1>7, <1>8 DEF Ordered

-----------------------------------------------------------------------------
(* Archives.                                                               *)

\* s is t with the entry e; a hard link was there before.
Mounted(t, s, e) ==
    /\ WellFormed(s) /\ e.path \in DOMAIN s
    /\ e.flag = "hard" => s = t
    /\ e.flag # "hard" => Adds(t, s, e.path) /\ s[e.path].type = e.flag
    /\ e.flag = "dir" => \A q \in DOMAIN t : q \in DOMAIN s /\ s[q] = t[q]
    /\ e.path \notin DOMAIN t => Keeps(t, s, e.path)
    /\ e.flag \in {"file", "symlink"} => s[e.path].data = e.data

LEMMA EntryMounts ==
    ASSUME NEW t, WellFormed(t), NEW e \in TarEntry, NEW s \in lookedUp(mountEntry(t, e), e)
    PROVE  Mounted(t, s, e)
<1>1. s \in mountEntry(t, e) /\ e.path \in DOMAIN s
  BY DEF lookedUp
<1>2. e.path \in NamePath /\ e.flag \in {"dir", "symlink", "file", "hard"}
  BY DEF TarEntry
<1>3. CASE e.flag = "dir"
  <2>1. s \in makeWay(t, e.path) /\ e.path \in NamePath \cup {<<>>}
    BY <1>1, <1>2, <1>3 DEF mountEntry
  <2>2. Paved(t, s, e.path)
    BY <2>1, MakeWayFacts, Zenon
  <2>3. /\ WellFormed(s) /\ DOMAIN s = DOMAIN t \cup Ways(e.path) /\ Ways(e.path) \subseteq DirsOf(s)
        /\ \A q \in DOMAIN t : s[q] = t[q]
        /\ \A q \in DOMAIN s \ DOMAIN t : s[q] = DirNode
    BY <2>2 DEF Paved
  <2>4. e.path \in Ways(e.path)
    BY <1>2, PathWays, Zenon
  <2>5. s[e.path].type = "dir"
    BY <2>3, <2>4 DEF DirsOf
  <2> QED
    BY <1>1, <1>3, <2>3, <2>5 DEF Mounted, Adds, Keeps
<1>4. CASE e.flag = "symlink"
  <2>1. s \in putNode(t, e.path, "symlink", e.data)
    BY <1>1, <1>4 DEF mountEntry
  <2>2. Adds(t, s, e.path) /\ Keeps(t, s, e.path) /\ s[e.path].type = "symlink" /\ s[e.path].data = e.data
    BY <1>2, <2>1, PutNodeFacts
  <2> QED
    BY <1>1, <1>4, <2>2 DEF Mounted, Adds
<1>5. CASE e.flag = "file"
  <2>1. s \in putFile(t, e.path, e.data)
    BY <1>1, <1>5 DEF mountEntry
  <2>2. /\ Adds(t, s, e.path) /\ s[e.path].type = "file" /\ s[e.path].data = e.data
        /\ e.path \notin DOMAIN t => Keeps(t, s, e.path)
    BY <1>2, <2>1, PutFileFacts
  <2> QED
    BY <1>1, <1>5, <2>2 DEF Mounted, Adds
<1>6. CASE e.flag = "hard"
  <2>1. s = t
    BY <1>1, <1>6 DEF mountEntry
  <2> QED
    BY <1>1, <1>6, <2>1 DEF Mounted, Keeps
<1> QED
  BY <1>2, <1>3, <1>4, <1>5, <1>6

\* An entry that nothing is in the way of does not fail.
LEMMA EntryFits ==
    ASSUME NEW t, WellFormed(t), NEW e \in TarEntry, e.flag # "hard",
           Ways(UpTo(e.path)) \cap DOMAIN t \subseteq DirsOf(t),
           e.path \notin DOMAIN t \/ (e.flag = "dir" /\ e.path \in DirsOf(t))
    PROVE  lookedUp(mountEntry(t, e), e) # {}
<1>1. e.path \in NamePath /\ e.flag \in {"dir", "symlink", "file"}
  BY DEF TarEntry
<1>2. Ways(e.path) = Ways(UpTo(e.path)) \cup {e.path}
  BY <1>1, WayFacts DEF NamePath
<1>3. SUFFICES ASSUME NEW s \in mountEntry(t, e), e.path \in DOMAIN s
               PROVE  lookedUp(mountEntry(t, e), e) # {}
  <2>1. CASE e.flag = "dir"
    <3>1. mountEntry(t, e) = makeWay(t, e.path) /\ e.path \in NamePath \cup {<<>>}
      BY <1>1, <2>1 DEF mountEntry
    <3>2. Ways(e.path) \cap DOMAIN t \subseteq DirsOf(t)
      BY <1>2
    <3>3. makeWay(t, e.path) # {} /\ \A s \in makeWay(t, e.path) : Paved(t, s, e.path)
      BY <3>1, <3>2, MakeWayFacts, Zenon
    <3> QED
      BY <1>2, <1>3, <3>1, <3>3 DEF Paved
  <2>2. CASE e.flag = "symlink"
    <3>1. mountEntry(t, e) = putNode(t, e.path, "symlink", e.data)
      BY <2>2 DEF mountEntry
    <3>2. putNode(t, e.path, "symlink", e.data) # {} /\ \A s \in putNode(t, e.path, "symlink", e.data) : Adds(t, s, e.path)
      BY <1>1, PutNodeFacts
    <3> QED
      BY <1>3, <3>1, <3>2 DEF Adds
  <2>3. CASE e.flag = "file"
    <3>1. mountEntry(t, e) = putFile(t, e.path, e.data)
      BY <2>3 DEF mountEntry
    <3>2. putFile(t, e.path, e.data) # {} /\ \A s \in putFile(t, e.path, e.data) : Adds(t, s, e.path)
      BY <1>1, <2>3, PutFileFacts
    <3> QED
      BY <1>3, <3>1, <3>2 DEF Adds
  <2> QED
    BY <1>1, <2>1, <2>2, <2>3
<1> QED
  BY <1>3 DEF lookedUp

LEMMA AttemptFacts ==
    ASSUME NEW run, NEW ts, NEW ign \in BOOLEAN
    PROVE  LET next == attempt(run, ts, ign)
           IN  /\ run.how = "threw" => next = run
               /\ run.how # "threw" /\ ts # {} => next.tree \in ts /\ next.how = "ok"
               /\ run.how # "threw" /\ ts = {} => next.tree = run.tree /\ next.how = IF ign THEN "ok" ELSE "threw"
<1>1. ts # {} => (CHOOSE t \in ts : TRUE) \in ts
  OBVIOUS
<1> QED
  BY <1>1 DEF attempt, Run

\* A run of a mount: how it stands, and that its tree is one.
RunOK(run) == run.how \in {"ok", "threw"} /\ WellFormed(run.tree)

LEMMA OneKeepsForm ==
    ASSUME NEW run, RunOK(run), NEW e \in TarEntry, NEW links \in BOOLEAN, NEW ign \in BOOLEAN
    PROVE  RunOK(mountOne(run, e, links, ign))
<1>1. e.path \in NamePath
  BY DEF TarEntry
<1>2. ASSUME NEW ts, \A s \in ts : WellFormed(s)
      PROVE  RunOK(attempt(run, ts, ign))
  BY <1>2, AttemptFacts DEF RunOK
<1>3. CASE ~links
  <2>1. \A s \in lookedUp(mountEntry(run.tree, e), e) : WellFormed(s)
    BY EntryMounts DEF Mounted, RunOK
  <2> QED
    BY <1>2, <1>3, <2>1 DEF mountOne
<1>4. CASE links /\ e.flag = "hard"
  <2>1. \A s \in linkNode(run.tree, e.link, e.path) : WellFormed(s)
    BY <1>1, LinkFacts DEF RunOK, Linked
  <2> QED
    BY <1>2, <1>4, <2>1 DEF mountOne
<1>5. CASE links /\ e.flag # "hard"
  BY <1>5 DEF mountOne
<1> QED
  BY <1>3, <1>4, <1>5

LEMMA AllKeepForm ==
    ASSUME NEW es \in Seq(TarEntry), NEW first, RunOK(first), NEW links \in BOOLEAN, NEW ign \in BOOLEAN
    PROVE  RunOK(mountAll(first, es, links, ign))
<1>1. Len(es) \in Nat /\ \A k \in 1 .. Len(es) : es[k] \in TarEntry
  BY LenProperties, ElementOfSeq
<1>0. PICK f : IsRun(f, es, first, links, ign)
  <2>1. Len(es) \in Nat
    BY <1>1
  <2> QED
    BY <2>1, MountRounds, Zenon
<1>2. /\ f[0] = first
      /\ \A k \in 1 .. Len(es) : f[k] = mountOne(f[k - 1], es[k], links, ign)
      /\ mountAll(first, es, links, ign) = f[Len(es)]
  BY <1>0, Zenon DEF IsRun
<1> DEFINE G == {k \in 0 .. Len(es) : RunOK(f[k])}
<1>3. 0 \in G
  BY <1>1, <1>2
<1>4. ASSUME NEW k \in 1 .. Len(es), k - 1 \in G
      PROVE  k \in G
  <2>1. RunOK(f[k - 1]) /\ es[k] \in TarEntry
    BY <1>1, <1>4
  <2>2. RunOK(mountOne(f[k - 1], es[k], links, ign))
    BY <2>1, OneKeepsForm
  <2> QED
    BY <1>1, <1>2, <2>2
<1>5. \A k \in 0 .. Len(es) : k \in G
  <2> HIDE DEF G
  <2> QED
    BY <1>1, <1>3, <1>4, Climbs
<1> QED
  BY <1>1, <1>2, <1>5

\* A sane archive, in terms of ways.
LEMMA SaneWays ==
    ASSUME NEW es \in Seq(TarEntry), Sane(es)
    PROVE  /\ Len(es) \in Nat /\ DOMAIN es = 1 .. Len(es)
           /\ \A i \in 1 .. Len(es) : es[i] \in TarEntry /\ es[i].path \in NamePath
           /\ \A i, j \in 1 .. Len(es) :
                 i # j => es[i].path # es[j].path /\ (es[i].path \in Ways(es[j].path) => es[i].flag = "dir")
           /\ \A i \in 1 .. Len(es) : es[i].flag = "hard" =>
                 /\ \E k \in 1 .. Len(es) : es[k].path = es[i].link /\ es[k].flag = "file"
                 /\ UpTo(es[i].path) = <<>> \/ \E k \in 1 .. Len(es) :
                       UpTo(es[i].path) \in Ways(es[k].path) /\ es[k].flag # "hard"
<1>1. /\ Len(es) \in Nat /\ DOMAIN es = 1 .. Len(es)
      /\ \A i \in 1 .. Len(es) : es[i] \in TarEntry
  BY LenProperties, ElementOfSeq
<1>2. \A i \in 1 .. Len(es) : es[i].path \in NamePath
  BY <1>1 DEF TarEntry
<1>3. ASSUME NEW i \in 1 .. Len(es), NEW j \in 1 .. Len(es), i # j
      PROVE  es[i].path # es[j].path /\ (es[i].path \in Ways(es[j].path) => es[i].flag = "dir")
  <2>1. es[i].path # es[j].path /\ (IsPrefix(es[i].path, es[j].path) => es[i].flag = "dir")
    BY <1>1, <1>3, Zenon DEF Sane
  <2>2. es[i].path \in Ways(es[j].path) => IsPrefix(es[i].path, es[j].path)
    BY <1>2, WaysArePrefixes DEF NamePath
  <2> QED
    BY <2>1, <2>2
<1>4. ASSUME NEW i \in 1 .. Len(es), es[i].flag = "hard"
      PROVE  /\ \E k \in 1 .. Len(es) : es[k].path = es[i].link /\ es[k].flag = "file"
             /\ UpTo(es[i].path) = <<>> \/ \E k \in 1 .. Len(es) :
                   UpTo(es[i].path) \in Ways(es[k].path) /\ es[k].flag # "hard"
  <2>1. /\ \E k \in 1 .. Len(es) : es[k].path = es[i].link /\ es[k].flag = "file"
        /\ \E k \in 1 .. Len(es) : IsPrefix(UpTo(es[i].path), es[k].path) /\ es[k].flag # "hard"
    BY <1>1, <1>4, Zenon DEF Sane
  <2>2. PICK k \in 1 .. Len(es) : IsPrefix(UpTo(es[i].path), es[k].path) /\ es[k].flag # "hard"
    BY <2>1
  <2>3. UpTo(es[i].path) \in Seq(DOMAIN NameSize) /\ es[k].path \in Seq(DOMAIN NameSize)
    BY <1>2, WayFacts DEF NamePath
  <2>4. UpTo(es[i].path) = <<>> \/ UpTo(es[i].path) \in Ways(es[k].path)
    BY <2>2, <2>3, WaysArePrefixes
  <2> QED
    BY <2>1, <2>2, <2>4
<1> QED
  BY <1>1, <1>2, <1>3, <1>4, Zenon

-----------------------------------------------------------------------------
(* Mounts that stop at the first error.                                    *)

\* The first i entries are there.
FoundUpTo(es, t, i) ==
    \A k \in 1 .. i : es[k].path \in DOMAIN t /\ (es[k].flag # "hard" => t[es[k].path].type = es[k].flag)

\* The first loop: what it has mounted stays.
LEMMA StrictFirst ==
    ASSUME NEW es \in Seq(TarEntry), Sane(es), NEW first, RunOK(first)
    PROVE  LET run == mountAll(first, es, FALSE, FALSE)
           IN  RunOK(run) /\ (run.how = "ok" => FoundUpTo(es, run.tree, Len(es)))
<1>1. Len(es) \in Nat /\ \A i \in 1 .. Len(es) : es[i] \in TarEntry
  BY SaneWays
<1>0. PICK f : IsRun(f, es, first, FALSE, FALSE)
  <2>1. Len(es) \in Nat
    BY <1>1
  <2> QED
    BY <2>1, MountRounds, Zenon
<1>2. /\ f[0] = first
      /\ \A k \in 1 .. Len(es) : f[k] = mountOne(f[k - 1], es[k], FALSE, FALSE)
      /\ mountAll(first, es, FALSE, FALSE) = f[Len(es)]
  BY <1>0, Zenon DEF IsRun
<1> DEFINE A(k) == RunOK(f[k]) /\ (f[k].how = "ok" => FoundUpTo(es, f[k].tree, k))
           G == {k \in 0 .. Len(es) : A(k)}
<1>3. 0 \in G
  <2>1. 1 .. 0 = {} /\ 0 \in 0 .. Len(es)
    BY <1>1
  <2> QED
    BY <1>2, <2>1 DEF FoundUpTo
<1>4. ASSUME NEW k \in 1 .. Len(es), k - 1 \in G
      PROVE  k \in G
  <2> DEFINE e == es[k]
             t == f[k - 1].tree
             s == f[k].tree
             ts == lookedUp(mountEntry(t, e), e)
  <2>1. RunOK(f[k - 1]) /\ (f[k - 1].how = "ok" => FoundUpTo(es, t, k - 1)) /\ e \in TarEntry
    BY <1>1, <1>4
  <2>2. f[k] = mountOne(f[k - 1], e, FALSE, FALSE)
    BY <1>2
  <2>3. RunOK(f[k])
    BY <2>1, <2>2, OneKeepsForm
  <2>4. f[k] = attempt(f[k - 1], ts, FALSE)
    BY <2>2, Zenon DEF mountOne
  <2>5. ASSUME f[k].how = "ok"
        PROVE  FoundUpTo(es, s, k)
    <3>1. f[k - 1].how = "ok" /\ s \in ts
      <4>1. f[k - 1].how \in {"ok", "threw"}
        BY <2>1 DEF RunOK
      <4> HIDE DEF ts
      <4> QED
        BY <2>4, <2>5, <4>1, AttemptFacts, ZenonT(60)
    <3>2. Mounted(t, s, e)
      <4> HIDE DEF t, s, e
      <4> QED
        BY <2>1, <3>1, EntryMounts DEF RunOK, t, ts
    <3>3. FoundUpTo(es, t, k - 1)
      BY <2>1, <3>1
    <3> HIDE DEF t, s, ts
    <3>4. ASSUME NEW j \in 1 .. k - 1
          PROVE  es[j].path \in DOMAIN s /\ (es[j].flag # "hard" => s[es[j].path].type = es[j].flag)
      <4>1. es[j].path \in DOMAIN t /\ (es[j].flag # "hard" => t[es[j].path].type = es[j].flag)
        BY <3>3 DEF FoundUpTo
      <4>2. j \in 1 .. Len(es) /\ j # k
        BY <1>1
      <4>3. e.path \in Ways(es[j].path) => e.flag = "dir"
        BY <4>2, SaneWays
      <4>4. CASE e.flag = "hard"
        BY <3>2, <4>1, <4>4 DEF Mounted
      <4>5. CASE e.flag = "dir"
        BY <3>2, <4>1, <4>5 DEF Mounted
      <4>6. CASE e.flag \notin {"dir", "hard"}
        BY <3>2, <4>1, <4>3, <4>6 DEF Mounted, Adds
      <4> QED
        BY <4>4, <4>5, <4>6
    <3>5. e.path \in DOMAIN s /\ (e.flag # "hard" => s[e.path].type = e.flag)
      BY <3>2 DEF Mounted
    <3>6. \A j \in 1 .. k : j \in 1 .. k - 1 \/ j = k
      BY <1>1
    <3> QED
      BY <3>4, <3>5, <3>6, Zenon DEF FoundUpTo
  <2> QED
    BY <1>1, <2>3, <2>5
<1>5. A(Len(es))
  <2>1. \A k \in 0 .. Len(es) : k \in G
    <3> HIDE DEF G
    <3> QED
      BY <1>1, <1>3, <1>4, Climbs
  <2>2. Len(es) \in 0 .. Len(es)
    BY <1>1
  <2> QED
    BY <2>1, <2>2
<1> QED
  BY <1>2, <1>5

\* The second loop: a hard link that was there before is an error.
LEMMA StrictSecond ==
    ASSUME NEW es \in Seq(TarEntry), Sane(es), NEW first, RunOK(first),
           first.how = "ok" => FoundUpTo(es, first.tree, Len(es))
    PROVE  LET run == mountAll(first, es, TRUE, FALSE)
           IN  run.how = "ok" => /\ first.how = "ok" /\ run.tree = first.tree
                                 /\ \A k \in 1 .. Len(es) : es[k].flag # "hard"
<1>1. Len(es) \in Nat /\ \A i \in 1 .. Len(es) : es[i] \in TarEntry /\ es[i].path \in NamePath
  BY SaneWays
<1>0. PICK f : IsRun(f, es, first, TRUE, FALSE)
  <2>1. Len(es) \in Nat
    BY <1>1
  <2> QED
    BY <2>1, MountRounds, Zenon
<1>2. /\ f[0] = first
      /\ \A k \in 1 .. Len(es) : f[k] = mountOne(f[k - 1], es[k], TRUE, FALSE)
      /\ mountAll(first, es, TRUE, FALSE) = f[Len(es)]
  BY <1>0, Zenon DEF IsRun
<1> DEFINE B(k) == f[k].how = "ok" => /\ first.how = "ok" /\ f[k].tree = first.tree
                                      /\ \A j \in 1 .. k : es[j].flag # "hard"
           A(k) == RunOK(f[k]) /\ B(k)
           G == {k \in 0 .. Len(es) : A(k)}
<1>3. 0 \in G
  <2>1. 1 .. 0 = {} /\ 0 \in 0 .. Len(es)
    BY <1>1
  <2> QED
    BY <1>2, <2>1
<1>4. ASSUME NEW k \in 1 .. Len(es), k - 1 \in G
      PROVE  k \in G
  <2> DEFINE ts == linkNode(f[k - 1].tree, es[k].link, es[k].path)
  <2>1. RunOK(f[k - 1]) /\ B(k - 1) /\ es[k] \in TarEntry /\ es[k].path \in NamePath
    BY <1>1, <1>4
  <2>2. f[k] = mountOne(f[k - 1], es[k], TRUE, FALSE)
    BY <1>2
  <2>3. RunOK(f[k])
    BY <2>1, <2>2, OneKeepsForm
  <2>4. ASSUME f[k].how = "ok"
        PROVE  /\ first.how = "ok" /\ f[k].tree = first.tree
               /\ \A j \in 1 .. k : es[j].flag # "hard"
    <3>1. CASE es[k].flag = "hard"
      <4>1. f[k] = attempt(f[k - 1], ts, FALSE)
        BY <2>2, <3>1 DEF mountOne
      <4>2. f[k - 1].how = "ok" /\ ts # {}
        <5>1. f[k - 1].how \in {"ok", "threw"}
          BY <2>1 DEF RunOK
        <5> HIDE DEF ts
        <5> QED
          BY <2>4, <4>1, <5>1, AttemptFacts
      <4>3. f[k - 1].tree = first.tree /\ es[k].path \in DOMAIN first.tree
        BY <2>1, <4>2 DEF FoundUpTo
      <4>4. es[k].path \notin DOMAIN f[k - 1].tree
        <5>1. PICK s : s \in ts
          BY <4>2
        <5>2. WellFormed(f[k - 1].tree)
          BY <2>1 DEF RunOK
        <5>3. Linked(f[k - 1].tree, s, es[k].link, es[k].path)
          BY <2>1, <5>1, <5>2, LinkFacts, Zenon
        <5> QED
          BY <5>3 DEF Linked
      <4> QED
        BY <4>3, <4>4
    <3>2. CASE es[k].flag # "hard"
      <4>1. f[k] = f[k - 1]
        BY <2>2, <3>2 DEF mountOne
      <4>2. \A j \in 1 .. k : j \in 1 .. k - 1 \/ j = k
        BY <1>1
      <4> QED
        BY <2>1, <2>4, <3>2, <4>1, <4>2, Zenon
    <3> QED
      BY <3>1, <3>2
  <2> QED
    BY <1>1, <2>3, <2>4
<1>5. A(Len(es))
  <2>1. \A k \in 0 .. Len(es) : k \in G
    <3> HIDE DEF G
    <3> QED
      BY <1>1, <1>3, <1>4, Climbs
  <2>2. Len(es) \in 0 .. Len(es)
    BY <1>1
  <2> QED
    BY <2>1, <2>2
<1> QED
  BY <1>2, <1>5

-----------------------------------------------------------------------------
(* Mounts into an empty tree.                                              *)

\* The first i entries have made all that is there: the ways to what is not a
\* hard link, and nothing but directories elsewhere.
MadeUpTo(es, t, i) ==
    /\ \A q \in DOMAIN t : \E k \in 1 .. i : es[k].flag # "hard" /\ q \in Ways(es[k].path)
    /\ \A q \in DOMAIN t : \/ t[q].type = "dir"
                           \/ \E k \in 1 .. i : q = es[k].path /\ es[k].flag \notin {"hard", "dir"}
    /\ \A k \in 1 .. i : es[k].flag # "hard" =>
          /\ es[k].path \in DOMAIN t /\ t[es[k].path].type = es[k].flag
          /\ es[k].flag \in {"file", "symlink"} => t[es[k].path].data = es[k].data

\* An entry whose turn it is finds nothing in its way, and takes nothing away.
LEMMA EntryIsMade ==
    ASSUME NEW es \in Seq(TarEntry), Sane(es), NEW k \in 1 .. Len(es), es[k].flag # "hard",
           NEW t, WellFormed(t), MadeUpTo(es, t, k - 1)
    PROVE  /\ lookedUp(mountEntry(t, es[k]), es[k]) # {}
           /\ \A s \in lookedUp(mountEntry(t, es[k]), es[k]) : MadeUpTo(es, s, k)
<1> DEFINE e == es[k]
           p == e.path
<1>1. /\ Len(es) \in Nat /\ e \in TarEntry /\ p \in NamePath
      /\ \A j \in 1 .. k - 1 : /\ j \in 1 .. Len(es) /\ es[j].path \in NamePath /\ es[j].path # p
                               /\ p \in Ways(es[j].path) => e.flag = "dir"
                               /\ es[j].path \in Ways(p) => es[j].flag = "dir"
  <2>1. Len(es) \in Nat
    BY SaneWays
  <2>2. \A j \in 1 .. k - 1 : j \in 1 .. Len(es) /\ j # k
    BY <2>1
  <2> QED
    BY <2>1, <2>2, SaneWays
<1>2. /\ Ways(p) = Ways(UpTo(p)) \cup {p} /\ p \notin Ways(UpTo(p))
  BY <1>1, PathWays, Zenon
<1>3. \A q \in DOMAIN t : p \in Ways(q) => e.flag = "dir"
  <2>1. SUFFICES ASSUME NEW q \in DOMAIN t, p \in Ways(q)
                 PROVE  e.flag = "dir"
    OBVIOUS
  <2>2. PICK j \in 1 .. k - 1 : es[j].flag # "hard" /\ q \in Ways(es[j].path)
    BY DEF MadeUpTo
  <2>3. Ways(q) \subseteq Ways(es[j].path)
    <3>1. es[j].path \in NamePath
      BY <1>1
    <3> QED
      BY <2>2, <3>1, PathWays, Zenon
  <2> QED
    BY <1>1, <2>1, <2>3
<1>4. p \in DOMAIN t => e.flag = "dir"
  BY <1>3, TreeWays
<1>5. Ways(p) \cap DOMAIN t \subseteq DirsOf(t)
  <2>1. SUFFICES ASSUME NEW q \in Ways(p), q \in DOMAIN t, t[q].type # "dir"
                 PROVE  FALSE
    BY DEF DirsOf
  <2>2. PICK j \in 1 .. k - 1 : q = es[j].path /\ es[j].flag \notin {"hard", "dir"}
    BY <2>1 DEF MadeUpTo
  <2> QED
    BY <1>1, <2>1, <2>2
<1>6. lookedUp(mountEntry(t, e), e) # {}
  <2>1. Ways(UpTo(e.path)) \cap DOMAIN t \subseteq DirsOf(t)
    BY <1>2, <1>5
  <2>2. e.path \notin DOMAIN t \/ (e.flag = "dir" /\ e.path \in DirsOf(t))
    BY <1>2, <1>4, <1>5
  <2> QED
    BY <1>1, <2>1, <2>2, EntryFits
<1>7. ASSUME NEW s \in lookedUp(mountEntry(t, e), e)
      PROVE  MadeUpTo(es, s, k)
  <2>1. Mounted(t, s, e)
    BY <1>1, <1>7, EntryMounts
  <2>2. /\ WellFormed(s) /\ p \in DOMAIN s /\ s[p].type = e.flag
        /\ DOMAIN s \subseteq DOMAIN t \cup Ways(p)
        /\ \A q \in DOMAIN s \ DOMAIN t : q # p => s[q] = DirNode
        /\ e.flag \in {"file", "symlink"} => s[p].data = e.data
    BY <2>1 DEF Mounted, Adds
  <2>3. \A q \in DOMAIN t : q \in DOMAIN s /\ s[q] = t[q]
    <3>1. CASE e.flag = "dir"
      BY <2>1, <3>1 DEF Mounted
    <3>2. CASE e.flag # "dir"
      <4>1. Keeps(t, s, p) /\ Adds(t, s, p)
        BY <1>4, <2>1, <3>2 DEF Mounted
      <4> QED
        BY <1>3, <3>2, <4>1 DEF Keeps, Adds
    <3> QED
      BY <3>1, <3>2
  <2>4. \A j \in 1 .. k : j \in 1 .. k - 1 \/ j = k
    BY <1>1
  <2>5. \A j \in 1 .. k - 1 : j \in 1 .. k
    BY <1>1
  <2>6. k \in 1 .. k
    BY <1>1
  <2>7. ASSUME NEW q \in DOMAIN s
        PROVE  \E j \in 1 .. k : es[j].flag # "hard" /\ q \in Ways(es[j].path)
    <3>1. CASE q \in DOMAIN t
      BY <2>5, <3>1 DEF MadeUpTo
    <3>2. CASE q \in Ways(p)
      BY <2>6, <3>2
    <3> QED
      BY <2>2, <3>1, <3>2
  <2>8. ASSUME NEW q \in DOMAIN s
        PROVE  \/ s[q].type = "dir"
               \/ \E j \in 1 .. k : q = es[j].path /\ es[j].flag \notin {"hard", "dir"}
    <3>1. CASE q \in DOMAIN t
      <4>1. s[q] = t[q]
        BY <2>3, <3>1
      <4> QED
        BY <2>5, <3>1, <4>1 DEF MadeUpTo
    <3>2. CASE q \notin DOMAIN t /\ q # p
      BY <2>2, <3>2 DEF DirNode, Leads
    <3>3. CASE q = p
      BY <2>2, <2>6, <3>3
    <3> QED
      BY <3>1, <3>2, <3>3
  <2>9. ASSUME NEW j \in 1 .. k, es[j].flag # "hard"
        PROVE  /\ es[j].path \in DOMAIN s /\ s[es[j].path].type = es[j].flag
               /\ es[j].flag \in {"file", "symlink"} => s[es[j].path].data = es[j].data
    <3>1. CASE j = k
      BY <2>2, <3>1
    <3>2. CASE j \in 1 .. k - 1
      <4>1. /\ es[j].path \in DOMAIN t /\ t[es[j].path].type = es[j].flag
            /\ es[j].flag \in {"file", "symlink"} => t[es[j].path].data = es[j].data
        BY <2>9, <3>2 DEF MadeUpTo
      <4> QED
        BY <2>3, <4>1
    <3> QED
      BY <2>4, <3>1, <3>2
  <2> QED
    BY <2>7, <2>8, <2>9 DEF MadeUpTo
<1> QED
  BY <1>6, <1>7

\* The first loop.
LEMMA FreshFirst ==
    ASSUME NEW es \in Seq(TarEntry), Sane(es), NEW first, RunOK(first), DOMAIN first.tree = {},
           NEW ign \in BOOLEAN
    PROVE  LET run == mountAll(first, es, FALSE, ign)
           IN  RunOK(run) /\ (run.how = "ok" => MadeUpTo(es, run.tree, Len(es)))
<1>1. Len(es) \in Nat /\ \A i \in 1 .. Len(es) : es[i] \in TarEntry
  BY SaneWays
<1>0. PICK f : IsRun(f, es, first, FALSE, ign)
  <2>1. Len(es) \in Nat
    BY <1>1
  <2> QED
    BY <2>1, MountRounds, Zenon
<1>2. /\ f[0] = first
      /\ \A k \in 1 .. Len(es) : f[k] = mountOne(f[k - 1], es[k], FALSE, ign)
      /\ mountAll(first, es, FALSE, ign) = f[Len(es)]
  BY <1>0, Zenon DEF IsRun
<1> DEFINE A(k) == RunOK(f[k]) /\ (f[k].how = "ok" => MadeUpTo(es, f[k].tree, k))
           G == {k \in 0 .. Len(es) : A(k)}
<1>3. 0 \in G
  <2>1. 1 .. 0 = {} /\ 0 \in 0 .. Len(es)
    BY <1>1
  <2> QED
    BY <1>2, <2>1 DEF MadeUpTo
<1>4. ASSUME NEW k \in 1 .. Len(es), k - 1 \in G
      PROVE  k \in G
  <2> DEFINE e == es[k]
             t == f[k - 1].tree
             s == f[k].tree
             ts == lookedUp(mountEntry(t, e), e)
  <2>1. RunOK(f[k - 1]) /\ (f[k - 1].how = "ok" => MadeUpTo(es, t, k - 1)) /\ e \in TarEntry
    BY <1>1, <1>4
  <2>2. f[k] = mountOne(f[k - 1], e, FALSE, ign)
    BY <1>2
  <2>3. RunOK(f[k])
    BY <2>1, <2>2, OneKeepsForm
  <2>4. f[k] = attempt(f[k - 1], ts, ign)
    BY <2>2, Zenon DEF mountOne
  <2>5. ASSUME f[k].how = "ok"
        PROVE  MadeUpTo(es, s, k)
    <3>1. f[k - 1].how = "ok" /\ (s \in ts \/ (ts = {} /\ s = t))
      <4>1. f[k - 1].how \in {"ok", "threw"}
        BY <2>1 DEF RunOK
      <4> HIDE DEF ts
      <4> QED
        BY <2>4, <2>5, <4>1, AttemptFacts
    <3>2. MadeUpTo(es, t, k - 1) /\ WellFormed(t)
      BY <2>1, <3>1 DEF RunOK
    <3>3. CASE e.flag = "hard"
      <4>1. s = t
        <5>1. CASE s \in ts
          <6>1. s \in {t}
            BY <3>3, <5>1 DEF mountEntry, lookedUp
          <6> QED
            BY <6>1
        <5> QED
          BY <3>1, <5>1
      <4>2. /\ \A j \in 1 .. k : j \in 1 .. k - 1 \/ j = k
            /\ \A j \in 1 .. k - 1 : j \in 1 .. k
        BY <1>1
      <4> HIDE DEF s, t
      <4> QED
        BY <3>2, <3>3, <4>1, <4>2, Zenon DEF MadeUpTo
    <3>4. CASE e.flag # "hard"
      <4> HIDE DEF t, s
      <4>1. ts # {} /\ \A u \in ts : MadeUpTo(es, u, k)
        BY <3>2, <3>4, EntryIsMade
      <4> QED
        BY <3>1, <4>1
    <3> QED
      BY <3>3, <3>4
  <2> QED
    BY <1>1, <2>3, <2>5
<1>5. A(Len(es))
  <2>1. \A k \in 0 .. Len(es) : k \in G
    <3> HIDE DEF G
    <3> QED
      BY <1>1, <1>3, <1>4, Climbs
  <2>2. Len(es) \in 0 .. Len(es)
    BY <1>1
  <2> QED
    BY <2>1, <2>2
<1> QED
  BY <1>2, <1>5

\* The tree u with the first i entries' hard links added.
LinkedUpTo(es, t, u, i) ==
    /\ DOMAIN u = DOMAIN t \cup {es[k].path : k \in {j \in 1 .. i : es[j].flag = "hard"}}
    /\ \A q \in DOMAIN t : u[q] = t[q]
    /\ \A k \in 1 .. i : es[k].flag = "hard" => es[k].link \in DOMAIN t /\ u[es[k].path] = t[es[k].link]

\* A hard link finds its file and its directory.
LEMMA LinkIsMade ==
    ASSUME NEW es \in Seq(TarEntry), Sane(es), NEW k \in 1 .. Len(es), es[k].flag = "hard",
           NEW t, WellFormed(t), MadeUpTo(es, t, Len(es)), NEW u, WellFormed(u), LinkedUpTo(es, t, u, k - 1)
    PROVE  /\ linkNode(u, es[k].link, es[k].path) # {}
           /\ \A s \in linkNode(u, es[k].link, es[k].path) : LinkedUpTo(es, t, s, k)
<1> DEFINE e == es[k]
           p == e.path
<1>1. /\ Len(es) \in Nat /\ e \in TarEntry /\ p \in NamePath
      /\ \A j \in 1 .. Len(es) : j # k => /\ es[j].path \in NamePath /\ es[j].path # p
                                          /\ p \in Ways(es[j].path) => e.flag = "dir"
                                          /\ es[j].path \in Ways(p) => es[j].flag = "dir"
  BY SaneWays
<1>2. /\ DOMAIN u = DOMAIN t \cup {es[j].path : j \in {i \in 1 .. k - 1 : es[i].flag = "hard"}}
      /\ \A q \in DOMAIN t : u[q] = t[q]
      /\ \A j \in 1 .. k - 1 : es[j].flag = "hard" => es[j].link \in DOMAIN t /\ u[es[j].path] = t[es[j].link]
  BY DEF LinkedUpTo
<1>3. e.link \in DOMAIN t /\ t[e.link].type = "file"
  <2>1. PICK j \in 1 .. Len(es) : es[j].path = e.link /\ es[j].flag = "file"
    BY SaneWays
  <2> QED
    BY <2>1 DEF MadeUpTo
<1>4. p \notin DOMAIN t
  <2>1. SUFFICES ASSUME p \in DOMAIN t
                 PROVE  FALSE
    OBVIOUS
  <2>2. PICK j \in 1 .. Len(es) : es[j].flag # "hard" /\ p \in Ways(es[j].path)
    BY <2>1 DEF MadeUpTo
  <2> QED
    BY <1>1, <2>2
<1>5. p \notin DOMAIN u
  <2>1. \A j \in 1 .. k - 1 : j \in 1 .. Len(es) /\ j # k
    BY <1>1
  <2> QED
    BY <1>1, <1>2, <1>4, <2>1
<1>6. UpTo(p) \in DirsOf(u) \cup {<<>>}
  <2>1. SUFFICES ASSUME UpTo(p) # <<>>
                 PROVE  UpTo(p) \in DirsOf(u)
    OBVIOUS
  <2>2. PICK j \in 1 .. Len(es) : UpTo(p) \in Ways(es[j].path) /\ es[j].flag # "hard"
    BY <2>1, SaneWays
  <2>3. UpTo(p) \in DOMAIN t
    <3>1. es[j].path \in DOMAIN t
      BY <2>2 DEF MadeUpTo
    <3> QED
      BY <2>2, <3>1, TreeWays
  <2>4. UpTo(p) \in Ways(p)
    BY <1>1, <2>1, WayFacts DEF NamePath
  <2>5. t[UpTo(p)].type = "dir"
    <3>1. SUFFICES ASSUME NEW i \in 1 .. Len(es), UpTo(p) = es[i].path, es[i].flag \notin {"hard", "dir"}
                   PROVE  FALSE
      BY <2>3 DEF MadeUpTo
    <3> QED
      BY <1>1, <2>4, <3>1
  <2> QED
    BY <1>2, <2>3, <2>5 DEF DirsOf
<1>7. e.link \in DOMAIN u \ DirsOf(u)
  BY <1>2, <1>3 DEF DirsOf
<1>8. /\ linkNode(u, e.link, p) # {}
      /\ \A s \in linkNode(u, e.link, p) : /\ DOMAIN s = DOMAIN u \cup {p} /\ s[p] = u[e.link]
                                           /\ \A r \in DOMAIN u : s[r] = u[r]
  <2>1. linkNode(u, e.link, p) # {} /\ \A s \in linkNode(u, e.link, p) : Linked(u, s, e.link, p)
    BY <1>1, <1>5, <1>6, <1>7, LinkFacts, Zenon
  <2> QED
    BY <2>1 DEF Linked
<1>9. ASSUME NEW s \in linkNode(u, e.link, p)
      PROVE  LinkedUpTo(es, t, s, k)
  <2>1. DOMAIN s = DOMAIN u \cup {p} /\ s[p] = u[e.link] /\ \A r \in DOMAIN u : s[r] = u[r]
    BY <1>8
  <2>2. /\ \A j \in 1 .. k : j \in 1 .. k - 1 \/ j = k
        /\ \A j \in 1 .. k - 1 : j \in 1 .. k
        /\ k \in 1 .. k
    BY <1>1
  <2>3. {j \in 1 .. k : es[j].flag = "hard"} = {j \in 1 .. k - 1 : es[j].flag = "hard"} \cup {k}
    BY <2>2
  <2>4. DOMAIN s = DOMAIN t \cup {es[j].path : j \in {i \in 1 .. k : es[i].flag = "hard"}}
    BY <1>2, <2>1, <2>3
  <2>5. \A q \in DOMAIN t : s[q] = t[q]
    BY <1>2, <2>1
  <2>6. ASSUME NEW j \in 1 .. k, es[j].flag = "hard"
        PROVE  es[j].link \in DOMAIN t /\ s[es[j].path] = t[es[j].link]
    <3>1. CASE j = k
      BY <1>2, <1>3, <2>1, <3>1
    <3>2. CASE j \in 1 .. k - 1
      <4>1. es[j].path \in DOMAIN u /\ es[j].link \in DOMAIN t /\ u[es[j].path] = t[es[j].link]
        BY <1>2, <2>6, <3>2
      <4> QED
        BY <2>1, <4>1
    <3> QED
      BY <2>2, <3>1, <3>2
  <2> QED
    BY <2>4, <2>5, <2>6 DEF LinkedUpTo
<1> QED
  BY <1>8, <1>9

\* The second loop.
LEMMA FreshSecond ==
    ASSUME NEW es \in Seq(TarEntry), Sane(es), NEW first, RunOK(first),
           first.how = "ok" => MadeUpTo(es, first.tree, Len(es)),
           NEW ign \in BOOLEAN
    PROVE  LET run == mountAll(first, es, TRUE, ign)
           IN  run.how = "ok" => first.how = "ok" /\ LinkedUpTo(es, first.tree, run.tree, Len(es))
<1>1. Len(es) \in Nat /\ \A i \in 1 .. Len(es) : es[i] \in TarEntry
  BY SaneWays
<1>0. PICK f : IsRun(f, es, first, TRUE, ign)
  <2>1. Len(es) \in Nat
    BY <1>1
  <2> QED
    BY <2>1, MountRounds, Zenon
<1>2. /\ f[0] = first
      /\ \A k \in 1 .. Len(es) : f[k] = mountOne(f[k - 1], es[k], TRUE, ign)
      /\ mountAll(first, es, TRUE, ign) = f[Len(es)]
  BY <1>0, Zenon DEF IsRun
<1> DEFINE B(k) == f[k].how = "ok" => first.how = "ok" /\ LinkedUpTo(es, first.tree, f[k].tree, k)
           A(k) == RunOK(f[k]) /\ B(k)
           G == {k \in 0 .. Len(es) : A(k)}
<1>3. 0 \in G
  <2>1. 1 .. 0 = {} /\ 0 \in 0 .. Len(es)
    BY <1>1
  <2>2. LinkedUpTo(es, first.tree, first.tree, 0)
    BY <2>1 DEF LinkedUpTo
  <2> QED
    BY <1>2, <2>1, <2>2
<1>4. ASSUME NEW k \in 1 .. Len(es), k - 1 \in G
      PROVE  k \in G
  <2> DEFINE u == f[k - 1].tree
             s == f[k].tree
             ts == linkNode(u, es[k].link, es[k].path)
  <2>1. RunOK(f[k - 1]) /\ B(k - 1) /\ es[k] \in TarEntry
    BY <1>1, <1>4
  <2>2. f[k] = mountOne(f[k - 1], es[k], TRUE, ign)
    BY <1>2
  <2>3. RunOK(f[k])
    BY <2>1, <2>2, OneKeepsForm
  <2>4. ASSUME f[k].how = "ok"
        PROVE  first.how = "ok" /\ LinkedUpTo(es, first.tree, s, k)
    <3>1. CASE es[k].flag = "hard"
      <4>1. f[k] = attempt(f[k - 1], ts, ign)
        BY <2>2, <3>1 DEF mountOne
      <4>2. f[k - 1].how = "ok" /\ (ts # {} => s \in ts)
        <5>1. f[k - 1].how \in {"ok", "threw"}
          BY <2>1 DEF RunOK
        <5> HIDE DEF ts
        <5> QED
          BY <2>4, <4>1, <5>1, AttemptFacts
      <4>3. first.how = "ok" /\ LinkedUpTo(es, first.tree, u, k - 1) /\ WellFormed(u)
        BY <2>1, <4>2 DEF RunOK
      <4>4. MadeUpTo(es, first.tree, Len(es)) /\ WellFormed(first.tree)
        BY <4>3 DEF RunOK
      <4> HIDE DEF u, s
      <4>5. ts # {} /\ \A v \in ts : LinkedUpTo(es, first.tree, v, k)
        BY <3>1, <4>3, <4>4, LinkIsMade
      <4> QED
        BY <4>2, <4>3, <4>5
    <3>2. CASE es[k].flag # "hard"
      <4>1. f[k] = f[k - 1]
        BY <2>2, <3>2 DEF mountOne
      <4>2. first.how = "ok" /\ LinkedUpTo(es, first.tree, s, k - 1)
        BY <2>1, <2>4, <4>1
      <4>3. /\ {j \in 1 .. k : es[j].flag = "hard"} = {j \in 1 .. k - 1 : es[j].flag = "hard"}
            /\ \A j \in 1 .. k : es[j].flag = "hard" => j \in 1 .. k - 1
        BY <1>1, <3>2
      <4> HIDE DEF s
      <4> QED
        BY <4>2, <4>3 DEF LinkedUpTo
    <3> QED
      BY <3>1, <3>2
  <2> QED
    BY <1>1, <2>3, <2>4
<1>5. A(Len(es))
  <2>1. \A k \in 0 .. Len(es) : k \in G
    <3> HIDE DEF G
    <3> QED
      BY <1>1, <1>3, <1>4, Climbs
  <2>2. Len(es) \in 0 .. Len(es)
    BY <1>1
  <2> QED
    BY <2>1, <2>2
<1> QED
  BY <1>2, <1>5

-----------------------------------------------------------------------------
(* The invariant of the images.                                            *)

\* What mountTar leaves of a sane archive if it does not throw.
LEMMA MountTarMounts ==
    ASSUME NEW t, WellFormed(t), NEW headers \in Archives, NEW ign \in BOOLEAN, NEW es,
           es = supported(headers)
    PROVE  LET run == mountTar(t, headers, ign)
           IN  /\ WellFormed(run.tree)
               /\ Sane(es) /\ run.how = "ok" /\ (~ign \/ DOMAIN t = {}) =>
                     \A i \in DOMAIN es :
                        /\ InTree(run.tree, es[i])
                        /\ DOMAIN t = {} /\ es[i].flag \in {"file", "symlink"}
                              => run.tree[es[i].path].data = es[i].data
<1> DEFINE start == Run(t, "ok")
           first == mountAll(start, es, FALSE, ign)
           run   == mountAll(first, es, TRUE, ign)
<1>1. es \in Seq(TarEntry)
  BY ImageAssumption
<1>2. mountTar(t, headers, ign) = run
  BY Zenon DEF mountTar
<1>3. RunOK(start) /\ start.tree = t
  BY DEF RunOK, Run
<1> HIDE DEF start
<1>4. RunOK(first)
  BY <1>1, <1>3, AllKeepForm, Zenon
<1> HIDE DEF first
<1>5. RunOK(run)
  BY <1>1, <1>4, AllKeepForm, Zenon
<1>6. ASSUME Sane(es), run.how = "ok", DOMAIN t = {}, NEW i \in DOMAIN es
      PROVE  /\ InTree(run.tree, es[i])
             /\ es[i].flag \in {"file", "symlink"} => run.tree[es[i].path].data = es[i].data
  <2>1. first.how = "ok" => MadeUpTo(es, first.tree, Len(es))
    BY <1>1, <1>3, <1>6, FreshFirst DEF first
  <2>2. first.how = "ok" /\ LinkedUpTo(es, first.tree, run.tree, Len(es))
    BY <1>1, <1>4, <1>6, <2>1, FreshSecond
  <2>3. MadeUpTo(es, first.tree, Len(es)) /\ i \in 1 .. Len(es)
    BY <1>1, <1>6, <2>1, <2>2, SaneWays
  <2> HIDE DEF run
  <2>4. \A q \in DOMAIN first.tree : q \in DOMAIN run.tree /\ run.tree[q] = first.tree[q]
    BY <2>2 DEF LinkedUpTo
  <2>5. CASE es[i].flag = "hard"
    <3>1. es[i].link \in DOMAIN first.tree /\ run.tree[es[i].path] = first.tree[es[i].link]
      BY <2>2, <2>3, <2>5 DEF LinkedUpTo
    <3>2. es[i].path \in DOMAIN run.tree
      BY <2>2, <2>3, <2>5 DEF LinkedUpTo
    <3> QED
      BY <2>4, <2>5, <3>1, <3>2 DEF InTree
  <2>6. CASE es[i].flag # "hard"
    <3>1. /\ es[i].path \in DOMAIN first.tree /\ first.tree[es[i].path].type = es[i].flag
          /\ es[i].flag \in {"file", "symlink"} => first.tree[es[i].path].data = es[i].data
      BY <2>3, <2>6 DEF MadeUpTo
    <3> QED
      BY <2>4, <2>6, <3>1 DEF InTree
  <2> QED
    BY <2>5, <2>6
<1>7. ASSUME Sane(es), run.how = "ok", ign = FALSE, NEW i \in DOMAIN es
      PROVE  InTree(run.tree, es[i])
  <2>1. first.how = "ok" => FoundUpTo(es, first.tree, Len(es))
    BY <1>1, <1>3, <1>7, StrictFirst DEF first
  <2>2. /\ first.how = "ok" /\ run.tree = first.tree
        /\ \A k \in 1 .. Len(es) : es[k].flag # "hard"
    BY <1>1, <1>4, <1>7, <2>1, StrictSecond
  <2>3. i \in 1 .. Len(es)
    BY <1>1, <1>7, SaneWays
  <2> HIDE DEF run
  <2> QED
    BY <2>1, <2>2, <2>3 DEF FoundUpTo, InTree
<1> HIDE DEF run
<1>8. WellFormed(run.tree)
  BY <1>5 DEF RunOK
<1> QED
  BY <1>2, <1>6, <1>7, <1>8

\* The VFS holds a tree and the snapshot is one of a tree, listed in order.
ImageInv ==
    /\ WellFormed(tree)
    /\ stored # NoSnapshot => WellFormed(stored.of) /\ Ordered(stored.of, stored.entries)
    /\ SnapshotRestores /\ ArchiveMounts

LEMMA ImageInitially == ImageInit => ImageInv
<1> SUFFICES ASSUME ImageInit
             PROVE  ImageInv
  OBVIOUS
<1>1. WellFormed(tree) /\ stored = NoSnapshot
  BY ImageAssumption DEF ImageInit
<1>2. done.kind = "init"
  BY DEF ImageInit
<1> QED
  BY <1>1, <1>2 DEF ImageInv, SnapshotRestores, ArchiveMounts

LEMMA SaveStep == ImageInv /\ save => ImageInv'
<1> SUFFICES ASSUME ImageInv, save
             PROVE  ImageInv'
  OBVIOUS
<1>1. WellFormed(tree) /\ tree' = tree
  BY DEF ImageInv, save
<1>2. PICK es \in collect(tree) : stored' = [entries |-> es, of |-> tree]
  BY DEF save
<1>3. stored'.of = tree /\ stored'.entries = es
  BY <1>2
<1>4. Ordered(tree, es)
  BY <1>1, CollectOrdered
<1>5. done'.kind = "save"
  BY DEF save, Doing
<1>6. SnapshotRestores' /\ ArchiveMounts'
  BY <1>5 DEF SnapshotRestores, ArchiveMounts
<1> QED
  BY <1>1, <1>3, <1>4, <1>6 DEF ImageInv

LEMMA LoadStep ==
    ASSUME ImageInv, NEW installed \in BOOLEAN, load(installed)
    PROVE  ImageInv'
<1> DEFINE es == stored.entries
<1>1. WellFormed(stored.of) /\ Ordered(stored.of, es) /\ stored' = stored
  BY DEF ImageInv, load
<1>2. PICK trees \in IF installed THEN restoreVfsBinary(es) ELSE fromSnapshot(es) :
          /\ tree' \in IF trees = {} THEN {tree} ELSE trees
          /\ done' = Doing("load", stored, IF trees = {} THEN "threw" ELSE "ok")
  BY Zenon DEF load
<1>3. PICK s : Ordered(stored.of, s) /\ trees = build(s, installed)
  <2>1. CASE installed
    <3>1. PICK s \in inOrder(es) : trees = build(s, TRUE)
      BY <1>2, <2>1 DEF restoreVfsBinary
    <3>2. Ordered(stored.of, s)
      BY <1>1, SortedOrdered
    <3>3. build(s, TRUE) = build(s, installed)
      BY <2>1, Zenon
    <3> QED
      BY <3>1, <3>2, <3>3
  <2>2. CASE ~installed
    <3>1. trees = build(es, FALSE)
      BY <1>2, <2>2 DEF fromSnapshot
    <3>2. build(es, FALSE) = build(es, installed)
      BY <2>2, Zenon
    <3> QED
      BY <1>1, <3>1, <3>2
  <2> QED
    BY <2>1, <2>2
<1>4. trees # {} /\ \A u \in trees : WellFormed(u) /\ Plain(u) = Plain(stored.of)
  BY <1>1, <1>3, BuildGives
<1>5. tree' \in trees /\ done' = Doing("load", stored, "ok")
  BY <1>2, <1>4
<1>6. done'.kind = "load" /\ done'.of = stored /\ done'.how = "ok"
  BY <1>5 DEF Doing
<1>7. WellFormed(tree') /\ Plain(tree') = Plain(stored.of)
  BY <1>4, <1>5
<1>8. SnapshotRestores'
  BY <1>6, <1>7 DEF SnapshotRestores, Plain
<1>9. ArchiveMounts'
  BY <1>6 DEF ArchiveMounts
<1>10. (WellFormed(tree))'
  BY <1>7 DEF WellFormed, DirsOf
<1> QED
  BY <1>1, <1>8, <1>9, <1>10 DEF ImageInv

LEMMA MountStep ==
    ASSUME ImageInv, NEW headers \in Archives, NEW ign \in BOOLEAN, mount(headers, ign)
    PROVE  ImageInv'
<1> DEFINE run == mountTar(tree, headers, ign)
           es  == supported(headers)
<1>1. /\ tree' = run.tree /\ stored' = stored
      /\ done' = Doing(IF ign THEN "mountAnyway" ELSE "mount", headers, run.how)
  BY DEF mount
<1>2. WellFormed(tree)
  BY DEF ImageInv
<1>3. /\ WellFormed(run.tree)
      /\ Sane(es) /\ run.how = "ok" /\ (~ign \/ DOMAIN tree = {}) =>
            \A i \in DOMAIN es :
               /\ InTree(run.tree, es[i])
               /\ DOMAIN tree = {} /\ es[i].flag \in {"file", "symlink"}
                     => run.tree[es[i].path].data = es[i].data
  BY <1>2, MountTarMounts
<1> HIDE DEF run
<1>4. /\ done'.kind = IF ign THEN "mountAnyway" ELSE "mount"
      /\ done'.of = headers /\ done'.how = run.how /\ done'.fresh = (DOMAIN tree = {})
  BY <1>1 DEF Doing
<1>5. supported(done'.of) = es
  BY <1>4
<1> HIDE DEF es
<1>6. ArchiveMounts'
  <2>1. SUFFICES ASSUME Sane(es), run.how = "ok", done'.kind = "mount" \/ done'.fresh,
                        NEW i \in DOMAIN es
                 PROVE  /\ InTree(tree', es[i])
                        /\ done'.fresh /\ es[i].flag \in {"file", "symlink"}
                              => tree'[es[i].path].data = es[i].data
    BY <1>4, <1>5, Zenon DEF ArchiveMounts
  <2>2. ~ign \/ DOMAIN tree = {}
    BY <1>4, <2>1
  <2> QED
    BY <1>1, <1>3, <1>4, <2>1, <2>2
<1>7. SnapshotRestores'
  BY <1>4 DEF SnapshotRestores
<1>8. (WellFormed(tree))'
  BY <1>1, <1>3
<1> QED
  BY <1>1, <1>6, <1>7, <1>8 DEF ImageInv

LEMMA RemoveStep ==
    ASSUME ImageInv, NEW p \in DOMAIN tree, remove(p)
    PROVE  ImageInv'
<1>1. /\ tree[p].type # "dir" /\ tree' = [q \in DOMAIN tree \ {p} |-> tree[q]] /\ stored' = stored
      /\ done' = Doing("remove", NoSnapshot, "ok")
  BY DEF remove
<1>2. WellFormed(tree)
  BY DEF ImageInv
<1>3. /\ DOMAIN tree' = DOMAIN tree \ {p} /\ \A q \in DOMAIN tree' : tree'[q] = tree[q]
  BY <1>1
<1>4. DirsOf(tree) = DirsOf(tree')
  BY <1>1, <1>3 DEF DirsOf
<1>5. WellFormed(tree')
  BY <1>2, <1>3, <1>4 DEF WellFormed
<1>6. done'.kind = "remove"
  BY <1>1 DEF Doing
<1>7. SnapshotRestores' /\ ArchiveMounts'
  BY <1>6 DEF SnapshotRestores, ArchiveMounts
<1> QED
  BY <1>1, <1>5, <1>7 DEF ImageInv

LEMMA ImageStep == ImageInv /\ [ImageNext]_imageVars => ImageInv'
<1> SUFFICES ASSUME ImageInv, [ImageNext]_imageVars
             PROVE  ImageInv'
  OBVIOUS
<1>1. ASSUME tree' = tree, stored' = stored, done' = done
      PROVE  ImageInv'
  BY <1>1, Zenon DEF ImageInv, SnapshotRestores, ArchiveMounts
<1>2. CASE UNCHANGED imageVars
  BY <1>1, <1>2 DEF imageVars
<1>3. CASE saveBegins
  BY <1>1, <1>3 DEF saveBegins
<1>4. CASE save
  BY <1>4, SaveStep
<1>5. ASSUME NEW installed \in BOOLEAN, load(installed)
      PROVE  ImageInv'
  BY <1>5, LoadStep
<1>6. ASSUME NEW headers \in Archives, NEW ign \in BOOLEAN, mount(headers, ign)
      PROVE  ImageInv'
  BY <1>6, MountStep
<1>7. ASSUME NEW p \in DOMAIN tree, remove(p)
      PROVE  ImageInv'
  BY <1>7, RemoveStep
<1> QED
  BY <1>2, <1>3, <1>4, <1>5, <1>6, <1>7 DEF ImageNext

\* What the VFS holds stays a tree, and the stored snapshot an ordered listing of
\* one, through saves, loads, mounts and removals.
THEOREM ImageInvariance == ImageSpec => []ImageInv
<1>1. ImageInit => ImageInv
  BY ImageInitially
<1>2. ImageInv /\ [ImageNext]_imageVars => ImageInv'
  BY ImageStep
<1> QED
  BY <1>1, <1>2, PTL DEF ImageSpec

\* restoreVfsBinary, restoreVfsJson and fromSnapshot give back the tree that was
\* saved, for any tree and any lengths of its names.
THEOREM SnapshotsRestore == ImageSpec => []SnapshotRestores
<1>1. ImageInv => SnapshotRestores
  BY DEF ImageInv
<1> QED
  BY <1>1, ImageInvariance, PTL

\* mountTar leaves all of a sane archive in the tree when it does not throw, for
\* any archive and, where no error is passed over, into any tree.
THEOREM ArchivesMount == ImageSpec => []ArchiveMounts
<1>1. ImageInv => ArchiveMounts
  BY DEF ImageInv
<1> QED
  BY <1>1, ImageInvariance, PTL

=============================================================================
