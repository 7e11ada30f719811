--------------------------- MODULE VFSTreeProofs ----------------------------
(***************************************************************************)
(* Proofs about the directory tree of VFSTree, for any names, nodes and    *)
(* depths, and callers that neither link files into other directories nor  *)
(* rename directories onto or below each other: the nodes form a tree, and *)
(* an operation changes where the paths it was given lead to, no others.   *)
(***************************************************************************)
EXTENDS VFSTree, SequenceTheorems, WellFoundedInduction, TLAPS

-----------------------------------------------------------------------------
(* Induction over numbers and over paths.                                  *)

\* A set of natural numbers that is not empty has a smallest element.
LEMMA SmallestExists ==
    ASSUME NEW T, T \subseteq Nat, T # {}
    PROVE  \E a \in T : \A b \in T : a <= b
<1> DEFINE R == OpToRel(<, Nat)
<1>1. R = {ss \in Nat \X Nat : ss[1] < ss[2]}
  BY Zenon DEF OpToRel
<1>2. IsWellFoundedOn(R, Nat)
  BY NatLessThanWellFounded, Zenon
<1> HIDE DEF R
<1>3. PICK a \in T : \A b \in T : ~(<<b, a>> \in R)
  BY <1>2, WFMin, Zenon
<1>4. \A b \in T : ~(b < a)
  BY <1>1, <1>3
<1> QED
  BY <1>3, <1>4

\* A set that holds 0 and with every number the next holds all up to n.
LEMMA Climbs ==
    ASSUME NEW n \in Nat, NEW G, 0 \in G,
           \A k \in 1 .. n : k - 1 \in G => k \in G
    PROVE  \A k \in 0 .. n : k \in G
<1> DEFINE T == {k \in 0 .. n : k \notin G}
<1> SUFFICES ASSUME T # {}
             PROVE  FALSE
  OBVIOUS
<1>1. PICK a \in T : \A b \in T : a <= b
  <2>1. T \subseteq Nat
    OBVIOUS
  <2> HIDE DEF T
  <2> QED
    BY <2>1, SmallestExists
<1>2. a \in 1 .. n /\ a - 1 \in 0 .. n /\ a - 1 \notin T
  BY <1>1
<1> QED
  BY <1>1, <1>2

\* The last name of a path.
End(p) == p[Len(p)]

\* Paths other than that of the root: the directory and the name.
NonRoot == Seq(Name) \ {<<>>}

LEMMA UpFacts ==
    ASSUME NEW p \in NonRoot
    PROVE  /\ p \in Seq(Name) /\ Len(p) \in Nat \ {0} /\ End(p) \in Name
           /\ Up(p) \in Seq(Name) /\ Len(Up(p)) = Len(p) - 1
           /\ \A i \in 1 .. Len(p) - 1 : Up(p)[i] = p[i]
<1>1. p \in Seq(Name) /\ Len(p) \in Nat /\ Len(p) # 0
  BY LenProperties, EmptySeq DEF NonRoot
<1>2. PICK m \in Nat : m = Len(p) - 1
  BY <1>1
<1>3. End(p) \in Name /\ \A i \in 1 .. m : p[i] \in Name
  BY <1>1, <1>2, ElementOfSeq DEF End
<1>4. /\ SubSeq(p, 1, m) \in Seq(Name) /\ Len(SubSeq(p, 1, m)) = IF 1 <= m THEN m - 1 + 1 ELSE 0
      /\ \A i \in 1 .. m - 1 + 1 : SubSeq(p, 1, m)[i] = p[1 + i - 1]
  BY <1>1, <1>2, <1>3, SubSeqProperties
<1>5. PICK u \in Seq(Name) : /\ u = SubSeq(p, 1, m) /\ Len(u) = IF 1 <= m THEN m - 1 + 1 ELSE 0
                             /\ \A i \in 1 .. m - 1 + 1 : u[i] = p[1 + i - 1]
  BY <1>4, Zenon
<1>6. Len(u) = Len(p) - 1 /\ u = Up(p)
  BY <1>1, <1>2, <1>5 DEF Up
<1>7. ASSUME NEW i \in 1 .. Len(p) - 1
      PROVE  u[i] = p[i]
  <2>1. i \in 1 .. m - 1 + 1 /\ 1 + i - 1 = i
    BY <1>1, <1>2
  <2> QED
    BY <1>5, <2>1
<1> QED
  BY <1>1, <1>3, <1>5, <1>6, <1>7

\* A path is known by its directory and its name.
LEMMA UpAndEnd ==
    ASSUME NEW p \in NonRoot, NEW q \in NonRoot, Up(p) = Up(q), End(p) = End(q)
    PROVE  p = q
<1>1. /\ p \in Seq(Name) /\ Len(p) \in Nat \ {0} /\ Len(Up(p)) = Len(p) - 1
      /\ \A i \in 1 .. Len(p) - 1 : Up(p)[i] = p[i]
  BY UpFacts
<1>2. /\ q \in Seq(Name) /\ Len(q) \in Nat \ {0} /\ Len(Up(q)) = Len(q) - 1
      /\ \A i \in 1 .. Len(q) - 1 : Up(q)[i] = q[i]
  BY UpFacts
<1>3. Len(p) = Len(q)
  BY <1>1, <1>2
<1>4. ASSUME NEW i \in 1 .. Len(p)
      PROVE  p[i] = q[i]
  <2>1. CASE i = Len(p)
    BY <1>3, <2>1 DEF End
  <2>2. CASE i # Len(p)
    <3>1. i \in 1 .. Len(p) - 1
      BY <1>1, <2>2
    <3> QED
      BY <1>1, <1>2, <1>3, <3>1
  <2> QED
    BY <2>1, <2>2
<1> QED
  BY <1>1, <1>2, <1>3, <1>4, SeqEqual

\* There is a path for every directory and name.
LEMMA Extend ==
    ASSUME NEW u \in Seq(Name), NEW x \in Name
    PROVE  \E p \in NonRoot : Up(p) = u /\ End(p) = x /\ Len(p) = Len(u) + 1
<1>1. PICK p : p = Append(u, x)
  OBVIOUS
<1>2. /\ p \in Seq(Name) /\ Len(p) = Len(u) + 1 /\ p[Len(u) + 1] = x
      /\ \A i \in 1 .. Len(u) : p[i] = u[i]
  BY <1>1, AppendProperties
<1>3. Len(u) \in Nat
  BY LenProperties
<1>4. p \in NonRoot
  BY <1>2, <1>3, EmptySeq DEF NonRoot
<1>5. End(p) = x
  BY <1>2, <1>3 DEF End
<1>6. /\ Up(p) \in Seq(Name) /\ Len(Up(p)) = Len(p) - 1
      /\ \A i \in 1 .. Len(p) - 1 : Up(p)[i] = p[i]
  BY <1>4, UpFacts
<1>7. Len(Up(p)) = Len(u) /\ \A i \in 1 .. Len(u) : Up(p)[i] = u[i]
  BY <1>2, <1>3, <1>6
<1>8. Up(p) = u
  BY <1>6, <1>7, SeqEqual
<1> QED
  BY <1>2, <1>4, <1>5, <1>8

\* What holds of the root, and of a path if of its directory, holds of all.
LEMMA PathInduction ==
    ASSUME NEW G, <<>> \in G, \A p \in NonRoot : Up(p) \in G => p \in G
    PROVE  \A p \in Seq(Name) : p \in G
<1> SUFFICES ASSUME NEW s \in Seq(Name)
             PROVE  s \in G
  OBVIOUS
<1> DEFINE H == {k \in Nat : \A p \in Seq(Name) : Len(p) = k => p \in G}
<1>1. 0 \in H
  BY EmptySeq
<1>2. ASSUME NEW k \in 1 .. Len(s), k - 1 \in H
      PROVE  k \in H
  <2>1. ASSUME NEW p \in Seq(Name), Len(p) = k
        PROVE  p \in G
    <3>1. p \in NonRoot
      BY <2>1, EmptySeq DEF NonRoot
    <3>2. Up(p) \in Seq(Name) /\ Len(Up(p)) = k - 1
      BY <2>1, <3>1, UpFacts
    <3> QED
      BY <1>2, <3>1, <3>2
  <2>2. k \in Nat
    BY LenProperties
  <2> QED
    BY <2>1, <2>2
<1>3. Len(s) \in Nat /\ Len(s) \in 0 .. Len(s)
  BY LenProperties
<1> HIDE DEF H
<1>4. Len(s) \in H
  BY <1>1, <1>2, <1>3, Climbs
<1> QED
  BY <1>4 DEF H

\* Paths are the sequences of 1 to Depth names.
LEMMA Paths ==
    ASSUME NEW p
    PROVE  p \in Path <=> p \in NonRoot /\ Len(p) <= Depth
<1>1. ASSUME p \in Path
      PROVE  p \in NonRoot /\ Len(p) <= Depth
  <2>1. PICK n \in 1 .. Depth : p \in [1 .. n -> Name]
    BY <1>1 DEF Path
  <2>2. n \in Nat
    BY DepthAssumption
  <2>3. p \in Seq(Name) /\ Len(p) = n
    BY <2>1, <2>2
  <2>4. p # <<>>
    BY <2>2, <2>3, EmptySeq
  <2> QED
    BY <2>2, <2>3, <2>4, DepthAssumption DEF NonRoot
<1>2. ASSUME p \in NonRoot, Len(p) <= Depth
      PROVE  p \in Path
  <2>1. p \in Seq(Name) /\ Len(p) \in Nat \ {0}
    BY <1>2, UpFacts
  <2>2. p \in [1 .. Len(p) -> Name]
    BY <2>1, LenProperties
  <2>3. Len(p) \in 1 .. Depth
    BY <1>2, <2>1, DepthAssumption
  <2> QED
    BY <2>2, <2>3 DEF Path
<1> QED
  BY <1>1, <1>2

-----------------------------------------------------------------------------
(* Resolving a path, one name at a time.                                   *)

\* One step of _resolve.
Step(ch, ty, d, x) == IF d = None \/ ty[d] # "dir" THEN None ELSE ch[d][x]

\* w has what the walk along p meets.
Walks(w, ch, ty, p) ==
    /\ DOMAIN w = 0 .. Len(p) /\ w = [i \in 0 .. Len(p) |-> w[i]]
    /\ w[0] = Root
    /\ \A i \in 1 .. Len(p) : w[i] = Step(ch, ty, w[i - 1], p[i])

\* There is a walk along every path.
LEMMA WalkExists ==
    ASSUME NEW ch, NEW ty
    PROVE  \A p \in Seq(Name) : \E w : Walks(w, ch, ty, p)
<1> DEFINE Good(p) == \E w : Walks(w, ch, ty, p)
           G == {p \in Seq(Name) : Good(p)}
<1>1. <<>> \in G
  <2>1. Len(<<>>) = 0 /\ <<>> \in Seq(Name)
    BY EmptySeq
  <2> DEFINE w == [i \in 0 .. 0 |-> Root]
  <2>2. DOMAIN w = 0 .. 0 /\ w = [i \in 0 .. 0 |-> w[i]] /\ w[0] = Root
    OBVIOUS
  <2> HIDE DEF w
  <2>3. Walks(w, ch, ty, <<>>)
    BY <2>1, <2>2 DEF Walks
  <2> QED
    BY <2>1, <2>3
<1>2. ASSUME NEW p \in NonRoot, Up(p) \in G
      PROVE  p \in G
  <2>1. PICK u, v : u \in Seq(Name) /\ u = Up(p) /\ Walks(v, ch, ty, u)
    BY <1>2, Zenon
  <2>2. /\ p \in Seq(Name) /\ Len(p) \in Nat \ {0} /\ Len(u) = Len(p) - 1
        /\ \A i \in 1 .. Len(p) - 1 : u[i] = p[i]
    BY <2>1, UpFacts
  <2> DEFINE w == [i \in 0 .. Len(p) |-> IF i = Len(p) THEN Step(ch, ty, v[Len(p) - 1], p[i]) ELSE v[i]]
  <2>3. /\ DOMAIN w = 0 .. Len(p) /\ w = [i \in 0 .. Len(p) |-> w[i]]
        /\ \A i \in 0 .. Len(p) : i # Len(p) => w[i] = v[i]
        /\ w[Len(p)] = Step(ch, ty, v[Len(p) - 1], p[Len(p)])
    BY <2>2
  <2> HIDE DEF w
  <2>4. w[0] = Root
    BY <2>1, <2>2, <2>3, SMTT(60) DEF Walks
  <2>5. ASSUME NEW i \in 1 .. Len(p)
        PROVE  w[i] = Step(ch, ty, w[i - 1], p[i])
    <3>1. i - 1 \in 0 .. Len(p) /\ i - 1 # Len(p)
      BY <2>2
    <3>2. CASE i = Len(p)
      BY <2>3, <3>1, <3>2
    <3>3. CASE i # Len(p)
      <4>1. i \in 1 .. Len(u) /\ i \in 0 .. Len(p) /\ i \in 1 .. Len(p) - 1
        BY <2>2, <3>3
      <4>2. v[i] = Step(ch, ty, v[i - 1], u[i])
        BY <2>1, <4>1 DEF Walks
      <4> QED
        BY <2>2, <2>3, <3>1, <3>3, <4>1, <4>2
    <3> QED
      BY <3>2, <3>3
  <2>6. Walks(w, ch, ty, p)
    BY <2>3, <2>4, <2>5 DEF Walks
  <2> QED
    BY <2>2, <2>6
<1> HIDE DEF G
<1>3. \A p \in Seq(Name) : p \in G
  BY <1>1, <1>2, PathInduction
<1> QED
  BY <1>3, Zenon DEF G

\* _resolve ends where the walk does.
LEMMA ResolveIs ==
    ASSUME NEW ch, NEW ty, NEW p \in Seq(Name)
    PROVE  \E w : Walks(w, ch, ty, p) /\ Resolve(ch, ty, p) = w[Len(p)]
<1> DEFINE Eq(h) == h = [i \in 0 .. Len(p) |-> IF i = 0 THEN Root
                                               ELSE IF h[i - 1] = None \/ ty[h[i - 1]] # "dir" THEN None
                                               ELSE ch[h[i - 1]][p[i]]]
           w == CHOOSE h : Eq(h)
           F(h, i) == IF i = 0 THEN Root ELSE Step(ch, ty, h[i - 1], p[i])
<1>1. Len(p) \in Nat
  BY LenProperties
<1>2. PICK v : Walks(v, ch, ty, p)
  BY WalkExists
<1>3. Eq(v)
  <2>1. \A i \in 0 .. Len(p) : v[i] = F(v, i)
    BY <1>1, <1>2, SMTT(60) DEF Walks
  <2>2. v = [i \in 0 .. Len(p) |-> v[i]]
    BY <1>2, Zenon DEF Walks
  <2> HIDE DEF F
  <2>3. v = [i \in 0 .. Len(p) |-> F(v, i)]
    BY <2>1, <2>2
  <2> QED
    BY <2>3, Zenon DEF F, Step
<1>4. Eq(w)
  BY <1>3, Zenon
<1>5. Resolve(ch, ty, p) = w[Len(p)]
  BY Zenon DEF Resolve
<1> HIDE DEF w
<1>6. w = [i \in 0 .. Len(p) |-> F(w, i)]
  BY <1>4, Zenon DEF Step
<1> HIDE DEF F
<1>7. DOMAIN w = 0 .. Len(p) /\ \A i \in 0 .. Len(p) : w[i] = F(w, i)
  <2>1. PICK g : g = [i \in 0 .. Len(p) |-> F(w, i)]
    OBVIOUS
  <2>2. DOMAIN g = 0 .. Len(p) /\ \A i \in 0 .. Len(p) : g[i] = F(w, i)
    BY <2>1
  <2> QED
    BY <1>6, <2>1, <2>2, Zenon
<1>8. w = [i \in 0 .. Len(p) |-> w[i]]
  BY <1>6, <1>7
<1>9. Walks(w, ch, ty, p)
  BY <1>1, <1>7, <1>8 DEF Walks, F
<1> QED
  BY <1>5, <1>9, Zenon

\* _resolve of the root, and of a path from its directory.
LEMMA ResolveStep ==
    ASSUME NEW ch, NEW ty
    PROVE  /\ Resolve(ch, ty, <<>>) = Root
           /\ \A p \in NonRoot : Resolve(ch, ty, p) = Step(ch, ty, Resolve(ch, ty, Up(p)), End(p))
<1>1. Resolve(ch, ty, <<>>) = Root
  <2>1. <<>> \in Seq(Name) /\ Len(<<>>) = 0
    BY EmptySeq
  <2>2. PICK w : Walks(w, ch, ty, <<>>) /\ Resolve(ch, ty, <<>>) = w[Len(<<>>)]
    BY <2>1, ResolveIs
  <2> QED
    BY <2>1, <2>2 DEF Walks
<1>2. ASSUME NEW p \in NonRoot
      PROVE  Resolve(ch, ty, p) = Step(ch, ty, Resolve(ch, ty, Up(p)), End(p))
  <2>1. PICK u \in Seq(Name) : /\ u = Up(p) /\ Len(u) = Len(p) - 1
                               /\ \A i \in 1 .. Len(p) - 1 : u[i] = p[i]
    BY UpFacts
  <2>2. p \in Seq(Name) /\ Len(p) \in Nat \ {0}
    BY UpFacts
  <2>3. PICK w : Walks(w, ch, ty, p) /\ Resolve(ch, ty, p) = w[Len(p)]
    BY <2>2, ResolveIs
  <2>4. PICK v : Walks(v, ch, ty, u) /\ Resolve(ch, ty, u) = v[Len(u)]
    BY ResolveIs
  <2> DEFINE G == {i \in 0 .. Len(u) : v[i] = w[i]}
  <2>5. 0 \in G
    BY <2>1, <2>2, <2>3, <2>4 DEF Walks
  <2>6. ASSUME NEW k \in 1 .. Len(u), k - 1 \in G
        PROVE  k \in G
    <3>1. k \in 1 .. Len(p) /\ k \in 0 .. Len(u) /\ u[k] = p[k] /\ v[k - 1] = w[k - 1]
      BY <2>1, <2>2, <2>6
    <3>2. v[k] = Step(ch, ty, v[k - 1], u[k]) /\ w[k] = Step(ch, ty, w[k - 1], p[k])
      BY <2>3, <2>4, <3>1 DEF Walks
    <3> QED
      BY <3>1, <3>2
  <2>7. Len(u) \in Nat /\ Len(u) \in 0 .. Len(u)
    BY <2>1, <2>2
  <2> HIDE DEF G
  <2>8. Len(u) \in G
    BY <2>5, <2>6, <2>7, Climbs
  <2>9. v[Len(u)] = w[Len(p) - 1]
    BY <2>1, <2>8 DEF G
  <2>10. w[Len(p)] = Step(ch, ty, w[Len(p) - 1], p[Len(p)])
    <3>1. PICK m \in 1 .. Len(p) : m = Len(p)
      BY <2>2
    <3>2. w[m] = Step(ch, ty, w[m - 1], p[m])
      BY <2>3, Zenon DEF Walks
    <3> QED
      BY <3>1, <3>2
  <2> QED
    BY <2>1, <2>3, <2>4, <2>9, <2>10 DEF End
<1> QED
  BY <1>1, <1>2

\* Where one step goes the same way in both, two trees resolve alike.
LEMMA ResolveAlike ==
    ASSUME NEW ch, NEW ty, NEW c, NEW t,
           \A p \in NonRoot : Step(c, t, Resolve(ch, ty, Up(p)), End(p)) = Step(ch, ty, Resolve(ch, ty, Up(p)), End(p))
    PROVE  \A p \in Seq(Name) : Resolve(c, t, p) = Resolve(ch, ty, p)
<1> DEFINE G == {p \in Seq(Name) : Resolve(c, t, p) = Resolve(ch, ty, p)}
<1>1. <<>> \in G
  BY ResolveStep, EmptySeq
<1>2. ASSUME NEW p \in NonRoot, Up(p) \in G
      PROVE  p \in G
  <2>1. /\ Resolve(ch, ty, p) = Step(ch, ty, Resolve(ch, ty, Up(p)), End(p))
        /\ Resolve(c, t, p) = Step(c, t, Resolve(c, t, Up(p)), End(p))
    BY ResolveStep
  <2>2. Resolve(c, t, Up(p)) = Resolve(ch, ty, Up(p)) /\ p \in Seq(Name)
    BY <1>2 DEF NonRoot
  <2>3. Resolve(c, t, p) = Resolve(ch, ty, p)
    BY <2>1, <2>2, Zenon
  <2> QED
    BY <2>2, <2>3
<1> HIDE DEF G
<1>3. \A p \in Seq(Name) : p \in G
  BY <1>1, <1>2, PathInduction
<1> QED
  BY <1>3 DEF G

-----------------------------------------------------------------------------
(* Trees.                                                                  *)

\* What some path leads to.
Live(ch, ty) == {Root} \cup {Resolve(ch, ty, p) : p \in Path}

Typed(ch, ty, par) ==
    /\ ty \in [AnyNode -> {"free", "dir", "file"}] /\ ty[Root] = "dir"
    /\ ch \in [AnyNode -> [Name -> Node \cup {None}]]
    /\ par \in [AnyNode -> AnyNode \cup {None}]

\* An entry is in a directory, which is the one the node names as its parent;
\* a directory has one entry; and the path to the entry is within the bound.
EntryOK(ch, ty, par, d, x) ==
    ch[d][x] # None =>
        /\ ty[d] = "dir" /\ par[ch[d][x]] = d /\ ty[ch[d][x]] # "free"
        /\ ty[ch[d][x]] = "dir" => \A y \in Name : ch[d][y] = ch[d][x] => y = x
        /\ \E p \in Path : End(p) = x /\ Resolve(ch, ty, Up(p)) = d

\* A tree, as far as paths lead.
Good(ch, ty, par) ==
    /\ Typed(ch, ty, par)
    /\ \A d \in Live(ch, ty) \cap AnyNode, x \in Name : EntryOK(ch, ty, par, d, x)

\* Nodes that no path leads to are free.
Clean(ch, ty) == \A n \in AnyNode \ Live(ch, ty) : ty[n] = "free" /\ ch[n] = NoEntries

\* A path leads nowhere or to a node that is in use, and only the root's own
\* path leads to the root.
LEMMA ResolveLive ==
    ASSUME NEW ch, NEW ty, NEW par, Good(ch, ty, par)
    PROVE  \A p \in Seq(Name) : Resolve(ch, ty, p) # None =>
              /\ Resolve(ch, ty, p) \in Live(ch, ty) \cap AnyNode
              /\ ty[Resolve(ch, ty, p)] # "free"
              /\ p # <<>> => Resolve(ch, ty, p) \in Node
<1> DEFINE Fine(p) == Resolve(ch, ty, p) # None =>
                         /\ Resolve(ch, ty, p) \in Live(ch, ty) \cap AnyNode
                         /\ ty[Resolve(ch, ty, p)] # "free"
                         /\ p # <<>> => Resolve(ch, ty, p) \in Node
           G == {p \in Seq(Name) : Fine(p)}
<1>1. <<>> \in G
  <2>1. Resolve(ch, ty, <<>>) = Root /\ Root \in Live(ch, ty) \cap AnyNode /\ ty[Root] = "dir"
    BY ResolveStep DEF Live, AnyNode, Good, Typed
  <2> QED
    BY <2>1, EmptySeq
<1>2. ASSUME NEW p \in NonRoot, Up(p) \in G
      PROVE  p \in G
  <2>1. /\ Resolve(ch, ty, p) = Step(ch, ty, Resolve(ch, ty, Up(p)), End(p))
        /\ p \in Seq(Name) /\ End(p) \in Name
    BY ResolveStep, UpFacts
  <2>2. SUFFICES ASSUME Resolve(ch, ty, p) # None
                 PROVE  /\ Resolve(ch, ty, p) \in Live(ch, ty) \cap AnyNode
                        /\ ty[Resolve(ch, ty, p)] # "free"
                        /\ Resolve(ch, ty, p) \in Node
    BY <2>1
  <2>3. PICK d : d = Resolve(ch, ty, Up(p)) /\ d # None /\ ty[d] = "dir" /\ Resolve(ch, ty, p) = ch[d][End(p)]
    BY <2>1, <2>2 DEF Step
  <2>4. d \in Live(ch, ty) \cap AnyNode
    BY <1>2, <2>3
  <2>5. EntryOK(ch, ty, par, d, End(p))
    BY <2>1, <2>4 DEF Good
  <2>6. Resolve(ch, ty, p) \in Node
    BY <2>1, <2>2, <2>3, <2>4 DEF Good, Typed
  <2>7. PICK q \in Path : End(q) = End(p) /\ Resolve(ch, ty, Up(q)) = d
    BY <2>2, <2>3, <2>5 DEF EntryOK
  <2>8. Resolve(ch, ty, q) = Resolve(ch, ty, p)
    <3>1. q \in NonRoot
      BY Paths
    <3>2. Resolve(ch, ty, q) = Step(ch, ty, Resolve(ch, ty, Up(q)), End(q))
      BY <3>1, ResolveStep
    <3> QED
      BY <2>1, <2>3, <2>7, <3>2, Zenon
  <2>9. Resolve(ch, ty, p) \in Live(ch, ty)
    BY <2>8 DEF Live
  <2>10. ty[Resolve(ch, ty, p)] # "free"
    BY <2>2, <2>3, <2>5 DEF EntryOK
  <2> QED
    BY <2>6, <2>9, <2>10 DEF AnyNode
<1> HIDE DEF G
<1>3. \A p \in Seq(Name) : p \in G
  BY <1>1, <1>2, PathInduction
<1> QED
  BY <1>3 DEF G

\* A path that leads to a node leads through a directory that has it, and the
\* node's parent field says so.
LEMMA ResolveEntry ==
    ASSUME NEW ch, NEW ty, NEW par, Good(ch, ty, par), NEW p \in NonRoot, Resolve(ch, ty, p) # None
    PROVE  \E d \in Live(ch, ty) \cap AnyNode :
              /\ d = Resolve(ch, ty, Up(p)) /\ d # None /\ ty[d] = "dir" /\ Resolve(ch, ty, p) = ch[d][End(p)]
              /\ EntryOK(ch, ty, par, d, End(p)) /\ par[Resolve(ch, ty, p)] = d
<1>1. /\ Resolve(ch, ty, p) = Step(ch, ty, Resolve(ch, ty, Up(p)), End(p))
      /\ Up(p) \in Seq(Name) /\ End(p) \in Name
  BY ResolveStep, UpFacts
<1>2. PICK d : d = Resolve(ch, ty, Up(p)) /\ d # None /\ ty[d] = "dir" /\ Resolve(ch, ty, p) = ch[d][End(p)]
  BY <1>1 DEF Step
<1>3. d \in Live(ch, ty) \cap AnyNode
  BY <1>1, <1>2, ResolveLive
<1>4. EntryOK(ch, ty, par, d, End(p))
  BY <1>1, <1>3 DEF Good
<1>5. par[Resolve(ch, ty, p)] = d
  BY <1>2, <1>4 DEF EntryOK
<1> QED
  BY <1>2, <1>3, <1>4, <1>5

\* One path leads to a directory.
LEMMA OnePath ==
    ASSUME NEW ch, NEW ty, NEW par, Good(ch, ty, par)
    PROVE  \A p \in Seq(Name), q \in Seq(Name) :
              Resolve(ch, ty, p) # None /\ ty[Resolve(ch, ty, p)] = "dir" /\ Resolve(ch, ty, p) = Resolve(ch, ty, q) => p = q
<1> DEFINE One(p) == \A q \in Seq(Name) :
                        Resolve(ch, ty, p) # None /\ ty[Resolve(ch, ty, p)] = "dir" /\ Resolve(ch, ty, p) = Resolve(ch, ty, q)
                           => p = q
           G == {p \in Seq(Name) : One(p)}
<1>0. None \notin AnyNode /\ Root \notin Node /\ Root \in AnyNode
  BY NodeAssumption DEF AnyNode
<1>1. <<>> \in G
  <2>1. ASSUME NEW q \in Seq(Name), Resolve(ch, ty, q) = Root
        PROVE  q = <<>>
    BY <1>0, <2>1, ResolveLive
  <2>2. Resolve(ch, ty, <<>>) = Root /\ <<>> \in Seq(Name)
    BY ResolveStep, EmptySeq
  <2> QED
    BY <2>1, <2>2
<1>2. ASSUME NEW p \in NonRoot, Up(p) \in G
      PROVE  p \in G
  <2>1. p \in Seq(Name) /\ p # <<>> /\ Up(p) \in Seq(Name)
    BY UpFacts DEF NonRoot
  <2>2. ASSUME NEW q \in Seq(Name), Resolve(ch, ty, p) # None, ty[Resolve(ch, ty, p)] = "dir",
               Resolve(ch, ty, p) = Resolve(ch, ty, q)
        PROVE  p = q
    <3>1. q \in NonRoot
      <4>1. Resolve(ch, ty, p) \in Node
        BY <2>1, <2>2, ResolveLive
      <4>2. q # <<>>
        BY <1>0, <2>2, <4>1, ResolveStep
      <4> QED
        BY <4>2 DEF NonRoot
    <3>2. PICK c : c = Resolve(ch, ty, p) /\ c # None /\ ty[c] = "dir"
      BY <2>2
    <3>3. PICK d : /\ d = Resolve(ch, ty, Up(p)) /\ d # None /\ ty[d] = "dir" /\ c = ch[d][End(p)]
                   /\ EntryOK(ch, ty, par, d, End(p)) /\ par[c] = d
      BY <3>2, ResolveEntry
    <3>4. PICK e : e = Resolve(ch, ty, Up(q)) /\ c = ch[e][End(q)] /\ par[c] = e
      BY <2>2, <3>1, <3>2, ResolveEntry
    <3>5. d = e /\ End(q) = End(p)
      BY <3>1, <3>2, <3>3, <3>4, UpFacts DEF EntryOK
    <3>6. Up(q) \in Seq(Name)
      BY <3>1, UpFacts
    <3>7. Up(p) = Up(q)
      BY <1>2, <3>3, <3>4, <3>5, <3>6
    <3> QED
      BY <3>1, <3>5, <3>7, UpAndEnd
  <2> QED
    BY <2>1, <2>2
<1> HIDE DEF G
<1>3. \A p \in Seq(Name) : p \in G
  BY <1>1, <1>2, PathInduction
<1> QED
  BY <1>3 DEF G

\* A path that leads to a node is within the bound.
LEMMA FoundInBound ==
    ASSUME NEW ch, NEW ty, NEW par, Good(ch, ty, par), NEW p \in NonRoot, Resolve(ch, ty, p) # None
    PROVE  p \in Path
<1>1. PICK d : /\ d = Resolve(ch, ty, Up(p)) /\ d # None /\ ty[d] = "dir" /\ Resolve(ch, ty, p) = ch[d][End(p)]
               /\ EntryOK(ch, ty, par, d, End(p))
  BY ResolveEntry
<1>2. PICK q \in Path : End(q) = End(p) /\ Resolve(ch, ty, Up(q)) = d
  BY <1>1 DEF EntryOK
<1>3. q \in NonRoot /\ Up(q) \in Seq(Name) /\ Up(p) \in Seq(Name)
  BY Paths, UpFacts
<1>4. Up(q) = Up(p)
  BY <1>1, <1>2, <1>3, OnePath
<1> QED
  BY <1>2, <1>3, <1>4, UpAndEnd

\* The entries of all nodes, where what is not in use is free.
LEMMA AllEntries ==
    ASSUME NEW ch, NEW ty, NEW par, Good(ch, ty, par), Clean(ch, ty), NEW d \in AnyNode, NEW x \in Name
    PROVE  EntryOK(ch, ty, par, d, x)
BY DEF Good, Clean, EntryOK, NoEntries

\* What is not in use is reset: paths lead where they did.
LEMMA PrunedTree ==
    ASSUME NEW ch, NEW ty, NEW par, Good(ch, ty, par), NEW live, live = Live(ch, ty),
           NEW c, c = [n \in AnyNode |-> IF n \in live THEN ch[n] ELSE NoEntries],
           NEW t, t = [n \in AnyNode |-> IF n \in live THEN ty[n] ELSE "free"],
           NEW r, r = [n \in AnyNode |-> IF n \in live THEN par[n] ELSE None]
    PROVE  /\ Good(c, t, r) /\ Clean(c, t)
           /\ \A p \in Seq(Name) : Resolve(c, t, p) = Resolve(ch, ty, p)
<1>1. Typed(ch, ty, par) /\ Root \in live /\ Root \in AnyNode
  BY DEF Good, Live, AnyNode
<1>2. /\ \A n \in AnyNode : n \in live => c[n] = ch[n] /\ t[n] = ty[n] /\ r[n] = par[n]
      /\ \A n \in AnyNode : n \notin live => c[n] = NoEntries /\ t[n] = "free" /\ r[n] = None
  OBVIOUS
<1>3. Typed(c, t, r)
  <2>1. NoEntries \in [Name -> Node \cup {None}]
    BY DEF NoEntries
  <2>2. c \in [AnyNode -> [Name -> Node \cup {None}]]
    BY <1>1, <2>1 DEF Typed
  <2>3. t \in [AnyNode -> {"free", "dir", "file"}] /\ r \in [AnyNode -> AnyNode \cup {None}]
    BY <1>1 DEF Typed
  <2> QED
    BY <1>1, <1>2, <2>2, <2>3 DEF Typed
<1>4. \A p \in Seq(Name) : Resolve(c, t, p) = Resolve(ch, ty, p)
  <2>1. ASSUME NEW p \in NonRoot
        PROVE  Step(c, t, Resolve(ch, ty, Up(p)), End(p)) = Step(ch, ty, Resolve(ch, ty, Up(p)), End(p))
    <3>1. PICK d : d = Resolve(ch, ty, Up(p)) /\ (d # None => d \in live /\ d \in AnyNode)
      BY ResolveLive, UpFacts
    <3>2. Step(c, t, d, End(p)) = Step(ch, ty, d, End(p))
      BY <1>2, <3>1 DEF Step
    <3> QED
      BY <3>1, <3>2
  <2> QED
    BY <2>1, ResolveAlike
<1>5. Live(c, t) = live
  <2>1. \A p \in Path : Resolve(c, t, p) = Resolve(ch, ty, p)
    BY <1>4, Paths DEF NonRoot
  <2> QED
    BY <2>1 DEF Live
<1>6. ASSUME NEW d \in live \cap AnyNode, NEW x \in Name
      PROVE  EntryOK(c, t, r, d, x)
  <2>1. EntryOK(ch, ty, par, d, x) /\ c[d] = ch[d] /\ t[d] = ty[d]
    BY <1>2 DEF Good
  <2>2. SUFFICES ASSUME ch[d][x] # None
                 PROVE  EntryOK(c, t, r, d, x)
    BY <2>1 DEF EntryOK
  <2>3. PICK p \in Path : End(p) = x /\ Resolve(ch, ty, Up(p)) = d
    BY <2>1, <2>2 DEF EntryOK
  <2>4. p \in NonRoot /\ Up(p) \in Seq(Name)
    BY Paths, UpFacts
  <2>5. Resolve(c, t, Up(p)) = d
    BY <1>4, <2>3, <2>4
  <2>6. ch[d][x] \in live /\ ch[d][x] \in AnyNode
    <3>1. Resolve(ch, ty, p) = Step(ch, ty, d, x)
      BY <2>3, <2>4, ResolveStep
    <3>2. Resolve(ch, ty, p) = ch[d][x]
      BY <2>1, <2>2, <3>1, NodeAssumption DEF EntryOK, Step
    <3> QED
      BY <2>2, <3>2 , <1>1 DEF Live, Typed, AnyNode
  <2>7. t[ch[d][x]] = ty[ch[d][x]] /\ r[ch[d][x]] = par[ch[d][x]]
    BY <1>2, <2>6
  <2> QED
    BY <2>1, <2>2, <2>3, <2>5, <2>7 DEF EntryOK
<1>7. Good(c, t, r)
  BY <1>3, <1>5, <1>6 DEF Good
<1>8. Clean(c, t)
  BY <1>2, <1>5 DEF Clean
<1> QED
  BY <1>4, <1>7, <1>8

\* The tree is good and nothing is left over.
IInv == Good(children, type, parent) /\ Clean(children, type)

\* The new tree of an operation.
LEMMA BecomesKeeps ==
    ASSUME NEW ch, NEW ty, NEW par, Good(ch, ty, par), Becomes(ch, ty, par)
    PROVE  /\ IInv'
           /\ \A p \in Seq(Name) : Resolve(children', type', p) = Resolve(ch, ty, p)
           /\ \A n \in Live(ch, ty) \cap AnyNode : type'[n] = ty[n]
<1>1. PICK live : live = Live(ch, ty)
  OBVIOUS
<1>2. /\ children' = [n \in AnyNode |-> IF n \in live THEN ch[n] ELSE NoEntries]
      /\ type' = [n \in AnyNode |-> IF n \in live THEN ty[n] ELSE "free"]
      /\ parent' = [n \in AnyNode |-> IF n \in live THEN par[n] ELSE None]
  BY <1>1 DEF Becomes, Live
<1>3. /\ Good(children', type', parent') /\ Clean(children', type')
      /\ \A p \in Seq(Name) : Resolve(children', type', p) = Resolve(ch, ty, p)
  BY <1>1, <1>2, PrunedTree
<1>4. \A n \in Live(ch, ty) \cap AnyNode : type'[n] = ty[n]
  BY <1>1, <1>2
<1>5. IInv'
  BY <1>3 DEF IInv, Good, Clean, Typed, EntryOK, Live, Resolve
<1> QED
  BY <1>3, <1>4, <1>5

\* What the invariant says of the state.
LEMMA IInvFacts ==
    ASSUME IInv
    PROVE  /\ Good(children, type, parent) /\ Clean(children, type) /\ Typed(children, type, parent)
           /\ \A p : Lookup(p) = Resolve(children, type, p)
           /\ None \notin AnyNode /\ Root \notin Node /\ Root \in AnyNode /\ Node \subseteq AnyNode
BY NodeAssumption DEF IInv, Good, Lookup, AnyNode

\* The nodes form a tree.
LEMMA TreeFromIInv ==
    ASSUME IInv
    PROVE  NodesFormATree
<1>1. ASSUME NEW d \in AnyNode, NEW x \in Name, children[d][x] # None
      PROVE  parent[children[d][x]] = d
  BY <1>1, IInvFacts, AllEntries DEF EntryOK
<1>2. ASSUME NEW p \in Path, NEW q \in Path, IsDir(Lookup(p)), Lookup(p) = Lookup(q)
      PROVE  p = q
  <2>1. p \in Seq(Name) /\ q \in Seq(Name)
    BY Paths DEF NonRoot
  <2> QED
    BY <1>2, <2>1, IInvFacts, OnePath DEF IsDir, IsNode
<1> QED
  BY <1>1, <1>2 DEF NodesFormATree

LEMMA InitIInv ==
    ASSUME Init
    PROVE  IInv
<1>1. /\ \A n \in AnyNode : children[n] = NoEntries
      /\ type[Root] = "dir" /\ \A n \in Node : type[n] = "free"
  BY NodeAssumption DEF Init, AnyNode
<1>2. Typed(children, type, parent)
  <2>1. NoEntries \in [Name -> Node \cup {None}]
    BY DEF NoEntries
  <2> QED
    BY <2>1 DEF Init, Typed, AnyNode
<1>3. \A d \in AnyNode, x \in Name : EntryOK(children, type, parent, d, x)
  BY <1>1 DEF EntryOK, NoEntries
<1>4. Clean(children, type)
  BY <1>1 DEF Clean, Live, AnyNode
<1> QED
  BY <1>2, <1>3, <1>4 DEF IInv, Good

-----------------------------------------------------------------------------
(* Operations on one entry.                                                *)

\* One entry is set.
LEMMA SetEntry ==
    ASSUME NEW ch \in [AnyNode -> [Name -> Node \cup {None}]], NEW d \in AnyNode, NEW x \in Name,
           NEW v \in Node \cup {None}, NEW c, c = [ch EXCEPT ![d][x] = v]
    PROVE  /\ c \in [AnyNode -> [Name -> Node \cup {None}]]
           /\ c[d][x] = v
           /\ \A e \in AnyNode, y \in Name : ~(e = d /\ y = x) => c[e][y] = ch[e][y]
OBVIOUS

\* The entry that a path names: its directory is the node's parent.
LEMMA EntryOf ==
    ASSUME IInv, NEW p \in NonRoot, Lookup(p) # None
    PROVE  /\ Lookup(p) \in Node /\ type[Lookup(p)] # "free" /\ p \in Path
           /\ Dirname(p) \in AnyNode /\ type[Dirname(p)] = "dir" /\ ParentOf(p) = Dirname(p)
           /\ children[Dirname(p)][End(p)] = Lookup(p) /\ End(p) \in Name
<1>1. /\ Good(children, type, parent) /\ Lookup(p) = Resolve(children, type, p)
      /\ Dirname(p) = Resolve(children, type, Up(p))
  BY IInvFacts DEF Dirname
<1>2. PICK d \in AnyNode : /\ d = Dirname(p) /\ type[d] = "dir" /\ Lookup(p) = children[d][End(p)]
                           /\ parent[Lookup(p)] = d
  BY <1>1, ResolveEntry
<1>3. Lookup(p) \in Node /\ type[Lookup(p)] # "free" /\ p \in Path
  BY <1>1, ResolveLive, FoundInBound DEF NonRoot
<1>4. ParentOf(p) = d
  BY <1>2 DEF ParentOf, IsNode
<1> QED
  BY <1>2, <1>3, <1>4, UpFacts

\* Lookup goes step by step.
LEMMA LookupStep ==
    ASSUME IInv, NEW r \in NonRoot
    PROVE  /\ Lookup(r) = Step(children, type, Lookup(Up(r)), End(r))
           /\ r \in Seq(Name) /\ Up(r) \in Seq(Name) /\ End(r) \in Name
           /\ Lookup(Up(r)) # None => Lookup(Up(r)) \in AnyNode /\ type[Lookup(Up(r))] # "free"
<1>1. Good(children, type, parent) /\ \A p : Lookup(p) = Resolve(children, type, p)
  BY IInvFacts
<1>2. r \in Seq(Name) /\ Up(r) \in Seq(Name) /\ End(r) \in Name
  BY UpFacts
<1>3. Lookup(r) = Step(children, type, Lookup(Up(r)), End(r))
  BY <1>1, ResolveStep
<1>4. Lookup(Up(r)) # None => Lookup(Up(r)) \in AnyNode /\ type[Lookup(Up(r))] # "free"
  BY <1>1, <1>2, ResolveLive
<1> QED
  BY <1>2, <1>3, <1>4

\* Directories have one path.
LEMMA LookupOne ==
    ASSUME IInv, NEW p \in Seq(Name), NEW q \in Seq(Name),
           Lookup(p) # None, type[Lookup(p)] = "dir", Lookup(p) = Lookup(q)
    PROVE  p = q
BY IInvFacts, OnePath

\* An entry is taken out of its directory: its path leads nowhere, others where
\* they did.
LEMMA TakenTree ==
    ASSUME IInv, NEW p \in NonRoot, Lookup(p) # None, \A x \in Name : children[Lookup(p)][x] = None,
           NEW c, c = [children EXCEPT ![ParentOf(p)][p[Len(p)]] = None]
    PROVE  /\ Good(c, type, parent)
           /\ \A r \in Seq(Name) : Resolve(c, type, r) = IF r = p THEN None ELSE Lookup(r)
<1>1. /\ Good(children, type, parent) /\ Clean(children, type) /\ Typed(children, type, parent)
      /\ \A q : Lookup(q) = Resolve(children, type, q)
      /\ None \notin AnyNode /\ Node \subseteq AnyNode
  BY IInvFacts
<1>2. PICK d, x : /\ d = Lookup(Up(p)) /\ x = End(p) /\ d \in AnyNode /\ x \in Name /\ type[d] = "dir"
                  /\ ParentOf(p) = d /\ children[d][x] = Lookup(p)
  BY EntryOf DEF Dirname
<1>3. /\ c \in [AnyNode -> [Name -> Node \cup {None}]] /\ c[d][x] = None
      /\ \A e \in AnyNode, y \in Name : ~(e = d /\ y = x) => c[e][y] = children[e][y]
  <2>1. c = [children EXCEPT ![d][x] = None]
    BY <1>2 DEF End
  <2> QED
    BY <1>1, <1>2, <2>1, SetEntry DEF Typed
<1>4. \A r \in Seq(Name) : Resolve(c, type, r) = IF r = p THEN None ELSE Lookup(r)
  <2> DEFINE F(r) == IF r = p THEN None ELSE Lookup(r)
             G == {r \in Seq(Name) : Resolve(c, type, r) = F(r)}
  <2>1. <<>> \in G
    BY <1>1, ResolveStep, EmptySeq DEF NonRoot
  <2>2. ASSUME NEW r \in NonRoot, Up(r) \in G
        PROVE  r \in G
    <3>1. /\ Lookup(r) = Step(children, type, Lookup(Up(r)), End(r))
          /\ r \in Seq(Name) /\ Up(r) \in Seq(Name) /\ End(r) \in Name
          /\ Lookup(Up(r)) # None => Lookup(Up(r)) \in AnyNode
      BY LookupStep
    <3>2. Resolve(c, type, r) = Step(c, type, F(Up(r)), End(r))
      BY <2>2, ResolveStep
    <3>3. CASE Up(r) = p
      <4>1. Resolve(c, type, r) = None
        BY <3>2, <3>3 DEF Step
      <4>2. Lookup(r) = None
        BY <3>1, <3>3 DEF Step
      <4> QED
        BY <3>1, <4>1, <4>2
    <3>4. CASE Up(r) # p /\ r = p
      <4>1. Resolve(c, type, r) = Step(c, type, d, x)
        BY <1>2, <3>2, <3>4
      <4>2. Step(c, type, d, x) = None
        BY <1>1, <1>2, <1>3 DEF Step
      <4> QED
        BY <3>1, <3>4, <4>1, <4>2
    <3>5. CASE Up(r) # p /\ r # p
      <4>1. PICK e : e = Lookup(Up(r)) /\ (e # None => e \in AnyNode)
        BY <3>1
      <4>2. ASSUME e # None, type[e] = "dir", e = d, End(r) = x
            PROVE  FALSE
        <5>1. Up(r) = Up(p)
          BY <1>2, <3>1, <4>1, <4>2, LookupOne, UpFacts, ZenonT(60)
        <5> QED
          BY <1>2, <3>5, <4>2, <5>1, UpAndEnd
      <4>3. Step(c, type, e, End(r)) = Step(children, type, e, End(r))
        BY <1>3, <3>1, <4>1, <4>2 DEF Step
      <4> QED
        BY <3>1, <3>2, <3>5, <4>1, <4>3
    <3> QED
      BY <3>3, <3>4, <3>5
  <2> HIDE DEF G
  <2>3. \A r \in Seq(Name) : r \in G
    BY <2>1, <2>2, PathInduction
  <2> QED
    BY <2>3 DEF G
<1>5. ASSUME NEW e \in AnyNode, NEW z \in Name
      PROVE  EntryOK(c, type, parent, e, z)
  <2>1. SUFFICES ASSUME c[e][z] # None
                 PROVE  EntryOK(c, type, parent, e, z)
    BY DEF EntryOK
  <2>2. ~(e = d /\ z = x) /\ c[e][z] = children[e][z]
    BY <1>3, <2>1
  <2>3. EntryOK(children, type, parent, e, z)
    BY <1>1, AllEntries
  <2>4. \A y \in Name : c[e][y] = c[e][z] => children[e][y] = children[e][z]
    BY <1>3, <2>1, <2>2
  <2>5. PICK q \in Path : End(q) = z /\ Resolve(children, type, Up(q)) = e
    BY <2>1, <2>2, <2>3 DEF EntryOK
  <2>6. Resolve(c, type, Up(q)) = e
    <3>1. Up(q) \in Seq(Name)
      BY Paths, UpFacts
    <3>2. Up(q) # p
      BY <1>1, <2>1, <2>2, <2>5
    <3> QED
      BY <1>1, <1>4, <2>5, <3>1, <3>2
  <2> QED
    BY <2>1, <2>2, <2>3, <2>4, <2>5, <2>6 DEF EntryOK
<1>6. Typed(c, type, parent)
  BY <1>1, <1>3 DEF Typed
<1> QED
  BY <1>4, <1>5, <1>6 DEF Good

\* The node v is put at the free path q: a file that has its entries in that
\* directory already, or a new node.
Placed(q, v, c, t, r) ==
    /\ Lookup(q) = None /\ IsDir(Dirname(q)) /\ v \in Node
    /\ c = [children EXCEPT ![Dirname(q)][q[Len(q)]] = v]
    /\ \/ t = type /\ r = parent /\ type[v] = "file" /\ parent[v] = Dirname(q)
       \/ /\ type[v] = "free" /\ r = [parent EXCEPT ![v] = Dirname(q)]
          /\ \E k \in {"dir", "file"} : t = [type EXCEPT ![v] = k]

\* No other path leads elsewhere then.
LEMMA PlacedTree ==
    ASSUME IInv, NEW q \in Path, NEW v, NEW c, NEW t, NEW r, Placed(q, v, c, t, r)
    PROVE  /\ Good(c, t, r)
           /\ \A s \in Seq(Name) : Resolve(c, t, s) = IF s = q THEN v ELSE Lookup(s)
<1> USE DEF Placed
<1>1. /\ Good(children, type, parent) /\ Clean(children, type) /\ Typed(children, type, parent)
      /\ \A p : Lookup(p) = Resolve(children, type, p)
      /\ None \notin AnyNode /\ Node \subseteq AnyNode /\ q \in NonRoot
  BY IInvFacts, Paths
<1>2. PICK d, x : d = Lookup(Up(q)) /\ d = Dirname(q) /\ x = End(q) /\ d # None /\ type[d] = "dir"
  BY DEF Dirname, IsDir, IsNode
<1>3. d \in AnyNode /\ x \in Name /\ Up(q) \in Seq(Name) /\ q # <<>> /\ children[d][x] = None
  <2>1. d \in AnyNode /\ x \in Name /\ Up(q) \in Seq(Name) /\ Lookup(q) = Step(children, type, d, x)
    BY <1>1, <1>2, LookupStep
  <2> QED
    BY <1>1, <1>2, <2>1 DEF Step, NonRoot
<1>4. /\ c \in [AnyNode -> [Name -> Node \cup {None}]] /\ c[d][x] = v
      /\ \A e \in AnyNode, y \in Name : ~(e = d /\ y = x) => c[e][y] = children[e][y]
  <2>1. c = [children EXCEPT ![d][x] = v]
    BY <1>2 DEF End
  <2> QED
    BY <1>1, <1>3, <2>1, SetEntry DEF Typed
<1>5. /\ Typed(c, t, r) /\ r[v] = d /\ t[v] # "free" /\ v \in AnyNode /\ v # None
      /\ \A e \in AnyNode : e # v => t[e] = type[e] /\ r[e] = parent[e]
      /\ type[v] # "free" => t = type /\ r = parent /\ type[v] = "file"
  <2>1. v \in AnyNode /\ v # None /\ (type[v] = "free" => v # Root)
    BY <1>1 DEF Typed
  <2>2. CASE t = type /\ r = parent /\ type[v] = "file" /\ parent[v] = Dirname(q)
    BY <1>1, <1>2, <1>4, <2>1, <2>2 DEF Typed
  <2>3. ASSUME NEW k \in {"dir", "file"}, type[v] = "free", r = [parent EXCEPT ![v] = d], t = [type EXCEPT ![v] = k]
        PROVE  /\ Typed(c, t, r) /\ r[v] = d /\ t[v] # "free"
               /\ \A e \in AnyNode : e # v => t[e] = type[e] /\ r[e] = parent[e]
    BY <1>1, <1>3, <1>4, <2>1, <2>3 DEF Typed
  <2> QED
    BY <1>2, <2>1, <2>2, <2>3
<1>6. \A y \in Name : children[v][y] = None
  BY <1>1, <1>5, AllEntries DEF EntryOK
<1>7. ASSUME NEW e \in AnyNode, NEW y \in Name, children[e][y] = v
      PROVE  e = d /\ t = type /\ type[v] = "file"
  BY <1>1, <1>2, <1>5, <1>7, AllEntries DEF EntryOK
<1>8. \A s \in Seq(Name) : Resolve(c, t, s) = IF s = q THEN v ELSE Lookup(s)
  <2> DEFINE F(s) == IF s = q THEN v ELSE Lookup(s)
             G == {s \in Seq(Name) : Resolve(c, t, s) = F(s)}
  <2>1. <<>> \in G
    BY <1>1, <1>3, ResolveStep, EmptySeq
  <2>2. ASSUME NEW s \in NonRoot, Up(s) \in G
        PROVE  s \in G
    <3>1. /\ Lookup(s) = Step(children, type, Lookup(Up(s)), End(s))
          /\ s \in Seq(Name) /\ Up(s) \in Seq(Name) /\ End(s) \in Name
          /\ Lookup(Up(s)) # None => Lookup(Up(s)) \in AnyNode /\ type[Lookup(Up(s))] # "free"
      BY LookupStep
    <3>2. Resolve(c, t, s) = Step(c, t, F(Up(s)), End(s))
      <4>1. Resolve(c, t, s) = Step(c, t, Resolve(c, t, Up(s)), End(s))
        BY ResolveStep
      <4>2. Resolve(c, t, Up(s)) = F(Up(s))
        BY <2>2
      <4> QED
        BY <4>1, <4>2, Zenon
    <3>3. CASE Up(s) = q
      <4>1. Len(Up(s)) = Len(s) - 1 /\ Len(s) \in Nat /\ s # q
        BY <3>3, UpFacts
      <4>2. Lookup(s) = None
        BY <3>1, <3>3 DEF Step
      <4>3. Step(c, t, v, End(s)) = None
        <5>1. t[v] = "dir" => type[v] = "free"
          BY <1>5
        <5>2. CASE v = d
          BY <1>2, <1>5, <5>1, <5>2 DEF Step
        <5>3. CASE v # d
          BY <1>4, <1>5, <1>6, <3>1, <5>3 DEF Step
        <5> QED
          BY <5>2, <5>3
      <4> QED
        BY <3>1, <3>2, <3>3, <4>1, <4>2, <4>3
    <3>4. CASE Up(s) # q /\ s = q
      <4>1. t[d] = "dir"
        BY <1>2, <1>3, <1>5
      <4>2. Step(c, t, d, x) = v
        BY <1>2, <1>4, <4>1 DEF Step
      <4> QED
        BY <1>2, <3>1, <3>2, <3>4, <4>2
    <3>5. CASE Up(s) # q /\ s # q
      <4>1. PICK e : e = Lookup(Up(s)) /\ (e # None => e \in AnyNode /\ type[e] # "free")
        BY <3>1
      <4>2. ASSUME e # None, type[e] = "dir", e = d, End(s) = x
            PROVE  FALSE
        <5>1. Up(s) = Up(q)
          BY <1>2, <1>3, <3>1, <4>1, <4>2, LookupOne
        <5> QED
          BY <1>1, <1>2, <3>5, <4>2, <5>1, UpAndEnd
      <4>3. e # None => t[e] = type[e]
        BY <1>5, <4>1
      <4>4. Step(c, t, e, End(s)) = Step(children, type, e, End(s))
        BY <1>4, <3>1, <4>1, <4>2, <4>3 DEF Step
      <4> QED
        BY <3>1, <3>2, <3>5, <4>1, <4>4
    <3> QED
      BY <3>3, <3>4, <3>5
  <2> HIDE DEF G
  <2>3. \A s \in Seq(Name) : s \in G
    BY <2>1, <2>2, PathInduction
  <2> QED
    BY <2>3 DEF G
<1>9. ASSUME NEW e \in AnyNode, NEW z \in Name
      PROVE  EntryOK(c, t, r, e, z)
  <2>1. SUFFICES ASSUME c[e][z] # None
                 PROVE  EntryOK(c, t, r, e, z)
    BY DEF EntryOK
  <2>2. CASE e = d /\ z = x
    <3>1. t[d] = "dir" /\ r[v] = d /\ t[v] # "free"
      BY <1>2, <1>3, <1>5
    <3>2. ASSUME t[v] = "dir", NEW y \in Name, c[d][y] = v
          PROVE  y = x
      BY <1>3, <1>4, <1>5, <1>7, <3>2
    <3>3. Resolve(c, t, Up(q)) = d
      <4>1. Up(q) # q
        BY <1>1, UpFacts
      <4> QED
        BY <1>2, <1>3, <1>8, <4>1
    <3> QED
      BY <1>2, <1>4, <2>2, <3>1, <3>2, <3>3 DEF EntryOK
  <2>3. CASE ~(e = d /\ z = x)
    <3>1. c[e][z] = children[e][z] /\ EntryOK(children, type, parent, e, z)
      BY <1>1, <1>4, <2>3, AllEntries
    <3>2. PICK a : a = children[e][z] /\ a # None /\ a \in AnyNode
      BY <1>1, <2>1, <3>1 DEF Typed
    <3>3. t[a] = type[a] /\ r[a] = parent[a]
      BY <1>5, <1>7, <3>2
    <3>4. e # v
      BY <1>6, <3>2
    <3>5. t[e] = type[e]
      BY <1>5, <3>4
    <3>6. ASSUME type[a] = "dir", NEW y \in Name, c[e][y] = a
          PROVE  children[e][y] = a
      <4>1. CASE e = d /\ y = x
        BY <1>4, <1>7, <3>2, <3>6, <4>1
      <4>2. CASE ~(e = d /\ y = x)
        BY <1>4, <3>6, <4>2
      <4> QED
        BY <4>1, <4>2
    <3>7. PICK p \in Path : End(p) = z /\ Resolve(children, type, Up(p)) = e
      BY <3>1, <3>2 DEF EntryOK
    <3>8. Resolve(c, t, Up(p)) = e
      <4>1. Up(p) \in Seq(Name)
        BY Paths, UpFacts
      <4>2. Up(p) # q
        BY <1>1, <3>7
      <4> QED
        BY <1>1, <1>8, <3>7, <4>1, <4>2
    <3> QED
      BY <3>1, <3>2, <3>3, <3>5, <3>6, <3>7, <3>8 DEF EntryOK
  <2> QED
    BY <2>2, <2>3
<1> QED
  BY <1>5, <1>8, <1>9 DEF Good

-----------------------------------------------------------------------------
(* The way to a path, and what is below it.                                *)

\* The first i names of p.
Pre(p, i) == SubSeq(p, 1, i)

LEMMA PreFacts ==
    ASSUME NEW p \in NonRoot
    PROVE  /\ Pre(p, 0) = <<>> /\ Pre(p, Len(p)) = p
           /\ \A i \in 1 .. Len(p) : /\ Pre(p, i) \in NonRoot /\ Len(Pre(p, i)) = i
                                     /\ End(Pre(p, i)) = p[i] /\ Up(Pre(p, i)) = Pre(p, i - 1)
           /\ \A i \in 0 .. Len(p) : Pre(p, i) \in Seq(Name) /\ Len(Pre(p, i)) = i
<1>1. p \in Seq(Name) /\ Len(p) \in Nat \ {0}
  BY UpFacts
<1>2. ASSUME NEW i \in 0 .. Len(p)
      PROVE  /\ Pre(p, i) \in Seq(Name) /\ Len(Pre(p, i)) = i
             /\ \A j \in 1 .. i : Pre(p, i)[j] = p[j]
  <2>1. i \in Nat /\ \A j \in 1 .. i : p[j] \in Name
    BY <1>1, ElementOfSeq
  <2>2. /\ SubSeq(p, 1, i) \in Seq(Name) /\ Len(SubSeq(p, 1, i)) = IF 1 <= i THEN i - 1 + 1 ELSE 0
        /\ \A j \in 1 .. i - 1 + 1 : SubSeq(p, 1, i)[j] = p[1 + j - 1]
    BY <1>1, <2>1, SubSeqProperties
  <2>3. PICK u \in Seq(Name) : /\ u = Pre(p, i) /\ Len(u) = IF 1 <= i THEN i - 1 + 1 ELSE 0
                               /\ \A j \in 1 .. i - 1 + 1 : u[j] = p[1 + j - 1]
    BY <2>2, Zenon DEF Pre
  <2>4. Len(u) = i
    BY <2>1, <2>3
  <2>5. ASSUME NEW j \in 1 .. i
        PROVE  u[j] = p[j]
    <3>1. j \in 1 .. i - 1 + 1 /\ 1 + j - 1 = j
      BY <2>1
    <3> QED
      BY <2>3, <3>1
  <2> QED
    BY <2>3, <2>4, <2>5
<1>3. Pre(p, 0) = <<>>
  <2>1. 0 \in 0 .. Len(p)
    BY <1>1
  <2> QED
    BY <1>2, <2>1, EmptySeq
<1>4. Pre(p, Len(p)) = p
  <2>1. Len(p) \in 0 .. Len(p)
    BY <1>1
  <2> QED
    BY <1>1, <1>2, <2>1, SeqEqual
<1>5. ASSUME NEW i \in 1 .. Len(p)
      PROVE  /\ Pre(p, i) \in NonRoot /\ Len(Pre(p, i)) = i
             /\ End(Pre(p, i)) = p[i] /\ Up(Pre(p, i)) = Pre(p, i - 1)
  <2>1. PICK u : u = Pre(p, i) /\ u \in Seq(Name) /\ Len(u) = i /\ \A j \in 1 .. i : u[j] = p[j]
    BY <1>1, <1>2
  <2>2. PICK v : v = Pre(p, i - 1) /\ v \in Seq(Name) /\ Len(v) = i - 1 /\ \A j \in 1 .. i - 1 : v[j] = p[j]
    <3>1. i - 1 \in 0 .. Len(p)
      BY <1>1
    <3> QED
      BY <1>2, <3>1
  <2>3. u \in NonRoot
    BY <1>1, <2>1, EmptySeq DEF NonRoot
  <2>4. Up(u) \in Seq(Name) /\ Len(Up(u)) = i - 1 /\ \A j \in 1 .. i - 1 : Up(u)[j] = u[j]
    BY <2>1, <2>3, UpFacts
  <2>5. \A j \in 1 .. i - 1 : Up(u)[j] = v[j]
    BY <1>1, <2>1, <2>2, <2>4
  <2>6. Up(u) = v
    BY <2>2, <2>4, <2>5, SeqEqual
  <2>7. End(u) = p[i]
    BY <1>1, <2>1 DEF End
  <2> QED
    BY <2>1, <2>2, <2>3, <2>6, <2>7
<1> QED
  BY <1>2, <1>3, <1>4, <1>5

\* A sequence is a prefix if it agrees as far as it goes.
LEMMA PrefixByElements ==
    ASSUME NEW s \in Seq(Name), NEW t \in Seq(Name)
    PROVE  IsPrefix(s, t) <=> Len(s) <= Len(t) /\ \A i \in 1 .. Len(s) : s[i] = t[i]
<1>1. Len(s) \in Nat /\ Len(t) \in Nat /\ SubSeq(s, 1, Len(s)) = s
  BY LenProperties, SubSeqFull
<1>2. CASE Len(s) <= Len(t)
  <2>1. \A i \in 1 .. Len(s) : t[i] \in Name
    BY <1>1, <1>2, ElementOfSeq
  <2>2. PICK u \in Seq(Name) : u = SubSeq(t, 1, Len(s)) /\ Len(u) = Len(s) /\ \A i \in 1 .. Len(s) : u[i] = t[i]
    <3>1. /\ SubSeq(t, 1, Len(s)) \in Seq(Name)
          /\ Len(SubSeq(t, 1, Len(s))) = IF 1 <= Len(s) THEN Len(s) - 1 + 1 ELSE 0
          /\ \A i \in 1 .. Len(s) - 1 + 1 : SubSeq(t, 1, Len(s))[i] = t[1 + i - 1]
      BY <1>1, <2>1, SubSeqProperties
    <3>2. PICK u \in Seq(Name) : /\ u = SubSeq(t, 1, Len(s))
                                 /\ Len(u) = IF 1 <= Len(s) THEN Len(s) - 1 + 1 ELSE 0
                                 /\ \A i \in 1 .. Len(s) - 1 + 1 : u[i] = t[1 + i - 1]
      BY <3>1, Zenon
    <3>3. Len(u) = Len(s)
      BY <1>1, <3>2
    <3>4. ASSUME NEW i \in 1 .. Len(s)
          PROVE  u[i] = t[i]
      <4>1. i \in 1 .. Len(s) - 1 + 1 /\ 1 + i - 1 = i
        BY <1>1
      <4> QED
        BY <3>2, <4>1
    <3> QED
      BY <3>2, <3>3, <3>4
  <2>3. IsPrefix(s, t) <=> s = u
    BY <1>1, <1>2, <2>2, Zenon DEF IsPrefix
  <2>4. s = u <=> \A i \in 1 .. Len(s) : s[i] = u[i]
    BY <2>2, SeqEqual, Zenon
  <2> QED
    BY <1>2, <2>2, <2>3, <2>4, Zenon
<1>3. CASE ~(Len(s) <= Len(t))
  BY <1>3, Zenon DEF IsPrefix
<1> QED
  BY <1>2, <1>3

\* A path is below p if it is p or its directory is below p.
LEMMA BelowUp ==
    ASSUME NEW p \in NonRoot, NEW s \in NonRoot
    PROVE  /\ IsPrefix(p, s) <=> p = s \/ IsPrefix(p, Up(s))
           /\ IsPrefix(p, Up(s)) => p # s
           /\ IsPrefix(p, s) => Len(p) <= Len(s)
<1>1. PICK u : /\ u = Up(s) /\ u \in Seq(Name) /\ Len(u) = Len(s) - 1
               /\ \A i \in 1 .. Len(s) - 1 : u[i] = s[i]
  BY UpFacts
<1>2. p \in Seq(Name) /\ s \in Seq(Name) /\ Len(p) \in Nat \ {0} /\ Len(s) \in Nat \ {0}
  BY UpFacts
<1>3. ASSUME IsPrefix(p, u)
      PROVE  IsPrefix(p, s) /\ p # s
  <2>1. Len(p) <= Len(u) /\ \A i \in 1 .. Len(p) : p[i] = u[i]
    BY <1>1, <1>2, <1>3, PrefixByElements
  <2>2. Len(p) <= Len(s) /\ Len(p) # Len(s)
    BY <1>1, <1>2, <2>1
  <2>3. ASSUME NEW i \in 1 .. Len(p)
        PROVE  p[i] = s[i]
    <3>1. i \in 1 .. Len(s) - 1
      BY <1>1, <1>2, <2>1
    <3> QED
      BY <1>1, <2>1, <3>1
  <2>4. IsPrefix(p, s)
    BY <1>2, <2>2, <2>3, PrefixByElements
  <2> QED
    BY <2>2, <2>4
<1>4. ASSUME IsPrefix(p, s), p # s
      PROVE  IsPrefix(p, u)
  <2>1. Len(p) <= Len(s) /\ \A i \in 1 .. Len(p) : p[i] = s[i]
    BY <1>2, <1>4, PrefixByElements
  <2>2. Len(p) # Len(s)
    BY <1>2, <1>4, <2>1, SeqEqual
  <2>3. Len(p) <= Len(u) /\ \A i \in 1 .. Len(p) : p[i] = u[i]
    BY <1>1, <1>2, <2>1, <2>2
  <2> QED
    BY <1>1, <1>2, <2>3, PrefixByElements
<1>5. IsPrefix(p, p)
  BY <1>2, PrefixByElements
<1>6. IsPrefix(p, s) => Len(p) <= Len(s)
  BY <1>2, PrefixByElements
<1> QED
  BY <1>1, <1>3, <1>4, <1>5, <1>6

\* Nothing but the root is above the root.
LEMMA NotBelowRoot ==
    ASSUME NEW p \in NonRoot
    PROVE  ~IsPrefix(p, <<>>)
<1>1. p \in Seq(Name) /\ Len(p) \in Nat \ {0} /\ <<>> \in Seq(Name) /\ Len(<<>>) = 0
  BY UpFacts, EmptySeq
<1>2. IsPrefix(p, <<>>) => Len(p) <= Len(<<>>)
  BY <1>1, PrefixByElements
<1> QED
  BY <1>1, <1>2

-----------------------------------------------------------------------------
(* Operations that make all directories on the way.                        *)

\* at[i] is what is found or made at the first i names of p.
Way(p, new, f, at) ==
    /\ new = {i \in 1 .. Len(p) : i = Len(p) \/ Lookup(Pre(p, i)) = None}
    /\ f \in [new -> Fresh] /\ \A i \in new, j \in new : f[i] = f[j] => i = j
    /\ \A i \in 0 .. Len(p) : at[i] = IF i \in new THEN f[i] ELSE Lookup(Pre(p, i))
    /\ \A i \in 1 .. Len(p) - 1 : Lookup(Pre(p, i)) # None => type[Lookup(Pre(p, i))] = "dir"

\* The new nodes have entries for each other, and the last is of type k.
Made(p, k, new, f, at, c, t, r) ==
    /\ Typed(c, t, r)
    /\ \A i \in new : /\ c[at[i - 1]][p[i]] = f[i] /\ r[f[i]] = at[i - 1]
                      /\ t[f[i]] = IF i = Len(p) THEN k ELSE "dir"
    /\ \A n \in AnyNode, x \in Name : (\A i \in new : ~(at[i - 1] = n /\ p[i] = x)) => c[n][x] = children[n][x]
    /\ \A n \in AnyNode : type[n] # "free" => t[n] = type[n] /\ r[n] = parent[n]

LEMMA WayFacts ==
    ASSUME IInv, NEW p \in NonRoot, NEW new, NEW f, NEW at, Way(p, new, f, at)
    PROVE  /\ \A i \in new : /\ i \in 1 .. Len(p) /\ f[i] \in Node /\ type[f[i]] = "free" /\ at[i] = f[i]
                             /\ \A x \in Name : children[f[i]][x] = None
           /\ Len(p) \in new
           /\ \A i \in 0 .. Len(p) - 1 : i \notin new => at[i] = Lookup(Pre(p, i)) /\ type[at[i]] = "dir"
           /\ \A i \in 0 .. Len(p) : at[i] \in AnyNode
           /\ \A i \in new : i # Len(p) => i + 1 \in new
<1>0. Len(p) \in Nat \ {0} /\ \A i \in new : i \in 1 .. Len(p)
  BY UpFacts DEF Way
<1>1. /\ Typed(children, type, parent) /\ None \notin AnyNode /\ Root \notin Node /\ Root \in AnyNode /\ Node \subseteq AnyNode
      /\ \A q : Lookup(q) = Resolve(children, type, q)
      /\ Good(children, type, parent) /\ Clean(children, type)
  BY IInvFacts
<1>2. ASSUME NEW i \in new
      PROVE  /\ f[i] \in Node /\ type[f[i]] = "free" /\ at[i] = f[i]
             /\ \A x \in Name : children[f[i]][x] = None
  <2>1. f[i] \in Node /\ type[f[i]] = "free"
    BY DEF Way, Fresh
  <2>2. at[i] = f[i]
    BY <1>0 DEF Way
  <2>3. \A x \in Name : children[f[i]][x] = None
    BY <1>1, <2>1, AllEntries DEF EntryOK
  <2> QED
    BY <2>1, <2>2, <2>3
<1>3. Len(p) \in new
  BY <1>0 DEF Way
<1>4. ASSUME NEW i \in 0 .. Len(p) - 1, i \notin new
      PROVE  at[i] = Lookup(Pre(p, i)) /\ type[at[i]] = "dir" /\ at[i] \in AnyNode
  <2>1. at[i] = Lookup(Pre(p, i))
    BY <1>0, <1>4 DEF Way
  <2>2. CASE i = 0
    BY <1>1, <2>1, <2>2, PreFacts, ResolveStep DEF Typed
  <2>3. CASE i # 0
    <3>1. i \in 1 .. Len(p) /\ i \in 1 .. Len(p) - 1
      BY <1>0, <2>3
    <3>2. Lookup(Pre(p, i)) # None
      BY <1>4, <3>1 DEF Way
    <3>3. type[Lookup(Pre(p, i))] = "dir"
      BY <3>1, <3>2 DEF Way
    <3>4. Pre(p, i) \in NonRoot
      BY <3>1, PreFacts
    <3>5. Lookup(Pre(p, i)) \in Node
      BY <3>2, <3>4, EntryOf
    <3> QED
      BY <1>1, <2>1, <3>3, <3>5
  <2> QED
    BY <2>2, <2>3
<1>5. ASSUME NEW i \in 0 .. Len(p)
      PROVE  at[i] \in AnyNode
  <2>1. CASE i \in new
    BY <1>1, <1>2, <2>1
  <2>2. CASE i \notin new
    <3>1. i \in 0 .. Len(p) - 1
      BY <1>0, <1>3, <2>2
    <3> QED
      BY <1>4, <2>2, <3>1
  <2> QED
    BY <2>1, <2>2
<1>6. ASSUME NEW i \in new, i # Len(p)
      PROVE  i + 1 \in new
  <2>1. PICK m \in 1 .. Len(p) : m = i + 1 /\ m - 1 = i
    BY <1>0, <1>6
  <2>2. Lookup(Pre(p, i)) = None
    BY <1>6 DEF Way
  <2>3. Pre(p, m) \in NonRoot /\ Up(Pre(p, m)) = Pre(p, m - 1)
    BY PreFacts
  <2>4. Lookup(Pre(p, m)) = None
    BY <2>1, <2>2, <2>3, LookupStep DEF Step
  <2> QED
    BY <2>1, <2>4 DEF Way
<1> QED
  BY <1>0, <1>2, <1>3, <1>4, <1>5, <1>6

\* The nodes on the way are different nodes.
LEMMA WayDistinct ==
    ASSUME IInv, NEW p \in NonRoot, NEW new, NEW f, NEW at, Way(p, new, f, at),
           NEW i \in 0 .. Len(p), NEW j \in 0 .. Len(p), at[i] = at[j]
    PROVE  i = j
<1>1. Len(p) \in Nat \ {0} /\ \A k \in 0 .. Len(p) : k \notin new => k \in 0 .. Len(p) - 1
  BY UpFacts, WayFacts
<1>2. CASE i \in new /\ j \in new
  BY <1>2, WayFacts DEF Way
<1>3. CASE i \in new /\ j \notin new
  BY <1>1, <1>3, WayFacts
<1>4. CASE i \notin new /\ j \in new
  BY <1>1, <1>4, WayFacts
<1>5. CASE i \notin new /\ j \notin new
  <2>1. /\ at[i] = Lookup(Pre(p, i)) /\ type[at[i]] = "dir" /\ at[j] = Lookup(Pre(p, j))
        /\ at[i] \in AnyNode
    BY <1>1, <1>5, WayFacts
  <2>2. Pre(p, i) \in Seq(Name) /\ Len(Pre(p, i)) = i /\ Pre(p, j) \in Seq(Name) /\ Len(Pre(p, j)) = j
    BY PreFacts
  <2>3. Pre(p, i) = Pre(p, j)
    BY <2>1, <2>2, LookupOne, NodeAssumption
  <2> QED
    BY <2>2, <2>3
<1> QED
  BY <1>2, <1>3, <1>4, <1>5

\* Where a path leads to when the way to p was made.
MadeAt(p, new, f, s) ==
    IF Len(s) \in new /\ s = Pre(p, Len(s)) THEN f[Len(s)] ELSE IF IsPrefix(p, s) THEN None ELSE Lookup(s)

LEMMA MadePaths ==
    ASSUME IInv, NEW p \in NonRoot, NEW k \in {"dir", "file"}, NEW new, NEW f, NEW at, Way(p, new, f, at),
           NEW c, NEW t, NEW r, Made(p, k, new, f, at, c, t, r)
    PROVE  \A s \in Seq(Name) : Resolve(c, t, s) = MadeAt(p, new, f, s)
<1> DEFINE G == {s \in Seq(Name) : Resolve(c, t, s) = MadeAt(p, new, f, s)}
<1>1. /\ \A i \in new : /\ i \in 1 .. Len(p) /\ f[i] \in Node /\ type[f[i]] = "free" /\ at[i] = f[i]
                        /\ \A x \in Name : children[f[i]][x] = None
      /\ Len(p) \in new
      /\ \A i \in 0 .. Len(p) - 1 : i \notin new => at[i] = Lookup(Pre(p, i)) /\ type[at[i]] = "dir"
      /\ \A i \in 0 .. Len(p) : at[i] \in AnyNode
      /\ \A i \in new : i # Len(p) => i + 1 \in new
  BY WayFacts
<1>2. /\ None \notin AnyNode /\ Node \subseteq AnyNode /\ \A q : Lookup(q) = Resolve(children, type, q)
      /\ Len(p) \in Nat \ {0}
  BY IInvFacts, UpFacts
<1>3. <<>> \in G
  <2>1. Len(<<>>) = 0 /\ <<>> \in Seq(Name) /\ ~IsPrefix(p, <<>>) /\ 0 \notin new
    BY <1>1, EmptySeq, NotBelowRoot
  <2>2. MadeAt(p, new, f, <<>>) = Lookup(<<>>)
    BY <2>1 DEF MadeAt
  <2>3. Resolve(c, t, <<>>) = Lookup(<<>>)
    BY <1>2, ResolveStep
  <2> QED
    BY <2>1, <2>2, <2>3
<1>4. ASSUME NEW s \in NonRoot, Up(s) \in G
      PROVE  s \in G
  <2>1. PICK u : /\ u = Up(s) /\ u \in Seq(Name) /\ Resolve(c, t, u) = MadeAt(p, new, f, u)
                 /\ Len(u) = Len(s) - 1
    BY <1>4, UpFacts
  <2>2. s \in Seq(Name) /\ End(s) \in Name /\ Len(s) \in Nat \ {0} /\ Len(u) \in Nat /\ Len(s) = Len(u) + 1
    BY <2>1, UpFacts
  <2>3. Resolve(c, t, s) = Step(c, t, MadeAt(p, new, f, u), End(s))
    <3>1. Resolve(c, t, s) = Step(c, t, Resolve(c, t, Up(s)), End(s))
      BY ResolveStep
    <3> QED
      BY <2>1, <3>1, Zenon
  <2>4. /\ Lookup(s) = Step(children, type, Lookup(u), End(s))
        /\ Lookup(u) # None => Lookup(u) \in AnyNode /\ type[Lookup(u)] # "free"
    BY <2>1, LookupStep
  <2>5. /\ IsPrefix(p, s) <=> p = s \/ IsPrefix(p, u)
        /\ IsPrefix(p, u) => Len(p) <= Len(u)
    <3>1. IsPrefix(p, s) <=> p = s \/ IsPrefix(p, u)
      BY <2>1, BelowUp
    <3>2. IsPrefix(p, u) => Len(p) <= Len(u)
      BY <2>1, PrefixByElements DEF NonRoot
    <3> QED
      BY <3>1, <3>2
  <2>6. CASE Len(u) = Len(p) /\ u = p
    <3>1. MadeAt(p, new, f, u) = f[Len(p)]
      BY <1>1, <2>6, PreFacts DEF MadeAt
    <3>2. Len(s) \notin new /\ IsPrefix(p, s)
      <4>1. Len(s) \notin new
        BY <1>1, <1>2, <2>2, <2>6
      <4>2. IsPrefix(p, p)
        BY PrefixByElements DEF NonRoot
      <4> QED
        BY <2>5, <2>6, <4>1, <4>2
    <3>3. MadeAt(p, new, f, s) = None
      BY <3>2 DEF MadeAt
    <3>4. ASSUME NEW i \in new, at[i - 1] = f[Len(p)]
          PROVE  FALSE
      <4>1. i - 1 \in 0 .. Len(p) /\ i - 1 # Len(p) /\ Len(p) \in 0 .. Len(p) /\ at[Len(p)] = f[Len(p)]
        BY <1>1, <1>2
      <4> QED
        BY <3>4, <4>1, WayDistinct
    <3>5. f[Len(p)] \in AnyNode /\ f[Len(p)] # None /\ children[f[Len(p)]][End(s)] = None
      BY <1>1, <1>2, <2>2
    <3>6. c[f[Len(p)]][End(s)] = None
      BY <2>2, <3>4, <3>5 DEF Made
    <3>7. Step(c, t, f[Len(p)], End(s)) = None
      BY <3>6 DEF Step
    <3> QED
      BY <2>2, <2>3, <3>1, <3>3, <3>7
  <2>7. CASE Len(u) \in new /\ u = Pre(p, Len(u)) /\ ~(Len(u) = Len(p) /\ u = p)
    <3>1. PICK i : i = Len(u) /\ i \in new /\ i # Len(p) /\ i \in 1 .. Len(p) /\ i + 1 \in new /\ i + 1 \in 1 .. Len(p)
      <4>1. Len(u) # Len(p)
        BY <2>7, PreFacts
      <4> QED
        BY <1>1, <2>7, <4>1
    <3>2. PICK m : m = i + 1 /\ m = Len(s) /\ m \in new /\ m - 1 = i /\ m \in 1 .. Len(p)
      BY <1>2, <2>2, <3>1
    <3>3. MadeAt(p, new, f, u) = f[i] /\ f[i] = at[i] /\ f[i] \in AnyNode /\ f[i] # None
      BY <1>1, <1>2, <2>7, <3>1 DEF MadeAt
    <3>4. t[f[i]] = "dir"
      BY <3>1 DEF Made
    <3>5. Pre(p, m) \in NonRoot /\ End(Pre(p, m)) = p[m] /\ Up(Pre(p, m)) = u
      <4>1. Pre(p, m) \in NonRoot /\ End(Pre(p, m)) = p[m] /\ Up(Pre(p, m)) = Pre(p, m - 1)
        BY <3>2, PreFacts
      <4> QED
        BY <2>7, <3>1, <3>2, <4>1
    <3>6. CASE End(s) = p[m]
      <4>1. s = Pre(p, m)
        BY <2>1, <3>5, <3>6, UpAndEnd
      <4>2. MadeAt(p, new, f, s) = f[m]
        BY <3>2, <4>1 DEF MadeAt
      <4>3. c[at[m - 1]][p[m]] = f[m]
        BY <3>2 DEF Made
      <4>4. Step(c, t, f[i], End(s)) = f[m]
        BY <3>2, <3>3, <3>4, <3>6, <4>3 DEF Step
      <4> QED
        BY <2>2, <2>3, <3>3, <4>2, <4>4
    <3>7. CASE End(s) # p[m]
      <4>1. s # Pre(p, m)
        BY <3>5, <3>7
      <4>2. Lookup(u) = None
        BY <2>7, <3>1 DEF Way
      <4>3. Lookup(s) = None
        BY <2>4, <4>2 DEF Step
      <4>4. MadeAt(p, new, f, s) = None
        BY <3>2, <4>1, <4>3 DEF MadeAt
      <4>5. ASSUME NEW j \in new, at[j - 1] = f[i], p[j] = End(s)
            PROVE  FALSE
        <5>1. j \in 1 .. Len(p) /\ j - 1 \in 0 .. Len(p) /\ i \in 0 .. Len(p)
          BY <1>1, <1>2, <3>1
        <5>2. j - 1 = i
          BY <3>3, <4>5, <5>1, WayDistinct
        <5>3. j = m
          BY <1>2, <3>2, <5>1, <5>2
        <5> QED
          BY <3>7, <4>5, <5>3
      <4>6. c[f[i]][End(s)] = children[f[i]][End(s)]
        BY <2>2, <3>3, <4>5 DEF Made
      <4>7. Step(c, t, f[i], End(s)) = None
        BY <1>1, <2>2, <3>1, <4>6 DEF Step
      <4> QED
        BY <2>2, <2>3, <3>3, <4>4, <4>7
    <3> QED
      BY <3>6, <3>7
  <2>8. CASE ~(Len(u) \in new /\ u = Pre(p, Len(u))) /\ IsPrefix(p, u)
    <3>1. MadeAt(p, new, f, u) = None
      BY <2>8 DEF MadeAt
    <3>2. Len(s) \notin new
      BY <1>1, <1>2, <2>2, <2>5, <2>8
    <3>3. MadeAt(p, new, f, s) = None
      BY <2>5, <2>8, <3>2 DEF MadeAt
    <3>4. Step(c, t, None, End(s)) = None
      BY DEF Step
    <3> QED
      BY <2>2, <2>3, <3>1, <3>3, <3>4
  <2>9. CASE ~(Len(u) \in new /\ u = Pre(p, Len(u))) /\ ~IsPrefix(p, u)
    <3>1. PICK e : e = Lookup(u) /\ MadeAt(p, new, f, u) = e /\ (e # None => e \in AnyNode /\ type[e] # "free")
      BY <2>4, <2>9 DEF MadeAt
    <3>2. e # None => t[e] = type[e]
      BY <3>1 DEF Made
    <3>3. CASE Len(s) \in new /\ s = Pre(p, Len(s))
      <4>1. PICK m : m = Len(s) /\ m \in new /\ m \in 1 .. Len(p) /\ m - 1 \in 0 .. Len(p) - 1 /\ m - 1 = Len(u)
        BY <1>1, <1>2, <2>2, <3>3
      <4>2. End(s) = p[m] /\ u = Pre(p, m - 1)
        <5>1. End(Pre(p, m)) = p[m] /\ Up(Pre(p, m)) = Pre(p, m - 1)
          BY <4>1, PreFacts
        <5> QED
          BY <2>1, <3>3, <4>1, <5>1
      <4>3. at[m - 1] = e /\ type[e] = "dir" /\ e \in AnyNode /\ e # None
        <5>1. m - 1 \notin new
          BY <2>9, <4>1, <4>2
        <5>2. m - 1 \in 0 .. Len(p)
          BY <1>2, <4>1
        <5> QED
          BY <1>1, <1>2, <3>1, <4>1, <4>2, <5>1, <5>2
      <4>4. c[at[m - 1]][p[m]] = f[m]
        BY <4>1 DEF Made
      <4>5. Step(c, t, e, End(s)) = f[m]
        BY <3>2, <4>2, <4>3, <4>4 DEF Step
      <4>6. MadeAt(p, new, f, s) = f[m]
        BY <3>3, <4>1 DEF MadeAt
      <4> QED
        BY <2>2, <2>3, <3>1, <4>5, <4>6
    <3>4. CASE ~(Len(s) \in new /\ s = Pre(p, Len(s)))
      <4>1. p # s
        BY <1>1, <3>4, PreFacts
      <4>2. MadeAt(p, new, f, s) = Lookup(s)
        BY <2>5, <2>9, <3>4, <4>1 DEF MadeAt
      <4>3. ASSUME e # None, type[e] = "dir", NEW j \in new, at[j - 1] = e, p[j] = End(s)
            PROVE  FALSE
        <5>1. PICK i : i = j - 1 /\ i \in 0 .. Len(p) - 1 /\ j \in 1 .. Len(p) /\ i \in 0 .. Len(p)
          BY <1>1, <1>2
        <5>2. i \notin new
          BY <1>1, <4>3, <5>1
        <5>3. Lookup(Pre(p, i)) = e /\ Pre(p, i) \in Seq(Name)
          BY <1>1, <4>3, <5>1, <5>2, PreFacts
        <5>4. u = Pre(p, i)
          BY <2>1, <3>1, <4>3, <5>3, LookupOne
        <5>5. Pre(p, j) \in NonRoot /\ Up(Pre(p, j)) = Pre(p, j - 1) /\ End(Pre(p, j)) = p[j] /\ Len(Pre(p, j)) = j
          BY <5>1, PreFacts
        <5>6. s = Pre(p, j)
          BY <2>1, <4>3, <5>1, <5>4, <5>5, UpAndEnd
        <5> QED
          BY <3>4, <5>5, <5>6
      <4>4. e # None /\ type[e] = "dir" => c[e][End(s)] = children[e][End(s)]
        BY <2>2, <3>1, <4>3 DEF Made
      <4>5. Step(c, t, e, End(s)) = Step(children, type, e, End(s))
        BY <3>2, <4>4 DEF Step
      <4> QED
        BY <2>2, <2>3, <2>4, <3>1, <4>2, <4>5
    <3> QED
      BY <3>3, <3>4
  <2> QED
    BY <2>6, <2>7, <2>8, <2>9
<1> HIDE DEF G
<1>5. \A s \in Seq(Name) : s \in G
  BY <1>3, <1>4, PathInduction
<1> QED
  BY <1>5 DEF G

\* The tree with the way made is a tree.
LEMMA MadeTree ==
    ASSUME IInv, NEW p \in Path, NEW k \in {"dir", "file"}, NEW new, NEW f, NEW at, Way(p, new, f, at),
           NEW c, NEW t, NEW r, Made(p, k, new, f, at, c, t, r)
    PROVE  Good(c, t, r)
<1>0. p \in NonRoot /\ Len(p) \in Nat \ {0} /\ Len(p) <= Depth
  BY Paths, UpFacts
<1>1. /\ \A i \in new : /\ i \in 1 .. Len(p) /\ f[i] \in Node /\ type[f[i]] = "free" /\ at[i] = f[i]
      /\ \A i \in 0 .. Len(p) - 1 : i \notin new => at[i] = Lookup(Pre(p, i)) /\ type[at[i]] = "dir"
      /\ \A i \in 0 .. Len(p) : at[i] \in AnyNode
  BY <1>0, WayFacts
<1>2. /\ None \notin AnyNode /\ Node \subseteq AnyNode /\ Typed(children, type, parent)
      /\ \A q : Lookup(q) = Resolve(children, type, q)
      /\ \A d \in AnyNode, x \in Name : EntryOK(children, type, parent, d, x)
  BY IInvFacts, AllEntries
<1>3. \A s \in Seq(Name) : Resolve(c, t, s) = MadeAt(p, new, f, s)
  BY <1>0, MadePaths
<1>4. ASSUME NEW d \in Live(c, t) \cap AnyNode, NEW x \in Name
      PROVE  EntryOK(c, t, r, d, x)
  <2>1. CASE \E i \in new : at[i - 1] = d /\ p[i] = x
    <3>1. PICK i \in new : at[i - 1] = d /\ p[i] = x
      BY <2>1
    <3>2. PICK h : /\ h = i - 1 /\ h \in 0 .. Len(p) - 1 /\ h \in 0 .. Len(p) /\ i \in 1 .. Len(p)
                   /\ h # Len(p) /\ h < Len(p)
      BY <1>0, <1>1
    <3>3. PICK v : v = f[i] /\ v \in Node /\ c[d][x] = v /\ r[v] = d /\ t[v] \in {"dir", "file"} /\ type[v] = "free"
      BY <1>1, <3>1 DEF Made
    <3>4. t[d] = "dir"
      <4>1. CASE h \in new
        BY <1>1, <3>1, <3>2, <4>1 DEF Made
      <4>2. CASE h \notin new
        <5>1. type[d] = "dir"
          BY <1>1, <3>1, <3>2, <4>2
        <5> QED
          BY <5>1 DEF Made
      <4> QED
        BY <4>1, <4>2
    <3>5. ASSUME NEW y \in Name, c[d][y] = v
          PROVE  y = x
      <4>1. CASE \E j \in new : at[j - 1] = d /\ p[j] = y
        <5>1. PICK j \in new : at[j - 1] = d /\ p[j] = y
          BY <4>1
        <5>2. f[j] = f[i]
          BY <3>3, <3>5, <5>1 DEF Made
        <5>3. i = j
          BY <5>2 DEF Way
        <5> QED
          BY <3>1, <5>1, <5>3
      <4>2. CASE ~\E j \in new : at[j - 1] = d /\ p[j] = y
        <5>1. children[d][y] = v
          BY <3>5, <4>2 DEF Made
        <5> QED
          BY <1>2, <3>3, <5>1 DEF EntryOK
      <4> QED
        BY <4>1, <4>2
    <3>6. PICK q : q = Pre(p, i) /\ q \in NonRoot /\ Len(q) = i /\ End(q) = x /\ Up(q) = Pre(p, h)
      BY <1>0, <3>1, <3>2, PreFacts
    <3>7. q \in Path
      <4>1. Len(q) <= Depth
        BY <1>0, <3>2, <3>6, DepthAssumption
      <4> QED
        BY <3>6, <4>1, Paths
    <3>8. Resolve(c, t, Up(q)) = d
      <4>1. Pre(p, h) \in Seq(Name) /\ Len(Pre(p, h)) = h
        BY <1>0, <3>2, PreFacts
      <4>2. ~IsPrefix(p, Pre(p, h))
        <5>1. IsPrefix(p, Pre(p, h)) => Len(p) <= Len(Pre(p, h))
          BY <1>0, <4>1, PrefixByElements DEF NonRoot
        <5> QED
          BY <1>0, <3>2, <4>1, <5>1
      <4>3. MadeAt(p, new, f, Pre(p, h)) = IF h \in new THEN f[h] ELSE Lookup(Pre(p, h))
        BY <4>1, <4>2 DEF MadeAt
      <4>4. MadeAt(p, new, f, Pre(p, h)) = at[h]
        BY <3>2, <4>3 DEF Way
      <4> QED
        BY <1>3, <3>1, <3>2, <3>6, <4>1, <4>4
    <3> QED
      BY <1>2, <3>3, <3>4, <3>5, <3>6, <3>7, <3>8 DEF EntryOK
  <2>2. CASE ~\E i \in new : at[i - 1] = d /\ p[i] = x
    <3>1. c[d][x] = children[d][x]
      BY <2>2 DEF Made
    <3>2. SUFFICES ASSUME children[d][x] # None
                   PROVE  EntryOK(c, t, r, d, x)
      BY <3>1 DEF EntryOK
    <3>3. PICK a : a = children[d][x] /\ a # None /\ a \in AnyNode
      BY <1>2, <3>2 DEF Typed
    <3>4. /\ type[d] = "dir" /\ parent[a] = d /\ type[a] # "free" /\ d # None
          /\ type[a] = "dir" => \A y \in Name : children[d][y] = a => y = x
      BY <1>2, <3>3 DEF EntryOK
    <3>5. t[d] = "dir" /\ t[a] = type[a] /\ r[a] = d
      BY <3>3, <3>4 DEF Made
    <3>6. PICK q \in Path : End(q) = x /\ Lookup(Up(q)) = d
      BY <1>2, <3>2 DEF EntryOK
    <3>7. \E s \in Seq(Name) : Resolve(c, t, s) = d
      <4>1. CASE d = Root
        BY <4>1, ResolveStep, EmptySeq
      <4>2. CASE d # Root
        BY <4>2, Paths DEF Live, NonRoot
      <4> QED
        BY <4>1, <4>2
    <3>8. PICK s \in Seq(Name) : MadeAt(p, new, f, s) = d
      BY <1>3, <3>7
    <3>9. Lookup(s) = d
      BY <1>1, <3>4, <3>8 DEF MadeAt
    <3>10. s = Up(q)
      <4>1. Up(q) \in Seq(Name)
        BY Paths, UpFacts
      <4> QED
        BY <3>4, <3>6, <3>9, <4>1, LookupOne
    <3>11. Resolve(c, t, Up(q)) = d
      BY <1>3, <3>8, <3>10
    <3>12. ASSUME NEW y \in Name, c[d][y] = a
           PROVE  children[d][y] = a
      <4>1. \A j \in new : ~(at[j - 1] = d /\ p[j] = y)
        BY <1>1, <3>4, <3>12 DEF Made
      <4> QED
        BY <3>12, <4>1 DEF Made
    <3> QED
      BY <3>1, <3>3, <3>4, <3>5, <3>6, <3>11, <3>12 DEF EntryOK
  <2> QED
    BY <2>1, <2>2
<1> QED
  BY <1>4 DEF Good, Made

\* What MakeAll puts into the tree.
LEMMA MakeAllMakes ==
    ASSUME IInv, NEW p \in Path, NEW k \in {"dir", "file"}, MakeAll(p, k)
    PROVE  \E new, f, at, c, t, r :
              Way(p, new, f, at) /\ Made(p, k, new, f, at, c, t, r) /\ Becomes(c, t, r)
<1>0. p \in NonRoot /\ Len(p) \in Nat \ {0}
  BY Paths, UpFacts
<1> DEFINE new == {i \in 1 .. Len(p) : i = Len(p) \/ ~IsNode(Lookup(Pre(p, i)))}
           At(f, i) == IF i \in new THEN f[i] ELSE Lookup(Pre(p, i))
           Here(f, n, x, i) == At(f, i - 1) = n /\ p[i] = x
           V(f, n, x) == IF \E i \in new : Here(f, n, x, i)
                         THEN f[CHOOSE i \in new : Here(f, n, x, i)] ELSE children[n][x]
           C(f) == [n \in AnyNode |-> [x \in Name |-> V(f, n, x)]]
           T(f) == [n \in AnyNode |-> IF n = f[Len(p)] THEN k ELSE IF \E i \in new : f[i] = n THEN "dir" ELSE type[n]]
           R(f) == [n \in AnyNode |-> IF \E i \in new : f[i] = n THEN At(f, (CHOOSE i \in new : f[i] = n) - 1) ELSE parent[n]]
<1>1. PICK f \in [new -> Fresh] : (\A i, j \in new : f[i] = f[j] => i = j) /\ Becomes(C(f), T(f), R(f))
  BY Zenon DEF MakeAll, Pre
<1>2. \A i \in 1 .. Len(p) - 1 : Lookup(Pre(p, i)) # None => type[Lookup(Pre(p, i))] = "dir"
  BY Zenon DEF MakeAll, Pre, IsNode, IsDir
<1> DEFINE at == [i \in 0 .. Len(p) |-> At(f, i)]
<1>3. Way(p, new, f, at)
  BY <1>1, <1>2 DEF Way, IsNode
<1>4. /\ \A i \in new : /\ i \in 1 .. Len(p) /\ f[i] \in Node /\ type[f[i]] = "free" /\ at[i] = f[i]
      /\ Len(p) \in new
      /\ \A i \in 0 .. Len(p) : at[i] \in AnyNode
  <2> HIDE DEF new, at
  <2> QED
    BY <1>0, <1>3, WayFacts
<1>5. Typed(children, type, parent) /\ Node \subseteq AnyNode /\ Root \notin Node /\ Root \in AnyNode
  BY IInvFacts
<1>6. \A i \in new : i - 1 \in 0 .. Len(p) /\ At(f, i - 1) = at[i - 1] /\ at[i - 1] \in AnyNode /\ p[i] \in Name
  <2>1. ASSUME NEW i \in new
        PROVE  i - 1 \in 0 .. Len(p) /\ p[i] \in Name
    BY <1>0, ElementOfSeq DEF NonRoot
  <2> HIDE DEF At, new
  <2>2. \A i \in 0 .. Len(p) : At(f, i) = at[i]
    OBVIOUS
  <2> QED
    BY <1>4, <2>1, <2>2
<1>7. ASSUME NEW i \in new, NEW j \in new, at[i - 1] = at[j - 1]
      PROVE  i = j
  <2>1. i - 1 \in 0 .. Len(p) /\ j - 1 \in 0 .. Len(p) /\ i \in Int /\ j \in Int
    BY <1>0, <1>6
  <2>2. i - 1 = j - 1
    <3> HIDE DEF new, at
    <3> QED
      BY <1>0, <1>3, <1>7, <2>1, WayDistinct
  <2> QED
    BY <2>1, <2>2
<1> HIDE DEF new, At, at
<1>8. ASSUME NEW i \in new
      PROVE  C(f)[at[i - 1]][p[i]] = f[i]
  <2>1. Here(f, at[i - 1], p[i], i)
    BY <1>6
  <2>2. \A j \in new : Here(f, at[i - 1], p[i], j) => i = j
    BY <1>6, <1>7
  <2>3. (CHOOSE j \in new : Here(f, at[i - 1], p[i], j)) = i
    <3> HIDE DEF Here
    <3>1. PICK z : z = CHOOSE j \in new : Here(f, at[i - 1], p[i], j)
      OBVIOUS
    <3>2. z \in new /\ Here(f, at[i - 1], p[i], z)
      BY <2>1, <3>1, Zenon
    <3> QED
      BY <2>2, <3>1, <3>2
  <2> HIDE DEF Here
  <2> QED
    BY <1>6, <2>1, <2>3
<1>9. ASSUME NEW i \in new
      PROVE  R(f)[f[i]] = at[i - 1] /\ T(f)[f[i]] = IF i = Len(p) THEN k ELSE "dir"
  <2>1. PICK z : z = CHOOSE j \in new : f[j] = f[i]
    OBVIOUS
  <2>2. z \in new /\ f[z] = f[i]
    BY <2>1, Zenon
  <2>3. z = i
    BY <1>1, <2>2
  <2>4. R(f)[f[i]] = At(f, i - 1)
    BY <1>4, <1>5, <2>1, <2>3
  <2>5. T(f)[f[i]] = IF i = Len(p) THEN k ELSE "dir"
    BY <1>1, <1>4, <1>5
  <2> QED
    BY <1>6, <2>4, <2>5
<1>10. ASSUME NEW n \in AnyNode, NEW x \in Name, \A i \in new : ~(at[i - 1] = n /\ p[i] = x)
       PROVE  C(f)[n][x] = children[n][x]
  <2>1. ~\E i \in new : Here(f, n, x, i)
    BY <1>6, <1>10
  <2> HIDE DEF Here
  <2> QED
    BY <2>1
<1>11. ASSUME NEW n \in AnyNode, type[n] # "free"
       PROVE  T(f)[n] = type[n] /\ R(f)[n] = parent[n]
  BY <1>4, <1>11
<1>12. C(f) \in [AnyNode -> [Name -> Node \cup {None}]]
  <2>1. \A n \in AnyNode, x \in Name : V(f, n, x) = C(f)[n][x]
    <3> HIDE DEF V
    <3> QED
      OBVIOUS
  <2>2. ASSUME NEW n \in AnyNode, NEW x \in Name
        PROVE  V(f, n, x) \in Node \cup {None}
    <3> HIDE DEF V, C
    <3>1. CASE \E i \in new : at[i - 1] = n /\ p[i] = x
      BY <1>4, <1>8, <2>1, <3>1
    <3>2. CASE ~\E i \in new : at[i - 1] = n /\ p[i] = x
      BY <1>5, <1>10, <2>1, <3>2 DEF Typed
    <3> QED
      BY <3>1, <3>2
  <2> HIDE DEF V
  <2> QED
    BY <2>2
<1>13. T(f) \in [AnyNode -> {"free", "dir", "file"}] /\ T(f)[Root] = "dir"
  BY <1>4, <1>5 DEF Typed
<1>14. R(f) \in [AnyNode -> AnyNode \cup {None}]
  <2>1. ASSUME NEW n \in AnyNode
        PROVE  R(f)[n] \in AnyNode \cup {None}
    <3>1. CASE \E i \in new : f[i] = n
      BY <1>6, <1>9, <3>1
    <3>2. CASE ~\E i \in new : f[i] = n
      BY <1>5, <3>2 DEF Typed
    <3> QED
      BY <3>1, <3>2
  <2> QED
    BY <2>1
<1> HIDE DEF C, T, R
<1>15. Made(p, k, new, f, at, C(f), T(f), R(f))
  BY <1>8, <1>9, <1>10, <1>11, <1>12, <1>13, <1>14 DEF Made, Typed
<1> QED
  BY <1>1, <1>3, <1>15

-----------------------------------------------------------------------------
(* Moving what is below a path.                                            *)

\* Prefixes of prefixes; two prefixes of one path are prefixes of each other.
LEMMA PrefixOrder ==
    ASSUME NEW r \in Seq(Name), NEW s \in Seq(Name), NEW t \in Seq(Name), IsPrefix(s, t)
    PROVE  /\ IsPrefix(r, s) => IsPrefix(r, t)
           /\ IsPrefix(r, t) /\ Len(r) <= Len(s) => IsPrefix(r, s)
           /\ Len(s) = Len(t) => s = t
           /\ Len(s) <= Len(t)
<1>1. Len(r) \in Nat /\ Len(s) \in Nat /\ Len(t) \in Nat
  BY LenProperties
<1>2. Len(s) <= Len(t) /\ \A i \in 1 .. Len(s) : s[i] = t[i]
  BY PrefixByElements
<1>3. IsPrefix(r, s) => IsPrefix(r, t)
  <2>1. SUFFICES ASSUME IsPrefix(r, s)
                 PROVE  IsPrefix(r, t)
    OBVIOUS
  <2>2. Len(r) <= Len(s) /\ \A i \in 1 .. Len(r) : r[i] = s[i]
    BY <2>1, PrefixByElements
  <2>3. Len(r) <= Len(t) /\ \A i \in 1 .. Len(r) : r[i] = t[i]
    BY <1>1, <1>2, <2>2
  <2> QED
    BY <2>3, PrefixByElements
<1>4. ASSUME IsPrefix(r, t), Len(r) <= Len(s)
      PROVE  IsPrefix(r, s)
  <2>1. \A i \in 1 .. Len(r) : r[i] = t[i]
    BY <1>4, PrefixByElements
  <2>2. \A i \in 1 .. Len(r) : r[i] = s[i]
    BY <1>1, <1>2, <1>4, <2>1
  <2> QED
    BY <1>4, <2>2, PrefixByElements
<1>5. Len(s) = Len(t) => s = t
  BY <1>2, SeqEqual
<1> QED
  BY <1>2, <1>3, <1>4, <1>5

\* The path u with q in place of its beginning p.
Swap(p, q, u) == q \o SubSeq(u, Len(p) + 1, Len(u))

\* Element by element.
LEMMA SwapElements ==
    ASSUME NEW p \in Seq(Name), NEW q \in Seq(Name), NEW u \in Seq(Name), IsPrefix(p, u)
    PROVE  /\ Swap(p, q, u) \in Seq(Name) /\ Len(Swap(p, q, u)) = Len(q) + Len(u) - Len(p)
           /\ \A i \in 1 .. Len(q) : Swap(p, q, u)[i] = q[i]
           /\ \A i \in Len(q) + 1 .. Len(q) + Len(u) - Len(p) : Swap(p, q, u)[i] = u[i - Len(q) + Len(p)]
<1>1. Len(p) \in Nat /\ Len(q) \in Nat /\ Len(u) \in Nat /\ Len(p) <= Len(u)
  BY LenProperties, PrefixOrder
<1>2. PICK v \in Seq(Name) : /\ v = SubSeq(u, Len(p) + 1, Len(u)) /\ Len(v) = Len(u) - Len(p)
                             /\ \A i \in 1 .. Len(u) - Len(p) : v[i] = u[Len(p) + i]
  <2>1. \A i \in Len(p) + 1 .. Len(u) : u[i] \in Name
    BY <1>1, ElementOfSeq
  <2>2. PICK m \in Nat : m = Len(p) + 1
    BY <1>1
  <2>3. /\ SubSeq(u, m, Len(u)) \in Seq(Name)
        /\ Len(SubSeq(u, m, Len(u))) = IF m <= Len(u) THEN Len(u) - m + 1 ELSE 0
        /\ \A i \in 1 .. Len(u) - m + 1 : SubSeq(u, m, Len(u))[i] = u[m + i - 1]
    BY <1>1, <2>1, <2>2, SubSeqProperties
  <2>4. PICK v \in Seq(Name) : /\ v = SubSeq(u, m, Len(u))
                               /\ Len(v) = IF m <= Len(u) THEN Len(u) - m + 1 ELSE 0
                               /\ \A i \in 1 .. Len(u) - m + 1 : v[i] = u[m + i - 1]
    BY <2>3, Zenon
  <2>5. Len(v) = Len(u) - Len(p)
    BY <1>1, <2>2, <2>4
  <2>6. ASSUME NEW i \in 1 .. Len(u) - Len(p)
        PROVE  v[i] = u[Len(p) + i]
    <3>1. i \in 1 .. Len(u) - m + 1 /\ m + i - 1 = Len(p) + i
      BY <1>1, <2>2
    <3> QED
      BY <2>4, <3>1
  <2> QED
    BY <2>2, <2>4, <2>5, <2>6
<1>3. /\ q \o v \in Seq(Name) /\ Len(q \o v) = Len(q) + Len(v)
      /\ \A i \in 1 .. Len(q) + Len(v) : (q \o v)[i] = IF i <= Len(q) THEN q[i] ELSE v[i - Len(q)]
  BY ConcatProperties
<1>4. PICK w \in Seq(Name) : /\ w = Swap(p, q, u) /\ Len(w) = Len(q) + Len(v)
                             /\ \A i \in 1 .. Len(q) + Len(v) : w[i] = IF i <= Len(q) THEN q[i] ELSE v[i - Len(q)]
  BY <1>2, <1>3, Zenon DEF Swap
<1>5. Len(w) = Len(q) + Len(u) - Len(p)
  BY <1>1, <1>2, <1>4
<1>6. ASSUME NEW i \in 1 .. Len(q)
      PROVE  w[i] = q[i]
  <2>1. i \in 1 .. Len(q) + Len(v) /\ i <= Len(q)
    BY <1>1, <1>2
  <2> QED
    BY <1>4, <2>1
<1>7. ASSUME NEW i \in Len(q) + 1 .. Len(q) + Len(u) - Len(p)
      PROVE  w[i] = u[i - Len(q) + Len(p)]
  <2>1. i \in 1 .. Len(q) + Len(v) /\ ~(i <= Len(q)) /\ i - Len(q) \in 1 .. Len(u) - Len(p)
    BY <1>1, <1>2
  <2>2. w[i] = v[i - Len(q)] /\ v[i - Len(q)] = u[Len(p) + (i - Len(q))]
    BY <1>2, <1>4, <2>1
  <2>3. Len(p) + (i - Len(q)) = i - Len(q) + Len(p)
    BY <1>1
  <2> QED
    BY <2>2, <2>3
<1> QED
  BY <1>4, <1>5, <1>6, <1>7, Zenon

\* Swapping there and back; what is swapped is below the new beginning.
LEMMA SwapBack ==
    ASSUME NEW p \in Seq(Name), NEW q \in Seq(Name), NEW u \in Seq(Name), IsPrefix(p, u)
    PROVE  /\ Swap(p, q, u) \in Seq(Name) /\ Len(Swap(p, q, u)) = Len(q) + Len(u) - Len(p)
           /\ IsPrefix(q, Swap(p, q, u)) /\ Swap(q, p, Swap(p, q, u)) = u
<1>1. Len(p) \in Nat /\ Len(q) \in Nat /\ Len(u) \in Nat /\ Len(p) <= Len(u)
  BY LenProperties, PrefixOrder
<1>2. PICK w \in Seq(Name) :
         /\ w = Swap(p, q, u) /\ Len(w) = Len(q) + Len(u) - Len(p)
         /\ \A i \in 1 .. Len(q) : w[i] = q[i]
         /\ \A i \in Len(q) + 1 .. Len(q) + Len(u) - Len(p) : w[i] = u[i - Len(q) + Len(p)]
  BY SwapElements, Zenon
<1>3. IsPrefix(q, w)
  <2>1. Len(q) <= Len(w)
    BY <1>1, <1>2
  <2> QED
    BY <1>2, <2>1, PrefixByElements
<1>4. PICK x \in Seq(Name) :
         /\ x = Swap(q, p, w) /\ Len(x) = Len(p) + Len(w) - Len(q)
         /\ \A i \in 1 .. Len(p) : x[i] = p[i]
         /\ \A i \in Len(p) + 1 .. Len(p) + Len(w) - Len(q) : x[i] = w[i - Len(p) + Len(q)]
  BY <1>3, SwapElements, ZenonT(60)
<1>5. Len(x) = Len(u)
  BY <1>1, <1>2, <1>4
<1>6. ASSUME NEW i \in 1 .. Len(u)
      PROVE  x[i] = u[i]
  <2>1. CASE i <= Len(p)
    <3>1. i \in 1 .. Len(p)
      BY <1>1, <2>1
    <3>2. p[i] = u[i]
      BY <3>1, PrefixByElements
    <3> QED
      BY <1>4, <3>1, <3>2
  <2>2. CASE ~(i <= Len(p))
    <3>1. i \in Len(p) + 1 .. Len(p) + Len(w) - Len(q)
      BY <1>1, <1>2, <2>2
    <3>2. PICK j \in Len(q) + 1 .. Len(q) + Len(u) - Len(p) : j = i - Len(p) + Len(q) /\ j - Len(q) + Len(p) = i
      <4>1. /\ i - Len(p) + Len(q) \in Len(q) + 1 .. Len(q) + Len(u) - Len(p)
            /\ (i - Len(p) + Len(q)) - Len(q) + Len(p) = i
        BY <1>1, <2>2
      <4> QED
        BY <4>1, Zenon
    <3>3. x[i] = w[j] /\ w[j] = u[i]
      BY <1>2, <1>4, <3>1, <3>2
    <3> QED
      BY <3>3
  <2> QED
    BY <2>1, <2>2
<1>7. x = u
  BY <1>5, <1>6, SeqEqual, Zenon
<1> QED
  BY <1>2, <1>3, <1>4, <1>7, Zenon

\* The path itself goes to the new beginning; what is below goes in its directory.
LEMMA SwapUp ==
    ASSUME NEW p \in NonRoot, NEW q \in NonRoot
    PROVE  /\ Swap(p, q, p) = q
           /\ \A u \in NonRoot : IsPrefix(p, Up(u)) =>
                 /\ Swap(p, q, u) \in NonRoot
                 /\ Up(Swap(p, q, u)) = Swap(p, q, Up(u)) /\ End(Swap(p, q, u)) = End(u)
<1>1. p \in Seq(Name) /\ q \in Seq(Name) /\ Len(p) \in Nat \ {0} /\ Len(q) \in Nat \ {0}
  BY UpFacts
<1>2. Swap(p, q, p) = q
  <2>1. IsPrefix(p, p)
    BY <1>1, PrefixByElements
  <2>2. PICK w \in Seq(Name) :
                 /\ w = Swap(p, q, p) /\ Len(w) = Len(q) + Len(p) - Len(p)
                 /\ \A i \in 1 .. Len(q) : w[i] = q[i]
    BY <1>1, <2>1, SwapElements
  <2>3. Len(w) = Len(q)
    BY <1>1, <2>2
  <2>4. w = q
    BY <1>1, <2>2, <2>3, SeqEqual
  <2> QED
    BY <2>2, <2>4
<1>3. ASSUME NEW u \in NonRoot, IsPrefix(p, Up(u))
      PROVE  /\ Swap(p, q, u) \in NonRoot
             /\ Up(Swap(p, q, u)) = Swap(p, q, Up(u)) /\ End(Swap(p, q, u)) = End(u)
  <2>1. PICK v : /\ v = Up(u) /\ v \in Seq(Name) /\ Len(v) = Len(u) - 1 /\ IsPrefix(p, v)
                 /\ \A i \in 1 .. Len(u) - 1 : v[i] = u[i]
    BY <1>3, UpFacts
  <2>2. u \in Seq(Name) /\ Len(u) \in Nat \ {0} /\ IsPrefix(p, u) /\ Len(p) <= Len(v)
    <3>1. IsPrefix(p, u)
      BY <1>3, BelowUp
    <3>2. Len(p) <= Len(v)
      BY <1>1, <2>1, PrefixByElements
    <3> QED
      BY <3>1, <3>2, UpFacts
  <2>3. PICK w \in Seq(Name) :
                 /\ w = Swap(p, q, u) /\ Len(w) = Len(q) + Len(u) - Len(p)
                 /\ \A i \in 1 .. Len(q) : w[i] = q[i]
                 /\ \A i \in Len(q) + 1 .. Len(q) + Len(u) - Len(p) : w[i] = u[i - Len(q) + Len(p)]
    BY <1>1, <2>2, SwapElements, ZenonT(60)
  <2>4. PICK y \in Seq(Name) :
                 /\ y = Swap(p, q, v) /\ Len(y) = Len(q) + Len(v) - Len(p)
                 /\ \A i \in 1 .. Len(q) : y[i] = q[i]
                 /\ \A i \in Len(q) + 1 .. Len(q) + Len(v) - Len(p) : y[i] = v[i - Len(q) + Len(p)]
    <3>1. p \in Seq(Name) /\ q \in Seq(Name) /\ v \in Seq(Name) /\ IsPrefix(p, v)
      BY <1>1, <2>1
    <3> QED
      BY <3>1, SwapElements, ZenonT(60)
  <2>5. w \in NonRoot /\ Len(y) = Len(w) - 1
    <3>1. Len(w) # 0 /\ Len(y) = Len(w) - 1
      BY <1>1, <2>1, <2>2, <2>3, <2>4
    <3> QED
      BY <2>3, <3>1, EmptySeq DEF NonRoot
  <2>6. Up(w) \in Seq(Name) /\ Len(Up(w)) = Len(w) - 1 /\ \A i \in 1 .. Len(w) - 1 : Up(w)[i] = w[i]
    BY <2>5, UpFacts
  <2>7. ASSUME NEW i \in 1 .. Len(y)
        PROVE  Up(w)[i] = y[i]
    <3>1. i \in 1 .. Len(w) - 1
      BY <2>5
    <3>2. CASE i <= Len(q)
      <4>1. i \in 1 .. Len(q)
        BY <1>1, <3>2
      <4> QED
        BY <2>3, <2>4, <2>6, <3>1, <4>1
    <3>3. CASE ~(i <= Len(q))
      <4>1. PICK j : /\ j = i - Len(q) + Len(p) /\ j \in 1 .. Len(u) - 1
                     /\ i \in Len(q) + 1 .. Len(q) + Len(u) - Len(p)
                     /\ i \in Len(q) + 1 .. Len(q) + Len(v) - Len(p)
        BY <1>1, <2>1, <2>2, <2>4, <3>3
      <4>2. w[i] = u[j] /\ y[i] = v[j] /\ v[j] = u[j]
        BY <2>1, <2>3, <2>4, <4>1
      <4> QED
        BY <2>6, <3>1, <4>2
    <3> QED
      BY <3>2, <3>3
  <2>8. Up(w) = y
    BY <2>4, <2>5, <2>6, <2>7, SeqEqual
  <2>9. End(w) = End(u)
    <3>1. /\ Len(w) \in Len(q) + 1 .. Len(q) + Len(u) - Len(p)
          /\ Len(w) - Len(q) + Len(p) = Len(u)
      BY <1>1, <2>1, <2>2, <2>3
    <3>2. w[Len(w)] = u[Len(w) - Len(q) + Len(p)]
      BY <2>3, <3>1
    <3> QED
      BY <3>1, <3>2 DEF End
  <2> QED
    BY <2>1, <2>3, <2>4, <2>5, <2>8, <2>9
<1> QED
  BY <1>2, <1>3

\* Below what is not a directory, or not there, there is nothing.
LEMMA NothingBelow ==
    ASSUME IInv, NEW p \in NonRoot, ~IsDir(Lookup(p)) \/ \A x \in Name : children[Lookup(p)][x] = None
    PROVE  \A s \in Seq(Name) : IsPrefix(p, s) /\ s # p => Lookup(s) = None
<1> DEFINE G == {s \in Seq(Name) : IsPrefix(p, s) /\ s # p => Lookup(s) = None}
<1>1. <<>> \in G
  BY EmptySeq, NotBelowRoot
<1>2. ASSUME NEW s \in NonRoot, Up(s) \in G
      PROVE  s \in G
  <2>1. s \in Seq(Name) /\ Lookup(s) = Step(children, type, Lookup(Up(s)), End(s)) /\ End(s) \in Name
    BY LookupStep
  <2>2. SUFFICES ASSUME IsPrefix(p, s), s # p
                 PROVE  Lookup(s) = None
    BY <2>1
  <2>3. IsPrefix(p, Up(s))
    BY <2>2, BelowUp
  <2>4. CASE Up(s) = p
    BY <2>1, <2>4 DEF Step, IsDir, IsNode
  <2>5. CASE Up(s) # p
    <3>1. Lookup(Up(s)) = None
      BY <1>2, <2>3, <2>5
    <3> QED
      BY <2>1, <3>1 DEF Step
  <2> QED
    BY <2>4, <2>5
<1> HIDE DEF G
<1>3. \A s \in Seq(Name) : s \in G
  BY <1>1, <1>2, PathInduction
<1> QED
  BY <1>3 DEF G

\* A path that is moved, and one it goes to: what rename may be given when
\* callers neither rename directories onto others nor link across them.
Movable(p, q) ==
    /\ p # q /\ Lookup(p) # None /\ Fits(p, q) /\ IsDir(Dirname(q))
    /\ ~IsPrefix(p, q) /\ ~IsPrefix(q, p) /\ ~IsDir(Lookup(q))
    /\ ParentOf(p) = Dirname(p) /\ ParentOf(q) = Dirname(q)
    /\ IsDir(Lookup(p)) \/ ~Linked(p) \/ Dirname(q) = Dirname(p)

LEMMA RenameMoves ==
    ASSUME IInv, ~FarLinks, ~FarMoves, NEW p \in Path, NEW q \in Path, p # q, rename(p, q)
    PROVE  Movable(p, q) /\ (IsDir(Lookup(p)) => Lookup(q) = None)
<1>1. /\ p \in NonRoot /\ q \in NonRoot /\ p \in Seq(Name) /\ q \in Seq(Name)
      /\ Up(q) \in Seq(Name)
  BY Paths, UpFacts
<1>2. PICK n : n = Lookup(p) /\ n # None
  BY DEF rename, IsNode
<1>3. ParentOf(p) = Dirname(p)
  BY <1>1, <1>2, EntryOf
<1>4. IsDir(Dirname(q)) /\ ParentOf(q) = Dirname(q)
  <2>1. CASE Lookup(q) # None
    BY <1>1, <2>1, EntryOf, NodeAssumption DEF IsDir, IsNode
  <2>2. CASE Lookup(q) = None
    BY <2>2 DEF rename, IsNode, ParentOf
  <2> QED
    BY <2>1, <2>2
<1>5. /\ IsDir(Lookup(p)) => Lookup(q) = None /\ ~IsPrefix(p, q)
      /\ ~IsDir(Lookup(p)) => ~Linked(p) \/ ParentOf(q) = ParentOf(p)
      /\ ~IsDir(Lookup(q)) /\ Fits(p, q)
  <2>1. MayRename(p, q) /\ Fits(p, q) /\ ~(IsDir(Lookup(q)) /\ ~IsDir(Lookup(p)))
    BY DEF rename
  <2> QED
    BY <2>1 DEF MayRename, IsNode, IsDir
<1>6. ~IsPrefix(p, q)
  <2>1. SUFFICES ASSUME ~IsDir(Lookup(p)), IsPrefix(p, Up(q))
                 PROVE  FALSE
    BY <1>1, <1>5, BelowUp
  <2>2. CASE Up(q) = p
    BY <1>4, <2>1, <2>2 DEF Dirname
  <2>3. CASE Up(q) # p
    <3>1. Lookup(Up(q)) = None
      BY <1>1, <2>1, <2>3, NothingBelow
    <3> QED
      BY <1>4, <3>1 DEF Dirname, IsDir, IsNode
  <2> QED
    BY <2>2, <2>3
<1>7. ~IsPrefix(q, p)
  BY <1>1, <1>2, <1>5, NothingBelow
<1> QED
  BY <1>2, <1>3, <1>4, <1>5, <1>6, <1>7 DEF Movable

\* Where a path leads to when what was at p is at q.
MovedAt(p, q, s) == IF IsPrefix(q, s) THEN Lookup(Swap(q, p, s)) ELSE IF IsPrefix(p, s) THEN None ELSE Lookup(s)

\* The entries of the tree when what was at p is at q.
Moved(p, q, c) ==
    /\ c \in [AnyNode -> [Name -> Node \cup {None}]]
    /\ c[Dirname(p)][End(p)] = None /\ c[Dirname(q)][End(q)] = Lookup(p)
    /\ \A e \in AnyNode, y \in Name :
          ~(e = Dirname(p) /\ y = End(p)) /\ ~(e = Dirname(q) /\ y = End(q)) => c[e][y] = children[e][y]

LEMMA MovedEntries ==
    ASSUME IInv, NEW p \in Path, NEW q \in Path, Movable(p, q)
    PROVE  Moved(p, q, [Taken(p) EXCEPT ![ParentOf(q)][q[Len(q)]] = Lookup(p)])
<1>1. /\ p \in NonRoot /\ q \in NonRoot /\ Typed(children, type, parent) /\ None \notin AnyNode
      /\ Up(p) \in Seq(Name) /\ Up(q) \in Seq(Name)
  BY Paths, IInvFacts, UpFacts
<1>2. PICK d1, x1, d2, x2, n :
         /\ d1 = Dirname(p) /\ x1 = End(p) /\ d2 = Dirname(q) /\ x2 = End(q) /\ n = Lookup(p)
         /\ d1 \in AnyNode /\ x1 \in Name /\ d2 \in AnyNode /\ x2 \in Name /\ n \in Node /\ type[d1] = "dir"
  <2>1. Dirname(p) \in AnyNode /\ type[Dirname(p)] = "dir" /\ Lookup(p) \in Node
    BY <1>1, EntryOf DEF Movable
  <2>2. Dirname(q) \in AnyNode
    BY <1>1, LookupStep DEF Movable, Dirname, IsDir, IsNode
  <2> QED
    BY <1>1, <2>1, <2>2, UpFacts
<1>3. ~(d1 = d2 /\ x1 = x2)
  <2>1. SUFFICES ASSUME d1 = d2, x1 = x2
                 PROVE  FALSE
    OBVIOUS
  <2>2. Up(p) = Up(q)
    BY <1>1, <1>2, <2>1, LookupOne DEF Dirname
  <2> QED
    BY <1>1, <1>2, <2>1, <2>2, UpAndEnd DEF Movable
<1>4. PICK b : b = Taken(p)
  OBVIOUS
<1>5. /\ b \in [AnyNode -> [Name -> Node \cup {None}]] /\ b[d1][x1] = None
      /\ \A e \in AnyNode, y \in Name : ~(e = d1 /\ y = x1) => b[e][y] = children[e][y]
  <2>1. b = [children EXCEPT ![d1][x1] = None]
    BY <1>2, <1>4 DEF Taken, End, Movable
  <2> QED
    BY <1>1, <1>2, <2>1, SetEntry DEF Typed
<1>6. PICK c : c = [b EXCEPT ![d2][x2] = n]
  OBVIOUS
<1>7. /\ c \in [AnyNode -> [Name -> Node \cup {None}]] /\ c[d2][x2] = n
      /\ \A e \in AnyNode, y \in Name : ~(e = d2 /\ y = x2) => c[e][y] = b[e][y]
  <2>1. /\ b \in [AnyNode -> [Name -> Node \cup {None}]] /\ n \in Node \cup {None}
        /\ d2 \in AnyNode /\ x2 \in Name
    BY <1>2, <1>5
  <2> QED
    BY <1>6, <2>1
<1>8. c[d1][x1] = None
  BY <1>2, <1>3, <1>5, <1>7
<1>9. \A e \in AnyNode, y \in Name : ~(e = d1 /\ y = x1) /\ ~(e = d2 /\ y = x2) => c[e][y] = children[e][y]
  BY <1>5, <1>7
<1>10. c = [Taken(p) EXCEPT ![ParentOf(q)][q[Len(q)]] = Lookup(p)]
  BY <1>2, <1>4, <1>6 DEF End, Movable
<1>11. Moved(p, q, c)
  BY <1>2, <1>7, <1>8, <1>9 DEF Moved
<1> QED
  BY <1>10, <1>11

LEMMA MovedPaths ==
    ASSUME IInv, NEW p \in Path, NEW q \in Path, Movable(p, q), NEW c, Moved(p, q, c)
    PROVE  \A s \in Seq(Name) : Resolve(c, type, s) = MovedAt(p, q, s)
<1> DEFINE G == {s \in Seq(Name) : Resolve(c, type, s) = MovedAt(p, q, s)}
<1>1. /\ p \in NonRoot /\ q \in NonRoot /\ p \in Seq(Name) /\ q \in Seq(Name) /\ None \notin AnyNode
      /\ Up(p) \in Seq(Name) /\ Up(q) \in Seq(Name) /\ \A s : Lookup(s) = Resolve(children, type, s)
  BY Paths, IInvFacts, UpFacts
<1>2. ~IsPrefix(p, q) /\ ~IsPrefix(q, p) /\ p # q
  BY DEF Movable
<1>3. /\ Dirname(p) = Lookup(Up(p)) /\ Dirname(q) = Lookup(Up(q))
      /\ Dirname(p) # None /\ type[Dirname(p)] = "dir" /\ Dirname(q) # None /\ type[Dirname(q)] = "dir"
  BY <1>1, EntryOf DEF Movable, Dirname, IsDir, IsNode
\* A step from a directory other than along p and q is as it was.
<1>4. ASSUME NEW s \in NonRoot, s # p, s # q
      PROVE  Step(c, type, Lookup(Up(s)), End(s)) = Lookup(s)
  <2>1. /\ Lookup(s) = Step(children, type, Lookup(Up(s)), End(s))
        /\ Up(s) \in Seq(Name) /\ End(s) \in Name
        /\ Lookup(Up(s)) # None => Lookup(Up(s)) \in AnyNode
    BY LookupStep
  <2>2. PICK e : e = Lookup(Up(s))
    OBVIOUS
  <2>3. ASSUME e # None, type[e] = "dir", e = Dirname(p), End(s) = End(p)
        PROVE  FALSE
    <3>1. Up(s) = Up(p)
      BY <1>1, <1>3, <2>1, <2>2, <2>3, LookupOne
    <3> QED
      BY <1>1, <1>4, <2>3, <3>1, UpAndEnd
  <2>4. ASSUME e # None, type[e] = "dir", e = Dirname(q), End(s) = End(q)
        PROVE  FALSE
    <3>1. Up(s) = Up(q)
      BY <1>1, <1>3, <2>1, <2>2, <2>4, LookupOne
    <3> QED
      BY <1>1, <1>4, <2>4, <3>1, UpAndEnd
  <2>5. e # None /\ type[e] = "dir" => c[e][End(s)] = children[e][End(s)]
    BY <2>1, <2>2, <2>3, <2>4 DEF Moved
  <2> QED
    BY <2>1, <2>2, <2>5 DEF Step
<1>5. <<>> \in G
  <2>1. ~IsPrefix(p, <<>>) /\ ~IsPrefix(q, <<>>) /\ <<>> \in Seq(Name)
    BY <1>1, NotBelowRoot, EmptySeq
  <2>2. MovedAt(p, q, <<>>) = Lookup(<<>>) /\ Resolve(c, type, <<>>) = Lookup(<<>>)
    BY <1>1, <2>1, ResolveStep DEF MovedAt
  <2> QED
    BY <2>1, <2>2
<1>6. ASSUME NEW s \in NonRoot, Up(s) \in G
      PROVE  s \in G
  <2>1. PICK u : u = Up(s) /\ u \in Seq(Name) /\ Resolve(c, type, u) = MovedAt(p, q, u)
    BY <1>6
  <2>2. s \in Seq(Name) /\ End(s) \in Name
    BY UpFacts
  <2>3. Resolve(c, type, s) = Step(c, type, MovedAt(p, q, u), End(s))
    <3>1. Resolve(c, type, s) = Step(c, type, Resolve(c, type, Up(s)), End(s))
      BY ResolveStep
    <3> QED
      BY <2>1, <3>1, Zenon
  <2>4. /\ IsPrefix(p, s) <=> p = s \/ IsPrefix(p, u)
        /\ IsPrefix(q, s) <=> q = s \/ IsPrefix(q, u)
    BY <1>1, <2>1, BelowUp
  <2>5. CASE IsPrefix(q, u)
    <3>1. PICK z : /\ z = Swap(q, p, s) /\ z \in NonRoot /\ Up(z) = Swap(q, p, u) /\ End(z) = End(s)
      BY <1>1, <2>1, <2>5, SwapUp
    <3>2. IsPrefix(p, Up(z))
      BY <1>1, <2>1, <2>5, <3>1, SwapBack
    <3>3. z # p /\ IsPrefix(p, z)
      BY <1>1, <3>1, <3>2, BelowUp
    <3>4. z # q
      BY <1>2, <3>3
    <3>5. Step(c, type, Lookup(Up(z)), End(z)) = Lookup(z)
      BY <1>4, <3>1, <3>3, <3>4
    <3>6. MovedAt(p, q, u) = Lookup(Up(z)) /\ MovedAt(p, q, s) = Lookup(z)
      BY <2>4, <2>5, <3>1 DEF MovedAt
    <3> QED
      BY <2>2, <2>3, <3>1, <3>5, <3>6
  <2>6. CASE ~IsPrefix(q, u) /\ s = q
    <3>1. ~IsPrefix(p, u)
      BY <1>2, <2>4, <2>6
    <3>2. MovedAt(p, q, u) = Dirname(q)
      BY <1>3, <2>1, <2>6, <3>1 DEF MovedAt
    <3>3. MovedAt(p, q, s) = Lookup(p)
      BY <1>1, <2>4, <2>6, SwapUp DEF MovedAt
    <3>4. Step(c, type, Dirname(q), End(q)) = Lookup(p)
      BY <1>3 DEF Step, Moved
    <3> QED
      BY <2>2, <2>3, <2>6, <3>2, <3>3, <3>4
  <2>7. CASE ~IsPrefix(q, u) /\ s # q /\ IsPrefix(p, u)
    <3>1. MovedAt(p, q, u) = None /\ MovedAt(p, q, s) = None
      BY <2>4, <2>7 DEF MovedAt
    <3> QED
      BY <2>2, <2>3, <3>1 DEF Step
  <2>8. CASE ~IsPrefix(q, u) /\ ~IsPrefix(p, u) /\ s = p
    <3>1. MovedAt(p, q, u) = Dirname(p)
      BY <1>3, <2>1, <2>8 DEF MovedAt
    <3>2. MovedAt(p, q, s) = None
      BY <1>2, <2>4, <2>8 DEF MovedAt
    <3>3. Step(c, type, Dirname(p), End(p)) = None
      BY <1>3 DEF Step, Moved
    <3> QED
      BY <2>2, <2>3, <2>8, <3>1, <3>2, <3>3
  <2>9. CASE ~IsPrefix(q, u) /\ ~IsPrefix(p, u) /\ s # p /\ s # q
    <3>1. MovedAt(p, q, u) = Lookup(u) /\ MovedAt(p, q, s) = Lookup(s)
      BY <2>4, <2>9 DEF MovedAt
    <3>2. Step(c, type, Lookup(Up(s)), End(s)) = Lookup(s)
      BY <1>4, <2>9
    <3> QED
      BY <2>1, <2>2, <2>3, <3>1, <3>2
  <2> QED
    BY <2>5, <2>6, <2>7, <2>8, <2>9
<1> HIDE DEF G
<1>7. \A s \in Seq(Name) : s \in G
  BY <1>5, <1>6, PathInduction
<1> QED
  BY <1>7 DEF G

LEMMA MovedTree ==
    ASSUME IInv, NEW p \in Path, NEW q \in Path, Movable(p, q), NEW c, Moved(p, q, c),
           NEW r, r = NewParent(Lookup(p), q)
    PROVE  Good(c, type, r)
<1>1. /\ p \in NonRoot /\ q \in NonRoot /\ p \in Seq(Name) /\ q \in Seq(Name)
      /\ Up(p) \in Seq(Name) /\ Up(q) \in Seq(Name)
  BY Paths, UpFacts
<1>2. /\ None \notin AnyNode /\ Node \subseteq AnyNode /\ Typed(children, type, parent)
      /\ \A s : Lookup(s) = Resolve(children, type, s)
      /\ \A d \in AnyNode, x \in Name : EntryOK(children, type, parent, d, x)
  BY IInvFacts, AllEntries
<1>3. \A s \in Seq(Name) : Resolve(c, type, s) = MovedAt(p, q, s)
  BY MovedPaths
<1>4. PICK n, d1, d2, x1, x2 :
         /\ n = Lookup(p) /\ n \in Node /\ type[n] # "free" /\ n # None /\ n \in AnyNode
         /\ d1 = Dirname(p) /\ x1 = End(p) /\ d1 \in AnyNode /\ x1 \in Name /\ children[d1][x1] = n
         /\ d2 = Dirname(q) /\ x2 = End(q) /\ d2 \in AnyNode /\ x2 \in Name /\ type[d2] = "dir"
  <2>1. /\ Lookup(p) \in Node /\ type[Lookup(p)] # "free" /\ Dirname(p) \in AnyNode
        /\ children[Dirname(p)][End(p)] = Lookup(p) /\ End(p) \in Name
    BY <1>1, EntryOf DEF Movable
  <2>2. Dirname(q) \in AnyNode /\ type[Dirname(q)] = "dir" /\ End(q) \in Name
    BY <1>1, LookupStep DEF Movable, Dirname, IsDir, IsNode
  <2> QED
    BY <1>2, <2>1, <2>2
<1>5. /\ c \in [AnyNode -> [Name -> Node \cup {None}]] /\ c[d1][x1] = None /\ c[d2][x2] = n
      /\ \A e \in AnyNode, y \in Name : ~(e = d1 /\ y = x1) /\ ~(e = d2 /\ y = x2) => c[e][y] = children[e][y]
  BY <1>4 DEF Moved
<1>6. /\ r \in [AnyNode -> AnyNode \cup {None}] /\ r[n] = d2
      /\ \A e \in AnyNode : e # n => r[e] = parent[e]
  <2>1. r = [parent EXCEPT ![n] = d2]
    BY <1>4 DEF NewParent, Movable
  <2> QED
    BY <1>2, <1>4, <2>1 DEF Typed
<1>7. parent[n] = d1 /\ (type[n] = "dir" => \A y \in Name : children[d1][y] = n => y = x1)
  BY <1>2, <1>4 DEF EntryOK
<1>8. ASSUME NEW e \in AnyNode, NEW y \in Name, children[e][y] = n, type[n] = "dir"
      PROVE  e = d1 /\ y = x1
  <2>1. e = d1
    BY <1>2, <1>4, <1>7, <1>8 DEF EntryOK
  <2> QED
    BY <1>7, <1>8, <2>1
<1>9. ASSUME NEW e \in AnyNode, NEW z \in Name
      PROVE  EntryOK(c, type, r, e, z)
  <2>1. SUFFICES ASSUME c[e][z] # None
                 PROVE  EntryOK(c, type, r, e, z)
    BY DEF EntryOK
  <2>2. CASE e = d2 /\ z = x2
    <3>1. ASSUME type[n] = "dir", NEW y \in Name, c[d2][y] = n
          PROVE  y = x2
      BY <1>4, <1>5, <1>8, <3>1
    <3>2. Resolve(c, type, Up(q)) = d2
      <4>1. ~IsPrefix(q, Up(q)) /\ ~IsPrefix(p, Up(q))
        BY <1>1, BelowUp DEF Movable
      <4>2. MovedAt(p, q, Up(q)) = d2
        BY <1>4, <4>1 DEF MovedAt, Dirname
      <4> QED
        BY <1>1, <1>3, <4>2
    <3> QED
      BY <1>4, <1>5, <1>6, <2>2, <3>1, <3>2 DEF EntryOK
  <2>3. CASE ~(e = d2 /\ z = x2)
    <3>1. ~(e = d1 /\ z = x1) /\ c[e][z] = children[e][z]
      BY <1>5, <2>1, <2>3
    <3>2. PICK a : a = children[e][z] /\ a # None /\ a \in AnyNode
      BY <1>2, <2>1, <3>1 DEF Typed
    <3>3. /\ type[e] = "dir" /\ parent[a] = e /\ type[a] # "free"
          /\ type[a] = "dir" => \A y \in Name : children[e][y] = a => y = z
      BY <1>2, <3>2 DEF EntryOK
    <3>4. PICK s \in Path : End(s) = z /\ Lookup(Up(s)) = e
      BY <1>2, <3>2 DEF EntryOK
    <3>5. s \in NonRoot /\ s \in Seq(Name) /\ Up(s) \in Seq(Name)
      BY Paths, UpFacts
    <3>6. Lookup(s) = a
      <4>1. Lookup(s) = Step(children, type, e, z)
        BY <3>4, <3>5, LookupStep
      <4> QED
        BY <1>2, <3>2, <3>3, <4>1 DEF Step
    <3>7. r[a] = e
      <4>1. CASE a # n
        BY <1>6, <3>2, <3>3, <4>1
      <4>2. CASE a = n
        <5>1. e = d1 /\ type[n] # "dir"
          BY <1>7, <1>8, <3>1, <3>2, <3>3, <4>2
        <5>2. s # p
          BY <1>4, <3>1, <3>4, <5>1
        <5>3. Linked(p)
          BY <1>4, <3>6, <4>2, <5>2 DEF Linked
        <5>4. d2 = d1
          BY <1>4, <5>1, <5>3 DEF Movable, IsDir
        <5> QED
          BY <1>6, <4>2, <5>1, <5>4
      <4> QED
        BY <4>1, <4>2
    <3>8. ASSUME type[a] = "dir", NEW y \in Name, c[e][y] = a
          PROVE  y = z
      <4>1. CASE e = d2 /\ y = x2
        BY <1>5, <1>8, <3>1, <3>2, <3>8, <4>1
      <4>2. CASE ~(e = d2 /\ y = x2)
        <5>1. children[e][y] = a
          BY <1>5, <3>2, <3>8, <4>2
        <5> QED
          BY <3>3, <3>8, <5>1
      <4> QED
        BY <4>1, <4>2
    <3>9. \E w \in Path : End(w) = z /\ Resolve(c, type, Up(w)) = e
      <4>1. CASE IsPrefix(p, Up(s))
        <5>1. PICK w : /\ w = Swap(p, q, s) /\ w \in NonRoot /\ Up(w) = Swap(p, q, Up(s)) /\ End(w) = z
          BY <1>1, <3>4, <3>5, <4>1, SwapUp
        <5>2. IsPrefix(p, s)
          BY <1>1, <3>5, <4>1, BelowUp
        <5>3. Len(w) <= Depth
          <6>1. Len(w) = Len(q) + Len(s) - Len(p)
            BY <1>1, <3>5, <5>1, <5>2, SwapBack
          <6>2. Len(q) + Len(s) - Len(p) <= Depth
            BY <3>2, <3>6, <5>2 DEF Movable, Fits, IsNode
          <6> QED
            BY <6>1, <6>2
        <5>4. w \in Path
          BY <5>1, <5>3, Paths
        <5>5. Up(w) \in Seq(Name) /\ IsPrefix(q, Up(w)) /\ Swap(q, p, Up(w)) = Up(s)
          BY <1>1, <3>5, <4>1, <5>1, SwapBack
        <5>6. MovedAt(p, q, Up(w)) = e
          BY <3>4, <5>5 DEF MovedAt
        <5> QED
          BY <1>3, <5>1, <5>4, <5>5, <5>6
      <4>2. CASE ~IsPrefix(p, Up(s))
        <5>1. ~IsDir(Lookup(q)) /\ IsDir(Lookup(Up(s)))
          BY <1>2, <3>3, <3>4 DEF Movable, IsDir, IsNode
        <5>2. ~IsPrefix(q, Up(s))
          BY <1>1, <3>5, <5>1, NothingBelow DEF IsDir, IsNode
        <5>3. MovedAt(p, q, Up(s)) = e
          BY <3>4, <4>2, <5>2 DEF MovedAt
        <5> QED
          BY <1>3, <3>4, <3>5, <5>3
      <4> QED
        BY <4>1, <4>2
    <3> QED
      BY <3>1, <3>2, <3>3, <3>7, <3>8, <3>9 DEF EntryOK
  <2> QED
    BY <2>2, <2>3
<1>10. Typed(c, type, r)
  BY <1>2, <1>5, <1>6 DEF Typed
<1> QED
  BY <1>9, <1>10 DEF Good

\* Entries that are alike are the same.
LEMMA SameEntries ==
    ASSUME NEW a \in [AnyNode -> [Name -> Node \cup {None}]], NEW b \in [AnyNode -> [Name -> Node \cup {None}]],
           \A e \in AnyNode, y \in Name : a[e][y] = b[e][y]
    PROVE  a = b
<1>1. ASSUME NEW e \in AnyNode
      PROVE  a[e] = b[e]
  <2>1. a[e] \in [Name -> Node \cup {None}] /\ b[e] \in [Name -> Node \cup {None}]
    OBVIOUS
  <2>2. a[e] = [y \in Name |-> a[e][y]] /\ b[e] = [y \in Name |-> b[e][y]]
    BY <2>1
  <2> QED
    BY <2>1
<1> QED
  BY <1>1

\* A path renamed to itself.
LEMMA RenameSame ==
    ASSUME IInv, NEW p \in Path, rename(p, p)
    PROVE  Becomes(children, type, parent)
<1>1. p \in NonRoot /\ Typed(children, type, parent)
  BY Paths, IInvFacts
<1>2. PICK n, d, x : /\ n = Lookup(p) /\ n # None /\ n \in Node /\ n \in AnyNode
                     /\ d = ParentOf(p) /\ d = parent[n] /\ d \in AnyNode /\ x = p[Len(p)] /\ x \in Name
                     /\ children[d][x] = n
  <2>1. Lookup(p) # None
    BY DEF rename, IsNode
  <2>2. ParentOf(p) = parent[Lookup(p)]
    BY <2>1 DEF ParentOf, IsNode
  <2> QED
    BY <1>1, <2>1, <2>2, EntryOf, IInvFacts DEF End
<1>3. Becomes([Taken(p) EXCEPT ![d][x] = n], type, NewParent(n, p))
  BY <1>2 DEF rename
<1>4. NewParent(n, p) = parent
  BY <1>1, <1>2 DEF NewParent, Typed
<1>5. [Taken(p) EXCEPT ![d][x] = n] = children
  <2>1. PICK b : b = [children EXCEPT ![d][x] = None]
    OBVIOUS
  <2>2. PICK c : c = [b EXCEPT ![d][x] = n]
    OBVIOUS
  <2>3. children \in [AnyNode -> [Name -> Node \cup {None}]] /\ n \in Node \cup {None} /\ None \in Node \cup {None}
    BY <1>1, <1>2 DEF Typed
  <2>4. /\ b \in [AnyNode -> [Name -> Node \cup {None}]]
        /\ \A e \in AnyNode, y \in Name : ~(e = d /\ y = x) => b[e][y] = children[e][y]
    BY <1>2, <2>1, <2>3
  <2>5. /\ c \in [AnyNode -> [Name -> Node \cup {None}]] /\ c[d][x] = n
        /\ \A e \in AnyNode, y \in Name : ~(e = d /\ y = x) => c[e][y] = b[e][y]
    BY <1>2, <2>2, <2>3, <2>4, SetEntry, ZenonT(60)
  <2>6. \A e \in AnyNode, y \in Name : c[e][y] = children[e][y]
    BY <1>2, <2>4, <2>5
  <2>7. c = children
    BY <2>3, <2>5, <2>6, SameEntries
  <2>8. b = Taken(p)
    BY <1>2, <2>1 DEF Taken
  <2> QED
    BY <2>2, <2>7, <2>8
<1> QED
  BY <1>3, <1>4, <1>5

-----------------------------------------------------------------------------
(* The operations.  Each puts a good tree in place, and says where its      *)
(* paths lead to.                                                          *)

\* mkdirp, writeFile and symlink.
LEMMA MakeAllStep ==
    ASSUME IInv, NEW p \in Path, NEW k \in {"dir", "file"}, MakeAll(p, k)
    PROVE  \E new, f, at, c, t, r :
              /\ Way(p, new, f, at) /\ Made(p, k, new, f, at, c, t, r)
              /\ Good(c, t, r) /\ Becomes(c, t, r)
              /\ \A s \in Seq(Name) : Resolve(c, t, s) = MadeAt(p, new, f, s)
<1>1. PICK new, f, at, c, t, r : Way(p, new, f, at) /\ Made(p, k, new, f, at, c, t, r) /\ Becomes(c, t, r)
  BY MakeAllMakes
<1>2. Good(c, t, r)
  BY <1>1, MadeTree
<1>3. \A s \in Seq(Name) : Resolve(c, t, s) = MadeAt(p, new, f, s)
  BY <1>1, MadePaths, Paths
<1> QED
  BY <1>1, <1>2, <1>3

\* mkdir and open.
LEMMA MakeStep ==
    ASSUME IInv, NEW p \in Path, NEW k \in {"dir", "file"}, Make(p, k)
    PROVE  /\ Lookup(p) = None /\ IsDir(Dirname(p))
           /\ \E n \in Fresh : \E c, t, r :
                 /\ Good(c, t, r) /\ Becomes(c, t, r) /\ t = [type EXCEPT ![n] = k]
                 /\ \A s \in Seq(Name) : Resolve(c, t, s) = IF s = p THEN n ELSE Lookup(s)
<1>1. Lookup(p) = None /\ IsDir(Dirname(p))
  BY DEF Make, IsNode
<1>2. PICK n \in Fresh : Becomes([children EXCEPT ![Dirname(p)][p[Len(p)]] = n],
                                 [type EXCEPT ![n] = k], [parent EXCEPT ![n] = Dirname(p)])
  BY DEF Make
<1>3. PICK c, t, r : /\ c = [children EXCEPT ![Dirname(p)][p[Len(p)]] = n]
                     /\ t = [type EXCEPT ![n] = k] /\ r = [parent EXCEPT ![n] = Dirname(p)]
  OBVIOUS
<1>4. n \in Node /\ type[n] = "free"
  BY DEF Fresh
<1>5. Good(c, t, r) /\ \A s \in Seq(Name) : Resolve(c, t, s) = IF s = p THEN n ELSE Lookup(s)
  <2>1. Placed(p, n, c, t, r)
    BY <1>1, <1>3, <1>4 DEF Placed
  <2> QED
    BY <2>1, PlacedTree
<1>6. Becomes(c, t, r) /\ t = [type EXCEPT ![n] = k]
  BY <1>2, <1>3, Zenon
<1>7. \E m \in Fresh : \E b, g, h :
         /\ Good(b, g, h) /\ Becomes(b, g, h) /\ g = [type EXCEPT ![m] = k]
         /\ \A s \in Seq(Name) : Resolve(b, g, s) = IF s = p THEN m ELSE Lookup(s)
  <2> WITNESS n \in Fresh
  <2> WITNESS c, t, r
  <2> QED
    BY <1>5, <1>6
<1> QED
  BY <1>1, <1>7

\* rmdir and unlink.
LEMMA TakeStep ==
    ASSUME IInv, NEW p \in Path, rmdir(p) \/ unlink(p)
    PROVE  /\ Lookup(p) # None /\ (~IsDir(Lookup(p)) \/ \A x \in Name : children[Lookup(p)][x] = None)
           /\ \E c : /\ Good(c, type, parent) /\ Becomes(c, type, parent)
                     /\ \A s \in Seq(Name) : Resolve(c, type, s) = IF s = p THEN None ELSE Lookup(s)
<1>1. p \in NonRoot
  BY Paths
<1>2. /\ Lookup(p) # None
      /\ Becomes([children EXCEPT ![ParentOf(p)][p[Len(p)]] = None], type, parent)
      /\ ~IsDir(Lookup(p)) \/ children[Lookup(p)] = NoEntries
  BY DEF rmdir, unlink, IsDir, IsNode
<1>3. \A x \in Name : children[Lookup(p)][x] = None
  <2>1. CASE children[Lookup(p)] = NoEntries
    BY <2>1 DEF NoEntries
  <2>2. CASE ~IsDir(Lookup(p))
    <3>1. Lookup(p) \in AnyNode /\ type[Lookup(p)] # "dir"
      BY <1>1, <1>2, <2>2, EntryOf, IInvFacts DEF IsDir, IsNode
    <3> QED
      BY <3>1, IInvFacts, AllEntries DEF EntryOK
  <2> QED
    BY <1>2, <2>1, <2>2
<1>4. PICK c : c = [children EXCEPT ![ParentOf(p)][p[Len(p)]] = None]
  OBVIOUS
<1>5. Good(c, type, parent) /\ \A s \in Seq(Name) : Resolve(c, type, s) = IF s = p THEN None ELSE Lookup(s)
  BY <1>1, <1>2, <1>3, <1>4, TakenTree
<1> QED
  BY <1>2, <1>3, <1>4, <1>5

LEMMA LinkStep ==
    ASSUME IInv, ~FarLinks, NEW p \in Path, NEW q \in Path, link(p, q)
    PROVE  /\ Lookup(p) # None /\ ~IsDir(Lookup(p)) /\ Lookup(q) = None /\ IsDir(Dirname(q))
           /\ \E c : /\ Good(c, type, parent) /\ Becomes(c, type, parent)
                     /\ \A s \in Seq(Name) : Resolve(c, type, s) = IF s = q THEN Lookup(p) ELSE Lookup(s)
<1>1. p \in NonRoot
  BY Paths
<1>2. /\ Lookup(p) # None /\ ~IsDir(Lookup(p)) /\ Lookup(q) = None /\ IsDir(Dirname(q))
      /\ Dirname(q) = ParentOf(p)
      /\ Becomes([children EXCEPT ![Dirname(q)][q[Len(q)]] = Lookup(p)], type, parent)
  BY DEF link, IsNode
<1>3. Lookup(p) \in Node /\ type[Lookup(p)] = "file" /\ parent[Lookup(p)] = Dirname(q)
  <2>1. Lookup(p) \in Node /\ type[Lookup(p)] # "free" /\ parent[Lookup(p)] = ParentOf(p)
    BY <1>1, <1>2, EntryOf DEF ParentOf, IsNode
  <2>2. type[Lookup(p)] \in {"free", "dir", "file"}
    BY <2>1, IInvFacts DEF Typed
  <2> QED
    BY <1>2, <2>1, <2>2 DEF IsDir, IsNode
<1>4. PICK c, v : c = [children EXCEPT ![Dirname(q)][q[Len(q)]] = v] /\ v = Lookup(p) /\ v \in Node
  BY <1>3
<1>5. Good(c, type, parent) /\ \A s \in Seq(Name) : Resolve(c, type, s) = IF s = q THEN v ELSE Lookup(s)
  <2>1. Placed(q, v, c, type, parent)
    BY <1>2, <1>3, <1>4 DEF Placed
  <2> QED
    BY <2>1, PlacedTree
<1>6. Becomes(c, type, parent)
  BY <1>2, <1>4, Zenon
<1> QED
  BY <1>2, <1>4, <1>5, <1>6, Zenon

LEMMA RenameStep ==
    ASSUME IInv, ~FarLinks, ~FarMoves, NEW p \in Path, NEW q \in Path, p # q, rename(p, q)
    PROVE  /\ Movable(p, q) /\ (IsDir(Lookup(p)) => Lookup(q) = None)
           /\ \E c, r : /\ Good(c, type, r) /\ Becomes(c, type, r)
                        /\ \A s \in Seq(Name) : Resolve(c, type, s) = MovedAt(p, q, s)
<1>1. Movable(p, q) /\ (IsDir(Lookup(p)) => Lookup(q) = None)
  BY RenameMoves
<1>2. PICK c, r : /\ c = [Taken(p) EXCEPT ![ParentOf(q)][q[Len(q)]] = Lookup(p)] /\ r = NewParent(Lookup(p), q)
                  /\ Becomes(c, type, r)
  BY DEF rename
<1>3. Moved(p, q, c)
  BY <1>1, <1>2, MovedEntries
<1>4. Good(c, type, r) /\ \A s \in Seq(Name) : Resolve(c, type, s) = MovedAt(p, q, s)
  BY <1>1, <1>2, <1>3, MovedTree, MovedPaths
<1> QED
  BY <1>1, <1>2, <1>4

\* Every operation leaves a tree.
LEMMA NextIInv ==
    ASSUME IInv, ~FarLinks, ~FarMoves, [Next]_vars
    PROVE  IInv'
<1>1. CASE UNCHANGED vars
  <2>1. Good(children', type', parent') /\ Clean(children', type')
    BY <1>1, IInvFacts DEF vars
  <2> QED
    BY <2>1 DEF IInv, Good, Clean, Typed, EntryOK, Live, Resolve
<1>2. ASSUME NEW p \in Path, mkdirp(p) \/ writeFile(p) \/ symlink(p)
      PROVE  IInv'
  <2>1. \E k \in {"dir", "file"} : MakeAll(p, k)
    BY <1>2 DEF mkdirp, writeFile, symlink
  <2> QED
    BY <2>1, MakeAllStep, BecomesKeeps
<1>3. ASSUME NEW p \in Path, mkdir(p) \/ open(p)
      PROVE  IInv'
  <2>1. \E k \in {"dir", "file"} : Make(p, k)
    BY <1>3 DEF mkdir, open
  <2> QED
    BY <2>1, MakeStep, BecomesKeeps
<1>4. ASSUME NEW p \in Path, rmdir(p) \/ unlink(p)
      PROVE  IInv'
  BY <1>4, TakeStep, BecomesKeeps
<1>5. ASSUME NEW p \in Path, NEW q \in Path, rename(p, q)
      PROVE  IInv'
  <2>1. CASE p = q
    BY <1>5, <2>1, RenameSame, BecomesKeeps, IInvFacts
  <2>2. CASE p # q
    BY <1>5, <2>2, RenameStep, BecomesKeeps
  <2> QED
    BY <2>1, <2>2
<1>6. ASSUME NEW p \in Path, NEW q \in Path, link(p, q)
      PROVE  IInv'
  BY <1>6, LinkStep, BecomesKeeps
<1> QED
  BY <1>1, <1>2, <1>3, <1>4, <1>5, <1>6 DEF Next

\* The parent fields, the entries and the paths of the nodes stay those of one
\* tree, and nodes that no path leads to are free, as long as callers keep the
\* links of a file in one directory and rename directories to free paths.
THEOREM TreeInvariance ==
    ASSUME ~FarLinks, ~FarMoves
    PROVE  Spec => []IInv
<1>1. Init => IInv
  BY InitIInv
<1>2. IInv /\ [Next]_vars => IInv'
  BY NextIInv
<1> QED
  BY <1>1, <1>2, PTL DEF Spec

\* The operations that take an entry out of a directory by way of the parent
\* field find the entry they mean, and no directory is reached on two paths, so
\* none is below itself (VFS.rename, unlink, rmdir in src/src/vfs.js).
THEOREM NodesAlwaysFormATree ==
    ASSUME ~FarLinks, ~FarMoves
    PROVE  Spec => []NodesFormATree
<1>1. IInv => NodesFormATree
  BY TreeFromIInv
<1> QED
  BY <1>1, TreeInvariance, PTL

-----------------------------------------------------------------------------
(* The nodes implement the tree of paths.                                  *)

\* Where the paths lead to, as PathTree sees it.
View == [p \in Found |-> [node |-> Lookup(p), type |-> type[Lookup(p)]]]

LEMMA ViewFacts ==
    /\ DOMAIN View = Found
    /\ \A p \in Found : /\ View[p] = [node |-> Lookup(p), type |-> type[Lookup(p)]]
                        /\ View[p].node = Lookup(p) /\ View[p].type = type[Lookup(p)]
BY DEF View

\* The predicates of PathTree, in terms of the nodes.
LEMMA TreeWords ==
    ASSUME IInv
    PROVE  /\ Tree!Path = Path
           /\ \A p \in Path : Tree!Exists(p) <=> Lookup(p) # None
           /\ \A p \in Path : Tree!IsDir(p) <=> IsDir(Lookup(p))
           /\ \A p \in Path : IsDir(Dirname(p)) => Tree!IsDir(Tree!Up(p))
           /\ \A p : Tree!Below(p) = {q \in Path : IsPrefix(p, q) /\ Lookup(q) # None}
           /\ Fresh \subseteq Node \ Tree!Used
<1>1. Tree!Path = Path
  BY DEF Tree!Path, Path
<1>2. \A p : Tree!Exists(p) <=> p \in Path /\ Lookup(p) # None
  BY ViewFacts DEF Tree!Exists, View, Found, IsNode
<1>3. \A p : Tree!IsDir(p) <=> p = <<>> \/ (p \in Path /\ IsDir(Lookup(p)))
  <2>1. ASSUME NEW p, p \in Found
        PROVE  View[p].type = "dir" <=> IsDir(Lookup(p))
    BY <2>1, ViewFacts DEF Found, IsDir
  <2>2. \A p : Tree!IsDir(p) <=> p = <<>> \/ (Tree!Exists(p) /\ View[p].type = "dir")
    BY DEF Tree!IsDir, View
  <2> QED
    BY <1>2, <2>1, <2>2 DEF Found, IsNode, IsDir
<1>4. \A p \in Path : p # <<>>
  BY Paths DEF NonRoot
<1>5. ASSUME NEW p \in Path, IsDir(Dirname(p))
      PROVE  Tree!IsDir(Tree!Up(p))
  <2>1. Tree!Up(p) = Up(p)
    BY DEF Tree!Up, Up
  <2>2. p \in NonRoot
    BY Paths
  <2>3. Up(p) \in Seq(Name) /\ Lookup(Up(p)) # None /\ IsDir(Lookup(Up(p)))
    BY <1>5, <2>2, UpFacts DEF Dirname, IsDir, IsNode
  <2>4. CASE Up(p) # <<>>
    <3>1. Up(p) \in Path
      BY <2>3, <2>4, EntryOf DEF NonRoot
    <3> QED
      BY <1>3, <2>1, <2>3, <3>1
  <2> QED
    BY <1>3, <2>1, <2>4
<1>6. \A p : Tree!Below(p) = {q \in Path : IsPrefix(p, q) /\ Lookup(q) # None}
  <2> SUFFICES ASSUME NEW p
               PROVE  Tree!Below(p) = {q \in Path : IsPrefix(p, q) /\ Lookup(q) # None}
    OBVIOUS
  <2>1. Tree!Below(p) = {q \in DOMAIN View : IsPrefix(p, q)}
    BY Zenon DEF Tree!Below, View, Tree!IsPrefix, IsPrefix
  <2> QED
    BY <2>1, ViewFacts DEF Found, IsNode
<1>7. Fresh \subseteq Node \ Tree!Used
  <2>1. Tree!Used = {View[q].node : q \in DOMAIN View}
    BY DEF Tree!Used, View
  <2>2. \A q \in Found : type[View[q].node] # "free"
    BY ViewFacts, EntryOf, Paths DEF Found, IsNode
  <2> QED
    BY <2>1, <2>2, ViewFacts DEF Fresh
<1> QED
  BY <1>1, <1>2, <1>3, <1>4, <1>5, <1>6, <1>7

\* A new tree changes where the paths lead to as Set says.
LEMMA ViewSet ==
    ASSUME IInv, NEW ch, NEW ty, NEW par, Good(ch, ty, par), Becomes(ch, ty, par),
           NEW f, NEW P \in SUBSET Path, NEW Gone,
           \A s \in P : /\ Resolve(ch, ty, s) # None
                        /\ f[s] = [node |-> Resolve(ch, ty, s), type |-> ty[Resolve(ch, ty, s)]],
           \A s \in Path \ P : s \in Gone => Resolve(ch, ty, s) = None,
           \A s \in Path \ P : s \notin Gone =>
               /\ Resolve(ch, ty, s) = Lookup(s)
               /\ Lookup(s) # None => ty[Lookup(s)] = type[Lookup(s)]
    PROVE  Tree!Set(f, P, Gone)
<1>1. /\ \A s \in Path : s \in Seq(Name)
      /\ \A s \in Seq(Name) : Resolve(children', type', s) = Resolve(ch, ty, s)
      /\ \A n \in Live(ch, ty) \cap AnyNode : type'[n] = ty[n]
  BY BecomesKeeps, Paths DEF NonRoot
<1> DEFINE D == {s \in Path : Resolve(ch, ty, s) # None}
           V(s) == [node |-> Resolve(ch, ty, s), type |-> ty[Resolve(ch, ty, s)]]
<1>2. View' = [s \in D |-> V(s)]
  <2>1. View' = [s \in {s \in Path : Resolve(children', type', s) # None} |->
                   [node |-> Resolve(children', type', s), type |-> type'[Resolve(children', type', s)]]]
    BY DEF View, Found, IsNode, Lookup, Resolve
  <2>2. {s \in Path : Resolve(children', type', s) # None} = D
    BY <1>1
  <2>3. ASSUME NEW s \in D
        PROVE  [node |-> Resolve(children', type', s), type |-> type'[Resolve(children', type', s)]] = V(s)
    <3>1. Resolve(children', type', s) = Resolve(ch, ty, s)
      BY <1>1
    <3>2. Resolve(ch, ty, s) \in Live(ch, ty) \cap AnyNode
      BY <1>1, ResolveLive
    <3> QED
      BY <1>1, <3>1, <3>2
  <2> QED
    BY <2>1, <2>2, <2>3
<1>3. D = (DOMAIN View \ Gone) \cup P
  <2>1. DOMAIN View = {s \in Path : Lookup(s) # None}
    BY ViewFacts DEF Found, IsNode
  <2> QED
    BY <2>1
<1>4. ASSUME NEW s \in D
      PROVE  V(s) = IF s \in P THEN f[s] ELSE View[s]
  <2>1. CASE s \in P
    BY <2>1
  <2>2. CASE s \notin P
    <3>1. s \notin Gone /\ Resolve(ch, ty, s) = Lookup(s) /\ ty[Lookup(s)] = type[Lookup(s)] /\ s \in Found
      BY <2>2 DEF Found, IsNode
    <3> QED
      BY <2>2, <3>1, ViewFacts
  <2> QED
    BY <2>1, <2>2
<1> HIDE DEF D, V
<1>5. View' = [q \in (DOMAIN View \ Gone) \cup P |-> IF q \in P THEN f[q] ELSE View[q]]
  BY <1>2, <1>3, <1>4
<1> QED
  BY <1>5 DEF Tree!Set, View

\* A path leads to a node in use: its type is that of the state, whatever
\* becomes of the free nodes.
LEMMA FoundInUse ==
    ASSUME IInv, NEW s \in Path, Lookup(s) # None
    PROVE  Lookup(s) \in AnyNode /\ type[Lookup(s)] # "free"
BY EntryOf, Paths, IInvFacts

\* mkdir and open create.
LEMMA MakeCreates ==
    ASSUME IInv, NEW p \in Path, NEW k \in {"dir", "file"}, Make(p, k)
    PROVE  Tree!Create(p, k)
<1>1. PICK n \in Fresh : \E c, t, r :
         /\ Good(c, t, r) /\ Becomes(c, t, r) /\ t = [type EXCEPT ![n] = k]
         /\ \A s \in Seq(Name) : Resolve(c, t, s) = IF s = p THEN n ELSE Lookup(s)
  BY MakeStep
<1>2. PICK c, t, r :
         /\ Good(c, t, r) /\ Becomes(c, t, r) /\ t = [type EXCEPT ![n] = k]
         /\ \A s \in Seq(Name) : Resolve(c, t, s) = IF s = p THEN n ELSE Lookup(s)
  BY <1>1
<1>3. n \in AnyNode /\ n # None /\ type[n] = "free" /\ type \in [AnyNode -> {"free", "dir", "file"}]
  BY IInvFacts DEF Fresh, Typed
<1>4. t[n] = k /\ \A e \in AnyNode : e # n => t[e] = type[e]
  BY <1>2, <1>3
<1>5. PICK f : f = [q \in {p} |-> [node |-> n, type |-> k]]
  OBVIOUS
<1>6. Tree!Set(f, {p}, {})
  <2>1. \A s \in Path : s \in Seq(Name)
    BY Paths DEF NonRoot
  <2>2. \A s \in {p} : /\ Resolve(c, t, s) # None
                       /\ f[s] = [node |-> Resolve(c, t, s), type |-> t[Resolve(c, t, s)]]
    BY <1>2, <1>3, <1>4, <1>5, <2>1
  <2>3. \A s \in Path \ {p} : s \in {} => Resolve(c, t, s) = None
    OBVIOUS
  <2>4. \A s \in Path \ {p} : s \notin {} =>
               /\ Resolve(c, t, s) = Lookup(s)
               /\ Lookup(s) # None => t[Lookup(s)] = type[Lookup(s)]
    BY <1>2, <1>3, <1>4, <2>1, FoundInUse
  <2>5. {p} \in SUBSET Path
    OBVIOUS
  <2> QED
    BY <1>2, <2>2, <2>3, <2>4, <2>5, ViewSet
<1>7. ~Tree!Exists(p) /\ Tree!IsDir(Tree!Up(p)) /\ n \in Node \ Tree!Used
  BY MakeStep, TreeWords
<1>8. Tree!Set([q \in {p} |-> Tree!Target(n, k)], {p}, {})
  BY <1>5, <1>6, Zenon DEF Tree!Target
<1> QED
  BY <1>7, <1>8, Zenon DEF Tree!Create

\* rmdir and unlink delete.
LEMMA TakeDeletes ==
    ASSUME IInv, NEW p \in Path, rmdir(p) \/ unlink(p)
    PROVE  Tree!Delete(p)
<1>1. PICK c : /\ Good(c, type, parent) /\ Becomes(c, type, parent)
               /\ \A s \in Seq(Name) : Resolve(c, type, s) = IF s = p THEN None ELSE Lookup(s)
  BY TakeStep
<1>2. p \in NonRoot /\ p \in Seq(Name) /\ \A s \in Path : s \in Seq(Name)
  BY Paths DEF NonRoot
<1>3. Tree!Set(View, {}, {p})
  <2>1. \A s \in {} : /\ Resolve(c, type, s) # None
                      /\ View[s] = [node |-> Resolve(c, type, s), type |-> type[Resolve(c, type, s)]]
    OBVIOUS
  <2>2. \A s \in Path \ {} : s \in {p} => Resolve(c, type, s) = None
    BY <1>1, <1>2
  <2>3. \A s \in Path \ {} : s \notin {p} =>
               /\ Resolve(c, type, s) = Lookup(s)
               /\ Lookup(s) # None => type[Lookup(s)] = type[Lookup(s)]
    BY <1>1, <1>2
  <2>4. {} \in SUBSET Path
    OBVIOUS
  <2> QED
    BY <1>1, <2>1, <2>2, <2>3, <2>4, ViewSet
<1>4. Tree!Below(p) = {p}
  <2>1. Lookup(p) # None /\ \A s \in Seq(Name) : IsPrefix(p, s) /\ s # p => Lookup(s) = None
    BY <1>2, TakeStep, NothingBelow
  <2>2. IsPrefix(p, p)
    BY <1>2, PrefixByElements
  <2>3. Tree!Below(p) = {q \in Path : IsPrefix(p, q) /\ Lookup(q) # None}
    BY TreeWords
  <2> QED
    BY <1>2, <2>1, <2>2, <2>3
<1> QED
  BY <1>3, <1>4, Zenon DEF Tree!Delete, View

\* link links.
LEMMA LinkLinks ==
    ASSUME IInv, ~FarLinks, NEW p \in Path, NEW q \in Path, link(p, q)
    PROVE  Tree!Link(p, q)
<1>1. PICK c : /\ Good(c, type, parent) /\ Becomes(c, type, parent)
               /\ \A s \in Seq(Name) : Resolve(c, type, s) = IF s = q THEN Lookup(p) ELSE Lookup(s)
  BY LinkStep
<1>2. Lookup(p) # None /\ ~IsDir(Lookup(p)) /\ Lookup(q) = None /\ IsDir(Dirname(q))
  BY LinkStep
<1>3. PICK f : f = [r \in {q} |-> View[p]]
  OBVIOUS
<1>4. Tree!Set(f, {q}, {})
  <2>1. \A s \in Path : s \in Seq(Name)
    BY Paths DEF NonRoot
  <2>2. View[p] = [node |-> Lookup(p), type |-> type[Lookup(p)]]
    BY <1>2, ViewFacts DEF Found, IsNode
  <2>3. \A s \in {q} : /\ Resolve(c, type, s) # None
                       /\ f[s] = [node |-> Resolve(c, type, s), type |-> type[Resolve(c, type, s)]]
    BY <1>1, <1>2, <1>3, <2>1, <2>2
  <2>4. \A s \in Path \ {q} : s \in {} => Resolve(c, type, s) = None
    OBVIOUS
  <2>5. \A s \in Path \ {q} : s \notin {} =>
               /\ Resolve(c, type, s) = Lookup(s)
               /\ Lookup(s) # None => type[Lookup(s)] = type[Lookup(s)]
    BY <1>1, <2>1
  <2>6. {q} \in SUBSET Path
    OBVIOUS
  <2> QED
    BY <1>1, <2>3, <2>4, <2>5, <2>6, ViewSet
<1>5. Tree!Exists(p) /\ ~Tree!IsDir(p) /\ ~Tree!Exists(q) /\ Tree!IsDir(Tree!Up(q))
  BY <1>2, TreeWords
<1> QED
  BY <1>3, <1>4, <1>5, Zenon DEF Tree!Link, View

\* mkdirp, writeFile and symlink create all.
LEMMA MakeAllCreates ==
    ASSUME IInv, NEW p \in Path, NEW k \in {"dir", "file"}, MakeAll(p, k)
    PROVE  Tree!CreateAll(p, k)
<1>1. PICK new, f, at, c, t, r :
         /\ Way(p, new, f, at) /\ Made(p, k, new, f, at, c, t, r)
         /\ Good(c, t, r) /\ Becomes(c, t, r)
         /\ \A s \in Seq(Name) : Resolve(c, t, s) = MadeAt(p, new, f, s)
  BY MakeAllStep
<1>2. p \in NonRoot /\ p \in Seq(Name) /\ Len(p) \in Nat \ {0}
  BY Paths, UpFacts
<1>3. \A s \in Path : s \in NonRoot /\ s \in Seq(Name) /\ Len(s) \in Nat \ {0}
  BY Paths, UpFacts
<1>4. ASSUME NEW s \in Path
      PROVE  IsPrefix(s, p) <=> Len(s) \in 1 .. Len(p) /\ s = Pre(p, Len(s))
  <2>1. SubSeq(s, 1, Len(s)) = s
    BY <1>3, SubSeqFull
  <2>2. Len(s) <= Len(p) <=> Len(s) \in 1 .. Len(p)
    BY <1>2, <1>3
  <2> QED
    BY <2>1, <2>2, Zenon DEF IsPrefix, Pre
<1> DEFINE way == {q \in Path : IsPrefix(q, p) /\ (q = p \/ Lookup(q) = None)}
           F == [q \in way |-> f[Len(q)]]
           E == [q \in way |-> [node |-> f[Len(q)], type |-> IF q = p THEN k ELSE "dir"]]
<1>5. /\ \A s \in Path : s \in way <=> Len(s) \in new /\ s = Pre(p, Len(s))
      /\ \A s \in Path : s \in way => (Len(s) = Len(p) <=> s = p)
  <2>1. ASSUME NEW s \in Path, s = Pre(p, Len(s))
        PROVE  Len(s) = Len(p) <=> s = p
    BY <1>2, <2>1, PreFacts
  <2> QED
    BY <1>1, <1>4, <2>1 DEF Way
<1>6. /\ \A i \in new : i \in 1 .. Len(p) /\ f[i] \in Fresh /\ f[i] \in AnyNode /\ f[i] # None
  <2>1. \A i \in new : i \in 1 .. Len(p) /\ f[i] \in Fresh
    BY <1>1 DEF Way
  <2> QED
    BY <2>1, IInvFacts DEF Fresh
<1>7. Fresh \subseteq Node \ Tree!Used
  BY TreeWords
<1>8. F \in [way -> Node \ Tree!Used] /\ \A q, s \in way : F[q] = F[s] => q = s
  <2>1. \A q \in way : q \in Path /\ Len(q) \in new /\ q = Pre(p, Len(q))
    BY <1>5
  <2> HIDE DEF way
  <2>2. \A q \in way : F[q] = f[Len(q)] /\ F[q] \in Node \ Tree!Used
    BY <1>6, <1>7, <2>1
  <2>3. ASSUME NEW q \in way, NEW s \in way, F[q] = F[s]
        PROVE  q = s
    <3>1. Len(q) = Len(s)
      BY <1>1, <2>1, <2>2, <2>3 DEF Way
    <3> QED
      BY <2>1, <3>1
  <2> QED
    BY <2>2, <2>3
<1>9. Tree!Set(E, way, Tree!Below(p))
  <2>1. Tree!Below(p) = {q \in Path : IsPrefix(p, q) /\ Lookup(q) # None}
    BY TreeWords
  <2>2. way \in SUBSET Path
    OBVIOUS
  <2>3. ASSUME NEW s \in way
        PROVE  /\ Resolve(c, t, s) # None
               /\ E[s] = [node |-> Resolve(c, t, s), type |-> t[Resolve(c, t, s)]]
    <3>1. Len(s) \in new /\ s = Pre(p, Len(s)) /\ s \in Path /\ (Len(s) = Len(p) <=> s = p)
      BY <1>5
    <3>2. Resolve(c, t, s) = f[Len(s)]
      BY <1>1, <1>3, <3>1 DEF MadeAt
    <3>3. t[f[Len(s)]] = IF s = p THEN k ELSE "dir"
      BY <1>1, <3>1 DEF Made
    <3>4. E[s] = [node |-> f[Len(s)], type |-> IF s = p THEN k ELSE "dir"]
      <4> HIDE DEF way
      <4> QED
        OBVIOUS
    <3> QED
      BY <1>6, <3>1, <3>2, <3>3, <3>4
  <2>4. ASSUME NEW s \in Path \ way
        PROVE  Resolve(c, t, s) = IF IsPrefix(p, s) THEN None ELSE Lookup(s)
    BY <1>1, <1>3, <1>5 DEF MadeAt
  <2>5. ASSUME NEW s \in Path \ way, s \notin Tree!Below(p)
        PROVE  /\ Resolve(c, t, s) = Lookup(s)
               /\ Lookup(s) # None => t[Lookup(s)] = type[Lookup(s)]
    <3>1. Resolve(c, t, s) = Lookup(s)
      BY <2>1, <2>4, <2>5
    <3>2. Lookup(s) # None => t[Lookup(s)] = type[Lookup(s)]
      BY <1>1, FoundInUse DEF Made
    <3> QED
      BY <3>1, <3>2
  <2>6. \A s \in Path \ way : s \in Tree!Below(p) => Resolve(c, t, s) = None
    BY <2>1, <2>4
  <2> HIDE DEF E, way
  <2> QED
    BY <1>1, <2>2, <2>3, <2>5, <2>6, ViewSet
<1>10. \A q \in Path : IsPrefix(q, p) /\ q # p /\ Lookup(q) # None => IsDir(Lookup(q))
  <2>1. ASSUME NEW q \in Path, IsPrefix(q, p), q # p, Lookup(q) # None
        PROVE  IsDir(Lookup(q))
    <3>1. Len(q) \in 1 .. Len(p) /\ q = Pre(p, Len(q))
      BY <1>4, <2>1
    <3>2. Len(q) \in 1 .. Len(p) - 1
      <4>1. Len(q) # Len(p)
        BY <1>2, <2>1, <3>1, PreFacts
      <4> QED
        BY <1>2, <3>1, <4>1
    <3> QED
      BY <1>1, <2>1, <3>1, <3>2 DEF Way, IsDir, IsNode
  <2> QED
    BY <2>1
<1>11. /\ \A q \in Tree!Path : Tree!IsPrefix(q, p) /\ q # p /\ Tree!Exists(q) => Tree!IsDir(q)
       /\ {q \in Tree!Path : Tree!IsPrefix(q, p) /\ (q = p \/ ~Tree!Exists(q))} = way
  <2>1. \A q : Tree!IsPrefix(q, p) <=> IsPrefix(q, p)
    BY Zenon DEF Tree!IsPrefix, IsPrefix
  <2> QED
    BY <1>10, <2>1, TreeWords
<1>12. E = [q \in way |-> Tree!Target(F[q], IF q = p THEN k ELSE "dir")]
  <2> HIDE DEF way
  <2>1. \A q \in way : F[q] = f[Len(q)]
    OBVIOUS
  <2> QED
    BY <2>1 DEF Tree!Target
<1> HIDE DEF way, F, E
<1> QED
  BY <1>8, <1>9, <1>11, <1>12, Zenon DEF Tree!CreateAll

\* rename moves.
LEMMA RenameMovesPaths ==
    ASSUME IInv, ~FarLinks, ~FarMoves, NEW p \in Path, NEW q \in Path, p # q, rename(p, q)
    PROVE  Tree!Move(p, q)
<1>1. PICK c, r : /\ Good(c, type, r) /\ Becomes(c, type, r)
                  /\ \A s \in Seq(Name) : Resolve(c, type, s) = MovedAt(p, q, s)
  BY RenameStep
<1>2. Movable(p, q) /\ (IsDir(Lookup(p)) => Lookup(q) = None)
  BY RenameStep
<1>3. p \in NonRoot /\ q \in NonRoot /\ p \in Seq(Name) /\ q \in Seq(Name) /\ Len(p) \in Nat /\ Len(q) \in Nat
  BY Paths, UpFacts
<1>4. \A s \in Path : s \in NonRoot /\ s \in Seq(Name)
  BY Paths DEF NonRoot
<1> DEFINE B == {s \in Path : IsPrefix(p, s) /\ Lookup(s) # None}
           new == {Swap(p, q, s) : s \in B}
           E == [s \in new |-> View[Swap(q, p, s)]]
<1>5. ASSUME NEW s \in B
      PROVE  /\ Swap(p, q, s) \in Path /\ Swap(p, q, s) \in Seq(Name)
             /\ IsPrefix(q, Swap(p, q, s)) /\ Swap(q, p, Swap(p, q, s)) = s
  <2>1. PICK w : /\ w = Swap(p, q, s) /\ w \in Seq(Name) /\ Len(w) = Len(q) + Len(s) - Len(p)
                 /\ IsPrefix(q, w) /\ Swap(q, p, w) = s
    BY <1>3, <1>4, SwapBack
  <2>2. Len(w) <= Depth
    BY <1>2, <2>1 DEF Movable, Fits, IsNode
  <2>3. w # <<>>
    BY <1>3, <2>1, NotBelowRoot
  <2>4. w \in Path
    BY <2>1, <2>2, <2>3, Paths DEF NonRoot
  <2> QED
    BY <2>1, <2>4
\* What is below q was below p.
<1>6. ASSUME NEW s \in Path, IsPrefix(q, s), s \notin new
      PROVE  MovedAt(p, q, s) = None
  <2>1. PICK w : /\ w = Swap(q, p, s) /\ w \in Seq(Name) /\ IsPrefix(p, w) /\ Swap(p, q, w) = s
    BY <1>3, <1>4, <1>6, SwapBack
  <2>2. ASSUME Lookup(w) # None
        PROVE  FALSE
    <3>1. w # <<>>
      BY <1>3, <2>1, NotBelowRoot
    <3>2. w \in Path
      BY <2>1, <2>2, <3>1, EntryOf DEF NonRoot
    <3> QED
      BY <1>6, <2>1, <2>2, <3>2
  <2> QED
    BY <1>6, <2>1, <2>2 DEF MovedAt
<1>7. ASSUME NEW s \in Path, IsPrefix(p, s)
      PROVE  ~IsPrefix(q, s)
  <2>1. SUFFICES ASSUME IsPrefix(q, s)
                 PROVE  FALSE
    OBVIOUS
  <2>2. ~IsPrefix(p, q) /\ ~IsPrefix(q, p)
    BY <1>2 DEF Movable
  <2>3. CASE Len(p) <= Len(q)
    BY <1>3, <1>4, <1>7, <2>1, <2>2, <2>3, PrefixOrder
  <2>4. CASE Len(q) <= Len(p)
    BY <1>3, <1>4, <1>7, <2>1, <2>2, <2>4, PrefixOrder
  <2> QED
    BY <1>3, <2>3, <2>4
<1>8. /\ Tree!Below(p) = B
      /\ \A s \in Path : s \in Tree!Below(q) <=> IsPrefix(q, s) /\ Lookup(s) # None
  BY TreeWords
<1>9. Tree!Set(E, new, Tree!Below(p) \cup Tree!Below(q))
  <2>1. new \in SUBSET Path
    BY <1>5
  <2>2. ASSUME NEW s \in new
        PROVE  /\ Resolve(c, type, s) # None
               /\ E[s] = [node |-> Resolve(c, type, s), type |-> type[Resolve(c, type, s)]]
    <3>1. PICK u \in B : s = Swap(p, q, u)
      OBVIOUS
    <3>2. s \in Seq(Name) /\ IsPrefix(q, s) /\ Swap(q, p, s) = u
      BY <1>5, <3>1
    <3>3. Resolve(c, type, s) = Lookup(u) /\ Lookup(u) # None
      BY <1>1, <3>1, <3>2 DEF MovedAt
    <3>4. View[u] = [node |-> Lookup(u), type |-> type[Lookup(u)]]
      BY <3>1, ViewFacts DEF Found, IsNode
    <3>5. E[s] = View[u]
      <4>1. E[s] = View[Swap(q, p, s)]
        <5> HIDE DEF new
        <5> QED
          OBVIOUS
      <4> QED
        BY <3>2, <4>1
    <3> QED
      BY <3>3, <3>4, <3>5
  <2>3. ASSUME NEW s \in Path \ new
        PROVE  Resolve(c, type, s) = IF IsPrefix(q, s) \/ IsPrefix(p, s) THEN None ELSE Lookup(s)
    <3>1. Resolve(c, type, s) = MovedAt(p, q, s)
      BY <1>1, <1>4
    <3>2. MovedAt(p, q, s) = IF IsPrefix(q, s) \/ IsPrefix(p, s) THEN None ELSE Lookup(s)
      BY <1>6 DEF MovedAt
    <3> QED
      BY <3>1, <3>2
  <2>4. \A s \in Path \ new : s \in Tree!Below(p) \cup Tree!Below(q) => Resolve(c, type, s) = None
    BY <1>8, <2>3
  <2>5. ASSUME NEW s \in Path \ new, s \notin Tree!Below(p) \cup Tree!Below(q)
        PROVE  Resolve(c, type, s) = Lookup(s)
    BY <1>8, <2>3, <2>5
  <2> HIDE DEF E, new
  <2>6. \A s \in Path \ new : s \notin Tree!Below(p) \cup Tree!Below(q) =>
               /\ Resolve(c, type, s) = Lookup(s)
               /\ Lookup(s) # None => type[Lookup(s)] = type[Lookup(s)]
    BY <2>5
  <2> QED
    BY <1>1, <2>1, <2>2, <2>4, <2>6, ViewSet
<1>10. Tree!Exists(p) /\ Tree!IsDir(Tree!Up(q)) /\ ~Tree!IsPrefix(p, q)
  <2>1. Tree!IsPrefix(p, q) <=> IsPrefix(p, q)
    BY Zenon DEF Tree!IsPrefix, IsPrefix
  <2> QED
    BY <1>2, <2>1, TreeWords DEF Movable
<1>11. ASSUME Tree!Exists(q)
       PROVE  Tree!IsDir(q) = Tree!IsDir(p) /\ Tree!Below(q) = {q}
  <2>1. Lookup(q) # None
    BY <1>11, TreeWords
  <2>2. ~Tree!IsDir(q) /\ ~Tree!IsDir(p)
    BY <1>2, <2>1, TreeWords DEF Movable
  <2>3. \A s \in Seq(Name) : IsPrefix(q, s) /\ s # q => Lookup(s) = None
    BY <1>2, <1>3, NothingBelow DEF Movable
  <2>4. IsPrefix(q, q)
    BY <1>3, PrefixByElements
  <2>5. Tree!Below(q) = {s \in Path : IsPrefix(q, s) /\ Lookup(s) # None}
    BY TreeWords
  <2>6. Tree!Below(q) = {q}
    BY <1>4, <2>1, <2>3, <2>4, <2>5
  <2>7. Tree!IsDir(q) \in BOOLEAN /\ Tree!IsDir(p) \in BOOLEAN
    BY DEF Tree!IsDir
  <2> QED
    BY <2>2, <2>6, <2>7
<1>12. /\ new = {q \o SubSeq(s, Len(p) + 1, Len(s)) : s \in Tree!Below(p)}
       /\ E = [s \in new |-> View[p \o SubSeq(s, Len(q) + 1, Len(s))]]
  <2>1. new = {Swap(p, q, s) : s \in Tree!Below(p)}
    BY <1>8, Zenon
  <2> HIDE DEF new
  <2> QED
    BY <2>1, Zenon DEF Swap
<1> HIDE DEF B, new, E
<1> QED
  BY <1>9, <1>10, <1>11, <1>12, Zenon DEF Tree!Move, View

\* Nothing is there at first.
LEMMA InitTree ==
    ASSUME Init
    PROVE  Tree!Init
<1>1. IInv
  BY InitIInv
<1>2. \A n \in AnyNode, x \in Name : children[n][x] = None
  BY DEF Init, NoEntries
<1>3. \A p \in Path : Lookup(p) = None
  <2>1. ASSUME NEW p \in Path
        PROVE  Lookup(p) = None
    <3>1. p \in NonRoot
      BY Paths
    <3>2. /\ Lookup(p) = Step(children, type, Lookup(Up(p)), End(p)) /\ End(p) \in Name
          /\ Lookup(Up(p)) # None => Lookup(Up(p)) \in AnyNode
      BY <1>1, <3>1, LookupStep
    <3> QED
      BY <1>2, <3>2 DEF Step
  <2> QED
    BY <2>1
<1>4. Found = {}
  BY <1>3 DEF Found, IsNode
<1>5. [p \in {} |-> [node |-> Lookup(p), type |-> type[Lookup(p)]]] = <<>>
  OBVIOUS
<1> QED
  BY <1>4, <1>5 DEF Tree!Init

\* Every step of the nodes is a step of the tree of paths, or changes nothing.
LEMMA NextTree ==
    ASSUME IInv, ~FarLinks, ~FarMoves, [Next]_vars
    PROVE  [Tree!Next]_View
<1>0. Tree!Path = Path
  BY TreeWords
<1>1. CASE UNCHANGED vars
  <2>1. View' = View
    BY <1>1 DEF vars, View, Found, IsNode, Lookup, Resolve
  <2> QED
    BY <2>1
<1>2. ASSUME NEW p \in Path, mkdirp(p) \/ writeFile(p) \/ symlink(p)
      PROVE  Tree!Next
  <2>1. \E k \in {"dir", "file"} : MakeAll(p, k)
    BY <1>2 DEF mkdirp, writeFile, symlink
  <2>2. \E k \in {"dir", "file"} : Tree!CreateAll(p, k)
    BY <2>1, MakeAllCreates
  <2> QED
    BY <1>0, <2>2, Zenon DEF Tree!Next
<1>3. ASSUME NEW p \in Path, mkdir(p) \/ open(p)
      PROVE  Tree!Next
  <2>1. \E k \in {"dir", "file"} : Make(p, k)
    BY <1>3 DEF mkdir, open
  <2>2. \E k \in {"dir", "file"} : Tree!Create(p, k)
    BY <2>1, MakeCreates
  <2> QED
    BY <1>0, <2>2, Zenon DEF Tree!Next
<1>4. ASSUME NEW p \in Path, rmdir(p) \/ unlink(p)
      PROVE  Tree!Next
  <2>1. Tree!Delete(p)
    BY <1>4, TakeDeletes
  <2> QED
    BY <1>0, <2>1, Zenon DEF Tree!Next
<1>5. ASSUME NEW p \in Path, NEW q \in Path, rename(p, q)
      PROVE  [Tree!Next]_View
  <2>1. CASE p = q
    <3>1. \A s \in Seq(Name) : Resolve(children', type', s) = Resolve(children, type, s)
      BY <1>5, <2>1, RenameSame, BecomesKeeps, IInvFacts
    <3>2. \A n \in Live(children, type) \cap AnyNode : type'[n] = type[n]
      BY <1>5, <2>1, RenameSame, BecomesKeeps, IInvFacts
    <3>3. View' = [s \in {s \in Path : Resolve(children', type', s) # None} |->
                     [node |-> Resolve(children', type', s), type |-> type'[Resolve(children', type', s)]]]
      BY DEF View, Found, IsNode, Lookup, Resolve
    <3>4. View = [s \in {s \in Path : Resolve(children, type, s) # None} |->
                    [node |-> Resolve(children, type, s), type |-> type[Resolve(children, type, s)]]]
      BY DEF View, Found, IsNode, Lookup
    <3>5. ASSUME NEW s \in Path
          PROVE  /\ Resolve(children', type', s) = Resolve(children, type, s)
                 /\ Resolve(children, type, s) # None => type'[Resolve(children, type, s)] = type[Resolve(children, type, s)]
      <4>1. s \in Seq(Name)
        BY Paths DEF NonRoot
      <4>2. Resolve(children, type, s) # None => Resolve(children, type, s) \in Live(children, type) \cap AnyNode
        BY <4>1, IInvFacts, ResolveLive
      <4> QED
        BY <3>1, <3>2, <4>1, <4>2
    <3>6. View' = View
      BY <3>3, <3>4, <3>5
    <3> QED
      BY <3>6
  <2>2. CASE p # q
    <3>1. Tree!Move(p, q)
      BY <1>5, <2>2, RenameMovesPaths
    <3>2. Tree!Next
      BY <1>0, <3>1, Zenon DEF Tree!Next
    <3> QED
      BY <3>2
  <2> QED
    BY <2>1, <2>2
<1>6. ASSUME NEW p \in Path, NEW q \in Path, link(p, q)
      PROVE  Tree!Next
  <2>1. Tree!Link(p, q)
    BY <1>6, LinkLinks
  <2> QED
    BY <1>0, <2>1, Zenon DEF Tree!Next
<1> QED
  BY <1>1, <1>2, <1>3, <1>4, <1>5, <1>6 DEF Next

\* The nodes, their entries and parent fields implement PathTree: an operation
\* of src/src/vfs.js changes where the paths it was given, and those below
\* them, lead to, and no others.
THEOREM NodesKeepPaths ==
    ASSUME ~FarLinks, ~FarMoves
    PROVE  Spec => KeepsPaths
<1>1. Init => Tree!Init
  BY InitTree
<1>2. IInv /\ [Next]_vars => [Tree!Next]_View
  BY NextTree
<1> QED
  BY <1>1, <1>2, TreeInvariance, PTL DEF Spec, KeepsPaths, Tree!Spec, View
=============================================================================
