-------------------------- MODULE PagedMemoryProofs --------------------------
(***************************************************************************)
(* Proofs about PagedMemory, for every number of processes, pages, bytes   *)
(* and Page objects.                                                       *)
(***************************************************************************)
EXTENDS PagedMemory, FiniteSetTheorems, WellFoundedInduction, TLAPS

\* What must be known of each Page object somebody holds.
Counted(p, id) ==
    Holders(p, id) # {} =>
        /\ Cardinality(Holders(p, id)) <= heap[p][id].refCount
        /\ heap[p][id].shared <=> heap[p][id].refCount > 1

\* The inductive invariant.
IInv == /\ TypeOK
        /\ DeadSpacesEmpty
        /\ SharersHaveForked
        /\ \A p \in PageNo, id \in PageId : Counted(p, id)

-----------------------------------------------------------------------------
\* "new Page" gives an object of the right type that no page table refers to.
LEMMA FreshIdProps ==
    ASSUME TypeOK, NEW p \in PageNo
    PROVE  /\ FreshId(p) \in PageId
           /\ FreshId(p) # NoPage
           /\ \A s \in Space : pages[s][p] # FreshId(p)
<1> DEFINE table == [s \in Space |-> pages[s][p]]
<1>1. table \in [Space -> PageId \cup {NoPage}]
  BY DEF TypeOK
<1>2. \E id \in PageId : \A s \in Space : table[s] # id
  BY <1>1, FreshAssumption
<1>3. \E id \in PageId : \A s \in Space : pages[s][p] # id
  BY <1>2
<1>4. /\ FreshId(p) \in PageId
      /\ \A s \in Space : pages[s][p] # FreshId(p)
  BY <1>3 DEF FreshId
<1> QED
  BY <1>4, FreshAssumption

\* The page tables that refer to an object are finitely many.
LEMMA HoldersFinite ==
    ASSUME NEW p, NEW id
    PROVE  /\ IsFiniteSet(Holders(p, id))
           /\ Cardinality(Holders(p, id)) \in Nat
BY SpaceAssumption, FS_Subset, FS_CardinalityType DEF Holders

\* An object that nobody new refers to, and whose count is unchanged, stays
\* covered by its count.
LEMMA CountedWhenShrinking ==
    ASSUME NEW p \in PageNo, NEW id \in PageId, Counted(p, id),
           TypeOK, TypeOK',
           Holders(p, id)' \subseteq Holders(p, id),
           heap'[p][id].refCount = heap[p][id].refCount,
           heap'[p][id].shared = heap[p][id].shared
    PROVE  Counted(p, id)'
<1>1. /\ IsFiniteSet(Holders(p, id)')
      /\ Cardinality(Holders(p, id)') <= Cardinality(Holders(p, id))
      /\ Cardinality(Holders(p, id)') \in Nat
      /\ Cardinality(Holders(p, id)) \in Nat
  BY HoldersFinite, FS_Subset, FS_CardinalityType
<1>2. heap[p][id].refCount \in Nat
  BY DEF TypeOK, Page
<1> QED
  BY <1>1, <1>2 DEF Counted

\* A new object is held by its creator only.
LEMMA CountedWhenNew ==
    ASSUME NEW p \in PageNo, NEW id \in PageId, NEW s \in Space,
           Holders(p, id)' \subseteq {s},
           heap'[p][id].refCount = 1,
           heap'[p][id].shared = FALSE
    PROVE  Counted(p, id)'
<1>1. /\ IsFiniteSet({s}) /\ Cardinality({s}) = 1
  BY FS_Singleton
<1>2. Cardinality(Holders(p, id)') <= 1
  BY <1>1, FS_Subset
<1> QED
  BY <1>2 DEF Counted

-----------------------------------------------------------------------------
\* The operators on Page objects: their type, and the fields they leave alone.
LEMMA NewPageProps ==
    ASSUME NEW perm \in Perm
    PROVE  /\ NewPage(perm) \in Page
           /\ NewPage(perm).data = ZeroData
           /\ NewPage(perm).shared = FALSE
           /\ NewPage(perm).refCount = 1
BY ByteAssumption DEF NewPage, Page, ZeroData, PageData

\* map and mprotect change the permission of an object only.
LEMMA SetPermProps ==
    ASSUME NEW page \in Page, NEW perm \in Perm
    PROVE  /\ SetPerm(page, perm) \in Page
           /\ SetPerm(page, perm).data = page.data
           /\ SetPerm(page, perm).shared = page.shared
           /\ SetPerm(page, perm).refCount = page.refCount
BY DEF SetPerm, Page

\* loadBytes changes the content of an object only.
LEMMA SetDataProps ==
    ASSUME NEW page \in Page, NEW c \in PageData
    PROVE  /\ SetData(page, c) \in Page
           /\ SetData(page, c).data = c
           /\ SetData(page, c).shared = page.shared
           /\ SetData(page, c).refCount = page.refCount
BY DEF SetData, Page

\* A write changes one byte of the content only.
LEMMA SetByteProps ==
    ASSUME NEW page \in Page, NEW o \in Offset, NEW b \in Byte
    PROVE  /\ SetByte(page, o, b) \in Page
           /\ SetByte(page, o, b).data = [page.data EXCEPT ![o] = b]
           /\ SetByte(page, o, b).shared = page.shared
           /\ SetByte(page, o, b).refCount = page.refCount
<1>1. [page.data EXCEPT ![o] = b] \in PageData
  BY DEF Page, PageData
<1> QED
  BY <1>1 DEF SetByte, Page

\* write8's copy has the content of the original and one holder.
LEMMA CopyOfProps ==
    ASSUME NEW page \in Page
    PROVE  /\ CopyOf(page) \in Page
           /\ CopyOf(page).data = page.data
           /\ CopyOf(page).shared = FALSE
           /\ CopyOf(page).refCount = 1
<1>1. page.perm \in Perm /\ page.data \in PageData
  BY DEF Page
<1>2. NewPage(page.perm) \in Page
  BY <1>1, NewPageProps
<1>3. /\ NewPage(page.perm).shared = FALSE
      /\ NewPage(page.perm).refCount = 1
  BY <1>1, NewPageProps
<1> DEFINE new == NewPage(page.perm)
<1> HIDE DEF new
<1>4. /\ SetData(new, page.data) \in Page
      /\ SetData(new, page.data).data = page.data
      /\ SetData(new, page.data).shared = new.shared
      /\ SetData(new, page.data).refCount = new.refCount
  BY <1>1, <1>2, SetDataProps DEF new
<1> QED
  BY <1>3, <1>4 DEF CopyOf, new

\* clone marks an object as shared and counts one more holder.
LEMMA ShareProps ==
    ASSUME NEW page \in Page
    PROVE  /\ Share(page) \in Page
           /\ Share(page).data = page.data
           /\ Share(page).shared = TRUE
           /\ Share(page).refCount = page.refCount + 1
<1>1. page.refCount + 1 \in Nat
  BY DEF Page
<1> DEFINE n == page.refCount + 1
<1> HIDE DEF n
<1>2. LET q == [page EXCEPT !.shared = TRUE, !.refCount = n]
      IN  q \in Page /\ q.data = page.data /\ q.shared = TRUE /\ q.refCount = n
  BY <1>1 DEF Page, n
<1> QED
  BY <1>2 DEF Share, n

\* After a copy the original counts one holder less.
LEMMA LeaveBehindProps ==
    ASSUME NEW page \in Page, page.refCount > 1, page.shared
    PROVE  /\ LeaveBehind(page) \in Page
           /\ LeaveBehind(page).data = page.data
           /\ LeaveBehind(page).shared <=> page.refCount - 1 > 1
           /\ LeaveBehind(page).refCount = page.refCount - 1
<1> DEFINE n  == page.refCount - 1
           sh == IF page.refCount - 1 <= 1 THEN FALSE ELSE page.shared
<1>1. page.refCount \in Nat /\ page.shared \in BOOLEAN
  BY DEF Page
<1>2. n \in Nat /\ sh \in BOOLEAN /\ (sh <=> page.refCount - 1 > 1)
  BY <1>1
<1> HIDE DEF n, sh
<1>3. LET q == [page EXCEPT !.refCount = n, !.shared = sh]
      IN  q \in Page /\ q.data = page.data /\ q.shared = sh /\ q.refCount = n
  BY <1>2 DEF Page
<1> QED
  BY <1>2, <1>3 DEF LeaveBehind, n, sh

\* A mapped page refers to a Page object.
LEMMA PageOfType ==
    ASSUME TypeOK, NEW s \in Space, NEW p \in PageNo, IsMapped(s, p)
    PROVE  /\ pages[s][p] \in PageId
           /\ PageOf(s, p) \in Page
BY DEF TypeOK, IsMapped, PageOf

-----------------------------------------------------------------------------
\* Type correctness.
LEMMA MapType ==
    ASSUME TypeOK, NEW s \in Space, NEW R, NEW perm \in Perm
    PROVE  /\ MapTable(s, R) \in [Space -> [PageNo -> PageId \cup {NoPage}]]
           /\ MapHeap(s, R, perm) \in [PageNo -> [PageId -> Page]]
<1>1. MapTable(s, R) \in [Space -> [PageNo -> PageId \cup {NoPage}]]
  BY FreshIdProps DEF MapTable, TypeOK
<1>2. ASSUME NEW p \in PageNo
      PROVE  MapHeap(s, R, perm)[p] \in [PageId -> Page]
  <2>1. CASE p \notin R
    BY <2>1 DEF MapHeap, TypeOK
  <2>2. CASE p \in R /\ IsMapped(s, p)
    BY <2>2, PageOfType, SetPermProps DEF MapHeap, TypeOK
  <2>3. CASE p \in R /\ ~IsMapped(s, p)
    BY <2>3, FreshIdProps, NewPageProps DEF MapHeap, TypeOK
  <2> QED
    BY <2>1, <2>2, <2>3
<1>3. MapHeap(s, R, perm) \in [PageNo -> [PageId -> Page]]
  BY <1>2 DEF MapHeap
<1> QED
  BY <1>1, <1>3

\* The program starts in a well-typed state.
LEMMA InitType == Init => TypeOK
<1>1. {} \in Perm
  BY DEF Perm
<1>2. NewPage({}) \in Page
  BY <1>1, NewPageProps
<1> QED
  BY <1>2 DEF Init, TypeOK, NoPages

\* Every operation keeps the types.
LEMMA NextType == TypeOK /\ [Next]_vars => TypeOK'
<1> SUFFICES ASSUME TypeOK, [Next]_vars PROVE TypeOK'
  OBVIOUS
<1>2. by' \in {"guest", "loader"}
  BY DEF Next, vars, TypeOK
<1> USE <1>2
<1>1. ASSUME NEW s \in Space, NewMemory(s) PROVE TypeOK'
  BY <1>1 DEF NewMemory, TypeOK, NoPages
<1>3. ASSUME NEW s \in alive, Release(s) PROVE TypeOK'
  BY <1>3 DEF Release, TypeOK, NoPages
<1>4. ASSUME NEW s \in alive, NEW start, NEW n, NEW perm \in PermSets,
             map(s, start, n, perm)
      PROVE  TypeOK'
  BY <1>4, MapType, PermAssumption DEF map, TypeOK
<1>5. ASSUME NEW s \in alive, NEW start, NEW n, NEW perm \in PermSets,
             mmapFixed(s, start, n, perm)
      PROVE  TypeOK'
  <2>1. pages' \in [Space -> [PageNo -> PageId \cup {NoPage}]]
    BY <1>5, FreshIdProps DEF mmapFixed, TypeOK
  <2>2. ASSUME NEW p \in PageNo PROVE heap'[p] \in [PageId -> Page]
    BY <1>5, FreshIdProps, NewPageProps, PermAssumption DEF mmapFixed, TypeOK
  <2> QED
    BY <1>5, <2>1, <2>2 DEF mmapFixed, TypeOK
<1>6. ASSUME NEW s \in alive, NEW start, NEW n, unmap(s, start, n) PROVE TypeOK'
  BY <1>6 DEF unmap, TypeOK
<1>7. ASSUME NEW s \in alive, NEW start, NEW n, NEW perm \in PermSets,
             mprotect(s, start, n, perm)
      PROVE  TypeOK'
  <2>1. ASSUME NEW p \in PageNo PROVE heap'[p] \in [PageId -> Page]
    <3>1. CASE p \in MappedPrefix(s, start, n)
      <4>1. IsMapped(s, p)
        BY <3>1 DEF MappedPrefix, RangePages, PageNo
      <4> QED
        BY <1>7, <3>1, <4>1, PageOfType, SetPermProps, PermAssumption DEF mprotect, TypeOK
    <3>2. CASE p \notin MappedPrefix(s, start, n)
      BY <1>7, <3>2 DEF mprotect, TypeOK
    <3> QED
      BY <3>1, <3>2
  <2> QED
    BY <1>7, <2>1 DEF mprotect, TypeOK
<1>8. ASSUME NEW s \in alive, NEW p \in PageNo, NEW o \in Offset, NEW b \in Byte,
             write8(s, p, o, b)
      PROVE  TypeOK'
  <2>1. s \in Space /\ IsMapped(s, p) /\ alive' = alive /\ forked' = forked
    BY <1>8 DEF write8, TypeOK
  <2>2. pages[s][p] \in PageId /\ PageOf(s, p) \in Page
    BY <2>1, PageOfType
  <2>3. CASE write8Copy(s, p, o, b)
    <3>1. PageOf(s, p).refCount > 1 /\ PageOf(s, p).shared
      BY <2>3 DEF write8Copy, MustCopy
    <3>2. LeaveBehind(PageOf(s, p)) \in Page
      BY <2>2, <3>1, LeaveBehindProps
    <3>3. SetByte(CopyOf(PageOf(s, p)), o, b) \in Page
      BY <2>2, CopyOfProps, SetByteProps
    <3> QED
      BY <2>1, <2>2, <2>3, <3>2, <3>3, FreshIdProps DEF write8Copy, TypeOK
  <2>4. CASE write8InPlace(s, p, o, b)
    BY <2>1, <2>2, <2>4, SetByteProps DEF write8InPlace, TypeOK
  <2> QED
    BY <1>8, <2>3, <2>4 DEF write8
<1>9. ASSUME NEW s \in alive, NEW p \in PageNo, NEW o \in Offset, NEW b \in Byte,
             forceWrite8(s, p, o, b)
      PROVE  TypeOK'
  <2>1. s \in Space /\ IsMapped(s, p)
    BY <1>9 DEF forceWrite8, TypeOK
  <2> QED
    BY <1>9, <2>1, PageOfType, SetByteProps DEF forceWrite8, TypeOK
<1>10. ASSUME NEW s \in alive, NEW start, NEW n, NEW perm \in PermSets,
              NEW c \in PageData, loadBytes(s, start, n, c, perm)
       PROVE  TypeOK'
  <2>1. ASSUME NEW p \in PageNo PROVE heap'[p] \in [PageId -> Page]
    <3>1. CASE p \in RangePages(start, n) /\ IsMapped(s, p)
      <4>1. SetData(SetPerm(PageOf(s, p), perm), c) \in Page
        BY <3>1, PageOfType, SetPermProps, SetDataProps, PermAssumption DEF TypeOK
      <4> QED
        BY <1>10, <3>1, <4>1, PageOfType DEF loadBytes, TypeOK
    <3>2. CASE p \in RangePages(start, n) /\ ~IsMapped(s, p)
      <4>1. SetData(NewPage(perm), c) \in Page
        BY NewPageProps, SetDataProps, PermAssumption
      <4> QED
        BY <1>10, <3>2, <4>1, FreshIdProps DEF loadBytes, TypeOK
    <3>3. CASE p \notin RangePages(start, n)
      BY <1>10, <3>3 DEF loadBytes, TypeOK
    <3> QED
      BY <3>1, <3>2, <3>3
  <2> QED
    BY <1>10, <2>1, MapType, PermAssumption DEF loadBytes, TypeOK
<1>11. ASSUME NEW s \in alive, NEW c \in Space, cloneCow(s, c) PROVE TypeOK'
  <2>1. ASSUME NEW p \in PageNo PROVE heap'[p] \in [PageId -> Page]
    BY <1>11, PageOfType, ShareProps DEF cloneCow, TypeOK
  <2> QED
    BY <1>11, <2>1 DEF cloneCow, TypeOK
<1>12. ASSUME NEW s \in alive, NEW c \in Space, cloneDeep(s, c) PROVE TypeOK'
  <2>1. ASSUME NEW p \in PageNo PROVE heap'[p] \in [PageId -> Page]
    BY <1>12, PageOfType, FreshIdProps, CopyOfProps DEF cloneDeep, TypeOK
  <2> QED
    BY <1>12, <2>1, FreshIdProps DEF cloneDeep, TypeOK
<1>13. CASE UNCHANGED vars
  BY <1>13 DEF vars, TypeOK
<1> QED
  BY <1>1, <1>3, <1>4, <1>5, <1>6, <1>7, <1>8, <1>9, <1>10, <1>11, <1>12, <1>13
     DEF Next, GuestNext, LoaderNext, mmapAnywhere

\* The page tables always refer to existing Page objects, whatever guests and
\* loaders do.
THEOREM TypeCorrect == Spec => []TypeOK
BY InitType, NextType, PTL DEF Spec

-----------------------------------------------------------------------------
\* What a step does to one Page object, as far as counting is concerned.
Calm(p, id) == /\ Holders(p, id)' \subseteq Holders(p, id)
               /\ heap'[p][id].refCount = heap[p][id].refCount
               /\ heap'[p][id].shared = heap[p][id].shared

New(p, id, s) == /\ Holders(p, id)' \subseteq {s}
                 /\ heap'[p][id].refCount = 1
                 /\ heap'[p][id].shared = FALSE

\* Counting survives a step that changes holders only downwards or to new objects.
LEMMA CalmOrNew ==
    ASSUME TypeOK, TypeOK', NEW s \in Space,
           \A p \in PageNo, id \in PageId : Counted(p, id),
           \A p \in PageNo, id \in PageId : Calm(p, id) \/ New(p, id, s)
    PROVE  \A p \in PageNo, id \in PageId : Counted(p, id)'
BY CountedWhenShrinking, CountedWhenNew DEF Calm, New

\* Counting survives a step that adds no holder and changes no count.
LEMMA AllCalm ==
    ASSUME TypeOK, TypeOK',
           \A p \in PageNo, id \in PageId : Counted(p, id),
           \A p \in PageNo, id \in PageId : Calm(p, id)
    PROVE  \A p \in PageNo, id \in PageId : Counted(p, id)'
BY CountedWhenShrinking DEF Calm

\* map, and loadBytes, which also maps.
LEMMA MapCounted ==
    ASSUME TypeOK, NEW s \in Space, NEW R, NEW perm \in Perm,
           NEW p \in PageNo, NEW id \in PageId,
           pages' = MapTable(s, R),
           IF p \notin R THEN heap'[p] = heap[p]
           ELSE IF IsMapped(s, p)
                THEN \E h \in Page : /\ h.refCount = PageOf(s, p).refCount
                                     /\ h.shared = PageOf(s, p).shared
                                     /\ heap'[p] = [heap[p] EXCEPT ![pages[s][p]] = h]
                ELSE \E h \in Page : /\ h.refCount = 1
                                     /\ h.shared = FALSE
                                     /\ heap'[p] = [heap[p] EXCEPT ![FreshId(p)] = h]
    PROVE  Calm(p, id) \/ New(p, id, s)
<1>1. \A t \in Space : t # s => pages'[t][p] = pages[t][p]
  BY DEF MapTable, TypeOK
<1>2. pages'[s][p] = IF p \in R /\ ~IsMapped(s, p) THEN FreshId(p) ELSE pages[s][p]
  BY DEF MapTable, TypeOK
<1>3. CASE p \notin R
  BY <1>1, <1>2, <1>3 DEF Calm, Holders
<1>4. CASE p \in R /\ IsMapped(s, p)
  <2>1. Holders(p, id)' \subseteq Holders(p, id)
    BY <1>1, <1>2, <1>4 DEF Holders
  <2>2. /\ heap'[p][id].refCount = heap[p][id].refCount
        /\ heap'[p][id].shared = heap[p][id].shared
    BY <1>4, PageOfType DEF PageOf, TypeOK
  <2> QED
    BY <2>1, <2>2 DEF Calm
<1>5. CASE p \in R /\ ~IsMapped(s, p) /\ id = FreshId(p)
  <2>1. Holders(p, id)' \subseteq {s}
    BY <1>1, <1>5, FreshIdProps DEF Holders
  <2>2. heap'[p][id].refCount = 1 /\ heap'[p][id].shared = FALSE
    BY <1>5, FreshIdProps, ZenonT(60) DEF TypeOK
  <2> QED
    BY <2>1, <2>2 DEF New
<1>6. CASE p \in R /\ ~IsMapped(s, p) /\ id # FreshId(p)
  <2>1. Holders(p, id)' \subseteq Holders(p, id)
    BY <1>1, <1>2, <1>6 DEF Holders
  <2>2. heap'[p][id] = heap[p][id]
    BY <1>6, FreshIdProps, ZenonT(60) DEF TypeOK
  <2> QED
    BY <2>1, <2>2 DEF Calm
<1> QED
  BY <1>3, <1>4, <1>5, <1>6

\* Actions that give space s private pages or take pages away from it.
LEMMA SpaceCounted ==
    ASSUME IInv, TypeOK', NEW s \in Space, NewMemory(s) \/ Release(s)
    PROVE  \A p \in PageNo, id \in PageId : Counted(p, id)'
<1>0. TypeOK
  BY DEF IInv
<1> SUFFICES ASSUME NEW p \in PageNo, NEW id \in PageId
             PROVE  Calm(p, id) \/ New(p, id, s)
  BY <1>0, CalmOrNew DEF IInv
<1>1. Holders(p, id)' \subseteq Holders(p, id)
  BY <1>0, FreshAssumption DEF NewMemory, Release, Holders, TypeOK, NoPages
<1> QED
  BY <1>1 DEF NewMemory, Release, Calm

\* map keeps the counts.
LEMMA MapStepCounted ==
    ASSUME IInv, TypeOK', NEW s \in Space, NEW start, NEW n, NEW perm \in PermSets, map(s, start, n, perm)
    PROVE  \A p \in PageNo, id \in PageId : Counted(p, id)'
<1>0. TypeOK
  BY DEF IInv
<1> SUFFICES ASSUME NEW p \in PageNo, NEW id \in PageId
             PROVE  Calm(p, id) \/ New(p, id, s)
  BY <1>0, CalmOrNew DEF IInv
<1> QED
  BY <1>0, MapCounted, PermAssumption, PageOfType, SetPermProps, NewPageProps
     DEF map, MapHeap

\* mmap at a fixed address keeps the counts.
LEMMA MmapFixedCounted ==
    ASSUME IInv, TypeOK', NEW s \in Space, NEW start, NEW n, NEW perm \in PermSets, mmapFixed(s, start, n, perm)
    PROVE  \A p \in PageNo, id \in PageId : Counted(p, id)'
<1>0. TypeOK
  BY DEF IInv
<1> SUFFICES ASSUME NEW p \in PageNo, NEW id \in PageId
             PROVE  Calm(p, id) \/ New(p, id, s)
  BY <1>0, CalmOrNew DEF IInv
<1>1. CASE p \in RangePages(start, n) /\ id = FreshId(p)
  <2>1. Holders(p, id)' \subseteq {s}
    BY <1>0, <1>1, FreshIdProps DEF mmapFixed, Holders, TypeOK
  <2>2. heap'[p][id] = NewPage(perm)
    BY <1>0, <1>1, FreshIdProps DEF mmapFixed, TypeOK
  <2> QED
    BY <2>1, <2>2, NewPageProps, PermAssumption DEF New
<1>2. CASE ~(p \in RangePages(start, n) /\ id = FreshId(p))
  <2>1. Holders(p, id)' \subseteq Holders(p, id)
    BY <1>0, <1>2 DEF mmapFixed, Holders, TypeOK
  <2>2. heap'[p][id] = heap[p][id]
    BY <1>0, <1>2, FreshIdProps DEF mmapFixed, TypeOK
  <2> QED
    BY <2>1, <2>2 DEF Calm
<1> QED
  BY <1>1, <1>2

\* unmap drops holders without lowering counts, which keeps them covering.
LEMMA UnmapCounted ==
    ASSUME IInv, TypeOK', NEW s \in Space, NEW start, NEW n, unmap(s, start, n)
    PROVE  \A p \in PageNo, id \in PageId : Counted(p, id)'
<1>0. TypeOK
  BY DEF IInv
<1> SUFFICES ASSUME NEW p \in PageNo, NEW id \in PageId
             PROVE  Calm(p, id) \/ New(p, id, s)
  BY <1>0, CalmOrNew DEF IInv
<1>1. Holders(p, id)' \subseteq Holders(p, id)
  BY <1>0, FreshAssumption DEF unmap, Holders, TypeOK
<1> QED
  BY <1>1 DEF unmap, Calm

\* mprotect keeps the counts.
LEMMA MprotectCounted ==
    ASSUME IInv, TypeOK', NEW s \in Space, NEW start, NEW n, NEW perm \in PermSets, mprotect(s, start, n, perm)
    PROVE  \A p \in PageNo, id \in PageId : Counted(p, id)'
<1>0. TypeOK
  BY DEF IInv
<1> SUFFICES ASSUME NEW p \in PageNo, NEW id \in PageId
             PROVE  Calm(p, id) \/ New(p, id, s)
  BY <1>0, CalmOrNew DEF IInv
<1>1. Holders(p, id)' \subseteq Holders(p, id)
  BY DEF mprotect, Holders
<1>2. CASE p \in MappedPrefix(s, start, n)
  <2>1. IsMapped(s, p)
    BY <1>2 DEF MappedPrefix, RangePages, PageNo
  <2>2. heap'[p] = [heap[p] EXCEPT ![pages[s][p]] = SetPerm(PageOf(s, p), perm)]
    BY <1>2 DEF mprotect
  <2>3. /\ SetPerm(PageOf(s, p), perm).refCount = PageOf(s, p).refCount
        /\ SetPerm(PageOf(s, p), perm).shared = PageOf(s, p).shared
    BY <1>0, <2>1, PageOfType, SetPermProps, PermAssumption
  <2> QED
    BY <1>0, <1>1, <2>1, <2>2, <2>3, PageOfType DEF Calm, PageOf, TypeOK
<1>3. CASE p \notin MappedPrefix(s, start, n)
  BY <1>1, <1>3 DEF mprotect, Calm
<1> QED
  BY <1>2, <1>3

\* loadBytes, which maps and then copies, keeps the counts.
LEMMA LoadBytesCounted ==
    ASSUME IInv, TypeOK', NEW s \in Space, NEW start, NEW n, NEW perm \in PermSets,
           NEW c \in PageData, loadBytes(s, start, n, c, perm)
    PROVE  \A p \in PageNo, id \in PageId : Counted(p, id)'
<1>0. TypeOK
  BY DEF IInv
<1> SUFFICES ASSUME NEW p \in PageNo, NEW id \in PageId
             PROVE  Calm(p, id) \/ New(p, id, s)
  BY <1>0, CalmOrNew DEF IInv
<1> DEFINE R == RangePages(start, n)
<1>4. perm \in Perm
  BY PermAssumption
<1>1. CASE p \notin R
  BY <1>0, <1>4, <1>1, MapCounted DEF loadBytes
<1>2. CASE p \in R /\ IsMapped(s, p)
  <2> DEFINE h == SetData(SetPerm(PageOf(s, p), perm), c)
  <2>1. /\ h \in Page
        /\ h.refCount = PageOf(s, p).refCount
        /\ h.shared = PageOf(s, p).shared
    BY <1>0, <1>4, <1>2, PageOfType, SetPermProps, SetDataProps
  <2>2. heap'[p] = [heap[p] EXCEPT ![pages[s][p]] = h]
    BY <1>2 DEF loadBytes
  <2> HIDE DEF h
  <2> QED
    BY <1>0, <1>4, <1>2, <2>1, <2>2, MapCounted DEF loadBytes
<1>3. CASE p \in R /\ ~IsMapped(s, p)
  <2> DEFINE h == SetData(NewPage(perm), c)
  <2>1. h \in Page /\ h.refCount = 1 /\ h.shared = FALSE
    BY <1>4, NewPageProps, SetDataProps
  <2>2. heap'[p] = [heap[p] EXCEPT ![FreshId(p)] = h]
    BY <1>3 DEF loadBytes
  <2> HIDE DEF h
  <2> QED
    BY <1>0, <1>4, <1>3, <2>1, <2>2, MapCounted DEF loadBytes
<1> QED
  BY <1>1, <1>2, <1>3

\* A byte written in place changes no count; a byte written after a copy moves
\* one holder from the old object to the new one and lowers the old count.
LEMMA Write8Counted ==
    ASSUME IInv, TypeOK', NEW s \in Space, NEW q \in PageNo, NEW o \in Offset,
           NEW b \in Byte, write8(s, q, o, b) \/ forceWrite8(s, q, o, b)
    PROVE  \A p \in PageNo, id \in PageId : Counted(p, id)'
<1>0. TypeOK /\ IsMapped(s, q)
  BY DEF IInv, write8, forceWrite8
<1>1. pages[s][q] \in PageId /\ PageOf(s, q) \in Page
  BY <1>0, PageOfType
<1>2. CASE write8InPlace(s, q, o, b) \/ forceWrite8(s, q, o, b)
  <2> DEFINE h == SetByte(PageOf(s, q), o, b)
  <2>1. /\ pages' = pages
        /\ heap' = [heap EXCEPT ![q] = [heap[q] EXCEPT ![pages[s][q]] = h]]
    BY <1>2 DEF write8InPlace, forceWrite8
  <2>2. h.refCount = PageOf(s, q).refCount /\ h.shared = PageOf(s, q).shared
    BY <1>1, SetByteProps
  <2> HIDE DEF h
  <2>3. \A p \in PageNo, id \in PageId : Calm(p, id)
    BY <1>0, <1>1, <2>1, <2>2 DEF Calm, Holders, PageOf, TypeOK
  <2> QED
    BY <1>0, <2>3, CalmOrNew DEF IInv
<1>3. CASE write8Copy(s, q, o, b)
  <2> PICK old \in PageId : old = pages[s][q]
    BY <1>1
  <2> PICK new \in PageId : new = FreshId(q)
    BY <1>0, FreshIdProps
  <2> DEFINE left == LeaveBehind(PageOf(s, q))
             copy == SetByte(CopyOf(PageOf(s, q)), o, b)
  <2>1. /\ pages' = [pages EXCEPT ![s] = [pages[s] EXCEPT ![q] = new]]
        /\ heap' = [heap EXCEPT ![q] = [heap[q] EXCEPT ![old] = left, ![new] = copy]]
        /\ PageOf(s, q).shared /\ PageOf(s, q).refCount > 1
    BY <1>3 DEF write8Copy, MustCopy
  <2>2. /\ new \in PageId /\ new # old
        /\ \A t \in Space : pages[t][q] # new
    BY <1>0, <1>1, FreshIdProps
  <2>3. /\ left.refCount = PageOf(s, q).refCount - 1
        /\ left.shared <=> PageOf(s, q).refCount - 1 > 1
    BY <1>1, <2>1, LeaveBehindProps
  <2>4. copy.refCount = 1 /\ copy.shared = FALSE
    <3>1. /\ CopyOf(PageOf(s, q)) \in Page
          /\ CopyOf(PageOf(s, q)).refCount = 1
          /\ CopyOf(PageOf(s, q)).shared = FALSE
      BY <1>1, CopyOfProps
    <3> QED
      BY <3>1, SetByteProps
  <2> HIDE DEF left, copy
  <2>5. ASSUME NEW p \in PageNo, NEW id \in PageId, ~(p = q /\ id = old)
        PROVE  Counted(p, id)'
    <3>1. CASE p = q /\ id = new
      <4>1. Holders(p, id)' \subseteq {s}
        BY <1>0, <2>1, <2>2, <3>1 DEF Holders, TypeOK
      <4>2. heap'[p][id] = copy
        BY <1>0, <2>1, <2>2, <3>1 DEF TypeOK
      <4> QED
        BY <2>4, <4>1, <4>2, CountedWhenNew
    <3>2. CASE ~(p = q /\ id = new)
      <4>1. Holders(p, id)' \subseteq Holders(p, id)
        BY <1>0, <2>1, <3>2 DEF Holders, TypeOK
      <4>2. heap'[p][id] = heap[p][id]
        BY <1>0, <2>1, <2>5, <3>2 DEF TypeOK
      <4> QED
        BY <1>0, <4>1, <4>2, CountedWhenShrinking DEF IInv
    <3> QED
      BY <3>1, <3>2
  <2>6. Counted(q, old)'
    <3>1. old \in PageId /\ heap[q][old] = PageOf(s, q) /\ s \in Holders(q, old)
      BY <1>1 DEF PageOf, Holders
    <3>2. heap'[q][old] = left
      BY <1>0, <2>1, <2>2, <3>1 DEF TypeOK
    <3>3. Holders(q, old)' = Holders(q, old) \ {s}
      BY <1>0, <2>1, <2>2, <3>1 DEF Holders, TypeOK
    <3>4. /\ Cardinality(Holders(q, old)') = Cardinality(Holders(q, old)) - 1
          /\ Cardinality(Holders(q, old)) \in Nat
      <4> DEFINE H == Holders(q, old)
      <4>1. IsFiniteSet(H) /\ Cardinality(H) \in Nat /\ s \in H
        BY <3>1, HoldersFinite
      <4> HIDE DEF H
      <4>2. Cardinality(H \ {s}) = Cardinality(H) - 1
        BY <4>1, FS_RemoveElement
      <4> QED
        BY <3>3, <4>1, <4>2 DEF H
    <3>5. Cardinality(Holders(q, old)) <= PageOf(s, q).refCount
      BY <3>1 DEF IInv, Counted
    <3>6. PageOf(s, q).refCount \in Nat
      BY <1>1 DEF Page
    <3>7. Cardinality(Holders(q, old)') <= left.refCount
      BY <2>3, <3>4, <3>5, <3>6
    <3>8. left.shared <=> left.refCount > 1
      BY <2>3
    <3> QED
      BY <3>2, <3>7, <3>8 DEF Counted
  <2> QED
    BY <2>5, <2>6
<1> QED
  BY <1>2, <1>3 DEF write8

\* A copy-on-write clone adds the child to the holders of every page of the
\* parent and raises each of their counts.
LEMMA CloneCowCounted ==
    ASSUME IInv, TypeOK', NEW s \in Space, NEW c \in Space, cloneCow(s, c)
    PROVE  \A p \in PageNo, id \in PageId : Counted(p, id)'
<1>0. TypeOK
  BY DEF IInv
<1> SUFFICES ASSUME NEW p \in PageNo, NEW id \in PageId
             PROVE  Counted(p, id)'
  OBVIOUS
<1>1. pages' = [pages EXCEPT ![c] = pages[s]]
  BY DEF cloneCow
<1>2. pages[c][p] = NoPage
  BY DEF IInv, DeadSpacesEmpty, cloneCow, NoPages
<1>3. s # c => pages'[s][p] = pages[s][p]
  BY <1>0, <1>1 DEF TypeOK
<1>4. CASE IsMapped(s, p) /\ id = pages[s][p]
  <2>1. heap'[p][id] = Share(PageOf(s, p)) /\ PageOf(s, p) = heap[p][id]
    BY <1>0, <1>4 DEF cloneCow, TypeOK, PageOf
  <2>2. PageOf(s, p) \in Page
    BY <1>0, <1>4, PageOfType
  <2>3. /\ heap'[p][id].refCount = heap[p][id].refCount + 1
        /\ heap'[p][id].shared = TRUE
        /\ heap[p][id].refCount \in Nat
    BY <2>1, <2>2, ShareProps DEF Page
  <2>4. c \notin Holders(p, id) /\ s \in Holders(p, id)
    BY <1>2, <1>4, FreshAssumption DEF Holders
  <2>5. Holders(p, id)' = Holders(p, id) \cup {c}
    BY <1>0, <1>1, <1>4 DEF Holders, TypeOK
  <2>6. /\ Cardinality(Holders(p, id)') = Cardinality(Holders(p, id)) + 1
        /\ Cardinality(Holders(p, id)) \in Nat
    BY <2>4, <2>5, HoldersFinite, FS_AddElement
  <2>7. Cardinality(Holders(p, id)) <= heap[p][id].refCount
    BY <2>4 DEF IInv, Counted
  <2>8. Cardinality(Holders(p, id)) # 0
    BY <2>4, HoldersFinite, FS_EmptySet
  <2>9. /\ Cardinality(Holders(p, id)') <= heap'[p][id].refCount
        /\ heap'[p][id].refCount > 1
    BY <2>3, <2>6, <2>7, <2>8
  <2> QED
    BY <2>3, <2>9 DEF Counted
<1>5. CASE ~(IsMapped(s, p) /\ id = pages[s][p])
  <2>1. Holders(p, id)' \subseteq Holders(p, id)
    BY <1>0, <1>1, <1>5, FreshAssumption DEF Holders, TypeOK, IsMapped
  <2>2. heap'[p][id] = heap[p][id]
    BY <1>0, <1>5, PageOfType DEF cloneCow, TypeOK
  <2> QED
    BY <1>0, <2>1, <2>2, CountedWhenShrinking DEF IInv
<1> QED
  BY <1>4, <1>5

\* A deep clone gives the child objects of its own.
LEMMA CloneDeepCounted ==
    ASSUME IInv, TypeOK', NEW s \in Space, NEW c \in Space, cloneDeep(s, c)
    PROVE  \A p \in PageNo, id \in PageId : Counted(p, id)'
<1>0. TypeOK
  BY DEF IInv
<1> SUFFICES ASSUME NEW p \in PageNo, NEW id \in PageId
             PROVE  Calm(p, id) \/ New(p, id, c)
  BY <1>0, CalmOrNew DEF IInv
<1>1. CASE IsMapped(s, p) /\ id = FreshId(p)
  <2>1. Holders(p, id)' \subseteq {c}
    BY <1>0, <1>1, FreshIdProps DEF cloneDeep, Holders, TypeOK
  <2>2. heap'[p][id] = CopyOf(PageOf(s, p))
    BY <1>0, <1>1, FreshIdProps DEF cloneDeep, TypeOK
  <2>3. CopyOf(PageOf(s, p)).refCount = 1 /\ CopyOf(PageOf(s, p)).shared = FALSE
    BY <1>0, <1>1, PageOfType, CopyOfProps
  <2> QED
    BY <2>1, <2>2, <2>3 DEF New
<1>2. CASE ~(IsMapped(s, p) /\ id = FreshId(p))
  <2>1. Holders(p, id)' \subseteq Holders(p, id)
    BY <1>0, <1>2, FreshAssumption DEF cloneDeep, Holders, TypeOK
  <2>2. heap'[p][id] = heap[p][id]
    BY <1>0, <1>2, FreshIdProps DEF cloneDeep, TypeOK
  <2> QED
    BY <2>1, <2>2 DEF Calm
<1> QED
  BY <1>1, <1>2

-----------------------------------------------------------------------------
\* A space in use by nobody stays without pages.
LEMMA NextDeadSpacesEmpty ==
    ASSUME IInv, [Next]_vars
    PROVE  DeadSpacesEmpty'
<1>0. TypeOK /\ DeadSpacesEmpty
  BY DEF IInv
<1> SUFFICES ASSUME NEW t \in Space, t \notin alive'
             PROVE  pages'[t] = NoPages
  BY DEF DeadSpacesEmpty, NoPages
<1>1. CASE pages'[t] = pages[t] /\ t \notin alive
  BY <1>0, <1>1 DEF DeadSpacesEmpty
<1>2. ASSUME NEW s \in Space, NewMemory(s) PROVE pages'[t] = NoPages
  BY <1>0, <1>1, <1>2 DEF NewMemory, TypeOK
<1>3. ASSUME NEW s \in alive, Release(s) PROVE pages'[t] = NoPages
  BY <1>0, <1>1, <1>3 DEF Release, TypeOK
<1>4. ASSUME NEW s \in alive, NEW start, NEW n, NEW perm, NEW c,
             \/ map(s, start, n, perm) \/ mmapFixed(s, start, n, perm)
             \/ unmap(s, start, n) \/ mprotect(s, start, n, perm)
             \/ loadBytes(s, start, n, c, perm)
      PROVE  pages'[t] = NoPages
  <2>1. t # s /\ t \notin alive
    BY <1>4 DEF map, mmapFixed, unmap, mprotect, loadBytes
  <2>2. pages'[t] = pages[t]
    BY <1>0, <1>4, <2>1 DEF map, mmapFixed, unmap, mprotect, loadBytes, MapTable, TypeOK
  <2> QED
    BY <1>1, <2>1, <2>2
<1>5. ASSUME NEW s \in alive, NEW p, NEW o, NEW b,
             write8(s, p, o, b) \/ forceWrite8(s, p, o, b)
      PROVE  pages'[t] = NoPages
  <2>1. t # s /\ t \notin alive
    BY <1>5 DEF write8, forceWrite8
  <2>2. pages'[t] = pages[t]
    BY <1>0, <1>5, <2>1 DEF write8, write8Copy, write8InPlace, forceWrite8, TypeOK
  <2> QED
    BY <1>1, <2>1, <2>2
<1>6. ASSUME NEW s \in alive, NEW c \in Space, cloneCow(s, c) \/ cloneDeep(s, c)
      PROVE  pages'[t] = NoPages
  BY <1>0, <1>1, <1>6 DEF cloneCow, cloneDeep, TypeOK
<1>7. CASE UNCHANGED vars
  BY <1>0, <1>1, <1>7 DEF vars
<1> QED
  BY <1>2, <1>3, <1>4, <1>5, <1>6, <1>7 DEF Next, GuestNext, LoaderNext, mmapAnywhere

\* Every object that comes to be shared is shared by a clone, which both sides
\* have taken part in; a page that is mapped is a new object.
LEMMA NextSharersHaveForked ==
    ASSUME IInv, [Next]_vars
    PROVE  SharersHaveForked'
<1>0. TypeOK /\ SharersHaveForked
  BY DEF IInv
<1> SUFFICES ASSUME NEW l \in Space, NEW t \in Space, NEW q \in PageNo,
                    l # t, pages'[l][q] # NoPage, pages'[l][q] = pages'[t][q]
             PROVE  l \in forked'
  BY DEF SharersHaveForked, IsMapped, PageNo
<1>1. ASSUME NEW s \in Space,
             pages'[s][q] \in {pages[s][q], NoPage, FreshId(q)},
             \A r \in Space : r # s => pages'[r][q] = pages[r][q]
      PROVE  l \in forked /\ pages[l][q] = pages'[l][q]
  <2>1. pages[l][q] # FreshId(q) /\ pages[t][q] # FreshId(q)
    BY <1>0, FreshIdProps
  <2>2. pages'[l][q] = pages[l][q] /\ pages'[t][q] = pages[t][q]
    BY <1>1, <2>1
  <2> QED
    BY <1>0, <2>2 DEF SharersHaveForked, IsMapped
<1>2. ASSUME NEW s \in Space, NewMemory(s) \/ Release(s)
      PROVE  l \in forked'
  <2>1. pages'[s][q] = NoPage /\ (\A r \in Space : r # s => pages'[r][q] = pages[r][q]) /\ forked' = forked \ {s}
    BY <1>0, <1>2 DEF NewMemory, Release, NoPages, TypeOK
  <2> QED
    BY <1>1, <2>1
<1>3. ASSUME NEW s \in alive, NEW start, NEW n, NEW perm, NEW c,
             \/ map(s, start, n, perm) \/ mmapFixed(s, start, n, perm)
             \/ unmap(s, start, n) \/ mprotect(s, start, n, perm)
             \/ loadBytes(s, start, n, c, perm)
      PROVE  l \in forked'
  <2>1. s \in Space /\ forked' = forked
    BY <1>0, <1>3 DEF map, mmapFixed, unmap, mprotect, loadBytes, TypeOK
  <2>2. /\ pages'[s][q] \in {pages[s][q], NoPage, FreshId(q)}
        /\ \A r \in Space : r # s => pages'[r][q] = pages[r][q]
    BY <1>0, <1>3, <2>1 DEF map, mmapFixed, unmap, mprotect, loadBytes, MapTable, TypeOK
  <2> QED
    BY <1>1, <2>1, <2>2
<1>4. ASSUME NEW s \in alive, NEW p, NEW o, NEW b,
             write8(s, p, o, b) \/ forceWrite8(s, p, o, b)
      PROVE  l \in forked'
  <2>1. s \in Space /\ forked' = forked
    BY <1>0, <1>4 DEF write8, forceWrite8, TypeOK
  <2>2. /\ pages'[s][q] \in {pages[s][q], FreshId(q)}
        /\ \A r \in Space : r # s => pages'[r][q] = pages[r][q]
    BY <1>0, <1>4, <2>1 DEF write8, write8Copy, write8InPlace, forceWrite8, TypeOK
  <2> QED
    BY <1>1, <2>1, <2>2
<1>5. ASSUME NEW s \in alive, NEW c \in Space, cloneCow(s, c)
      PROVE  l \in forked'
  <2>1. s \in Space /\ forked' = forked \cup {s, c}
    BY <1>0, <1>5 DEF cloneCow, TypeOK
  <2>2. \A r \in Space : pages'[r][q] = IF r = c THEN pages[s][q] ELSE pages[r][q]
    BY <1>0, <1>5 DEF cloneCow, TypeOK
  <2>3. CASE l # s /\ l # c
    <3>1. pages[l][q] = pages'[l][q] /\ (pages'[t][q] = pages[t][q] \/ pages'[t][q] = pages[s][q])
      BY <2>2, <2>3
    <3> QED
      BY <1>0, <2>1, <2>3, <3>1 DEF SharersHaveForked, IsMapped
  <2> QED
    BY <2>1, <2>3
<1>6. ASSUME NEW s \in alive, NEW c \in Space, cloneDeep(s, c)
      PROVE  l \in forked'
  <2>1. forked' = forked
    BY <1>6 DEF cloneDeep
  <2>2. /\ pages'[c][q] \in {pages[c][q], NoPage, FreshId(q)}
        /\ \A r \in Space : r # c => pages'[r][q] = pages[r][q]
    BY <1>0, <1>6 DEF cloneDeep, TypeOK
  <2> QED
    BY <1>1, <2>1, <2>2
<1>7. CASE UNCHANGED vars
  BY <1>1, <1>7 DEF vars
<1>8. \A s \in alive : s \in Space
  BY <1>0 DEF TypeOK
<1> QED
  BY <1>2, <1>3, <1>4, <1>5, <1>6, <1>7, <1>8 DEF Next, GuestNext, LoaderNext, mmapAnywhere

-----------------------------------------------------------------------------
\* The inductive invariant holds at the start.
LEMMA InitIInv == Init => IInv
<1> SUFFICES ASSUME Init PROVE IInv
  OBVIOUS
<1>1. TypeOK
  BY InitType
<1>2. \A p \in PageNo, id \in PageId : Holders(p, id) = {}
  BY FreshAssumption DEF Init, Holders, NoPages
<1>3. \A s \in Space, p \in PageNo : ~IsMapped(s, p)
  BY DEF Init, NoPages, IsMapped
<1>4. SharersHaveForked
  BY <1>3 DEF SharersHaveForked
<1> QED
  BY <1>1, <1>2, <1>4 DEF IInv, Init, DeadSpacesEmpty, Counted

\* Every operation keeps the inductive invariant.
LEMMA NextIInv == IInv /\ [Next]_vars => IInv'
<1> SUFFICES ASSUME IInv, [Next]_vars PROVE IInv'
  OBVIOUS
<1>1. TypeOK /\ TypeOK'
  BY NextType DEF IInv
<1>2. DeadSpacesEmpty' /\ SharersHaveForked'
  BY NextDeadSpacesEmpty, NextSharersHaveForked
<1>3. \A p \in PageNo, id \in PageId : Counted(p, id)'
  <2>0. \A s \in alive : s \in Space
    BY <1>1 DEF TypeOK
  <2>1. CASE \E s \in Space : NewMemory(s)
    BY <1>1, <2>1, SpaceCounted
  <2>2. CASE \E s \in alive : Release(s)
    BY <1>1, <2>0, <2>2, SpaceCounted
  <2>3. CASE \E s \in alive, start \in PageNo, n \in 1 .. NPages, perm \in PermSets :
                \/ map(s, start, n, perm)
                \/ mmapFixed(s, start, n, perm)
                \/ mprotect(s, start, n, perm)
    BY <1>1, <2>0, <2>3, MapStepCounted, MmapFixedCounted, MprotectCounted
  <2>4. CASE \E s \in alive, n \in 1 .. NPages, perm \in PermSets : mmapAnywhere(s, n, perm)
    BY <1>1, <2>0, <2>4, MapStepCounted DEF mmapAnywhere
  <2>5. CASE \E s \in alive, start \in PageNo, n \in 1 .. NPages : unmap(s, start, n)
    BY <1>1, <2>0, <2>5, UnmapCounted
  <2>6. CASE \E s \in alive, p \in PageNo, o \in Offset, b \in Byte :
                write8(s, p, o, b) \/ forceWrite8(s, p, o, b)
    BY <1>1, <2>0, <2>6, Write8Counted
  <2>7. CASE \E s \in alive, start \in PageNo, n \in 1 .. NPages, perm \in PermSets,
                c \in PageData : loadBytes(s, start, n, c, perm)
    BY <1>1, <2>0, <2>7, LoadBytesCounted
  <2>8. CASE \E s \in alive, c \in Space : cloneCow(s, c) \/ cloneDeep(s, c)
    BY <1>1, <2>0, <2>8, CloneCowCounted, CloneDeepCounted
  <2>9. CASE UNCHANGED vars
    BY <1>1, <2>9, AllCalm DEF vars, Calm, Holders, IInv
  <2> QED
    BY <2>1, <2>2, <2>3, <2>4, <2>5, <2>6, <2>7, <2>8, <2>9 DEF Next, GuestNext, LoaderNext
<1> QED
  BY <1>1, <1>2, <1>3 DEF IInv

\* The inductive invariant holds in every reachable state.
THEOREM Invariance == Spec => []IInv
BY InitIInv, NextIInv, PTL DEF Spec

\* Reference counts never fall below the number of address spaces that refer
\* to the object, whatever sequence of forks, writes, unmaps, execs and exits
\* led here.
THEOREM RefCountsCoverHolders == Spec => []RefCountCoversHolders
<1>1. IInv => RefCountCoversHolders
  BY DEF IInv, Counted, RefCountCoversHolders
<1> QED
  BY <1>1, Invariance, PTL

\* The shared flag and the count of an object in use always agree.
THEOREM SharedIsCounted == Spec => []SharedMeansCounted
<1>1. IInv => SharedMeansCounted
  BY DEF IInv, Counted, SharedMeansCounted
<1> QED
  BY <1>1, Invariance, PTL

-----------------------------------------------------------------------------
\* The refinement: what each operation does to what each process reads.
LEMMA SeenType ==
    ASSUME TypeOK, NEW s \in Space, NEW p \in PageNo
    PROVE  /\ IsMapped(s, p) => Seen(s, p) \in PageData
           /\ Seen(s, p) = NoPage <=> ~IsMapped(s, p)
<1>1. IsMapped(s, p) => PageOf(s, p).data \in PageData
  BY PageOfType DEF Page
<1> QED
  BY <1>1, FreshAssumption DEF Seen

\* While a space keeps its object and the object keeps its data, reads do not
\* change.
LEMMA SeenUnchanged ==
    ASSUME NEW t \in Space, NEW p \in PageNo,
           pages'[t][p] = pages[t][p],
           IsMapped(t, p) => heap'[p][pages[t][p]].data = heap[p][pages[t][p]].data
    PROVE  Seen(t, p)' = Seen(t, p)
BY DEF Seen, IsMapped, PageOf

\* The writer that does not copy is the only holder of the object.
LEMMA InPlaceIsPrivate ==
    ASSUME IInv, NEW s \in Space, NEW p \in PageNo, IsMapped(s, p),
           ~MustCopy(PageOf(s, p)), NEW t \in Space, t # s
    PROVE  pages[t][p] # pages[s][p]
<1> DEFINE H == Holders(p, pages[s][p])
<1>1. SUFFICES ASSUME pages[t][p] = pages[s][p] PROVE FALSE
  OBVIOUS
<1>2. s \in H /\ t \in H
  BY <1>1 DEF Holders
<1>3. /\ pages[s][p] \in PageId
      /\ PageOf(s, p) = heap[p][pages[s][p]]
      /\ PageOf(s, p) \in Page
  BY PageOfType DEF IInv, PageOf
<1>4. /\ Cardinality(H) <= PageOf(s, p).refCount
      /\ PageOf(s, p).shared <=> PageOf(s, p).refCount > 1
  BY <1>2, <1>3 DEF IInv, Counted
<1>5. PageOf(s, p).refCount \in Nat /\ ~(PageOf(s, p).refCount > 1)
  BY <1>3, <1>4 DEF MustCopy, Page
<1>6. /\ IsFiniteSet(H) /\ Cardinality(H) \in Nat
      /\ IsFiniteSet(H \ {s}) /\ Cardinality(H \ {s}) = Cardinality(H) - 1
  BY <1>2, HoldersFinite, FS_RemoveElement
<1>7. Cardinality(H \ {s}) # 0
  BY <1>2, <1>6, FS_EmptySet
<1> QED
  BY <1>4, <1>5, <1>6, <1>7, FS_CardinalityType

\* A write is seen by its writer, at the byte written, and by nobody else.
LEMMA WriteSeen ==
    ASSUME IInv, NEW s \in Space, NEW p \in PageNo, NEW o \in Offset, NEW b \in Byte,
           write8(s, p, o, b)
    PROVE  /\ Seen(s, p) # NoPage
           /\ Seen(s, p)' = [Seen(s, p) EXCEPT ![o] = b]
           /\ \A t \in Space, q \in PageNo :
                 ~(t = s /\ q = p) => Seen(t, q)' = Seen(t, q)
<1>0. TypeOK /\ IsMapped(s, p)
  BY DEF IInv, write8
<1>1. pages[s][p] \in PageId /\ PageOf(s, p) \in Page
  BY <1>0, PageOfType
<1>2. Seen(s, p) # NoPage /\ Seen(s, p) = PageOf(s, p).data
  BY <1>0, SeenType DEF Seen
<1>3. CASE write8InPlace(s, p, o, b)
  <2> DEFINE h == SetByte(PageOf(s, p), o, b)
  <2>1. /\ pages' = pages
        /\ heap' = [heap EXCEPT ![p] = [heap[p] EXCEPT ![pages[s][p]] = h]]
    BY <1>3 DEF write8InPlace
  <2>2. h.data = [Seen(s, p) EXCEPT ![o] = b]
    BY <1>1, <1>2, SetByteProps
  <2>3. \A t \in Space : t # s => pages[t][p] # pages[s][p]
    BY <1>0, <1>3, InPlaceIsPrivate DEF write8InPlace
  <2> HIDE DEF h
  <2>4. heap'[p][pages[s][p]] = h
    BY <1>0, <1>1, <2>1 DEF TypeOK
  <2>5. Seen(s, p)' = h.data
    BY <1>0, <2>1, <2>4 DEF Seen, IsMapped, PageOf
  <2>6. ASSUME NEW t \in Space, NEW q \in PageNo, ~(t = s /\ q = p)
        PROVE  Seen(t, q)' = Seen(t, q)
    <3>1. heap'[q][pages[t][q]] = heap[q][pages[t][q]]
      <4>1. CASE q # p
        BY <1>0, <2>1, <4>1 DEF TypeOK
      <4>2. CASE q = p
        BY <1>0, <1>1, <2>1, <2>3, <2>6, <4>2 DEF TypeOK
      <4> QED
        BY <4>1, <4>2
    <3> QED
      BY <2>1, <3>1, SeenUnchanged
  <2> QED
    BY <1>2, <2>2, <2>5, <2>6
<1>4. CASE write8Copy(s, p, o, b)
  <2> DEFINE old == pages[s][p]
             new == FreshId(p)
             left == LeaveBehind(PageOf(s, p))
             copy == SetByte(CopyOf(PageOf(s, p)), o, b)
  <2>1. /\ pages' = [pages EXCEPT ![s] = [pages[s] EXCEPT ![p] = new]]
        /\ heap' = [heap EXCEPT ![p] = [heap[p] EXCEPT ![old] = left, ![new] = copy]]
        /\ PageOf(s, p).shared /\ PageOf(s, p).refCount > 1
    BY <1>4 DEF write8Copy, MustCopy
  <2>2. /\ new \in PageId /\ new # old /\ new # NoPage
        /\ \A t \in Space : pages[t][p] # new
    BY <1>0, FreshIdProps
  <2>3. left.data = PageOf(s, p).data /\ PageOf(s, p) = heap[p][old]
    BY <1>1, <2>1, LeaveBehindProps DEF PageOf
  <2>4. copy.data = [Seen(s, p) EXCEPT ![o] = b]
    <3>1. /\ CopyOf(PageOf(s, p)) \in Page
          /\ CopyOf(PageOf(s, p)).data = PageOf(s, p).data
      BY <1>1, CopyOfProps
    <3> QED
      BY <1>2, <3>1, SetByteProps
  <2>0. old \in PageId
    BY <1>1
  <2> HIDE DEF old, new, left, copy
  <2>5. pages'[s][p] = new /\ heap'[p][new] = copy
    BY <1>0, <2>1, <2>2 DEF TypeOK
  <2>6. Seen(s, p)' = copy.data
    BY <2>2, <2>5 DEF Seen, IsMapped, PageOf
  <2>7. ASSUME NEW t \in Space, NEW q \in PageNo, ~(t = s /\ q = p)
        PROVE  Seen(t, q)' = Seen(t, q)
    <3>1. pages'[t][q] = pages[t][q]
      BY <1>0, <2>1, <2>7 DEF TypeOK
    <3>2. CASE q # p
      BY <1>0, <2>1, <3>1, <3>2, SeenUnchanged DEF TypeOK
    <3>3. CASE q = p /\ pages[t][q] = old
      <4>1. heap'[q][pages[t][q]].data = heap[q][pages[t][q]].data
        BY <1>0, <2>0, <2>1, <2>2, <2>3, <3>3 DEF TypeOK
      <4> QED
        BY <3>1, <4>1, SeenUnchanged
    <3>4. CASE q = p /\ pages[t][q] # old
      <4>1. IsMapped(t, q) => heap'[q][pages[t][q]] = heap[q][pages[t][q]]
        BY <1>0, <2>1, <2>2, <3>4 DEF TypeOK, IsMapped
      <4> QED
        BY <3>1, <4>1, SeenUnchanged
    <3> QED
      BY <3>2, <3>3, <3>4
  <2> QED
    BY <1>2, <2>4, <2>6, <2>7
<1> QED
  BY <1>3, <1>4 DEF write8

\* A new or a discarded memory empties one space.
LEMMA SpaceSeen ==
    ASSUME TypeOK, NEW s \in Space, NewMemory(s) \/ Release(s)
    PROVE  \A t \in Space, q \in PageNo :
              Seen(t, q)' = IF t = s THEN NoPage ELSE Seen(t, q)
BY DEF NewMemory, Release, NoPages, Seen, IsMapped, PageOf, TypeOK

\* A page mapped for the first time reads as zeros; nothing else changes.
LEMMA MapSeen ==
    ASSUME TypeOK, NEW s \in Space, NEW start, NEW n, NEW perm \in PermSets,
           map(s, start, n, perm)
    PROVE  \A t \in Space, q \in PageNo :
              Seen(t, q)' = IF t = s /\ q \in RangePages(start, n) /\ Seen(t, q) = NoPage
                            THEN ZeroData ELSE Seen(t, q)
<1> DEFINE R == RangePages(start, n)
<1>0. perm \in Perm
  BY PermAssumption
<1> SUFFICES ASSUME NEW t \in Space, NEW q \in PageNo
             PROVE  Seen(t, q)' = IF t = s /\ q \in R /\ Seen(t, q) = NoPage
                                  THEN ZeroData ELSE Seen(t, q)
  OBVIOUS
<1>1. /\ pages' = MapTable(s, R) /\ heap' = MapHeap(s, R, perm)
  BY DEF map
<1>2. CASE t = s /\ q \in R /\ ~IsMapped(s, q)
  <2>1. pages'[t][q] = FreshId(q) /\ heap'[q][FreshId(q)] = NewPage(perm)
    BY <1>1, <1>2, FreshIdProps DEF MapTable, MapHeap, TypeOK
  <2>2. Seen(t, q)' = ZeroData
    BY <1>0, <2>1, FreshIdProps, NewPageProps DEF Seen, IsMapped, PageOf
  <2> QED
    BY <1>2, <2>2, SeenType
<1>3. CASE ~(t = s /\ q \in R /\ ~IsMapped(s, q))
  <2>1. pages'[t][q] = pages[t][q]
    BY <1>1, <1>3 DEF MapTable, TypeOK
  <2>2. IsMapped(t, q) => heap'[q][pages[t][q]].data = heap[q][pages[t][q]].data
    <3>1. CASE q \notin R
      BY <1>1, <3>1 DEF MapHeap
    <3>2. CASE q \in R /\ IsMapped(s, q)
      <4>1. SetPerm(PageOf(s, q), perm).data = heap[q][pages[s][q]].data
        BY <1>0, <3>2, PageOfType, SetPermProps DEF PageOf
      <4> QED
        BY <1>1, <3>2, <4>1, PageOfType DEF MapHeap, TypeOK
    <3>3. CASE q \in R /\ ~IsMapped(s, q)
      BY <1>1, <3>3, FreshIdProps DEF MapHeap, TypeOK, IsMapped
    <3> QED
      BY <3>1, <3>2, <3>3
  <2>3. Seen(t, q)' = Seen(t, q)
    BY <2>1, <2>2, SeenUnchanged
  <2> QED
    BY <1>3, <2>3, SeenType
<1> QED
  BY <1>2, <1>3

\* mmap at a fixed address replaces the pages of its range by zeroed ones.
LEMMA MmapFixedSeen ==
    ASSUME TypeOK, NEW s \in Space, NEW start, NEW n, NEW perm \in PermSets,
           mmapFixed(s, start, n, perm)
    PROVE  \A t \in Space, q \in PageNo :
              Seen(t, q)' = IF t = s /\ q \in RangePages(start, n)
                            THEN ZeroData ELSE Seen(t, q)
<1> DEFINE R == RangePages(start, n)
<1>0. perm \in Perm
  BY PermAssumption
<1> SUFFICES ASSUME NEW t \in Space, NEW q \in PageNo
             PROVE  Seen(t, q)' = IF t = s /\ q \in R THEN ZeroData ELSE Seen(t, q)
  OBVIOUS
<1>1. CASE t = s /\ q \in R
  <2>1. pages'[t][q] = FreshId(q) /\ heap'[q][FreshId(q)] = NewPage(perm)
    BY <1>1, FreshIdProps DEF mmapFixed, TypeOK
  <2> QED
    BY <1>0, <1>1, <2>1, FreshIdProps, NewPageProps DEF Seen, IsMapped, PageOf
<1>2. CASE ~(t = s /\ q \in R)
  <2>1. pages'[t][q] = pages[t][q]
    BY <1>2 DEF mmapFixed, TypeOK
  <2>2. IsMapped(t, q) => heap'[q][pages[t][q]] = heap[q][pages[t][q]]
    BY FreshIdProps DEF mmapFixed, TypeOK, IsMapped
  <2> QED
    BY <1>2, <2>1, <2>2, SeenUnchanged
<1> QED
  BY <1>1, <1>2

\* unmap takes pages of one space out of its sight and changes no other.
LEMMA UnmapSeen ==
    ASSUME TypeOK, NEW s \in Space, NEW start, NEW n, unmap(s, start, n)
    PROVE  \A t \in Space, q \in PageNo :
              Seen(t, q)' = IF t = s /\ q \in MappedPrefix(s, start, n)
                            THEN NoPage ELSE Seen(t, q)
BY DEF unmap, Seen, IsMapped, PageOf, TypeOK

\* mprotect changes no content, although it changes shared objects.
LEMMA MprotectSeen ==
    ASSUME TypeOK, NEW s \in Space, NEW start, NEW n, NEW perm \in PermSets,
           mprotect(s, start, n, perm)
    PROVE  \A t \in Space, q \in PageNo : Seen(t, q)' = Seen(t, q)
<1> SUFFICES ASSUME NEW t \in Space, NEW q \in PageNo PROVE Seen(t, q)' = Seen(t, q)
  OBVIOUS
<1>0. perm \in Perm /\ pages' = pages
  BY PermAssumption DEF mprotect
<1>1. CASE q \in MappedPrefix(s, start, n)
  <2>1. IsMapped(s, q)
    BY <1>1 DEF MappedPrefix, RangePages, PageNo
  <2>2. SetPerm(PageOf(s, q), perm).data = heap[q][pages[s][q]].data
    BY <1>0, <2>1, PageOfType, SetPermProps DEF PageOf
  <2>3. IsMapped(t, q) => heap'[q][pages[t][q]].data = heap[q][pages[t][q]].data
    BY <1>1, <2>1, <2>2, PageOfType DEF mprotect, TypeOK
  <2> QED
    BY <1>0, <2>3, SeenUnchanged
<1>2. CASE q \notin MappedPrefix(s, start, n)
  BY <1>0, <1>2, SeenUnchanged DEF mprotect
<1> QED
  BY <1>1, <1>2

\* What a loader writes is seen by its own process, and where the object is shared
\* by those that share it: they have forked and read the page alike.
Shows(s, t, q) == {s, t} \subseteq forked /\ Seen(s, q) # NoPage /\ Seen(t, q) = Seen(s, q)

LEMMA SharerShows ==
    ASSUME IInv, NEW s \in Space, NEW t \in Space, NEW q \in PageNo, s # t,
           IsMapped(s, q), pages[t][q] = pages[s][q]
    PROVE  Shows(s, t, q)
<1>1. TypeOK /\ SharersHaveForked
  BY DEF IInv
<1>2. IsMapped(t, q)
  BY DEF IsMapped
<1>3. s \in forked /\ t \in forked
  BY <1>1, <1>2 DEF SharersHaveForked
<1>4. Seen(s, q) # NoPage /\ Seen(t, q) = Seen(s, q)
  BY <1>1, <1>2, SeenType DEF Seen, PageOf
<1> QED
  BY <1>3, <1>4 DEF Shows

\* An object replaced in place by one with content c.
LEMMA InPlaceShows ==
    ASSUME IInv, NEW s \in Space, NEW t \in Space, NEW q \in PageNo, IsMapped(s, q),
           NEW h, NEW c, h.data = c,
           heap'[q] = [heap[q] EXCEPT ![pages[s][q]] = h], pages'[t][q] = pages[t][q]
    PROVE  /\ t = s => Seen(t, q)' = c
           /\ t # s => Seen(t, q)' = Seen(t, q) \/ (Seen(t, q)' = c /\ Shows(s, t, q))
<1>1. TypeOK /\ pages[s][q] \in PageId
  BY PageOfType DEF IInv
<1>2. heap'[q][pages[s][q]] = h
  BY <1>1 DEF TypeOK
<1>3. ASSUME pages[t][q] = pages[s][q]
      PROVE  Seen(t, q)' = c
  BY <1>2, <1>3 DEF Seen, IsMapped, PageOf
<1>4. CASE pages[t][q] = pages[s][q]
  BY <1>3, <1>4, SharerShows
<1>5. CASE pages[t][q] # pages[s][q]
  <2>1. IsMapped(t, q) => heap'[q][pages[t][q]] = heap[q][pages[t][q]]
    BY <1>1, <1>5, PageOfType DEF TypeOK
  <2>2. Seen(t, q)' = Seen(t, q)
    BY <2>1, SeenUnchanged
  <2> QED
    BY <1>5, <2>2
<1> QED
  BY <1>4, <1>5

\* loadBytes.
LEMMA LoadBytesSeen ==
    ASSUME IInv, NEW s \in Space, NEW start, NEW n, NEW perm \in PermSets,
           NEW c \in PageData, loadBytes(s, start, n, c, perm),
           NEW t \in Space, NEW q \in PageNo
    PROVE  \/ Seen(t, q)' = Seen(t, q) /\ ~(t = s /\ q \in RangePages(start, n))
           \/ Seen(t, q)' = c /\ q \in RangePages(start, n) /\ (t = s \/ Shows(s, t, q))
<1> DEFINE R == RangePages(start, n)
<1>0. perm \in Perm /\ TypeOK
  BY PermAssumption DEF IInv
<1>1. pages' = MapTable(s, R)
  BY DEF loadBytes
<1>2. CASE q \notin R
  <2>1. pages'[t][q] = pages[t][q] /\ heap'[q] = heap[q]
    BY <1>0, <1>1, <1>2 DEF loadBytes, MapTable, TypeOK
  <2> QED
    BY <1>2, <2>1, SeenUnchanged
<1>3. CASE q \in R /\ IsMapped(s, q)
  <2> DEFINE h == SetData(SetPerm(PageOf(s, q), perm), c)
  <2>1. h.data = c
    BY <1>0, <1>3, PageOfType, SetPermProps, SetDataProps
  <2>2. heap'[q] = [heap[q] EXCEPT ![pages[s][q]] = h]
    BY <1>3 DEF loadBytes
  <2> HIDE DEF h
  <2>3. pages'[t][q] = pages[t][q]
    BY <1>0, <1>1, <1>3 DEF MapTable, TypeOK
  <2>4. /\ t = s => Seen(t, q)' = c
        /\ t # s => Seen(t, q)' = Seen(t, q) \/ (Seen(t, q)' = c /\ Shows(s, t, q))
    BY <1>3, <2>1, <2>2, <2>3, InPlaceShows
  <2> QED
    BY <1>3, <2>4
<1>4. CASE q \in R /\ ~IsMapped(s, q)
  <2> DEFINE h == SetData(NewPage(perm), c)
  <2>1. h.data = c
    BY <1>0, NewPageProps, SetDataProps
  <2>2. heap'[q] = [heap[q] EXCEPT ![FreshId(q)] = h]
    BY <1>4 DEF loadBytes
  <2> HIDE DEF h
  <2>3. CASE t = s
    <3>1. pages'[t][q] = FreshId(q) /\ heap'[q][FreshId(q)] = h
      BY <1>0, <1>1, <1>4, <2>2, <2>3, FreshIdProps DEF MapTable, TypeOK
    <3> QED
      BY <1>0, <1>4, <2>1, <2>3, <3>1, FreshIdProps DEF Seen, IsMapped, PageOf
  <2>4. CASE t # s
    <3>1. pages'[t][q] = pages[t][q]
      BY <1>0, <1>1, <2>4 DEF MapTable, TypeOK
    <3>2. IsMapped(t, q) => heap'[q][pages[t][q]] = heap[q][pages[t][q]]
      BY <1>0, <2>2, FreshIdProps DEF TypeOK, IsMapped
    <3> QED
      BY <2>4, <3>1, <3>2, SeenUnchanged
  <2> QED
    BY <2>3, <2>4
<1> QED
  BY <1>2, <1>3, <1>4

\* forceWrite8, which puts the old content with one byte changed.
LEMMA ForceWriteSeen ==
    ASSUME IInv, NEW s \in Space, NEW p \in PageNo, NEW o \in Offset, NEW b \in Byte,
           forceWrite8(s, p, o, b)
    PROVE  \E c \in PageData : \A t \in Space, q \in PageNo :
               \/ Seen(t, q)' = Seen(t, q) /\ ~(t = s /\ q = p)
               \/ Seen(t, q)' = c /\ q = p /\ (t = s \/ Shows(s, t, q))
<1> PICK c : c = [Seen(s, p) EXCEPT ![o] = b]
  OBVIOUS
<1>0. TypeOK /\ IsMapped(s, p) /\ pages' = pages
  BY DEF IInv, forceWrite8
<1>1. PageOf(s, p) \in Page /\ Seen(s, p) = PageOf(s, p).data /\ pages[s][p] \in PageId
  BY <1>0, PageOfType DEF Seen
<1>2. c \in PageData
  BY <1>1 DEF Page, PageData
<1>3. PICK h : h = SetByte(PageOf(s, p), o, b)
  OBVIOUS
<1>4. h.data = c
  BY <1>1, <1>3, SetByteProps
<1>5. heap' = [heap EXCEPT ![p] = [heap[p] EXCEPT ![pages[s][p]] = h]]
  BY <1>3 DEF forceWrite8
<1>6. ASSUME NEW t \in Space, NEW q \in PageNo
      PROVE  \/ Seen(t, q)' = Seen(t, q) /\ ~(t = s /\ q = p)
             \/ Seen(t, q)' = c /\ q = p /\ (t = s \/ Shows(s, t, q))
  <2>1. CASE q # p
    <3>1. heap'[q] = heap[q]
      BY <1>0, <1>5, <2>1 DEF TypeOK
    <3> QED
      BY <1>0, <2>1, <3>1, SeenUnchanged
  <2>2. CASE q = p
    <3>1. heap'[q] = [heap[q] EXCEPT ![pages[s][q]] = h]
      BY <1>0, <1>5, <2>2 DEF TypeOK
    <3>2. /\ t = s => Seen(t, q)' = c
          /\ t # s => Seen(t, q)' = Seen(t, q) \/ (Seen(t, q)' = c /\ Shows(s, t, q))
      <4>1. IsMapped(s, q) /\ pages'[t][q] = pages[t][q]
        BY <1>0, <2>2
      <4> QED
        BY <1>4, <3>1, <4>1, InPlaceShows, Zenon
    <3> QED
      BY <2>2, <3>2
  <2> QED
    BY <2>1, <2>2
<1> QED
  BY <1>2, <1>6

\* Either kind of clone lets the child read what the parent reads.
LEMMA CloneSeen ==
    ASSUME TypeOK, NEW s \in Space, NEW c \in Space, cloneCow(s, c) \/ cloneDeep(s, c),
           s \in alive
    PROVE  \A t \in Space, q \in PageNo :
              Seen(t, q)' = IF t = c THEN Seen(s, q) ELSE Seen(t, q)
<1> SUFFICES ASSUME NEW t \in Space, NEW q \in PageNo
             PROVE  Seen(t, q)' = IF t = c THEN Seen(s, q) ELSE Seen(t, q)
  OBVIOUS
<1>1. CASE cloneCow(s, c)
  <2>1. pages'[t][q] = IF t = c THEN pages[s][q] ELSE pages[t][q]
    BY <1>1 DEF cloneCow, TypeOK
  <2>2. \A r \in Space : IsMapped(r, q) =>
              heap'[q][pages[r][q]].data = heap[q][pages[r][q]].data
    <3>1. CASE IsMapped(s, q)
      <4>1. /\ heap'[q] = [heap[q] EXCEPT ![pages[s][q]] = Share(PageOf(s, q))]
            /\ Share(PageOf(s, q)).data = heap[q][pages[s][q]].data
        BY <1>1, <3>1, PageOfType, ShareProps DEF cloneCow, PageOf
      <4> QED
        BY <3>1, <4>1, PageOfType DEF TypeOK
    <3>2. CASE ~IsMapped(s, q)
      BY <1>1, <3>2 DEF cloneCow
    <3> QED
      BY <3>1, <3>2
  <2> QED
    BY <2>1, <2>2 DEF Seen, IsMapped, PageOf
<1>2. CASE cloneDeep(s, c)
  <2>1. CASE t # c
    <3>1. pages'[t][q] = pages[t][q]
      BY <1>2, <2>1 DEF cloneDeep, TypeOK
    <3>2. IsMapped(t, q) => heap'[q][pages[t][q]] = heap[q][pages[t][q]]
      BY <1>2, FreshIdProps DEF cloneDeep, TypeOK, IsMapped
    <3> QED
      BY <2>1, <3>1, <3>2, SeenUnchanged
  <2>2. CASE t = c /\ IsMapped(s, q)
    <3>1. pages'[t][q] = FreshId(q) /\ heap'[q][FreshId(q)] = CopyOf(PageOf(s, q))
      BY <1>2, <2>2, FreshIdProps DEF cloneDeep, TypeOK
    <3>2. CopyOf(PageOf(s, q)).data = PageOf(s, q).data
      BY <2>2, PageOfType, CopyOfProps
    <3> QED
      BY <2>2, <3>1, <3>2, FreshIdProps DEF Seen, IsMapped, PageOf
  <2>3. CASE t = c /\ ~IsMapped(s, q)
    <3>1. pages'[t][q] = NoPage
      BY <1>2, <2>3 DEF cloneDeep, TypeOK
    <3> QED
      BY <2>3, <3>1 DEF Seen, IsMapped
  <2> QED
    BY <2>1, <2>2, <2>3
<1> QED
  BY <1>1, <1>2

\* Every step of the implementation is a step of private address spaces.
LEMMA StepSimulation ==
    IInv /\ [Next]_vars => [Private!Next]_(Private!vars)
<1> SUFFICES ASSUME IInv, [Next]_vars PROVE [Private!Next]_(Private!vars)
  OBVIOUS
<1> DEFINE M == [s \in Space |-> View(s)]
<1>0. TypeOK /\ (\A s \in alive : s \in Space)
  BY DEF IInv, TypeOK
<1>1. ASSUME NEW s \in Space, NewMemory(s) PROVE Private!Fresh(s)
  BY <1>0, <1>1, SpaceSeen DEF Private!Fresh, Private!Empty, View, NewMemory
<1>2. ASSUME NEW s \in alive, Release(s) PROVE Private!Discard(s)
  BY <1>0, <1>2, SpaceSeen DEF Private!Discard, Private!Empty, View, Release
<1>4. ASSUME NEW s \in alive, NEW start, NEW n, NEW perm \in PermSets,
             map(s, start, n, perm)
      PROVE  Private!MapPages(s, RangePages(start, n))
  <2>1. \A t \in Space, q \in PageNo :
           Seen(t, q)' = IF t = s /\ q \in RangePages(start, n) /\ Seen(t, q) = NoPage
                         THEN ZeroData ELSE Seen(t, q)
    BY <1>0, <1>4, MapSeen
  <2>2. alive' = alive /\ forked' = forked
    BY <1>4 DEF map
  <2> QED
    BY <1>0, <2>1, <2>2 DEF Private!MapPages, Private!Zeroed, View, ZeroData
<1>5. ASSUME NEW s \in alive, NEW start, NEW n, NEW perm \in PermSets,
             mmapFixed(s, start, n, perm)
      PROVE  Private!FillPages(s, RangePages(start, n), ZeroData)
  <2>1. \A t \in Space, q \in PageNo :
           Seen(t, q)' = IF t = s /\ q \in RangePages(start, n) THEN ZeroData ELSE Seen(t, q)
    BY <1>0, <1>5, MmapFixedSeen
  <2>2. alive' = alive /\ forked' = forked
    BY <1>5 DEF mmapFixed
  <2> QED
    BY <1>0, <2>1, <2>2 DEF Private!FillPages, View
<1>6. ASSUME NEW s \in alive, NEW start, NEW n, unmap(s, start, n)
      PROVE  Private!UnmapPages(s, MappedPrefix(s, start, n))
  <2>1. \A t \in Space, q \in PageNo :
           Seen(t, q)' = IF t = s /\ q \in MappedPrefix(s, start, n) THEN NoPage ELSE Seen(t, q)
    BY <1>0, <1>6, UnmapSeen
  <2>2. alive' = alive /\ forked' = forked
    BY <1>6 DEF unmap
  <2> QED
    BY <1>0, <2>1, <2>2 DEF Private!UnmapPages, View
<1>7. ASSUME NEW s \in alive, NEW start, NEW n, NEW perm \in PermSets,
             mprotect(s, start, n, perm)
      PROVE  Private!MapPages(s, {})
  <2>1. \A t \in Space, q \in PageNo :
           Seen(t, q)' = Seen(t, q)
    BY <1>0, <1>7, MprotectSeen
  <2>2. alive' = alive /\ forked' = forked
    BY <1>7 DEF mprotect
  <2> QED
    BY <1>0, <2>1, <2>2 DEF Private!MapPages, View
<1>8. ASSUME NEW s \in alive, NEW p \in PageNo, NEW o \in Offset, NEW b \in Byte,
             write8(s, p, o, b)
      PROVE  Private!Store(s, p, o, b)
  <2>1. /\ Seen(s, p) # NoPage
        /\ Seen(s, p)' = [Seen(s, p) EXCEPT ![o] = b]
        /\ \A t \in Space, q \in PageNo :
              ~(t = s /\ q = p) => Seen(t, q)' = Seen(t, q)
    BY <1>0, <1>8, WriteSeen
  <2>2. alive' = alive /\ forked' = forked
    BY <1>8 DEF write8
  <2>3. View(s)' = [View(s) EXCEPT ![p] = [View(s)[p] EXCEPT ![o] = b]]
    BY <1>0, <2>1 DEF View
  <2>4. \A t \in Space : t # s => View(t)' = View(t)
    BY <2>1 DEF View
  <2>5. View(s)[p] # NoPage
    BY <2>1 DEF View
  <2>6. M' = [M EXCEPT ![s] = [View(s) EXCEPT ![p] = [View(s)[p] EXCEPT ![o] = b]]]
    BY <1>0, <2>3, <2>4
  <2> QED
    BY <1>0, <2>2, <2>5, <2>6 DEF Private!Store
<1>9. ASSUME NEW s \in Space, NEW R, NEW c,
             \A t \in Space, q \in PageNo :
                \/ Seen(t, q)' = Seen(t, q) /\ ~(t = s /\ q \in R)
                \/ Seen(t, q)' = c /\ q \in R /\ (t = s \/ Shows(s, t, q)),
             alive' = alive, forked' = forked
      PROVE  Private!Load(s, R, c)
  <2>1. \A t \in Space, q \in PageNo : M[t][q] = Seen(t, q) /\ M'[t][q] = Seen(t, q)'
    BY DEF View
  <2>2. M' = [t \in Space |-> [q \in PageNo |-> M'[t][q]]]
    BY DEF View
  <2>3. \A t \in Space, q \in PageNo :
           \/ M'[t][q] = M[t][q] /\ ~(t = s /\ q \in R)
           \/ M'[t][q] = c /\ q \in R /\ (t = s \/ Private!MayShow(s, t, q))
    BY <1>9, <2>1 DEF Shows, Private!MayShow
  <2> QED
    BY <1>9, <2>2, <2>3 DEF Private!Load
<1>13. ASSUME NEW s \in alive, NEW start, NEW n, NEW perm \in PermSets,
              NEW c \in PageData, loadBytes(s, start, n, c, perm)
       PROVE  Private!Load(s, RangePages(start, n), c)
  <2>1. s \in Space /\ alive' = alive /\ forked' = forked
    BY <1>0, <1>13 DEF loadBytes
  <2>2. \A t \in Space, q \in PageNo :
           \/ Seen(t, q)' = Seen(t, q) /\ ~(t = s /\ q \in RangePages(start, n))
           \/ Seen(t, q)' = c /\ q \in RangePages(start, n) /\ (t = s \/ Shows(s, t, q))
    BY <1>13, <2>1, LoadBytesSeen
  <2> QED
    BY <1>9, <2>1, <2>2
<1>14. ASSUME NEW s \in alive, NEW p \in PageNo, NEW o \in Offset, NEW b \in Byte,
              forceWrite8(s, p, o, b)
       PROVE  \E c \in PageData : Private!Load(s, {p}, c)
  <2>1. s \in Space /\ alive' = alive /\ forked' = forked
    BY <1>0, <1>14 DEF forceWrite8
  <2>3. PICK c \in PageData : \A t \in Space, q \in PageNo :
              \/ Seen(t, q)' = Seen(t, q) /\ ~(t = s /\ q = p)
              \/ Seen(t, q)' = c /\ q = p /\ (t = s \/ Shows(s, t, q))
    BY <1>14, <2>1, ForceWriteSeen
  <2>4. \A t \in Space, q \in PageNo :
           \/ Seen(t, q)' = Seen(t, q) /\ ~(t = s /\ q \in {p})
           \/ Seen(t, q)' = c /\ q \in {p} /\ (t = s \/ Shows(s, t, q))
    BY <2>3
  <2> QED
    BY <1>9, <2>1, <2>3, <2>4
<1>10. ASSUME NEW s \in alive, NEW c \in Space, cloneCow(s, c) \/ cloneDeep(s, c)
       PROVE  Private!Fork(s, c)
  <2>1. \A t \in Space, q \in PageNo :
           Seen(t, q)' = IF t = c THEN Seen(s, q) ELSE Seen(t, q)
    BY <1>0, <1>10, CloneSeen
  <2>2. /\ c \notin alive /\ alive' = alive \cup {c}
        /\ forked' = forked \cup {s, c} \/ forked' = forked
    BY <1>10 DEF cloneCow, cloneDeep
  <2> QED
    BY <1>0, <2>1, <2>2 DEF Private!Fork, View
<1>11. CASE UNCHANGED vars
  BY <1>11 DEF vars, Private!vars, View, Seen, IsMapped, PageOf
<1>12. /\ \A start, n : RangePages(start, n) \in SUBSET PageNo
       /\ \A s, start, n : MappedPrefix(s, start, n) \in SUBSET PageNo
       /\ ZeroData \in PageData
  BY ByteAssumption DEF RangePages, MappedPrefix, ZeroData, PageData
<1>15. CASE by' = "guest" /\ GuestNext
  <2>1. Private!GuestNext
    BY <1>1, <1>2, <1>4, <1>5, <1>6, <1>7, <1>8, <1>10, <1>12, <1>15, ZenonT(60)
       DEF GuestNext, mmapAnywhere, Private!GuestNext, Private!Content, PageData
  <2> QED
    BY <1>15, <2>1 DEF Private!Next
<1>16. CASE by' = "loader" /\ LoaderNext
  <2>1. \A p \in PageNo : {p} \in SUBSET PageNo
    OBVIOUS
  <2>2. Private!LoaderNext
    BY <1>12, <1>13, <1>14, <1>16, <2>1, ZenonT(60) DEF LoaderNext, Private!LoaderNext, Private!Content, PageData
  <2> QED
    BY <1>16, <2>2 DEF Private!Next
<1> QED
  BY <1>11, <1>15, <1>16 DEF Next

\* Copy-on-write memory implements private address spaces: no write, map, unmap,
\* execve, fork or exit of one process changes what another process reads, and a
\* fork's child reads what its parent did; a program loaded over a memory shows
\* in another only where both come of a fork and read the page alike.
THEOREM CowRefinesPrivateSpaces == Spec => PrivateSpaces
<1>1. Init => Private!Init
  BY DEF Init, Private!Init, Private!Empty, View, Seen, IsMapped, NoPages
<1> QED
  BY <1>1, StepSimulation, Invariance, PTL DEF Spec, PrivateSpaces, Private!Spec

-----------------------------------------------------------------------------
\* A set of natural numbers that is not empty has a smallest element.
LEMMA SmallestExists ==
    ASSUME NEW T, T \subseteq Nat, T # {}
    PROVE  \E a \in T : \A b \in T : a <= b
<1> DEFINE R == OpToRel(<, Nat)
<1>1. R = {ss \in Nat \X Nat : ss[1] < ss[2]}
  BY Zenon DEF OpToRel
<1>2. IsWellFoundedOn(R, Nat)
  BY NatLessThanWellFounded, Zenon
<1> HIDE DEF R
<1>3. PICK a \in T : \A b \in T : ~(<<b, a>> \in R)
  BY <1>2, WFMin, Zenon
<1>4. \A b \in T : ~(b < a)
  BY <1>1, <1>3
<1> QED
  BY <1>3, <1>4

\* The remainder is not larger than the number.
LEMMA RemainderBelow ==
    ASSUME NEW x \in Nat, NEW m \in Nat \ {0}
    PROVE  x % m \in Int /\ x % m <= x
<1> DEFINE q == x \div m
<1>1. q \in Int /\ x % m \in Int /\ x % m >= 0 /\ x % m < m /\ x = m * q + (x % m)
  OBVIOUS
<1>2. q >= 0
  BY <1>1
<1>3. m * q >= 0
  BY <1>1, <1>2
<1> QED
  BY <1>1, <1>3

\* The region findFreeRegion picks is free, and the range that map visits there
\* is within it, whether the end of the region wraps or not.
LEMMA FreeRegionIsFree ==
    ASSUME NEW s, NEW n \in Nat, FreeStarts(s, n) # {}
    PROVE  \A p \in RangePages(FindFreeRegion(s, n), n) : ~IsMapped(s, p)
<1> DEFINE a == FindFreeRegion(s, n)
<1>1. FreeStarts(s, n) \subseteq Nat
  BY SizeAssumption DEF FreeStarts, PageNo
<1>2. a \in FreeStarts(s, n)
  BY <1>1, SmallestExists DEF FindFreeRegion
<1>3. a \in Nat /\ a + n \in Nat
  BY <1>1, <1>2
<1>4. (a + n) % NPages \in Int /\ (a + n) % NPages <= a + n
  BY <1>3, RemainderBelow, SizeAssumption
<1>5. ASSUME NEW p \in RangePages(a, n)
      PROVE  ~IsMapped(s, p)
  <2>1. p \in PageNo /\ a <= p /\ p < (a + n) % NPages
    BY <1>5 DEF RangePages
  <2>2. p \in Int
    BY <2>1, SizeAssumption DEF PageNo
  <2>3. p < a + n
    BY <1>3, <1>4, <2>1, <2>2
  <2> QED
    BY <1>2, <2>1, <2>3 DEF FreeStarts
<1> QED
  BY <1>5

\* The mmap system call without MAP_FIXED takes over no page the caller had, for
\* every size of the address space and every window mmap looks in.
THEOREM MmapTakesFreePages == Spec => MmapKeepsMappedPages
<1>1. ASSUME TypeOK, NEW s \in alive, NEW n \in 1 .. NPages, NEW perm \in PermSets,
             mmapAnywhere(s, n, perm), NEW p \in PageNo, IsMapped(s, p)
      PROVE  pages'[s][p] = pages[s][p] /\ PageOf(s, p)' = PageOf(s, p)
  <2> DEFINE R == RangePages(FindFreeRegion(s, n), n)
  <2>1. n \in Nat
    BY SizeAssumption
  <2>2. p \notin R
    BY <1>1, <2>1, FreeRegionIsFree DEF mmapAnywhere
  <2>3. pages' = MapTable(s, R) /\ heap' = MapHeap(s, R, perm)
    BY <1>1 DEF mmapAnywhere, map
  <2>4. s \in Space
    BY <1>1 DEF TypeOK
  <2>5. pages'[s][p] = pages[s][p]
    BY <1>1, <2>2, <2>3, <2>4 DEF MapTable, TypeOK
  <2>6. heap'[p] = heap[p]
    BY <1>1, <2>2, <2>3 DEF MapHeap
  <2> QED
    BY <2>5, <2>6 DEF PageOf
<1> DEFINE Keeps == \A s \in alive, n \in 1 .. NPages, perm \in PermSets :
                       mmapAnywhere(s, n, perm) =>
                          \A p \in PageNo : IsMapped(s, p) =>
                             /\ pages'[s][p] = pages[s][p]
                             /\ PageOf(s, p)' = PageOf(s, p)
<1>2. TypeOK => [Keeps]_vars
  BY <1>1
<1> QED
  BY <1>2, TypeCorrect, PTL DEF MmapKeepsMappedPages
==============================================================================
