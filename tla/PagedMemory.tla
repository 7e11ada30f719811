----------------------------- MODULE PagedMemory -----------------------------
(***************************************************************************)
(* The paged guest memory of src/src/memory.js: several address spaces     *)
(* (PagedMemory instances, one per process) whose page tables may point to *)
(* the same Page object after a copy-on-write clone.                       *)
(*                                                                         *)
(* A Page object is created for one page number and clone keeps the page   *)
(* number, so an object is identified by its page number and a PageId.     *)
(* An identity no table refers to any more is garbage and may be reused    *)
(* for a later "new Page".                                                 *)
(*                                                                         *)
(* The 32-bit address space is scaled down to NPages pages; addresses wrap *)
(* at NPages the way "(addr + length) >>> 0" wraps at 2^32.  Multi-byte    *)
(* writers are loops over write8/forceWrite8 that may stop at a fault, so  *)
(* they are sequences of those steps.  The dirty flag and the page names   *)
(* are only reported, never tested, and are left out.                      *)
(***************************************************************************)
EXTENDS Integers, FiniteSets

CONSTANTS Space,      \* address spaces (PagedMemory instances)
          NPages,     \* number of pages of the address space
          MmapMin,    \* where the mmap system call starts to look for room
          MmapMax,    \* and where it stops looking
          PageId,     \* identities of Page objects of one page number
          NoPage,     \* not an identity: the page table has no entry
          Offset,     \* byte offsets inside a page
          Byte,       \* byte values
          ZeroByte,   \* the byte 0
          PermSets,   \* the permission arguments callers pass
          MaxRefs     \* bound: clone is not called on a page referenced this often

PageNo == 0 .. NPages - 1
Perm   == SUBSET {"R", "W", "X"}

\* What a page can hold.
PageData == [Offset -> Byte]

ASSUME SpaceAssumption == IsFiniteSet(Space)
ASSUME SizeAssumption  == /\ NPages \in Nat \ {0} /\ MaxRefs \in Nat
                          /\ MmapMin \in Nat /\ MmapMax \in Nat
ASSUME ByteAssumption  == ZeroByte \in Byte
ASSUME PermAssumption  == PermSets \subseteq Perm

\* "new Page" always finds an identity that no page table refers to.
ASSUME FreshAssumption ==
    /\ NoPage \notin PageId
    /\ NoPage \notin PageData
    /\ \A table \in [Space -> PageId \cup {NoPage}] :
          \E id \in PageId : \A s \in Space : table[s] # id

VARIABLES pages,      \* pages[s][p]: the Page object of page p in space s, or NoPage
          heap,       \* heap[p][id]: the Page object's fields
          alive,      \* spaces in use by a process
          forked,     \* spaces that took part in a copy-on-write clone
          by          \* who took the last step: "guest" or "loader"

vars == <<pages, heap, alive, forked, by>>

Page == [data : PageData, perm : Perm,
         shared : BOOLEAN, refCount : Nat]

ZeroData == [o \in Offset |-> ZeroByte]

\* new Page(size, perm)
NewPage(perm) == [data |-> ZeroData, perm |-> perm, shared |-> FALSE, refCount |-> 1]

\* Assignments to fields of a Page object.
SetPerm(page, perm) == [page EXCEPT !.perm = perm]
SetData(page, c)    == [page EXCEPT !.data = c]
SetByte(page, o, b) == [page EXCEPT !.data = [page.data EXCEPT ![o] = b]]

\* cp in write8 and in clone: a new object with the data of another one.
CopyOf(page) == SetData(NewPage(page.perm), page.data)

NoPages == [p \in PageNo |-> NoPage]

\* Page tables, Page objects and the spaces of processes.
TypeOK == /\ pages \in [Space -> [PageNo -> PageId \cup {NoPage}]]
          /\ heap \in [PageNo -> [PageId -> Page]]
          /\ alive \in SUBSET Space
          /\ forked \in SUBSET alive
          /\ by \in {"guest", "loader"}

Init == /\ pages = [s \in Space |-> NoPages]
        /\ heap = [p \in PageNo |-> [id \in PageId |-> NewPage({})]]
        /\ alive = {}
        /\ forked = {}
        /\ by = "guest"

-----------------------------------------------------------------------------
\* The object page p of space s refers to; IsMapped(s, p) must hold.
PageOf(s, p) == heap[p][pages[s][p]]

IsMapped(s, p) == pages[s][p] # NoPage

\* An identity for a Page object of page p that is not referred to.
FreshId(p) == CHOOSE id \in PageId : \A s \in Space : pages[s][p] # id

\* The page numbers the loops of map, unmap and mprotect visit for n pages
\* from page start: the end address wraps to 32 bits, so a range that
\* reaches or passes the top of the address space visits nothing.
RangePages(start, n) == {p \in PageNo : start <= p /\ p < (start + n) % NPages}

\* The part of a range before its first unmapped page: where a loop that
\* throws on a missing page has been.
MappedPrefix(s, start, n) ==
    {p \in RangePages(start, n) :
        \A q \in RangePages(start, n) : q <= p => IsMapped(s, q)}

\* Mutant: findFreeRegion does not look at the last page of the region.
FreeStartsShort(s, n) ==
    {a \in PageNo : /\ MmapMin <= a /\ a < MmapMax
                    /\ \A p \in PageNo : a <= p /\ p < a + n - 1 => ~IsMapped(s, p)}

\* findFreeRegion: the lowest start in [MmapMin, MmapMax) with n unmapped
\* pages from there on; page numbers past the top count as unmapped.
FreeStarts(s, n) ==
    {a \in PageNo : /\ MmapMin <= a /\ a < MmapMax
                    /\ \A p \in PageNo : a <= p /\ p < a + n => ~IsMapped(s, p)}

FindFreeRegion(s, n) ==
    CHOOSE a \in FreeStarts(s, n) : \A b \in FreeStarts(s, n) : a <= b

-----------------------------------------------------------------------------
\* Page tables and objects after map has run over the pages R of space s: a
\* missing page gets a new object, an existing object gets the new permission.
MapTable(s, R) ==
    [pages EXCEPT ![s] = [p \in PageNo |->
        IF p \in R /\ ~IsMapped(s, p) THEN FreshId(p) ELSE pages[s][p]]]

MapHeap(s, R, perm) ==
    [p \in PageNo |->
        IF p \notin R THEN heap[p]
        ELSE IF IsMapped(s, p)
             THEN [heap[p] EXCEPT ![pages[s][p]] = SetPerm(PageOf(s, p), perm)]
             ELSE [heap[p] EXCEPT ![FreshId(p)] = NewPage(perm)]]

\* new PagedMemory: the memory of a new runtime, or the one that execve puts in
\* place of the one the process had.
NewMemory(s) ==
    /\ pages' = [pages EXCEPT ![s] = NoPages]
    /\ alive' = alive \cup {s}
    /\ forked' = forked \ {s}
    /\ UNCHANGED heap

\* The process is reaped and its memory becomes unreachable; the reference
\* counts of its pages are not touched.
Release(s) ==
    /\ pages' = [pages EXCEPT ![s] = NoPages]
    /\ alive' = alive \ {s}
    /\ forked' = forked \ {s}
    /\ UNCHANGED heap

\* map; PagedMemory.mmap without a fixed address is map at a place it does not
\* look at first, and brk is map from the end of the heap on.
map(s, start, n, perm) ==
    LET R == RangePages(start, n)
    IN  /\ pages' = MapTable(s, R)
        /\ heap' = MapHeap(s, R, perm)
        /\ UNCHANGED <<alive, forked>>

\* mmap without a fixed address, as the mmap2 system call does it; without a
\* free region it throws and nothing changes.
mmapAnywhere(s, n, perm) ==
    /\ FreeStarts(s, n) # {}
    /\ map(s, FindFreeRegion(s, n), n, perm)

\* PagedMemory.mmap with a fixed address: unmap what is there, then map.
mmapFixed(s, start, n, perm) ==
    LET R == RangePages(start, n)
    IN  /\ pages' = [pages EXCEPT ![s] = [p \in PageNo |->
                        IF p \in R THEN FreshId(p) ELSE pages[s][p]]]
        /\ heap' = [p \in PageNo |->
                        IF p \in R THEN [heap[p] EXCEPT ![FreshId(p)] = NewPage(perm)]
                                   ELSE heap[p]]
        /\ UNCHANGED <<alive, forked>>

\* unmap deletes up to the first missing page, where it throws.
unmap(s, start, n) ==
    /\ pages' = [pages EXCEPT ![s] = [p \in PageNo |->
                    IF p \in MappedPrefix(s, start, n) THEN NoPage ELSE pages[s][p]]]
    /\ UNCHANGED <<heap, alive, forked>>

\* mprotect changes the Page objects up to the first missing page.
mprotect(s, start, n, perm) ==
    /\ heap' = [p \in PageNo |->
                    IF p \in MappedPrefix(s, start, n)
                    THEN [heap[p] EXCEPT ![pages[s][p]] = SetPerm(PageOf(s, p), perm)]
                    ELSE heap[p]]
    /\ UNCHANGED <<pages, alive, forked>>

\* Mutant: the copy test is off by one.
MustCopyLate(page) == page.shared /\ page.refCount > 2

\* write8 to an object that may be referred to from elsewhere: copy first.
MustCopy(page) == page.shared /\ page.refCount > 1

\* The object that is left behind loses one reference.
LeaveBehind(page) ==
    [page EXCEPT !.refCount = page.refCount - 1,
                 !.shared = IF page.refCount - 1 <= 1 THEN FALSE ELSE page.shared]

write8Copy(s, p, o, b) ==
    LET old == pages[s][p]
        new == FreshId(p)
    IN  /\ MustCopy(PageOf(s, p))
        /\ heap' = [heap EXCEPT ![p] =
                       [heap[p] EXCEPT ![old] = LeaveBehind(PageOf(s, p)),
                                       ![new] = SetByte(CopyOf(PageOf(s, p)), o, b)]]
        /\ pages' = [pages EXCEPT ![s] = [pages[s] EXCEPT ![p] = new]]

write8InPlace(s, p, o, b) ==
    /\ ~MustCopy(PageOf(s, p))
    /\ heap' = [heap EXCEPT ![p] =
                   [heap[p] EXCEPT ![pages[s][p]] = SetByte(PageOf(s, p), o, b)]]
    /\ UNCHANGED pages

\* write8; without the page or the W permission it throws and changes nothing.
write8(s, p, o, b) ==
    /\ IsMapped(s, p)
    /\ "W" \in PageOf(s, p).perm
    /\ write8Copy(s, p, o, b) \/ write8InPlace(s, p, o, b)
    /\ UNCHANGED <<alive, forked>>

\* forceWrite8 ignores permissions and sharing.  The ELF loader calls it for
\* relocations, in a new memory (execve) or in the one a runtime has (loadELF).
forceWrite8(s, p, o, b) ==
    /\ IsMapped(s, p)
    /\ heap' = [heap EXCEPT ![p] =
                   [heap[p] EXCEPT ![pages[s][p]] = SetByte(PageOf(s, p), o, b)]]
    /\ UNCHANGED <<pages, alive, forked>>

\* loadBytes maps a range, copies a flat image into it without write8 and then
\* sets the permission; loadFlat calls it on the memory the runtime has, used and
\* shared or not.  Every page of the image holds the content c; images stay below
\* the top of the address space.
loadBytes(s, start, n, c, perm) ==
    LET R == RangePages(start, n)
    IN  /\ start + n < NPages
        /\ pages' = MapTable(s, R)
        /\ heap' = [p \in PageNo |->
                       IF p \notin R THEN heap[p]
                       ELSE IF IsMapped(s, p)
                            THEN [heap[p] EXCEPT ![pages[s][p]] =
                                     SetData(SetPerm(PageOf(s, p), perm), c)]
                            ELSE [heap[p] EXCEPT ![FreshId(p)] = SetData(NewPage(perm), c)]]
        /\ UNCHANGED <<alive, forked>>

\* Mutant: clone marks the page but does not count the new reference.
ShareUncounted(page) == [page EXCEPT !.shared = TRUE]

Share(page) == [page EXCEPT !.shared = TRUE, !.refCount = page.refCount + 1]

\* clone({copyOnWrite: true}): both tables refer to the same objects.
cloneCow(s, c) ==
    /\ c \notin alive
    /\ \A p \in PageNo : IsMapped(s, p) => PageOf(s, p).refCount < MaxRefs
    /\ pages' = [pages EXCEPT ![c] = pages[s]]
    /\ heap' = [p \in PageNo |->
                   IF IsMapped(s, p)
                   THEN [heap[p] EXCEPT ![pages[s][p]] = Share(PageOf(s, p))]
                   ELSE heap[p]]
    /\ alive' = alive \cup {c}
    /\ forked' = forked \cup {s, c}

\* clone() without copyOnWrite: new objects with the same data and permission.
cloneDeep(s, c) ==
    /\ c \notin alive
    /\ pages' = [pages EXCEPT ![c] = [p \in PageNo |->
                    IF IsMapped(s, p) THEN FreshId(p) ELSE NoPage]]
    /\ heap' = [p \in PageNo |->
                   IF IsMapped(s, p)
                   THEN [heap[p] EXCEPT ![FreshId(p)] = CopyOf(PageOf(s, p))]
                   ELSE heap[p]]
    /\ alive' = alive \cup {c}
    /\ UNCHANGED forked

-----------------------------------------------------------------------------
\* Processes come, run and go.
GuestNext ==
    \/ \E s \in Space : NewMemory(s)
    \/ \E s \in alive : Release(s)
    \/ \E s \in alive, start \in PageNo, n \in 1 .. NPages, perm \in PermSets :
          \/ map(s, start, n, perm)
          \/ mmapFixed(s, start, n, perm)
          \/ mprotect(s, start, n, perm)
    \/ \E s \in alive, n \in 1 .. NPages, perm \in PermSets : mmapAnywhere(s, n, perm)
    \/ \E s \in alive, start \in PageNo, n \in 1 .. NPages : unmap(s, start, n)
    \/ \E s \in alive, p \in PageNo, o \in Offset, b \in Byte : write8(s, p, o, b)
    \/ \E s \in alive, c \in Space : cloneCow(s, c) \/ cloneDeep(s, c)

\* A program is loaded, with writes that do not copy.
LoaderNext ==
    \/ \E s \in alive, p \in PageNo, o \in Offset, b \in Byte : forceWrite8(s, p, o, b)
    \/ \E s \in alive, start \in PageNo, n \in 1 .. NPages, perm \in PermSets,
          c \in PageData : loadBytes(s, start, n, c, perm)

Next == \/ by' = "guest" /\ GuestNext
        \/ by' = "loader" /\ LoaderNext

Spec == Init /\ [][Next]_vars

-----------------------------------------------------------------------------
\* The spaces whose page table refers to object id of page p.
Holders(p, id) == {s \in Space : pages[s][p] = id}

\* No object is referred to by more spaces than its reference count says,
\* although unmap, execve and the end of a process never decrement the count:
\* the count may only be too high.  This is what makes the in-place branch of
\* write8 safe.
RefCountCoversHolders ==
    \A p \in PageNo, id \in PageId :
        Cardinality(Holders(p, id)) <= heap[p][id].refCount \/ Holders(p, id) = {}

\* An object held by somebody is marked shared exactly while its count is
\* above 1, so the two conditions of write8's copy test never disagree.
SharedMeansCounted ==
    \A p \in PageNo, id \in PageId :
        Holders(p, id) # {} => (heap[p][id].shared <=> heap[p][id].refCount > 1)

\* Only spaces that took part in a copy-on-write clone, and have got no new
\* memory since, refer to the same object: what the writes of the loader that do
\* not copy (forceWrite8, loadBytes) can reach.
SharersHaveForked ==
    \A s, t \in Space, p \in PageNo :
        s # t /\ IsMapped(s, p) /\ pages[s][p] = pages[t][p] => s \in forked

\* A space that belongs to no process refers to no page.
DeadSpacesEmpty == \A s \in Space \ alive : pages[s] = NoPages

\* What process s reads on page p, and in its whole address space.
Seen(s, p) == IF IsMapped(s, p) THEN PageOf(s, p).data ELSE NoPage
View(s)    == [p \in PageNo |-> Seen(s, p)]

\* Copy-on-write implements private address spaces (AddressSpaces): whatever the
\* guests do, each reads its own bytes only.  The exception AddressSpaces states
\* is a program loaded over a memory that has forked.
Private == INSTANCE AddressSpaces WITH
              mem <- [s \in Space |-> View(s)], Unmapped <- NoPage

PrivateSpaces == Private!Spec

\* The permissions process s sees.
PermView(s) == [p \in PageNo |-> IF IsMapped(s, p) THEN PageOf(s, p).perm ELSE {}]

\* Process isolation for permissions: one step (an operation of one process)
\* changes the permissions of at most one address space.
\* mprotect of a shared page does (known deviation).
PermissionsArePrivate ==
    [][\A s, t \in Space :
          s # t => PermView(s)' = PermView(s) \/ PermView(t)' = PermView(t)]_vars

\* The mmap system call without MAP_FIXED never takes over a page the caller
\* already had: the region findFreeRegion picks and the range map visits agree.
MmapKeepsMappedPages ==
    [][\A s \in alive, n \in 1 .. NPages, perm \in PermSets :
          mmapAnywhere(s, n, perm) =>
             \A p \in PageNo : IsMapped(s, p) =>
                /\ pages'[s][p] = pages[s][p]
                /\ PageOf(s, p)' = PageOf(s, p)]_vars
==============================================================================
