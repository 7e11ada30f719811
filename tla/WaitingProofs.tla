--------------------------- MODULE WaitingProofs ---------------------------
(***************************************************************************)
(* Proofs about what guests and pages are suspended on: futexes, sockets,  *)
(* the requests of the service worker and byte queues, four parts that     *)
(* share no state.  Each has its inductive invariant.                      *)
(***************************************************************************)
EXTENDS FutexTable, ByteQueue, Sockets, RequestBridge, FiniteSetTheorems, SequenceTheorems,
        WellFoundedInduction, TLAPS

-----------------------------------------------------------------------------
(* Futexes, for any guests and any sharing of tables.                      *)

\* Whoever is in a list is blocked and means that list.
QueuedAreBlocked ==
    \A t \in Table, a \in Addr : \A i \in 1 .. Len(ListOf(t, a)) :
        /\ status[ListOf(t, a)[i]] = "blocked"
        /\ TableOf[ListOf(t, a)[i]] = t /\ waitsAt[ListOf(t, a)[i]] = a

\* Whoever is blocked is in the list it waits in.
IsQueued(g) ==
    \E i \in 1 .. Len(ListOf(TableOf[g], waitsAt[g])) : ListOf(TableOf[g], waitsAt[g])[i] = g

BlockedAreQueued == \A g \in Guest : status[g] = "blocked" => IsQueued(g)

\* Nobody is in a list twice.
QueuedOnce ==
    \A t \in Table, a \in Addr : \A i, j \in 1 .. Len(ListOf(t, a)) :
        ListOf(t, a)[i] = ListOf(t, a)[j] => i = j

\* A timer belongs to a wait that is under way: wake clears the timers of those
\* it resolves, so no timer is left over for a later wait.
TimersOfBlocked == \A g \in timer : status[g] = "blocked"

\* The inductive invariant.
FutexInv == TypeOK /\ QueuedAreBlocked /\ BlockedAreQueued /\ QueuedOnce /\ TimersOfBlocked

\* Lists are sequences of guests.
LEMMA ListsAreSequences ==
    ASSUME TypeOK, NEW t \in Table, NEW a \in Addr
    PROVE  ListOf(t, a) \in Seq(Guest)
BY DEF TypeOK, ListOf

\* Changing one list leaves the others; a list that gets empty loses its key.
LEMMA SetListSets ==
    ASSUME TypeOK, NEW t \in Table, NEW a \in Addr, NEW list \in Seq(Guest), SetList(t, a, list)
    PROVE  /\ DOMAIN waiters' = Table
           /\ \A u \in Table : /\ DOMAIN waiters'[u] \subseteq Addr
                               /\ \A b \in DOMAIN waiters'[u] : waiters'[u][b] \in Seq(Guest) \ {<<>>}
           /\ \A u \in Table, b \in Addr :
                 ListOf(u, b)' = IF u = t /\ b = a THEN list ELSE ListOf(u, b)
<1> DEFINE keys == (DOMAIN waiters[t] \cup {a}) \ (IF list = <<>> THEN {a} ELSE {})
           new  == [b \in keys |-> IF b = a THEN list ELSE waiters[t][b]]
<1>1. DOMAIN waiters' = Table /\ \A u \in Table : waiters'[u] = IF u = t THEN new ELSE waiters[u]
  BY DEF TypeOK, SetList
<1>2. DOMAIN new = keys /\ keys \subseteq Addr /\ \A b \in keys : new[b] = IF b = a THEN list ELSE waiters[t][b]
  BY DEF TypeOK
<1>3. \A b \in keys : new[b] \in Seq(Guest) \ {<<>>}
  BY <1>2 DEF TypeOK
<1>4. ASSUME NEW u \in Table, NEW b \in Addr
      PROVE  ListOf(u, b)' = IF u = t /\ b = a THEN list ELSE ListOf(u, b)
  <2>1. CASE u # t
    BY <1>1, <2>1 DEF ListOf
  <2>2. CASE u = t /\ b = a
    BY <1>1, <1>2, <2>2 DEF ListOf
  <2>3. CASE u = t /\ b # a
    <3>1. b \in keys <=> b \in DOMAIN waiters[t]
      BY <2>3
    <3> QED
      BY <1>1, <1>2, <2>3, <3>1 DEF ListOf
  <2> QED
    BY <2>1, <2>2, <2>3
<1> QED
  BY <1>1, <1>2, <1>3, <1>4 DEF TypeOK

\* _remove finds the waiter where it is.
LEMMA RemoveFirstAt ==
    ASSUME NEW list \in Seq(Guest), NEW g \in Guest, NEW i \in 1 .. Len(list), list[i] = g,
           \A j \in 1 .. Len(list) : list[j] = g => j = i
    PROVE  /\ RemoveFirst(list, g) \in Seq(Guest)
           /\ Len(RemoveFirst(list, g)) = Len(list) - 1
           /\ \A j \in 1 .. Len(list) - 1 :
                 RemoveFirst(list, g)[j] = IF j < i THEN list[j] ELSE list[j + 1]
<1> DEFINE I == {j \in 1 .. Len(list) : list[j] = g}
<1>1. I = {i}
  OBVIOUS
<1>2. SelectInSeq(list, LAMBDA v : v = g) = i
  BY <1>1 DEF SelectInSeq, Min
<1>3. RemoveFirst(list, g) = SubSeq(list, 1, i - 1) \o SubSeq(list, i + 1, Len(list))
  BY <1>2 DEF RemoveFirst, RemoveAt
<1> DEFINE s1 == SubSeq(list, 1, i - 1)
           s2 == SubSeq(list, i + 1, Len(list))
<1>4. /\ s1 \in Seq(Guest) /\ Len(s1) = i - 1
      /\ \A j \in 1 .. i - 1 : s1[j] = list[j]
  OBVIOUS
<1>5. /\ s2 \in Seq(Guest) /\ Len(s2) = Len(list) - i
      /\ \A j \in 1 .. Len(list) - i : s2[j] = list[i + j]
  OBVIOUS
<1> HIDE DEF s1, s2
<1>6. PICK r : /\ r = s1 \o s2 /\ r \in Seq(Guest) /\ Len(r) = Len(s1) + Len(s2)
               /\ \A j \in 1 .. Len(s1) + Len(s2) :
                     r[j] = IF j <= Len(s1) THEN s1[j] ELSE s2[j - Len(s1)]
  <2>1. /\ s1 \o s2 \in Seq(Guest) /\ Len(s1 \o s2) = Len(s1) + Len(s2)
        /\ \A j \in 1 .. Len(s1) + Len(s2) :
              (s1 \o s2)[j] = IF j <= Len(s1) THEN s1[j] ELSE s2[j - Len(s1)]
    BY <1>4, <1>5, ConcatProperties
  <2> QED
    BY <2>1, Zenon
<1>7. ASSUME NEW j \in 1 .. Len(list) - 1
      PROVE  r[j] = IF j < i THEN list[j] ELSE list[j + 1]
  <2>1. CASE j < i
    BY <1>4, <1>5, <1>6, <2>1
  <2>2. CASE j >= i
    <3>1. j - (i - 1) \in 1 .. Len(list) - i /\ i + (j - (i - 1)) = j + 1
      BY <2>2
    <3>2. r[j] = s2[j - (i - 1)]
      BY <1>4, <1>5, <1>6, <2>2
    <3>3. s2[j - (i - 1)] = list[j + 1]
      BY <1>5, <3>1
    <3> QED
      BY <2>2, <3>2, <3>3
  <2> QED
    BY <2>1, <2>2
<1>8. RemoveFirst(list, g) = r
  BY <1>3, <1>6 DEF s1, s2
<1>9. Len(r) = Len(list) - 1
  BY <1>4, <1>5, <1>6
<1> QED
  BY <1>6, <1>7, <1>8, <1>9

\* At first nobody waits.
LEMMA FutexInit == Init => FutexInv
<1> SUFFICES ASSUME Init
             PROVE  FutexInv
  OBVIOUS
<1>1. \A t \in Table, a \in Addr : ListOf(t, a) = <<>>
  BY DEF Init, ListOf
<1>2. TypeOK
  BY DEF Init, TypeOK, Status
<1> QED
  BY <1>1, <1>2 DEF Init, FutexInv, QueuedAreBlocked, BlockedAreQueued, QueuedOnce, TimersOfBlocked

\* wait: the guest goes to the end of the list it names.
LEMMA WaitKeepsInv ==
    ASSUME FutexInv, NEW g \in Guest, NEW a \in Addr, NEW timed \in BOOLEAN, wait(g, a, timed)
    PROVE  FutexInv'
<1> DEFINE t    == TableOf[g]
           old  == ListOf(t, a)
           list == Append(old, g)
<1>1. t \in Table /\ old \in Seq(Guest)
  BY ListsAreSequences DEF Table, FutexInv
<1>2. list \in Seq(Guest) /\ Len(list) = Len(old) + 1 /\ list[Len(old) + 1] = g
      /\ \A i \in 1 .. Len(old) : list[i] = old[i]
  BY <1>1, AppendProperties
<1>3. /\ DOMAIN waiters' = Table
      /\ \A u \in Table : /\ DOMAIN waiters'[u] \subseteq Addr
                          /\ \A b \in DOMAIN waiters'[u] : waiters'[u][b] \in Seq(Guest) \ {<<>>}
      /\ \A u \in Table, b \in Addr : ListOf(u, b)' = IF u = t /\ b = a THEN list ELSE ListOf(u, b)
  <2>1. TypeOK /\ SetList(t, a, list)
    BY DEF wait, FutexInv
  <2> HIDE DEF t, list
  <2> QED
    BY <1>1, <1>2, <2>1, SetListSets
<1>4. /\ status' = [status EXCEPT ![g] = "blocked"] /\ waitsAt' = [waitsAt EXCEPT ![g] = a]
      /\ timer' \subseteq timer \cup {g} /\ status[g] = "running"
  BY DEF wait
<1>5. TypeOK'
  BY <1>3, <1>4 DEF FutexInv, TypeOK, Status
<1>6. \A u \in Table, b \in Addr : \A i \in 1 .. Len(ListOf(u, b)) :
         ListOf(u, b)[i] \in Guest /\ ListOf(u, b)[i] # g
  BY <1>4, ListsAreSequences DEF FutexInv, QueuedAreBlocked
<1>7. QueuedAreBlocked'
  <2> SUFFICES ASSUME NEW u \in Table, NEW b \in Addr, NEW i \in 1 .. Len(ListOf(u, b)')
               PROVE  /\ status'[ListOf(u, b)'[i]] = "blocked"
                      /\ TableOf[ListOf(u, b)'[i]] = u /\ waitsAt'[ListOf(u, b)'[i]] = b
    BY DEF QueuedAreBlocked
  <2>1. CASE ListOf(u, b)'[i] = g /\ u = t /\ b = a
    BY <1>4, <2>1 DEF FutexInv, TypeOK
  <2>2. CASE i \in 1 .. Len(ListOf(u, b)) /\ ListOf(u, b)'[i] = ListOf(u, b)[i]
    BY <1>4, <1>6, <2>2 DEF FutexInv, TypeOK, QueuedAreBlocked
  <2> QED
    BY <1>1, <1>2, <1>3, <2>1, <2>2
<1>8. BlockedAreQueued'
  <2> SUFFICES ASSUME NEW h \in Guest, status'[h] = "blocked"
               PROVE  IsQueued(h)'
    BY DEF BlockedAreQueued
  <2> DEFINE u == TableOf[h]
  <2>1. CASE h = g
    <3>1. u = t /\ waitsAt'[h] = a /\ ListOf(t, a)' = list
      BY <1>1, <1>3, <1>4, <2>1 DEF FutexInv, TypeOK
    <3>2. IsQueued(h)' <=> \E i \in 1 .. Len(list) : list[i] = h
      BY <3>1 DEF IsQueued, ListOf
    <3> QED
      BY <1>1, <1>2, <2>1, <3>2
  <2>2. CASE h # g
    <3>1. /\ status[h] = "blocked" /\ waitsAt'[h] = waitsAt[h]
          /\ u \in Table /\ waitsAt[h] \in Addr
      BY <1>4, <2>2 DEF FutexInv, TypeOK, Table
    <3> DEFINE b == waitsAt[h]
    <3>2. PICK i \in 1 .. Len(ListOf(u, b)) : ListOf(u, b)[i] = h
      BY <3>1 DEF FutexInv, BlockedAreQueued, IsQueued
    <3>3. i \in 1 .. Len(ListOf(u, b)') /\ ListOf(u, b)'[i] = h
      BY <1>1, <1>2, <1>3, <3>1, <3>2
    <3> QED
      BY <3>1, <3>3 DEF IsQueued, ListOf
  <2> QED
    BY <2>1, <2>2
<1>9. QueuedOnce'
  <2> SUFFICES ASSUME NEW u \in Table, NEW b \in Addr,
                      NEW i \in 1 .. Len(ListOf(u, b)'), NEW j \in 1 .. Len(ListOf(u, b)'),
                      ListOf(u, b)'[i] = ListOf(u, b)'[j]
               PROVE  i = j
    BY DEF QueuedOnce
  <2>1. CASE u = t /\ b = a
    <3>1. ListOf(u, b)' = list /\ \A k \in 1 .. Len(old) : old[k] # g
      BY <1>1, <1>3, <1>6, <2>1
    <3> QED
      BY <1>1, <1>2, <2>1, <3>1 DEF FutexInv, QueuedOnce
  <2>2. CASE ~(u = t /\ b = a)
    BY <1>3, <2>2 DEF FutexInv, QueuedOnce
  <2> QED
    BY <2>1, <2>2
<1>10. TimersOfBlocked'
  BY <1>4 DEF FutexInv, TypeOK, TimersOfBlocked
<1> QED
  BY <1>5, <1>7, <1>8, <1>9, <1>10 DEF FutexInv

\* The guests in gone have left the list old, and list is what is left; f says
\* which place of the old list each of those had.
Leaves(gone, old, list, f) ==
    /\ gone \in SUBSET Guest /\ f \in [1 .. Len(list) -> 1 .. Len(old)]
    /\ \A j \in 1 .. Len(list) : list[j] = old[f[j]] /\ list[j] \notin gone
    /\ \A i, j \in 1 .. Len(list) : f[i] = f[j] => i = j
    /\ \A k \in 1 .. Len(old) : old[k] \notin gone => \E j \in 1 .. Len(list) : list[j] = old[k]
    /\ \A h \in gone : \E k \in 1 .. Len(old) : old[k] = h

\* The guests in gone go on, the others stay as they are.
Resolved(gone) ==
    /\ status' \in [Guest -> Status]
    /\ \A h \in gone : status'[h] # "blocked"
    /\ \A h \in Guest \ gone : status'[h] = status[h]
    /\ waitsAt' = waitsAt /\ timer' = timer \ gone

\* Waiters of one list are resolved and leave it.
LEMMA RemovalKeepsInv ==
    ASSUME FutexInv, NEW t \in Table, NEW a \in Addr, NEW list \in Seq(Guest), NEW gone, NEW f,
           SetList(t, a, list), Leaves(gone, ListOf(t, a), list, f), Resolved(gone)
    PROVE  FutexInv'
<1> USE DEF Leaves, Resolved
<1> DEFINE old == ListOf(t, a)
<1>1. TypeOK /\ old \in Seq(Guest)
  BY ListsAreSequences DEF FutexInv
<1>2. /\ DOMAIN waiters' = Table
      /\ \A u \in Table : /\ DOMAIN waiters'[u] \subseteq Addr
                          /\ \A b \in DOMAIN waiters'[u] : waiters'[u][b] \in Seq(Guest) \ {<<>>}
      /\ \A u \in Table, b \in Addr : ListOf(u, b)' = IF u = t /\ b = a THEN list ELSE ListOf(u, b)
  BY <1>1, SetListSets
<1>3. TypeOK'
  BY <1>1, <1>2 DEF TypeOK
<1>4. \A h \in gone : TableOf[h] = t /\ waitsAt[h] = a
  BY DEF FutexInv, QueuedAreBlocked
<1>5. ASSUME NEW u \in Table, NEW b \in Addr, NEW i \in 1 .. Len(ListOf(u, b)), ~(u = t /\ b = a)
      PROVE  ListOf(u, b)[i] \in Guest /\ ListOf(u, b)[i] \notin gone
  <2>1. ListOf(u, b)[i] \in Guest
    BY <1>1, ListsAreSequences
  <2>2. TableOf[ListOf(u, b)[i]] = u /\ waitsAt[ListOf(u, b)[i]] = b
    BY DEF FutexInv, QueuedAreBlocked
  <2> QED
    BY <1>4, <1>5, <2>1, <2>2
<1>6. QueuedAreBlocked'
  <2> SUFFICES ASSUME NEW u \in Table, NEW b \in Addr, NEW i \in 1 .. Len(ListOf(u, b)')
               PROVE  /\ status'[ListOf(u, b)'[i]] = "blocked"
                      /\ TableOf[ListOf(u, b)'[i]] = u /\ waitsAt'[ListOf(u, b)'[i]] = b
    BY DEF QueuedAreBlocked
  <2>1. CASE u = t /\ b = a
    <3>1. ListOf(u, b)' = list /\ i \in 1 .. Len(list)
      BY <1>2, <2>1
    <3>2. list[i] = old[f[i]] /\ f[i] \in 1 .. Len(old) /\ list[i] \in Guest \ gone
      BY <3>1
    <3>3. status[list[i]] = "blocked" /\ TableOf[list[i]] = t /\ waitsAt[list[i]] = a
      BY <3>2 DEF FutexInv, QueuedAreBlocked
    <3> QED
      BY <2>1, <3>1, <3>2, <3>3
  <2>2. CASE ~(u = t /\ b = a)
    <3>1. ListOf(u, b)' = ListOf(u, b) /\ i \in 1 .. Len(ListOf(u, b))
      BY <1>2, <2>2
    <3> QED
      BY <1>5, <2>2, <3>1 DEF FutexInv, QueuedAreBlocked
  <2> QED
    BY <2>1, <2>2
<1>7. BlockedAreQueued'
  <2> SUFFICES ASSUME NEW h \in Guest, status'[h] = "blocked"
               PROVE  IsQueued(h)'
    BY DEF BlockedAreQueued
  <2> DEFINE u == TableOf[h]
             b == waitsAt[h]
  <2>1. h \notin gone /\ status[h] = "blocked" /\ u \in Table /\ b \in Addr
    BY <1>1 DEF TypeOK, Table
  <2>2. PICK i \in 1 .. Len(ListOf(u, b)) : ListOf(u, b)[i] = h
    BY <2>1 DEF FutexInv, BlockedAreQueued, IsQueued
  <2>3. \E j \in 1 .. Len(ListOf(u, b)') : ListOf(u, b)'[j] = h
    <3>1. CASE u = t /\ b = a
      BY <1>2, <2>1, <2>2, <3>1
    <3>2. CASE ~(u = t /\ b = a)
      BY <1>2, <2>1, <2>2, <3>2
    <3> QED
      BY <3>1, <3>2
  <2> QED
    BY <2>3 DEF IsQueued, ListOf
<1>8. QueuedOnce'
  <2> SUFFICES ASSUME NEW u \in Table, NEW b \in Addr,
                      NEW i \in 1 .. Len(ListOf(u, b)'), NEW j \in 1 .. Len(ListOf(u, b)'),
                      ListOf(u, b)'[i] = ListOf(u, b)'[j]
               PROVE  i = j
    BY DEF QueuedOnce
  <2>1. CASE u = t /\ b = a
    <3>1. ListOf(u, b)' = list /\ i \in 1 .. Len(list) /\ j \in 1 .. Len(list)
      BY <1>2, <2>1
    <3>2. f[i] \in 1 .. Len(old) /\ f[j] \in 1 .. Len(old) /\ old[f[i]] = old[f[j]]
      BY <3>1
    <3>3. f[i] = f[j]
      BY <3>2 DEF FutexInv, QueuedOnce
    <3> QED
      BY <3>1, <3>3
  <2>2. CASE ~(u = t /\ b = a)
    BY <1>2, <2>2 DEF FutexInv, QueuedOnce
  <2> QED
    BY <2>1, <2>2
<1>9. TimersOfBlocked'
  BY <1>1 DEF FutexInv, TypeOK, TimersOfBlocked
<1> QED
  BY <1>3, <1>6, <1>7, <1>8, <1>9 DEF FutexInv

\* The timer of a wait takes the waiter out of its list.
LEMMA TimeoutKeepsInv ==
    ASSUME FutexInv, NEW g \in Guest, timeout(g)
    PROVE  FutexInv'
<1> DEFINE t    == TableOf[g]
           a    == waitsAt[g]
           old  == ListOf(t, a)
           list == RemoveFirst(old, g)
<1>1. t \in Table /\ a \in Addr /\ TypeOK /\ status[g] = "blocked" /\ g \in timer
  BY DEF FutexInv, TypeOK, TimersOfBlocked, timeout, Table
<1>2. old \in Seq(Guest)
  BY <1>1, ListsAreSequences
<1>3. PICK i \in 1 .. Len(old) : old[i] = g
  BY <1>1 DEF FutexInv, BlockedAreQueued, IsQueued
<1>4. \A j \in 1 .. Len(old) : old[j] = g => j = i
  BY <1>1, <1>3 DEF FutexInv, QueuedOnce
<1>5. /\ SetList(t, a, list) /\ waitsAt' = waitsAt /\ timer' = timer \ {g}
      /\ status' = [status EXCEPT ![g] = "timedout"]
  BY <1>1 DEF timeout
<1> DEFINE f == [j \in 1 .. Len(list) |-> IF j < i THEN j ELSE j + 1]
<1> HIDE DEF old
<1>6. /\ list \in Seq(Guest) /\ Len(list) = Len(old) - 1
      /\ \A j \in 1 .. Len(old) - 1 : list[j] = IF j < i THEN old[j] ELSE old[j + 1]
  BY <1>2, <1>3, <1>4, RemoveFirstAt
<1> HIDE DEF list
<1>7. f \in [1 .. Len(list) -> 1 .. Len(old)]
  BY <1>2, <1>6
<1>8. \A j \in 1 .. Len(list) : list[j] = old[f[j]] /\ list[j] \notin {g}
  <2> SUFFICES ASSUME NEW j \in 1 .. Len(list)
               PROVE  list[j] = old[f[j]] /\ list[j] # g
    OBVIOUS
  <2>1. list[j] = old[f[j]] /\ f[j] \in 1 .. Len(old) /\ f[j] # i
    BY <1>2, <1>6
  <2> QED
    BY <1>4, <2>1
<1>9. \A j, k \in 1 .. Len(list) : f[j] = f[k] => j = k
  BY <1>2, <1>6
<1>10. ASSUME NEW k \in 1 .. Len(old), old[k] \notin {g}
       PROVE  \E j \in 1 .. Len(list) : list[j] = old[k]
  <2>1. CASE k < i
    BY <1>2, <1>6, <2>1
  <2>2. CASE k > i
    <3>1. k - 1 \in 1 .. Len(old) - 1 /\ ~(k - 1 < i) /\ (k - 1) + 1 = k
      BY <1>2, <2>2
    <3> QED
      BY <1>6, <3>1
  <2> QED
    BY <1>2, <1>3, <1>10, <2>1, <2>2
<1>11. Resolved({g})
  BY <1>1, <1>5 DEF TypeOK, Status, Resolved
<1>12. Leaves({g}, old, list, f)
  BY <1>3, <1>7, <1>8, <1>9, <1>10 DEF Leaves
<1> HIDE DEF f, t, a
<1> QED
  BY <1>1, <1>5, <1>6, <1>11, <1>12, RemovalKeepsInv DEF old

\* wake: waiters leave a list from its head.
LEMMA WakeKeepsInv ==
    ASSUME FutexInv, NEW t \in Table, NEW a \in Addr, NEW count \in Nat, wake(t, a, count)
    PROVE  FutexInv'
<1> DEFINE old   == ListOf(t, a)
           n     == IF count < Len(old) THEN count ELSE Len(old)
           woken == ToSet(Woken(t, a, count))
           list  == Rest(t, a, count)
           f     == [j \in 1 .. Len(list) |-> n + j]
<1>1. TypeOK /\ old \in Seq(Guest) /\ n \in 0 .. Len(old)
  BY ListsAreSequences DEF FutexInv
<1>2. /\ SetList(t, a, list) /\ timer' = timer \ woken /\ waitsAt' = waitsAt
      /\ status' = [g \in Guest |-> IF g \in woken THEN "woken" ELSE status[g]]
  BY DEF wake
<1>3. Len(Woken(t, a, count)) = n /\ \A i \in 1 .. n : Woken(t, a, count)[i] = old[i]
  BY <1>1 DEF Woken
<1>4. /\ list = SubSeq(old, n + 1, Len(old)) /\ list \in Seq(Guest) /\ Len(list) = Len(old) - n
      /\ \A j \in 1 .. Len(old) - n : list[j] = old[n + j]
  <2>1. list = SubSeq(old, n + 1, Len(old))
    BY <1>3 DEF Rest
  <2> HIDE DEF list, n
  <2> QED
    BY <1>1, <2>1, SubSeqProperties
<1>5. woken = {old[i] : i \in 1 .. n}
  <2>1. DOMAIN Woken(t, a, count) = 1 .. n
    BY <1>1 DEF Woken
  <2> QED
    BY <1>3, <2>1 DEF ToSet
<1> HIDE DEF n, woken, list, old
<1>6. Leaves(woken, old, list, f)
  <2>1. woken \in SUBSET Guest /\ f \in [1 .. Len(list) -> 1 .. Len(old)]
    BY <1>1, <1>4, <1>5
  <2>2. ASSUME NEW j \in 1 .. Len(list)
        PROVE  list[j] = old[f[j]] /\ list[j] \notin woken
    <3>1. list[j] = old[f[j]] /\ f[j] \in 1 .. Len(old) /\ f[j] > n
      BY <1>1, <1>4
    <3>2. \A i \in 1 .. n : i \in 1 .. Len(old) /\ old[i] # old[f[j]]
      BY <1>1, <3>1 DEF FutexInv, QueuedOnce, old
    <3> QED
      BY <1>5, <3>1, <3>2
  <2>3. \A i, j \in 1 .. Len(list) : f[i] = f[j] => i = j
    BY <1>1, <1>4
  <2>4. ASSUME NEW k \in 1 .. Len(old), old[k] \notin woken
        PROVE  \E j \in 1 .. Len(list) : list[j] = old[k]
    <3>1. k > n
      BY <1>1, <1>5, <2>4
    <3>2. k - n \in 1 .. Len(old) - n /\ n + (k - n) = k
      BY <1>1, <3>1
    <3> QED
      BY <1>4, <3>2
  <2>5. \A h \in woken : \E k \in 1 .. Len(old) : old[k] = h
    BY <1>1, <1>5
  <2> QED
    BY <2>1, <2>2, <2>3, <2>4, <2>5 DEF Leaves
<1>7. Resolved(woken)
  BY <1>1, <1>2, <1>6 DEF Resolved, Leaves, TypeOK, Status
<1>8. SetList(t, a, list) /\ list \in Seq(Guest)
  BY <1>2, <1>4
<1> HIDE DEF f
<1> QED
  BY <1>6, <1>7, <1>8, RemovalKeepsInv DEF old

\* The system call wakes at least one.
LEMMA FutexWakeKeepsInv ==
    ASSUME FutexInv, NEW g \in Guest, NEW a \in Addr, NEW count \in Count, futexWake(g, a, count)
    PROVE  FutexInv'
<1>1. TableOf[g] \in Table /\ (IF count = 0 THEN 1 ELSE count) \in Nat
  BY CountAssumption DEF Table, Count
<1> QED
  BY <1>1, WakeKeepsInv DEF futexWake

\* A guest whose promise was settled runs on.
LEMMA ResumeKeepsInv ==
    ASSUME FutexInv, NEW g \in Guest, resume(g)
    PROVE  FutexInv'
<1>1. /\ status[g] # "blocked" /\ status' = [status EXCEPT ![g] = "running"]
      /\ waiters' = waiters /\ waitsAt' = waitsAt /\ timer' = timer
  BY DEF resume
<1>2. TypeOK'
  BY <1>1 DEF FutexInv, TypeOK, Status
<1>3. \A u \in Table, b \in Addr : ListOf(u, b)' = ListOf(u, b)
  BY <1>1 DEF ListOf
<1>4. \A h \in Guest : status'[h] = "blocked" <=> status[h] = "blocked"
  BY <1>1 DEF FutexInv, TypeOK
<1>5. QueuedAreBlocked'
  BY <1>1, <1>3, <1>4, ListsAreSequences DEF FutexInv, QueuedAreBlocked
<1>6. BlockedAreQueued'
  BY <1>1, <1>4 DEF FutexInv, BlockedAreQueued, IsQueued, ListOf
<1>7. QueuedOnce'
  BY <1>3 DEF FutexInv, QueuedOnce
<1>8. TimersOfBlocked'
  BY <1>1, <1>4 DEF FutexInv, TypeOK, TimersOfBlocked
<1> QED
  BY <1>2, <1>5, <1>6, <1>7, <1>8 DEF FutexInv

\* The lists of a futex table and the guests that are suspended fit together,
\* whatever waits, wakes, requeues and timers come in whatever order.
THEOREM FutexInvariance == Spec => []FutexInv
<1>1. FutexInv /\ [Next]_vars => FutexInv'
  <2> SUFFICES ASSUME FutexInv, [Next]_vars
               PROVE  FutexInv'
    OBVIOUS
  <2>1. CASE UNCHANGED vars
    BY <2>1 DEF vars, FutexInv, TypeOK, QueuedAreBlocked, BlockedAreQueued, IsQueued, QueuedOnce,
                TimersOfBlocked, ListOf
  <2>2. ASSUME NEW g \in Guest, NEW a \in Addr, NEW timed \in BOOLEAN, wait(g, a, timed)
        PROVE  FutexInv'
    BY <2>2, WaitKeepsInv
  <2>3. ASSUME NEW g \in Guest, timeout(g)
        PROVE  FutexInv'
    BY <2>3, TimeoutKeepsInv
  <2>4. ASSUME NEW g \in Guest, NEW a \in Addr, NEW n \in Count, futexWake(g, a, n)
        PROVE  FutexInv'
    BY <2>4, FutexWakeKeepsInv
  <2>5. ASSUME NEW g \in Guest, NEW a \in Addr, NEW b \in Addr, NEW n \in Count, futexRequeue(g, a, b, n)
        PROVE  FutexInv'
    BY <2>5, FutexWakeKeepsInv DEF futexRequeue
  <2>6. ASSUME NEW g \in Guest, resume(g)
        PROVE  FutexInv'
    BY <2>6, ResumeKeepsInv
  <2> QED
    BY <2>1, <2>2, <2>3, <2>4, <2>5, <2>6 DEF Next
<1> QED
  BY <1>1, FutexInit, PTL DEF Spec

\* FutexTable: a guest is in a list exactly while it is blocked, in the list of
\* its address in its table, once: every waiter can be woken, and none that has
\* been woken or has timed out eats the wake of another.
THEOREM WaitersQueuedOnce == Spec => []QueuedOnceIffBlocked
<1>1. FutexInv => QueuedOnceIffBlocked
  <2> SUFFICES ASSUME FutexInv, NEW g \in Guest, NEW t \in Table
               PROVE  Cardinality(PlacesOf(g, t)) =
                         IF status[g] = "blocked" /\ t = TableOf[g] THEN 1 ELSE 0
    BY DEF QueuedOnceIffBlocked
  <2>1. \A a \in DOMAIN waiters[t] :
           /\ a \in Addr /\ waiters[t][a] = ListOf(t, a)
           /\ DOMAIN waiters[t][a] = 1 .. Len(ListOf(t, a))
    BY DEF FutexInv, TypeOK, ListOf
  <2>2. CASE status[g] = "blocked" /\ t = TableOf[g]
    <3> DEFINE a == waitsAt[g]
    <3>1. a \in Addr
      BY DEF FutexInv, TypeOK
    <3>2. PICK i \in 1 .. Len(ListOf(t, a)) : ListOf(t, a)[i] = g
      BY <2>2 DEF FutexInv, BlockedAreQueued, IsQueued
    <3>3. a \in DOMAIN waiters[t]
      BY <3>2 DEF ListOf
    <3>4. \A b \in DOMAIN waiters[t] : \A j \in DOMAIN waiters[t][b] :
             waiters[t][b][j] = g => b = a /\ j = i
      BY <2>1, <3>1, <3>2 DEF FutexInv, QueuedAreBlocked, QueuedOnce
    <3>5. PlacesOf(g, t) = {<<a, i>>}
      BY <2>1, <3>2, <3>3, <3>4 DEF PlacesOf
    <3> QED
      BY <2>2, <3>5, FS_Singleton
  <2>3. CASE ~(status[g] = "blocked" /\ t = TableOf[g])
    <3>1. \A b \in DOMAIN waiters[t] : \A j \in DOMAIN waiters[t][b] : waiters[t][b][j] # g
      BY <2>1, <2>3 DEF FutexInv, QueuedAreBlocked
    <3>2. PlacesOf(g, t) = {}
      BY <3>1 DEF PlacesOf
    <3> QED
      BY <2>3, <3>2, FS_EmptySet
  <2> QED
    BY <2>2, <2>3
<1> QED
  BY <1>1, FutexInvariance, PTL

-----------------------------------------------------------------------------
(* Requests of the service worker, for any requests, windows and restarts. *)

FetchRecord ==
    [state : {"new", "matching", "reading", "waiting", "done"}, id : Nat,
     clients : SUBSET Window, life : Nat, answer : Fetch \cup Error \cup {NoAnswer}]

\* Requests, numbers and messages have their types.
BridgeTypeOK ==
    /\ fetch \in [Fetch -> FetchRecord]
    /\ nextId \in Nat \ {0} /\ life \in Nat \ {0} /\ pending \subseteq Nat /\ windows \subseteq Window
    /\ posted \subseteq [id : Nat, window : Window, for : Fetch]
    /\ replies \subseteq [id : Nat, for : Fetch]

\* Requests that are under way are of this life of the worker, and have a number
\* (from the moment the body is read) below the next one.
LivesAndNumbers ==
    \A f \in Fetch :
        /\ fetch[f].life <= life
        /\ fetch[f].state \in {"matching", "reading", "waiting"} => fetch[f].life = life
        /\ fetch[f].state \in {"new", "matching"} => fetch[f].id = 0
        /\ fetch[f].state # "done" => fetch[f].answer = NoAnswer
        /\ fetch[f].state \in {"reading", "waiting"} => fetch[f].id # 0
        /\ fetch[f].life = life => fetch[f].id < nextId

\* In one life no number is given out twice.
NumbersDiffer ==
    \A f, g \in Fetch :
        fetch[f].life = fetch[g].life /\ fetch[f].id # 0 /\ fetch[f].id = fetch[g].id => f = g

\* A message on its way has the number of the request it is for.
MessagesFit ==
    /\ \A m \in posted : m.id # 0 /\ fetch[m.for].id = m.id
    /\ \A m \in replies : m.id # 0 /\ fetch[m.for].id = m.id

\* Answers are for requests that have been sent.
AnsweredWereSent == \A f, g \in Fetch : fetch[f].answer = g => fetch[g].id # 0

\* The inductive invariant.
BridgeInv == /\ BridgeTypeOK /\ LivesAndNumbers /\ NumbersDiffer /\ MessagesFit
             /\ AnsweredWereSent /\ OwnReply

\* At first there is no request.
LEMMA BridgeInitInv == BridgeInit => BridgeInv
BY AnswerAssumption DEF BridgeInit, BridgeInv, BridgeTypeOK, FetchRecord, LivesAndNumbers, NumbersDiffer, MessagesFit,
       AnsweredWereSent, OwnReply, NoAnswer, Error

\* A request enters the worker in one of its lives.
LEMMA FetchEventKeeps ==
    ASSUME BridgeInv, NEW f \in Fetch, fetchEvent(f)
    PROVE  BridgeInv'
<1>1. /\ fetch[f].state = "new" /\ fetch' = [fetch EXCEPT ![f].state = "matching", ![f].life = life]
      /\ UNCHANGED <<nextId, pending, life, windows, posted, replies>>
  BY DEF fetchEvent
<1>2. fetch[f].id = 0 /\ fetch[f].answer = NoAnswer
  BY <1>1 DEF BridgeInv, LivesAndNumbers
<1>3. \A g \in Fetch : /\ fetch'[g].id = fetch[g].id /\ fetch'[g].answer = fetch[g].answer
                       /\ g # f => fetch'[g] = fetch[g]
                       /\ g = f => fetch'[g].state = "matching" /\ fetch'[g].life = life
  BY <1>1 DEF BridgeInv, BridgeTypeOK, FetchRecord
<1>4. BridgeTypeOK'
  BY <1>1, ZenonT(60) DEF BridgeInv, BridgeTypeOK, FetchRecord
<1>5. LivesAndNumbers'
  BY <1>1, <1>2, <1>3 DEF BridgeInv, BridgeTypeOK, FetchRecord, LivesAndNumbers
<1>6. NumbersDiffer'
  BY <1>2, <1>3 DEF BridgeInv, NumbersDiffer
<1>7. MessagesFit'
  BY <1>1, <1>3 DEF BridgeInv, BridgeTypeOK, FetchRecord, MessagesFit
<1>8. AnsweredWereSent'
  BY <1>3 DEF BridgeInv, AnsweredWereSent
<1>9. OwnReply'
  BY <1>2, <1>3, AnswerAssumption DEF BridgeInv, AnsweredWereSent, OwnReply
<1> QED
  BY <1>4, <1>5, <1>6, <1>7, <1>8, <1>9 DEF BridgeInv

\* A request ends with an error, or goes on with the number it has.
LEMMA AnsweredKeeps ==
    ASSUME BridgeInv, NEW f \in Fetch, fetch[f].state # "new",
           NEW s \in {"waiting", "done"}, NEW a \in Error \cup {NoAnswer},
           s = "waiting" => fetch[f].state = "reading" /\ a = NoAnswer,
           fetch' = [fetch EXCEPT ![f].state = s, ![f].answer = a],
           UNCHANGED <<nextId, life>>
    PROVE  /\ fetch' \in [Fetch -> FetchRecord]
           /\ \A g \in Fetch : fetch'[g].id = fetch[g].id
           /\ LivesAndNumbers' /\ NumbersDiffer' /\ AnsweredWereSent' /\ OwnReply'
<1>1. \A g \in Fetch : /\ fetch'[g].id = fetch[g].id /\ fetch'[g].life = fetch[g].life
                       /\ g # f => fetch'[g] = fetch[g]
                       /\ g = f => fetch'[g].state = s /\ fetch'[g].answer = a
  BY DEF BridgeInv, BridgeTypeOK, FetchRecord
<1>2. fetch' \in [Fetch -> FetchRecord]
  BY ZenonT(60) DEF BridgeInv, BridgeTypeOK, FetchRecord
<1>3. LivesAndNumbers'
  BY <1>1 DEF BridgeInv, BridgeTypeOK, FetchRecord, LivesAndNumbers
<1>4. NumbersDiffer'
  BY <1>1 DEF BridgeInv, NumbersDiffer
<1>5. AnsweredWereSent' /\ OwnReply'
  <2>1. a \notin Fetch
    BY AnswerAssumption
  <2>2. \A g, h \in Fetch : fetch'[g].answer = h => g # f /\ fetch[g].answer = h
    BY <1>1, <2>1
  <2> QED
    BY <1>1, <2>2, ZenonT(60) DEF BridgeInv, AnsweredWereSent, OwnReply
<1> QED
  BY <1>1, <1>2, <1>3, <1>4, <1>5

\* The worker has windows to ask, or answers 503.
LEMMA RouteKeeps ==
    ASSUME BridgeInv, NEW f \in Fetch, routeToClients(f)
    PROVE  BridgeInv'
<1>1. fetch[f].state = "matching" /\ UNCHANGED <<pending, life, windows, posted, replies>>
  BY DEF routeToClients
<1>2. CASE fetch' = Answered(f, "503") /\ UNCHANGED nextId
  <2>1. fetch' = [fetch EXCEPT ![f].state = "done", ![f].answer = "503"]
    BY <1>2 DEF Answered
  <2>2. "503" \in Error \cup {NoAnswer}
    BY DEF Error
  <2>3. /\ fetch' \in [Fetch -> FetchRecord]
        /\ \A g \in Fetch : fetch'[g].id = fetch[g].id
        /\ LivesAndNumbers' /\ NumbersDiffer' /\ AnsweredWereSent' /\ OwnReply'
    BY <1>1, <1>2, <2>1, <2>2, AnsweredKeeps
  <2>4. BridgeTypeOK'
    BY <1>1, <1>2, <2>3 DEF BridgeInv, BridgeTypeOK, FetchRecord
  <2>5. MessagesFit'
    BY <1>1, <2>3 DEF BridgeInv, BridgeTypeOK, FetchRecord, MessagesFit
  <2> QED
    BY <2>3, <2>4, <2>5 DEF BridgeInv
<1>3. CASE /\ fetch' = [fetch EXCEPT ![f].state = "reading", ![f].id = nextId, ![f].clients = windows]
           /\ nextId' = nextId + 1
  <2>1. fetch[f].id = 0 /\ fetch[f].life = life /\ fetch[f].answer = NoAnswer
    BY <1>1 DEF BridgeInv, LivesAndNumbers
  <2>2. \A g \in Fetch : /\ fetch'[g].life = fetch[g].life /\ fetch'[g].answer = fetch[g].answer
                         /\ g # f => fetch'[g] = fetch[g]
                         /\ g = f => fetch'[g].state = "reading" /\ fetch'[g].id = nextId
    BY <1>3 DEF BridgeInv, BridgeTypeOK, FetchRecord
  <2>3. BridgeTypeOK'
    <3>1. fetch[f] \in FetchRecord /\ nextId \in Nat /\ windows \in SUBSET Window
      BY DEF BridgeInv, BridgeTypeOK
    <3>2. [fetch[f] EXCEPT !.state = "reading", !.id = nextId, !.clients = windows] \in FetchRecord
      BY <3>1 DEF FetchRecord
    <3>3. fetch' \in [Fetch -> FetchRecord]
      BY <1>3, <3>2 DEF BridgeInv, BridgeTypeOK
    <3> QED
      BY <1>1, <1>3, <3>3 DEF BridgeInv, BridgeTypeOK
  <2>4. LivesAndNumbers'
    BY <1>1, <1>3, <2>1, <2>2 DEF BridgeInv, BridgeTypeOK, FetchRecord, LivesAndNumbers
  <2>5. NumbersDiffer'
    <3> SUFFICES ASSUME NEW g \in Fetch, NEW h \in Fetch, fetch'[g].life = fetch'[h].life,
                        fetch'[g].id # 0, fetch'[g].id = fetch'[h].id, g # h
                 PROVE  FALSE
      BY DEF NumbersDiffer
    <3>1. CASE g # f /\ h # f
      BY <2>2, <3>1 DEF BridgeInv, NumbersDiffer
    <3>2. CASE g = f \/ h = f
      <4>1. \A k \in Fetch : fetch[k].life = life => fetch[k].id # nextId
        BY DEF BridgeInv, BridgeTypeOK, FetchRecord, LivesAndNumbers
      <4> QED
        BY <2>1, <2>2, <3>2, <4>1
    <3> QED
      BY <3>1, <3>2
  <2>6. MessagesFit'
    BY <1>1, <2>1, <2>2 DEF BridgeInv, BridgeTypeOK, FetchRecord, MessagesFit
  <2>7. AnsweredWereSent' /\ OwnReply'
    BY <2>2 DEF BridgeInv, BridgeTypeOK, FetchRecord, AnsweredWereSent, OwnReply
  <2> QED
    BY <2>3, <2>4, <2>5, <2>6, <2>7 DEF BridgeInv
<1> QED
  BY <1>2, <1>3 DEF routeToClients

\* The message carries the number of the request.
LEMMA PostKeeps ==
    ASSUME BridgeInv, NEW f \in Fetch, postToClients(f)
    PROVE  BridgeInv'
<1>1. /\ fetch[f].state = "reading" /\ UNCHANGED <<nextId, life, windows, replies>>
      /\ pending' = pending \cup {fetch[f].id}
  BY DEF postToClients
<1>2. PICK first \in fetch[f].clients :
         posted' = posted \cup [id : {fetch[f].id}, window : {first}, for : {f}]
  BY DEF postToClients
<1>3. PICK s \in {"waiting", "done"}, a \in Error \cup {NoAnswer} :
         /\ fetch' = [fetch EXCEPT ![f].state = s, ![f].answer = a]
         /\ s = "waiting" => a = NoAnswer
  <2>1. CASE fetch' = Answered(f, "failed")
    BY <2>1 DEF Answered, Error
  <2>2. CASE fetch' = Becoming(f, "waiting")
    <3>1. fetch[f].answer = NoAnswer
      BY <1>1 DEF BridgeInv, LivesAndNumbers
    <3>2. fetch' = [fetch EXCEPT ![f].state = "waiting", ![f].answer = NoAnswer]
      BY <2>2, <3>1 DEF Becoming, BridgeInv, BridgeTypeOK, FetchRecord
    <3> QED
      BY <3>2
  <2> QED
    BY <2>1, <2>2 DEF postToClients
<1>4. /\ fetch' \in [Fetch -> FetchRecord]
      /\ \A g \in Fetch : fetch'[g].id = fetch[g].id
      /\ LivesAndNumbers' /\ NumbersDiffer' /\ AnsweredWereSent' /\ OwnReply'
  BY <1>1, <1>3, AnsweredKeeps
<1>5. BridgeTypeOK'
  <2>1. fetch[f].id \in Nat /\ first \in Window
    BY <1>2 DEF BridgeInv, BridgeTypeOK, FetchRecord
  <2> QED
    BY <1>1, <1>2, <1>4, <2>1 DEF BridgeInv, BridgeTypeOK, FetchRecord
<1>6. MessagesFit'
  <2>1. fetch[f].id # 0
    BY <1>1 DEF BridgeInv, LivesAndNumbers
  <2> QED
    BY <1>1, <1>2, <1>4, <2>1 DEF BridgeInv, BridgeTypeOK, FetchRecord, MessagesFit
<1> QED
  BY <1>4, <1>5, <1>6 DEF BridgeInv

\* A request that timed out has its answer, its number stays taken.
LEMMA TimeoutKeepsBridge ==
    ASSUME BridgeInv, NEW f \in Fetch, timeout504(f)
    PROVE  BridgeInv'
<1>1. /\ fetch[f].state = "waiting" /\ UNCHANGED <<nextId, pending, life, windows, posted, replies>>
      /\ fetch' = [fetch EXCEPT ![f].state = "done", ![f].answer = "504"]
  BY DEF timeout504, Answered
<1>2. "504" \in Error \cup {NoAnswer}
  BY DEF Error
<1>3. /\ fetch' \in [Fetch -> FetchRecord]
      /\ \A g \in Fetch : fetch'[g].id = fetch[g].id
      /\ LivesAndNumbers' /\ NumbersDiffer' /\ AnsweredWereSent' /\ OwnReply'
  BY <1>1, <1>2, AnsweredKeeps
<1>4. BridgeTypeOK' /\ MessagesFit'
  BY <1>1, <1>3 DEF BridgeInv, BridgeTypeOK, FetchRecord, MessagesFit
<1> QED
  BY <1>3, <1>4 DEF BridgeInv

\* The message event: the answer that is taken has the number of a request that
\* waits, and in one life only one request has it.
LEMMA MessageKeeps ==
    ASSUME BridgeInv, NEW m \in replies, message(m)
    PROVE  BridgeInv'
<1>1. replies' = replies \ {m} /\ UNCHANGED <<nextId, life, windows, posted>>
  BY DEF message
<1>2. m.for \in Fetch /\ m.id \in Nat \ {0} /\ fetch[m.for].id = m.id
  BY DEF BridgeInv, BridgeTypeOK, FetchRecord, MessagesFit
<1>3. CASE UNCHANGED <<fetch, pending>>
  BY <1>1, <1>3 DEF BridgeInv, BridgeTypeOK, FetchRecord, LivesAndNumbers, NumbersDiffer, MessagesFit,
                    AnsweredWereSent, OwnReply
<1>4. CASE /\ pending' = pending \ {m.id}
           /\ fetch' = [f \in Fetch |->
                 IF fetch[f].state = "waiting" /\ fetch[f].id = m.id
                 THEN [fetch[f] EXCEPT !.state = "done", !.answer = m.for] ELSE fetch[f]]
  <2> DEFINE Taken(f) == fetch[f].state = "waiting" /\ fetch[f].id = m.id
  <2>1. \A f \in Fetch : /\ fetch'[f].id = fetch[f].id /\ fetch'[f].life = fetch[f].life
                         /\ ~Taken(f) => fetch'[f] = fetch[f]
                         /\ Taken(f) => fetch'[f].state = "done" /\ fetch'[f].answer = m.for
    BY <1>4 DEF BridgeInv, BridgeTypeOK, FetchRecord
  <2>2. fetch' \in [Fetch -> FetchRecord]
    BY <1>2, <1>4, ZenonT(60) DEF BridgeInv, BridgeTypeOK, FetchRecord
  <2>3. BridgeTypeOK'
    BY <1>1, <1>4, <2>2 DEF BridgeInv, BridgeTypeOK, FetchRecord
  <2>4. LivesAndNumbers'
    BY <1>1, <2>1 DEF BridgeInv, LivesAndNumbers
  <2>5. NumbersDiffer'
    BY <2>1 DEF BridgeInv, NumbersDiffer
  <2>6. MessagesFit'
    BY <1>1, <2>1 DEF BridgeInv, BridgeTypeOK, FetchRecord, MessagesFit
  <2>7. AnsweredWereSent'
    BY <1>2, <2>1 DEF BridgeInv, AnsweredWereSent
  <2>8. ASSUME NEW f \in Fetch, Taken(f)
        PROVE  m.for = f \/ fetch[m.for].life < fetch[f].life
    <3>1. fetch[f].life = life /\ fetch[m.for].life <= life /\ fetch[m.for].id = fetch[f].id
      BY <1>2, <2>8 DEF BridgeInv, LivesAndNumbers
    <3>2. fetch[m.for].life = life => m.for = f
      BY <1>2, <2>8, <3>1 DEF BridgeInv, NumbersDiffer
    <3>3. life \in Nat /\ fetch[m.for].life \in Nat
      BY <1>2 DEF BridgeInv, BridgeTypeOK, FetchRecord
    <3> QED
      BY <3>1, <3>2, <3>3
  <2>9. OwnReply'
    BY <1>2, <2>1, <2>8 DEF BridgeInv, OwnReply
  <2> QED
    BY <2>3, <2>4, <2>5, <2>6, <2>7, <2>9 DEF BridgeInv
<1> QED
  BY <1>3, <1>4 DEF message

\* Between requests the worker may stop: whatever is under way then, on its way
\* to it, is for requests of a life before.
LEMMA WorkerStopsKeeps ==
    ASSUME BridgeInv, workerStops
    PROVE  BridgeInv'
<1>1. /\ \A f \in Fetch : fetch[f].state \in {"new", "done"}
      /\ life' = life + 1 /\ nextId' = 1 /\ pending' = {} /\ UNCHANGED <<fetch, windows, posted, replies>>
  BY DEF workerStops
<1>2. BridgeTypeOK' /\ MessagesFit' /\ NumbersDiffer' /\ AnsweredWereSent' /\ OwnReply'
  BY <1>1 DEF BridgeInv, BridgeTypeOK, FetchRecord, MessagesFit, NumbersDiffer, AnsweredWereSent, OwnReply
<1>3. LivesAndNumbers'
  BY <1>1 DEF BridgeInv, BridgeTypeOK, FetchRecord, LivesAndNumbers
<1> QED
  BY <1>2, <1>3 DEF BridgeInv

\* Requests, their numbers and the messages on their way fit together, however
\* many requests and windows there are and however often the worker is stopped.
THEOREM BridgeInvariance == BridgeSpec => []BridgeInv
<1>1. BridgeInv /\ [BridgeNext]_bridgeVars => BridgeInv'
  <2> SUFFICES ASSUME BridgeInv, [BridgeNext]_bridgeVars
               PROVE  BridgeInv'
    OBVIOUS
  <2>1. CASE UNCHANGED bridgeVars
    BY <2>1 DEF bridgeVars, BridgeInv, BridgeTypeOK, FetchRecord, LivesAndNumbers, NumbersDiffer, MessagesFit,
                AnsweredWereSent, OwnReply
  <2>2. ASSUME NEW m \in posted, windowAnswers(m)
        PROVE  BridgeInv'
    BY <2>2 DEF windowAnswers, BridgeInv, BridgeTypeOK, FetchRecord, LivesAndNumbers, NumbersDiffer, MessagesFit,
                AnsweredWereSent, OwnReply
  <2>3. ASSUME NEW w \in Window, windowChanges(w)
        PROVE  BridgeInv'
    BY <2>3 DEF windowChanges, BridgeInv, BridgeTypeOK, FetchRecord, LivesAndNumbers, NumbersDiffer, MessagesFit,
                AnsweredWereSent, OwnReply
  <2> QED
    BY <2>1, <2>2, <2>3, FetchEventKeeps, RouteKeeps, PostKeeps, TimeoutKeepsBridge, MessageKeeps,
       WorkerStopsKeeps DEF BridgeNext
<1> QED
  BY <1>1, BridgeInitInv, PTL DEF BridgeSpec

\* sw.js: a request is given the answer that was made for it, however late
\* answers are; only one made in an earlier life of the worker can be mistaken.
THEOREM RepliesAreOwn == BridgeSpec => []OwnReply
<1>1. BridgeInv => OwnReply
  BY DEF BridgeInv
<1> QED
  BY <1>1, BridgeInvariance, PTL

-----------------------------------------------------------------------------
(* Flattening a sequence of chunks.  The library's induction theorems are  *)
(* out of the provers' reach; induction over a SET of numbers is not.      *)

\* A set of natural numbers that is not empty has a smallest element.
LEMMA SmallestExists ==
    ASSUME NEW T, T \subseteq Nat, T # {}
    PROVE  \E a \in T : \A b \in T : a <= b
<1> DEFINE R == OpToRel(<, Nat)
<1>1. R = {ss \in Nat \X Nat : ss[1] < ss[2]}
  BY Zenon DEF OpToRel
<1>2. IsWellFoundedOn(R, Nat)
  BY NatLessThanWellFounded, Zenon
<1> HIDE DEF R
<1>3. PICK a \in T : \A b \in T : ~(<<b, a>> \in R)
  BY <1>2, WFMin, Zenon
<1>4. \A b \in T : ~(b < a)
  BY <1>1, <1>3
<1> QED
  BY <1>3, <1>4

\* A set that holds m and with every number the next holds all up to n.
LEMMA Climbs ==
    ASSUME NEW m \in Nat, NEW n \in Nat, NEW G, m \in G,
           \A k \in m + 1 .. n : k - 1 \in G => k \in G
    PROVE  \A k \in m .. n : k \in G
<1> DEFINE T == {k \in m .. n : k \notin G}
<1> SUFFICES ASSUME T # {}
             PROVE  FALSE
  OBVIOUS
<1>1. PICK a \in T : \A b \in T : a <= b
  <2>1. T \subseteq Nat
    OBVIOUS
  <2> HIDE DEF T
  <2> QED
    BY <2>1, SmallestExists
<1>2. a \in m + 1 .. n /\ a - 1 \in m .. n /\ a - 1 \notin T
  BY <1>1
<1> QED
  BY <1>1, <1>2

\* Concatenation under a name of its own, so that the provers do not expand it.
Cat(s, t) == s \o t

\* Type, length and elements of a concatenation; the empty sequence adds nothing.
LEMMA CatFacts ==
    ASSUME NEW S, NEW s \in Seq(S), NEW t \in Seq(S)
    PROVE  /\ Cat(s, t) \in Seq(S) /\ Len(Cat(s, t)) = Len(s) + Len(t)
           /\ \A i \in 1 .. Len(s) + Len(t) :
                 Cat(s, t)[i] = IF i <= Len(s) THEN s[i] ELSE t[i - Len(s)]
           /\ Cat(s, <<>>) = s /\ Cat(<<>>, s) = s
<1>1. Cat(s, <<>>) = s /\ Cat(<<>>, s) = s
  BY ConcatEmptySeq, Zenon DEF Cat
<1> QED
  BY <1>1, ConcatProperties, Zenon DEF Cat

\* How three pieces are grouped does not matter.
LEMMA Associates ==
    ASSUME NEW S, NEW s \in Seq(S), NEW t \in Seq(S), NEW u \in Seq(S)
    PROVE  Cat(Cat(s, t), u) = Cat(s, Cat(t, u))
BY ConcatAssociative DEF Cat

\* f[i] is what the first i chunks of q make together.
Same(q, r, n)  == \A i \in 1 .. n : q[i] = r[i]
Joins(f, q, n) == f[1] = q[1] /\ \A i \in 2 .. n : f[i] = Cat(f[i - 1], q[i])

\* Two such functions agree.
LEMMA JoinsUnique ==
    ASSUME NEW q, NEW r, NEW n \in Nat \ {0}, NEW f, NEW g, Joins(f, q, n), Joins(g, r, n),
           Same(q, r, n)
    PROVE  f[n] = g[n]
<1> DEFINE G == {i \in 1 .. n : f[i] = g[i]}
<1>1. 1 \in G
  BY DEF Joins, Same
<1>2. \A k \in 1 + 1 .. n : k - 1 \in G => k \in G
  BY DEF Joins, Same
<1> HIDE DEF G
<1>3. \A k \in 1 .. n : k \in G
  BY <1>1, <1>2, Climbs
<1> QED
  BY <1>3 DEF G

\* There is one for every queue that is not empty.
LEMMA JoinsExists ==
    ASSUME NEW S, NEW q \in Seq(Seq(S)), q # <<>>
    PROVE  \E f \in [1 .. Len(q) -> Seq(S)] : Joins(f, q, Len(q))
<1> DEFINE Good(n) == \E f \in [1 .. n -> Seq(S)] : Joins(f, q, n)
           G == {n \in 1 .. Len(q) : Good(n)}
<1>1. Len(q) \in Nat \ {0} /\ \A i \in 1 .. Len(q) : q[i] \in Seq(S)
  BY EmptySeq, ElementOfSeq
<1>2. 1 \in G
  <2>1. [i \in 1 .. 1 |-> q[1]] \in [1 .. 1 -> Seq(S)]
    BY <1>1
  <2>2. Joins([i \in 1 .. 1 |-> q[1]], q, 1)
    BY DEF Joins
  <2>3. Good(1)
    BY <2>1, <2>2, Zenon
  <2> HIDE DEF Good
  <2> QED
    BY <1>1, <2>3
<1>3. ASSUME NEW k \in 1 + 1 .. Len(q), k - 1 \in G
      PROVE  k \in G
  <2>1. Good(k - 1)
    BY <1>3, Zenon
  <2>2. PICK f \in [1 .. k - 1 -> Seq(S)] : Joins(f, q, k - 1)
    BY <2>1, Zenon
  <2>3. k \in Nat /\ k > 1 /\ k \in 1 .. Len(q) /\ k - 1 \in 1 .. k - 1
    BY <1>1
  <2>4. Cat(f[k - 1], q[k]) \in Seq(S)
    <3>1. f[k - 1] \in Seq(S) /\ q[k] \in Seq(S)
      BY <1>1, <2>3
    <3> QED
      BY <3>1, ConcatProperties, Zenon DEF Cat
  <2> DEFINE g == [i \in 1 .. k |-> IF i = k THEN Cat(f[k - 1], q[k]) ELSE f[i]]
  <2>5. g \in [1 .. k -> Seq(S)]
    BY <2>3, <2>4
  <2>6. Joins(g, q, k)
    BY <2>2, <2>3 DEF Joins
  <2> HIDE DEF g
  <2>7. Good(k)
    BY <2>5, <2>6, Zenon
  <2> HIDE DEF Good
  <2> QED
    BY <2>3, <2>7
<1> HIDE DEF G
<1>4. \A k \in 1 .. Len(q) : k \in G
  BY <1>1, <1>2, <1>3, Climbs
<1>5. Len(q) \in G
  BY <1>1, <1>4
<1> QED
  BY <1>5, Zenon DEF G

\* FlattenSeq is the last of these.
LEMMA FlattenIs ==
    ASSUME NEW S, NEW q \in Seq(Seq(S)), q # <<>>
    PROVE  \E f \in [1 .. Len(q) -> Seq(S)] : Joins(f, q, Len(q)) /\ FlattenSeq(q) = f[Len(q)]
<1>1. PICK f \in [1 .. Len(q) -> Seq(S)] : Joins(f, q, Len(q))
  BY JoinsExists
<1>2. Len(q) \in Nat \ {0}
  BY EmptySeq
<1> DEFINE Eq(h) == h = [i \in 1 .. Len(q) |-> IF i = 1 THEN q[i] ELSE h[i - 1] \o q[i]]
           g == CHOOSE h : Eq(h)
           F(i) == IF i = 1 THEN q[i] ELSE Cat(f[i - 1], q[i])
           G(i) == IF i = 1 THEN q[i] ELSE Cat(g[i - 1], q[i])
<1>3. Eq(f)
  <2>1. ASSUME NEW i \in 1 .. Len(q)
        PROVE  f[i] = F(i)
    BY <1>1, <1>2 DEF Joins
  <2> HIDE DEF F
  <2>2. f = [i \in 1 .. Len(q) |-> F(i)]
    BY <1>1, <2>1
  <2> QED
    BY <2>2, Zenon DEF F, Cat
<1>4. Eq(g)
  BY <1>3, Zenon
<1>5. FlattenSeq(q) = g[Len(q)]
  BY <1>2 DEF FlattenSeq
<1> HIDE DEF g
<1>6. Joins(g, q, Len(q))
  <2>1. g = [i \in 1 .. Len(q) |-> G(i)]
    BY <1>4, Zenon DEF Cat
  <2> HIDE DEF G
  <2>2. \A i \in 1 .. Len(q) : g[i] = G(i)
    BY <2>1, Zenon
  <2> QED
    BY <1>2, <2>2 DEF G, Joins
<1>7. f[Len(q)] = g[Len(q)]
  BY <1>1, <1>2, <1>6, JoinsUnique DEF Same
<1> QED
  BY <1>1, <1>5, <1>7, Zenon

\* An empty queue has no bytes.
LEMMA FlattenEmpty == FlattenSeq(<<>>) = <<>>
BY DEF FlattenSeq

\* The chunks of a queue make a sequence of bytes.
LEMMA FlattenType ==
    ASSUME NEW S, NEW q \in Seq(Seq(S))
    PROVE  FlattenSeq(q) \in Seq(S)
<1>1. CASE q = <<>>
  BY <1>1, FlattenEmpty, EmptySeq, Zenon
<1>2. CASE q # <<>>
  <2>1. PICK f \in [1 .. Len(q) -> Seq(S)] : FlattenSeq(q) = f[Len(q)]
    BY <1>2, FlattenIs, Zenon
  <2>2. Len(q) \in 1 .. Len(q)
    BY <1>2, EmptySeq
  <2> QED
    BY <2>1, <2>2
<1> QED
  BY <1>1, <1>2

\* A chunk that is queued last adds its bytes at the end.
LEMMA FlattenAppend ==
    ASSUME NEW S, NEW q \in Seq(Seq(S)), NEW s \in Seq(S)
    PROVE  FlattenSeq(Append(q, s)) = Cat(FlattenSeq(q), s)
<1>1. PICK n \in Nat, p \in Seq(Seq(S)) :
            /\ p = Append(q, s) /\ p # <<>> /\ n = Len(q) /\ Len(p) = n + 1
            /\ p[n + 1] = s /\ \A i \in 1 .. n : p[i] = q[i]
  <2>1. Len(q) \in Nat
    BY LenProperties, Zenon
  <2>2. /\ Append(q, s) \in Seq(Seq(S)) /\ Append(q, s) # <<>>
        /\ Len(Append(q, s)) = Len(q) + 1 /\ Append(q, s)[Len(q) + 1] = s
        /\ \A i \in 1 .. Len(q) : Append(q, s)[i] = q[i]
    BY AppendProperties
  <2> QED
    BY <2>1, <2>2, Zenon
<1>2. PICK g \in [1 .. Len(p) -> Seq(S)] : Joins(g, p, Len(p)) /\ FlattenSeq(p) = g[Len(p)]
  BY <1>1, FlattenIs, Zenon
<1>3. CASE q = <<>>
  <2>1. n = 0
    BY <1>1, <1>3
  <2>2. FlattenSeq(p) = s
    BY <1>1, <1>2, <2>1 DEF Joins
  <2>3. Cat(<<>>, s) = s
    BY CatFacts
  <2> QED
    BY <1>1, <1>3, <2>2, <2>3, FlattenEmpty, Zenon
<1>4. CASE q # <<>>
  <2>1. PICK f \in [1 .. Len(q) -> Seq(S)] : Joins(f, q, Len(q)) /\ FlattenSeq(q) = f[Len(q)]
    BY <1>4, FlattenIs, Zenon
  <2>2. n \in Nat \ {0}
    BY <1>1, <1>4, EmptySeq
  <2>3. Joins(g, p, n) /\ g[n + 1] = Cat(g[n], p[n + 1])
    <3>1. Joins(g, p, n + 1)
      BY <1>1, <1>2
    <3>2. n + 1 \in 2 .. n + 1 /\ (n + 1) - 1 = n /\ 2 .. n \subseteq 2 .. n + 1
      BY <2>2
    <3> QED
      BY <3>1, <3>2, Zenon DEF Joins
  <2>4. Joins(f, q, n) /\ FlattenSeq(q) = f[n]
    BY <1>1, <2>1
  <2>5. g[n] = f[n]
    <3>1. Same(p, q, n)
      BY <1>1 DEF Same
    <3>2. Joins(g, p, n) /\ Joins(f, q, n)
      BY <2>3, <2>4
    <3> QED
      BY <2>2, <3>1, <3>2, JoinsUnique, Zenon
  <2>6. FlattenSeq(p) = Cat(FlattenSeq(q), s)
    BY <1>1, <1>2, <2>3, <2>4, <2>5
  <2> QED
    BY <1>1, <2>6
<1> QED
  BY <1>3, <1>4

\* A single chunk is its bytes.
LEMMA FlattenOne ==
    ASSUME NEW S, NEW s \in Seq(S)
    PROVE  FlattenSeq(<<s>>) = s
<1>1. <<s>> = Append(<<>>, s) /\ <<>> \in Seq(Seq(S))
  BY EmptySeq
<1>2. FlattenSeq(Append(<<>>, s)) = Cat(FlattenSeq(<<>>), s)
  BY <1>1, FlattenAppend, Zenon
<1> QED
  BY <1>1, <1>2, CatFacts, FlattenEmpty

\* The bytes of two queues, one after the other.
LEMMA FlattenConcat ==
    ASSUME NEW S, NEW q \in Seq(Seq(S)), NEW r \in Seq(Seq(S))
    PROVE  FlattenSeq(Cat(q, r)) = Cat(FlattenSeq(q), FlattenSeq(r))
<1> DEFINE Pre(k) == SubSeq(r, 1, k)
           Holds(k) == FlattenSeq(Cat(q, Pre(k))) = Cat(FlattenSeq(q), FlattenSeq(Pre(k)))
           G == {k \in 0 .. Len(r) : Holds(k)}
<1>1. Len(r) \in Nat /\ Pre(Len(r)) = r /\ FlattenSeq(q) \in Seq(S)
  BY LenProperties, SubSeqFull, FlattenType
<1>2. 0 \in G
  <2>1. Pre(0) = <<>>
    BY SubSeqEmpty
  <2>2. Cat(q, <<>>) = q /\ Cat(FlattenSeq(q), <<>>) = FlattenSeq(q)
    BY <1>1, CatFacts
  <2> HIDE DEF Pre
  <2>3. Holds(0)
    BY <2>1, <2>2, FlattenEmpty, Zenon
  <2> HIDE DEF Holds
  <2> QED
    BY <1>1, <2>3
<1>3. ASSUME NEW k \in 0 + 1 .. Len(r), k - 1 \in G
      PROVE  k \in G
  <2>1. k \in 1 .. Len(r) /\ k \in 0 .. Len(r) /\ 1 \in 1 .. Len(r) /\ k - 1 \in Int
    BY <1>1
  <2>2. PICK s \in Seq(S) : s = r[k]
    BY <2>1, ElementOfSeq
  <2>3. PICK p \in Seq(Seq(S)) : p = Pre(k - 1)
    <3>1. \A i \in 1 .. k - 1 : r[i] \in Seq(S)
      BY <1>1, <2>1, LenProperties
    <3>2. SubSeq(r, 1, k - 1) \in Seq(Seq(S))
      BY <2>1, <3>1, SubSeqProperties
    <3> QED
      BY <3>2
  <2>4. Pre(k) = Cat(p, <<s>>)
    <3>1. SubSeq(r, 1, k) = SubSeq(r, 1, k - 1) \o <<r[k]>>
      BY <2>1, SubSeqRecursiveSecond
    <3> QED
      BY <2>2, <2>3, <3>1, Zenon DEF Cat
  <2>5. FlattenSeq(Cat(q, p)) = Cat(FlattenSeq(q), FlattenSeq(p))
    BY <1>3, <2>3, Zenon
  <2> HIDE DEF Pre
  <2>6. <<s>> \in Seq(Seq(S)) /\ Cat(q, p) \in Seq(Seq(S)) /\ FlattenSeq(p) \in Seq(S)
    <3>1. <<s>> \in Seq(Seq(S))
      OBVIOUS
    <3> QED
      BY <3>1, FlattenType, CatFacts, Zenon
  <2>7. Cat(q, Pre(k)) = Append(Cat(q, p), s)
    <3>1. Cat(Cat(q, p), <<s>>) = Cat(q, Cat(p, <<s>>))
      <4>1. \A u \in Seq(Seq(S)) : Cat(Cat(q, p), u) = Cat(q, Cat(p, u))
        BY Associates
      <4> QED
        BY <2>6, <4>1, Zenon
    <3>2. Append(Cat(q, p), s) = Cat(Cat(q, p), <<s>>)
      BY <2>6, AppendIsConcat, Zenon DEF Cat
    <3> QED
      BY <2>4, <3>1, <3>2, Zenon
  <2>8. FlattenSeq(Cat(q, Pre(k))) = Cat(FlattenSeq(Cat(q, p)), s)
    BY <2>6, <2>7, FlattenAppend, Zenon
  <2>9. FlattenSeq(Pre(k)) = Cat(FlattenSeq(p), s)
    BY <2>4, FlattenAppend, AppendIsConcat, Zenon DEF Cat
  <2>10. Cat(Cat(FlattenSeq(q), FlattenSeq(p)), s) = Cat(FlattenSeq(q), Cat(FlattenSeq(p), s))
    BY <1>1, <2>6, Associates
  <2>11. Holds(k)
    BY <2>5, <2>8, <2>9, <2>10, Zenon
  <2> HIDE DEF Holds
  <2> QED
    BY <2>1, <2>11
<1> HIDE DEF G
<1>4. \A k \in 0 .. Len(r) : k \in G
  BY <1>1, <1>2, <1>3, Climbs
<1>5. Len(r) \in G
  BY <1>1, <1>4
<1>6. Holds(Len(r))
  BY <1>5, Zenon DEF G
<1> QED
  BY <1>1, <1>6, Zenon

-----------------------------------------------------------------------------
(* takeBytes.                                                              *)

\* The first n bytes and those after them are all bytes.
LEMMA FirstAfter ==
    ASSUME NEW S, NEW s \in Seq(S), NEW n \in Nat
    PROVE  /\ First(n, s) \in Seq(S) /\ After(n, s) \in Seq(S)
           /\ Cat(First(n, s), After(n, s)) = s
           /\ Len(After(n, s)) = IF n <= Len(s) THEN Len(s) - n ELSE 0
           /\ \A i \in 1 .. Len(s) - n : After(n, s)[i] = s[n + i]
<1>1. Len(s) \in Nat /\ \A i \in 1 .. Len(s) : s[i] \in S
  BY LenProperties
<1> DEFINE m == IF n < Len(s) THEN n ELSE Len(s)
<1>2. m \in 0 .. Len(s)
  BY <1>1
<1>3. SubSeq(s, 1, m) \in Seq(S)
  <2>1. \A i \in 1 .. m : s[i] \in S
    BY <1>1, <1>2
  <2> HIDE DEF m
  <2> QED
    BY <1>2, <2>1, SubSeqProperties
<1>4. /\ SubSeq(s, n + 1, Len(s)) \in Seq(S)
      /\ Len(SubSeq(s, n + 1, Len(s))) = IF n + 1 <= Len(s) THEN Len(s) - (n + 1) + 1 ELSE 0
      /\ \A i \in 1 .. Len(s) - (n + 1) + 1 : SubSeq(s, n + 1, Len(s))[i] = s[(n + 1) + i - 1]
  <2>1. n + 1 \in Int /\ Len(s) \in Int /\ \A i \in n + 1 .. Len(s) : s[i] \in S
    BY <1>1
  <2> QED
    BY <2>1, SubSeqProperties
<1>5. Cat(SubSeq(s, 1, m), SubSeq(s, n + 1, Len(s))) = s
  <2>1. CASE n < Len(s)
    <3>1. SubSeq(s, 1, n) \o SubSeq(s, n + 1, Len(s)) = SubSeq(s, 1, Len(s))
      <4>1. 1 \in 1 .. Len(s) + 1 /\ n \in 1 - 1 .. Len(s) /\ Len(s) \in n .. Len(s)
        BY <1>1, <2>1
      <4> QED
        BY <4>1, ConcatAdjacentSubSeq
    <3>2. SubSeq(s, 1, Len(s)) = s
      BY SubSeqFull
    <3>3. m = n
      BY <2>1
    <3> HIDE DEF m
    <3> QED
      BY <3>1, <3>2, <3>3, Zenon DEF Cat
  <2>2. CASE ~(n < Len(s))
    <3>1. SubSeq(s, n + 1, Len(s)) = <<>>
      BY <1>1, <2>2, SubSeqEmpty
    <3>2. SubSeq(s, 1, Len(s)) = s
      BY SubSeqFull
    <3>3. m = Len(s)
      BY <2>2
    <3> HIDE DEF m
    <3> QED
      BY <3>1, <3>2, <3>3, CatFacts, Zenon
  <2> QED
    BY <2>1, <2>2
<1>6. First(n, s) = SubSeq(s, 1, m) /\ After(n, s) = SubSeq(s, n + 1, Len(s))
  BY DEF First, After
<1>7. Len(After(n, s)) = IF n <= Len(s) THEN Len(s) - n ELSE 0
  BY <1>1, <1>4, <1>6
<1>8. \A i \in 1 .. Len(s) - n : After(n, s)[i] = s[n + i]
  <2>1. ASSUME NEW i \in 1 .. Len(s) - n
        PROVE  SubSeq(s, n + 1, Len(s))[i] = s[n + i]
    <3>1. i \in 1 .. Len(s) - (n + 1) + 1 /\ (n + 1) + i - 1 = n + i
      BY <1>1
    <3> QED
      BY <1>4, <3>1
  <2> QED
    BY <1>6, <2>1
<1> HIDE DEF m
<1> QED
  BY <1>3, <1>4, <1>5, <1>6, <1>7, <1>8, Zenon

\* A cut in the middle of three pieces.
LEMMA AfterMiddle ==
    ASSUME NEW S, NEW pre \in Seq(S), NEW c \in Seq(S), NEW post \in Seq(S), NEW n \in Nat,
           Len(pre) <= n, n <= Len(pre) + Len(c)
    PROVE  After(n, Cat(Cat(pre, c), post)) = Cat(After(n - Len(pre), c), post)
<1>1. Len(pre) \in Nat /\ Len(c) \in Nat /\ Len(post) \in Nat
  BY LenProperties
<1>2. PICK d \in Nat : d = n - Len(pre)
  BY <1>1
<1>3. PICK u \in Seq(S) : /\ u = Cat(pre, c) /\ Len(u) = Len(pre) + Len(c)
                          /\ \A i \in 1 .. Len(pre) + Len(c) : u[i] = IF i <= Len(pre) THEN pre[i] ELSE c[i - Len(pre)]
  BY CatFacts
<1>4. PICK w \in Seq(S) : /\ w = Cat(u, post) /\ Len(w) = Len(u) + Len(post)
                          /\ \A i \in 1 .. Len(u) + Len(post) : w[i] = IF i <= Len(u) THEN u[i] ELSE post[i - Len(u)]
  BY CatFacts
<1>5. PICK x \in Seq(S) : /\ x = After(n, w) /\ Len(x) = IF n <= Len(w) THEN Len(w) - n ELSE 0
                          /\ \A i \in 1 .. Len(w) - n : x[i] = w[n + i]
  <2>1. /\ After(n, w) \in Seq(S) /\ Len(After(n, w)) = IF n <= Len(w) THEN Len(w) - n ELSE 0
        /\ \A i \in 1 .. Len(w) - n : After(n, w)[i] = w[n + i]
    BY FirstAfter
  <2> QED
    BY <2>1, Zenon
<1>6. PICK y \in Seq(S) : /\ y = After(d, c) /\ Len(y) = IF d <= Len(c) THEN Len(c) - d ELSE 0
                          /\ \A i \in 1 .. Len(c) - d : y[i] = c[d + i]
  <2>1. /\ After(d, c) \in Seq(S) /\ Len(After(d, c)) = IF d <= Len(c) THEN Len(c) - d ELSE 0
        /\ \A i \in 1 .. Len(c) - d : After(d, c)[i] = c[d + i]
    BY FirstAfter
  <2> QED
    BY <2>1, Zenon
<1>7. PICK z \in Seq(S) : /\ z = Cat(y, post) /\ Len(z) = Len(y) + Len(post)
                          /\ \A i \in 1 .. Len(y) + Len(post) : z[i] = IF i <= Len(y) THEN y[i] ELSE post[i - Len(y)]
  BY CatFacts
<1>8. Len(y) = Len(c) - d /\ Len(z) = Len(c) - d + Len(post) /\ Len(x) = Len(z) /\ Len(z) \in Nat
  <2>1. d <= Len(c) /\ Len(w) = Len(pre) + Len(c) + Len(post) /\ n <= Len(w)
    BY <1>1, <1>2, <1>3, <1>4
  <2>2. Len(y) = Len(c) - d /\ Len(x) = Len(w) - n
    BY <1>5, <1>6, <2>1, Zenon
  <2>3. Len(z) = Len(y) + Len(post)
    BY <1>7
  <2> QED
    BY <1>1, <1>2, <2>1, <2>2, <2>3
<1>9. ASSUME NEW i \in 1 .. Len(x)
      PROVE  x[i] = z[i]
  <2>1. i \in Nat /\ i > 0 /\ i <= Len(c) - d + Len(post) /\ i \in 1 .. Len(w) - n
    BY <1>1, <1>2, <1>3, <1>4, <1>8
  <2>2. x[i] = w[n + i] /\ z[i] = IF i <= Len(y) THEN y[i] ELSE post[i - Len(y)]
    BY <1>5, <1>7, <1>8, <2>1
  <2>3. CASE i <= Len(c) - d
    <3>1. w[n + i] = u[n + i] /\ u[n + i] = c[(n + i) - Len(pre)] /\ (n + i) - Len(pre) = d + i
      BY <1>1, <1>2, <1>3, <1>4, <2>1, <2>3
    <3>2. y[i] = c[d + i]
      BY <1>1, <1>6, <2>1, <2>3
    <3> QED
      BY <1>8, <2>2, <2>3, <3>1, <3>2
  <2>4. CASE ~(i <= Len(c) - d)
    <3>1. w[n + i] = post[(n + i) - Len(u)]
      BY <1>1, <1>2, <1>3, <1>4, <2>1, <2>4
    <3>2. (n + i) - Len(u) = i - Len(y)
      BY <1>1, <1>2, <1>3, <1>8, <2>1
    <3> QED
      BY <1>8, <2>2, <2>4, <3>1, <3>2
  <2> QED
    BY <2>3, <2>4
<1>10. x = z
  <2>1. Len(x) = Len(z) /\ \A i \in 1 .. Len(x) : x[i] = z[i]
    BY <1>8, <1>9
  <2> QED
    BY <2>1, SeqEqual, Zenon
<1> QED
  BY <1>2, <1>3, <1>4, <1>5, <1>6, <1>7, <1>10, Zenon

\* The queue is what comes before the cut, the chunk that is cut, and the rest.
LEMMA CutQueue ==
    ASSUME NEW S, NEW q \in Seq(Seq(S)), NEW k \in 1 .. Len(q)
    PROVE  /\ SubSeq(q, 1, k - 1) \in Seq(Seq(S)) /\ q[k] \in Seq(S) /\ After(k, q) \in Seq(Seq(S))
           /\ FlattenSeq(SubSeq(q, 1, k)) = Cat(FlattenSeq(SubSeq(q, 1, k - 1)), q[k])
           /\ FlattenSeq(q) = Cat(FlattenSeq(SubSeq(q, 1, k)), FlattenSeq(After(k, q)))
<1>1. Len(q) \in Nat /\ k \in Nat /\ k - 1 \in Int /\ \A i \in 1 .. Len(q) : q[i] \in Seq(S)
  BY LenProperties
<1>2. PICK p \in Seq(Seq(S)) : p = SubSeq(q, 1, k - 1)
  <2>1. \A i \in 1 .. k - 1 : q[i] \in Seq(S)
    BY <1>1
  <2>2. SubSeq(q, 1, k - 1) \in Seq(Seq(S))
    BY <1>1, <2>1, SubSeqProperties
  <2> QED
    BY <2>2, Zenon
<1>3. PICK c \in Seq(S) : c = q[k]
  BY <1>1
<1>4. PICK r \in Seq(Seq(S)) : r = After(k, q)
  BY <1>1, FirstAfter, Zenon
<1>5. PICK u \in Seq(Seq(S)) : u = SubSeq(q, 1, k)
  <2>1. \A i \in 1 .. k : q[i] \in Seq(S)
    BY <1>1
  <2>2. SubSeq(q, 1, k) \in Seq(Seq(S))
    BY <1>1, <2>1, SubSeqProperties
  <2> QED
    BY <2>2, Zenon
<1>6. u = Append(p, c)
  <2>1. 1 \in 1 .. Len(q) /\ k \in 1 .. Len(q)
    BY <1>1
  <2>2. SubSeq(q, 1, k) = SubSeq(q, 1, k - 1) \o <<q[k]>>
    BY <2>1, SubSeqRecursiveSecond
  <2>3. Append(p, c) = p \o <<c>>
    BY AppendIsConcat, Zenon
  <2> QED
    BY <1>2, <1>3, <1>5, <2>2, <2>3, Zenon
<1>7. q = Cat(u, r)
  <2>1. SubSeq(q, 1, k) = First(k, q)
    <3>1. (IF k < Len(q) THEN k ELSE Len(q)) = k
      BY <1>1
    <3> QED
      BY <3>1, Zenon DEF First
  <2> QED
    BY <1>1, <1>4, <1>5, <2>1, FirstAfter, Zenon
<1> QED
  <2>1. FlattenSeq(u) = Cat(FlattenSeq(p), c)
    BY <1>6, FlattenAppend, Zenon
  <2>2. FlattenSeq(q) = Cat(FlattenSeq(u), FlattenSeq(r))
    BY <1>7, FlattenConcat, Zenon
  <2> QED
    BY <1>2, <1>3, <1>4, <1>5, <2>1, <2>2, Zenon

\* takeBytes finds a chunk to cut, and loses nothing: what it hands over and
\* what it leaves in the queue are the bytes of the queue, in order.
LEMMA TakeKeeps ==
    ASSUME NEW S, NEW q \in Seq(Seq(S)), q # <<>>, NEW n \in Nat \ {0}
    PROVE  /\ takeBytes(q, n).out \in Seq(S) /\ takeBytes(q, n).queue \in Seq(Seq(S))
           /\ FlattenSeq(q) = Cat(takeBytes(q, n).out, FlattenSeq(takeBytes(q, n).queue))
<1> DEFINE Upto(k) == Len(FlattenSeq(SubSeq(q, 1, k)))
           Cut(k) == Upto(k - 1) < n /\ (k = Len(q) \/ Upto(k) >= n)
           cut == CHOOSE k \in 1 .. Len(q) : Cut(k)
           rest == After(n - Upto(cut - 1), q[cut])
<1>1. Len(q) \in Nat \ {0}
  BY EmptySeq
<1>2. Upto(0) = 0 /\ \A k \in 0 .. Len(q) : Upto(k) \in Nat
  <2>1. SubSeq(q, 1, 0) = <<>>
    BY SubSeqEmpty
  <2>2. ASSUME NEW k \in 0 .. Len(q)
        PROVE  Len(FlattenSeq(SubSeq(q, 1, k))) \in Nat
    <3>1. \A i \in 1 .. k : q[i] \in Seq(S)
      BY <1>1, LenProperties
    <3>2. SubSeq(q, 1, k) \in Seq(Seq(S))
      BY <1>1, <3>1, SubSeqProperties
    <3> QED
      BY <3>2, FlattenType, LenProperties, Zenon
  <2>3. Len(FlattenSeq(SubSeq(q, 1, 0))) = 0
    BY <2>1, FlattenEmpty, EmptySeq, Zenon
  <2> QED
    BY <2>2, <2>3, Zenon
<1> HIDE DEF Upto
<1>3. \E k \in 1 .. Len(q) : Cut(k)
  <2> DEFINE T == {k \in 1 .. Len(q) : k = Len(q) \/ Upto(k) >= n}
  <2>1. PICK a \in T : \A b \in T : a <= b
    <3>1. T \subseteq Nat /\ T # {}
      BY <1>1
    <3> HIDE DEF T
    <3> QED
      BY <3>1, SmallestExists
  <2>2. CASE a = 1
    <3>1. Upto(a - 1) < n
      BY <1>2, <2>2
    <3> QED
      BY <2>1, <3>1
  <2>3. CASE a # 1
    <3>1. a - 1 \in 1 .. Len(q) /\ a - 1 \in 0 .. Len(q) /\ a - 1 \notin T
      BY <1>1, <2>1, <2>3
    <3>2. Upto(a - 1) < n
      BY <1>2, <3>1, SMTT(60)
    <3> QED
      BY <2>1, <3>2
  <2> QED
    BY <2>2, <2>3
<1>4. cut \in 1 .. Len(q) /\ Cut(cut)
  <2> HIDE DEF Cut
  <2> QED
    BY <1>3, Zenon
<1>5. takeBytes(q, n) = [out   |-> First(n, FlattenSeq(q)),
                         queue |-> Cat(IF rest = <<>> THEN <<>> ELSE <<rest>>, After(cut, q))]
  BY Zenon DEF takeBytes, Upto, Cat
<1> HIDE DEF cut
<1>6. PICK pre \in Seq(S), c \in Seq(S), r \in Seq(Seq(S)), post \in Seq(S) :
         /\ pre = FlattenSeq(SubSeq(q, 1, cut - 1)) /\ c = q[cut] /\ r = After(cut, q) /\ post = FlattenSeq(r)
         /\ FlattenSeq(SubSeq(q, 1, cut)) = Cat(pre, c)
         /\ FlattenSeq(q) = Cat(Cat(pre, c), post)
  <2>1. /\ SubSeq(q, 1, cut - 1) \in Seq(Seq(S)) /\ q[cut] \in Seq(S) /\ After(cut, q) \in Seq(Seq(S))
        /\ FlattenSeq(SubSeq(q, 1, cut)) = Cat(FlattenSeq(SubSeq(q, 1, cut - 1)), q[cut])
        /\ FlattenSeq(q) = Cat(FlattenSeq(SubSeq(q, 1, cut)), FlattenSeq(After(cut, q)))
    BY <1>4, CutQueue, Zenon
  <2>2. FlattenSeq(SubSeq(q, 1, cut - 1)) \in Seq(S) /\ FlattenSeq(After(cut, q)) \in Seq(S)
    BY <2>1, FlattenType, Zenon
  <2> QED
    BY <2>1, <2>2, Zenon
<1>7. PICK all \in Seq(S) : all = FlattenSeq(q)
  BY FlattenType, Zenon
<1>8. Len(pre) \in Nat /\ Len(c) \in Nat /\ Len(pre) < n /\ (cut = Len(q) \/ Len(pre) + Len(c) >= n)
  <2>1. Upto(cut - 1) = Len(pre) /\ Upto(cut) = Len(pre) + Len(c)
    <3>1. Len(Cat(pre, c)) = Len(pre) + Len(c)
      BY CatFacts
    <3> QED
      BY <1>6, <3>1, Zenon DEF Upto
  <2>2. Len(pre) \in Nat /\ Len(c) \in Nat
    BY LenProperties
  <2> QED
    BY <1>4, <2>1, <2>2
<1>9. PICK d \in Nat : d = n - Len(pre)
  <2>1. n - Len(pre) \in Nat
    BY <1>8
  <2> QED
    BY <2>1, Zenon
<1>10. rest = After(d, c) /\ After(d, c) \in Seq(S)
  <2>1. After(d, c) \in Seq(S)
    BY FirstAfter, Zenon
  <2> QED
    BY <1>6, <1>9, <2>1, Zenon DEF Upto
<1> HIDE DEF rest
<1>11. PICK front \in Seq(Seq(S)) : /\ front = (IF rest = <<>> THEN <<>> ELSE <<rest>>)
                                    /\ FlattenSeq(front) = rest
  <2>1. CASE rest = <<>>
    BY <2>1, FlattenEmpty, EmptySeq, Zenon
  <2>2. CASE rest # <<>>
    <3>1. <<rest>> \in Seq(Seq(S))
      BY <1>10
    <3>2. FlattenSeq(<<rest>>) = rest
      BY <1>10, FlattenOne, Zenon
    <3> QED
      BY <2>2, <3>1, <3>2, Zenon
  <2> QED
    BY <2>1, <2>2, Zenon
<1>12. After(n, all) = Cat(rest, post)
  <2>1. CASE n <= Len(pre) + Len(c)
    <3>1. After(n, Cat(Cat(pre, c), post)) = Cat(After(n - Len(pre), c), post)
      BY <1>8, <2>1, AfterMiddle
    <3> QED
      BY <1>6, <1>7, <1>9, <1>10, <3>1, Zenon
  <2>2. CASE ~(n <= Len(pre) + Len(c))
    <3>1. cut = Len(q) /\ d > Len(c) /\ n > Len(pre) + Len(c)
      BY <1>8, <1>9, <2>2
    <3>2. r = <<>>
      <4>1. SubSeq(q, Len(q) + 1, Len(q)) = <<>>
        BY <1>1, SubSeqEmpty
      <4> QED
        BY <1>6, <3>1, <4>1, Zenon DEF After
    <3>3. post = <<>>
      BY <1>6, <3>2, FlattenEmpty, Zenon
    <3>4. rest = <<>>
      <4>1. SubSeq(c, d + 1, Len(c)) = <<>>
        BY <1>8, <3>1, SubSeqEmpty
      <4> QED
        BY <1>10, <4>1, Zenon DEF After
    <3>5. Len(all) = Len(pre) + Len(c)
      <4>1. all = Cat(pre, c)
        <5>1. Cat(pre, c) \in Seq(S)
          BY CatFacts
        <5>2. Cat(Cat(pre, c), <<>>) = Cat(pre, c)
          BY <5>1, CatFacts, Zenon
        <5> QED
          BY <1>6, <1>7, <3>3, <5>2, Zenon
      <4> QED
        BY <4>1, CatFacts
    <3>6. After(n, all) = <<>>
      <4>1. SubSeq(all, n + 1, Len(all)) = <<>>
        BY <1>8, <3>1, <3>5, SubSeqEmpty
      <4> QED
        BY <4>1, Zenon DEF After
    <3>7. Cat(<<>>, <<>>) = <<>>
      BY CatFacts, EmptySeq
    <3> QED
      BY <3>3, <3>4, <3>6, <3>7, Zenon
  <2> QED
    BY <2>1, <2>2
<1>13. PICK left \in Seq(Seq(S)) : left = Cat(front, r) /\ FlattenSeq(left) = Cat(rest, post)
  <2>1. Cat(front, r) \in Seq(Seq(S))
    BY CatFacts
  <2>2. FlattenSeq(Cat(front, r)) = Cat(FlattenSeq(front), FlattenSeq(r))
    BY FlattenConcat, Zenon
  <2> QED
    BY <1>6, <1>11, <2>1, <2>2, Zenon
<1>14. takeBytes(q, n) = [out |-> First(n, all), queue |-> left]
  BY <1>5, <1>6, <1>7, <1>11, <1>13, Zenon
<1>15. First(n, all) \in Seq(S) /\ Cat(First(n, all), After(n, all)) = all
  BY FirstAfter
<1>16. takeBytes(q, n).out = First(n, all) /\ takeBytes(q, n).queue = left
  BY <1>14
<1> QED
  BY <1>7, <1>12, <1>13, <1>15, <1>16, Zenon

-----------------------------------------------------------------------------
(* The stream socket: nobody waits beside the data, no byte is lost.       *)

\* The parts of the state and what they are made of.
SockTyped ==
    /\ net \in {"fetch", "tcp"} /\ call \in {"none", "connect", "recv", "send"}
    /\ arrived \in Nat /\ sent \in Nat /\ got \in Seq(Nat) /\ out \in Seq(Int)
    /\ sock = [peer |-> sock.peer, host |-> sock.host, conn |-> sock.conn, closed |-> sock.closed,
               recvQueue |-> sock.recvQueue, waiter |-> sock.waiter, httpBuffer |-> sock.httpBuffer]
    /\ sock.conn \in BOOLEAN /\ sock.closed \in BOOLEAN
    /\ sock.recvQueue \in Seq(Seq(Nat)) /\ sock.httpBuffer \in Seq(Int)
    /\ ws \in [state : {"none", "open", "closing", "closed"},
               queue : Seq(Seq(Nat)), closed : BOOLEAN, waiter : Nat]

\* The socket, its connection and the suspended call agree; a socket has data
\* in one of its two queues only.
SockLinks ==
    /\ call = "connect" => net = "tcp"
    /\ sock.conn => net = "tcp" /\ ws.state \in {"open", "closing", "closed"}
    /\ ~sock.conn => ws.queue = <<>> /\ ws.waiter = 0 /\ ws.state = "none"
    /\ ws.waiter > 0 => call = "recv"
    /\ net = "tcp" => sock.recvQueue = <<>> /\ call # "send"
    /\ ReceiverNotForgotten

\* A call of recv takes from one queue, or waits.
LEMMA RecvParts ==
    ASSUME SockTyped, NEW n \in 1 .. MaxRecv, recv(n)
    PROVE  /\ Idle /\ n \in Nat \ {0}
           /\ UNCHANGED <<net, arrived, sent, out>>
           /\ \/ \E o \in Seq(Nat), q \in Seq(Seq(Nat)) :
                    /\ got' = Cat(got, o) /\ sock' = [sock EXCEPT !.recvQueue = q]
                    /\ sock.recvQueue # <<>> /\ FlattenSeq(sock.recvQueue) = Cat(o, FlattenSeq(q))
                    /\ UNCHANGED <<ws, call>>
              \/ \E o \in Seq(Nat), q \in Seq(Seq(Nat)) :
                    /\ got' = Cat(got, o) /\ ws' = [ws EXCEPT !.queue = q]
                    /\ sock.conn /\ FlattenSeq(ws.queue) = Cat(o, FlattenSeq(q))
                    /\ UNCHANGED <<sock, call>>
              \/ /\ sock.recvQueue = <<>> /\ sock.conn /\ ws.queue = <<>> /\ ~ws.closed
                 /\ ws' = [ws EXCEPT !.waiter = n] /\ call' = "recv" /\ UNCHANGED <<sock, got>>
              \/ /\ sock.recvQueue = <<>> /\ ~sock.conn /\ ~sock.closed
                 /\ sock' = [sock EXCEPT !.waiter = n] /\ call' = "recv" /\ UNCHANGED <<ws, got>>
<1>1. n \in Nat \ {0}
  BY BoundAssumption
<1>2. Idle /\ UNCHANGED <<net, arrived, sent, out>>
  BY DEF recv
<1>3. sock.recvQueue \in Seq(Seq(Nat)) /\ ws.queue \in Seq(Seq(Nat))
  BY DEF SockTyped
<1>4. CASE /\ sock.recvQueue # <<>>
           /\ got' = got \o takeBytes(sock.recvQueue, n).out
           /\ sock' = [sock EXCEPT !.recvQueue = takeBytes(sock.recvQueue, n).queue]
           /\ UNCHANGED <<ws, call>>
  <2>1. /\ takeBytes(sock.recvQueue, n).out \in Seq(Nat) /\ takeBytes(sock.recvQueue, n).queue \in Seq(Seq(Nat))
        /\ FlattenSeq(sock.recvQueue)
             = Cat(takeBytes(sock.recvQueue, n).out, FlattenSeq(takeBytes(sock.recvQueue, n).queue))
    BY <1>1, <1>3, <1>4, TakeKeeps, Zenon
  <2> QED
    BY <1>1, <1>2, <1>4, <2>1, Zenon DEF Cat
<1>5. CASE /\ sock.recvQueue = <<>> /\ sock.conn /\ ws.queue # <<>>
           /\ got' = got \o takeBytes(ws.queue, n).out
           /\ ws' = [ws EXCEPT !.queue = takeBytes(ws.queue, n).queue]
           /\ UNCHANGED <<sock, call>>
  <2>1. /\ takeBytes(ws.queue, n).out \in Seq(Nat) /\ takeBytes(ws.queue, n).queue \in Seq(Seq(Nat))
        /\ FlattenSeq(ws.queue) = Cat(takeBytes(ws.queue, n).out, FlattenSeq(takeBytes(ws.queue, n).queue))
    BY <1>1, <1>3, <1>5, TakeKeeps, Zenon
  <2> QED
    BY <1>1, <1>2, <1>5, <2>1, Zenon DEF Cat
<1>6. CASE /\ sock.recvQueue = <<>> /\ sock.conn /\ ws.queue = <<>> /\ ~ws.closed
           /\ ws' = [ws EXCEPT !.waiter = n] /\ call' = "recv" /\ UNCHANGED <<sock, got>>
  BY <1>1, <1>2, <1>6, Zenon
<1>7. CASE /\ sock.recvQueue = <<>> /\ ~sock.conn /\ ~sock.closed
           /\ sock' = [sock EXCEPT !.waiter = n] /\ call' = "recv" /\ UNCHANGED <<ws, got>>
  BY <1>1, <1>2, <1>7, Zenon
<1> QED
  BY <1>4, <1>5, <1>6, <1>7, Zenon DEF recv

\* The bytes 1 .. n, and those that come after them.
Counting(n) == [i \in 1 .. n |-> i]

\* Bytes that arrive are numbered on.
LEMMA CountingOn ==
    ASSUME arrived \in Nat, NEW n \in Nat
    PROVE  /\ NewBytes(n) \in Seq(Nat) /\ Len(NewBytes(n)) = n
           /\ Counting(arrived + n) = Cat(Counting(arrived), NewBytes(n))
<1>1. PICK b \in Seq(Nat) : b = NewBytes(n) /\ Len(b) = n /\ \A i \in 1 .. n : b[i] = arrived + i
  <2> DEFINE b == [i \in 1 .. n |-> arrived + i]
  <2>1. b \in Seq(Nat) /\ Len(b) = n /\ \A i \in 1 .. n : b[i] = arrived + i
    OBVIOUS
  <2>2. b = NewBytes(n)
    BY DEF NewBytes
  <2> HIDE DEF b
  <2> QED
    BY <2>1, <2>2, Zenon
<1>2. \A m \in Nat : Counting(m) \in Seq(Nat) /\ Len(Counting(m)) = m /\ \A i \in 1 .. m : Counting(m)[i] = i
  BY DEF Counting
<1>3. PICK c \in Seq(Nat) : /\ c = Cat(Counting(arrived), b) /\ Len(c) = arrived + n
                            /\ \A i \in 1 .. arrived + n : c[i] = IF i <= arrived THEN i ELSE b[i - arrived]
  <2>1. PICK a \in Seq(Nat) : a = Counting(arrived) /\ Len(a) = arrived /\ \A i \in 1 .. arrived : a[i] = i
    BY <1>2, Zenon
  <2>2. PICK c \in Seq(Nat) : /\ c = Cat(a, b) /\ Len(c) = Len(a) + Len(b)
                              /\ \A i \in 1 .. Len(a) + Len(b) : c[i] = IF i <= Len(a) THEN a[i] ELSE b[i - Len(a)]
    BY CatFacts
  <2>3. Len(c) = arrived + n /\ \A i \in 1 .. arrived + n : c[i] = IF i <= arrived THEN i ELSE b[i - arrived]
    BY <1>1, <2>1, <2>2
  <2> QED
    BY <2>1, <2>2, <2>3, Zenon
<1>4. PICK d \in Seq(Nat) : /\ d = Counting(arrived + n) /\ Len(d) = arrived + n
                            /\ \A i \in 1 .. arrived + n : d[i] = i
  <2>1. arrived + n \in Nat
    OBVIOUS
  <2> QED
    BY <1>2, <2>1, Zenon
<1>5. \A i \in 1 .. arrived + n : c[i] = d[i]
  BY <1>1, <1>3, <1>4
<1>6. c = d
  <2>1. Len(c) = Len(d) /\ \A i \in 1 .. Len(c) : c[i] = d[i]
    BY <1>3, <1>4, <1>5
  <2> QED
    BY <2>1, SeqEqual, Zenon
<1> QED
  BY <1>1, <1>3, <1>4, <1>6, Zenon

\* What a message does: its first bytes go to the receiver and the rest to the
\* queue, or all to the queue.
LEMMA MessageParts ==
    ASSUME SockTyped, SockLinks, NEW n \in 1 .. MaxRecv, onmessage(n)
    PROVE  /\ n \in Nat /\ sock.conn /\ arrived' = arrived + n
           /\ UNCHANGED <<net, sock, sent, out>>
           /\ \/ \E q \in Seq(Seq(Nat)), o \in Seq(Nat) :
                    /\ ws.queue = <<>> /\ call' = "none"
                    /\ got' = Cat(got, o) /\ ws' = [ws EXCEPT !.waiter = 0, !.queue = q]
                    /\ NewBytes(n) = Cat(o, FlattenSeq(q))
              \/ \E q \in Seq(Seq(Nat)) :
                    /\ ws.waiter = 0 /\ ws' = [ws EXCEPT !.queue = q]
                    /\ FlattenSeq(q) = Cat(FlattenSeq(ws.queue), NewBytes(n))
                    /\ UNCHANGED <<got, call>>
<1>1. n \in Nat /\ arrived' = arrived + n /\ UNCHANGED <<net, sock, sent, out>>
  BY BoundAssumption DEF onmessage
<1>2. sock.conn
  BY DEF onmessage, SockLinks, SockTyped
<1>3. PICK b \in Seq(Nat) : b = NewBytes(n) /\ Len(b) = n
  BY <1>1, CountingOn, Zenon DEF SockTyped
<1>4. ws.waiter \in Nat /\ ws.queue \in Seq(Seq(Nat))
  BY DEF SockTyped
<1>5. CASE ws.waiter > 0
  <2>1. ws.queue = <<>>
    BY <1>2, <1>5 DEF SockLinks, ReceiverNotForgotten
  <2>2. PICK rest \in Seq(Nat) : /\ rest = After(ws.waiter, b)
                                 /\ Cat(First(ws.waiter, b), rest) = b
                                 /\ First(ws.waiter, b) \in Seq(Nat)
                                 /\ Len(rest) = IF ws.waiter <= Len(b) THEN Len(b) - ws.waiter ELSE 0
    <3>1. /\ First(ws.waiter, b) \in Seq(Nat) /\ After(ws.waiter, b) \in Seq(Nat)
          /\ Cat(First(ws.waiter, b), After(ws.waiter, b)) = b
          /\ Len(After(ws.waiter, b)) = IF ws.waiter <= Len(b) THEN Len(b) - ws.waiter ELSE 0
      BY <1>4, FirstAfter, Zenon
    <3> QED
      BY <3>1, Zenon
  <2>3. /\ call' = "none" /\ got' = got \o First(ws.waiter, b)
        /\ ws' = [ws EXCEPT !.waiter = 0, !.queue = IF n > ws.waiter THEN <<rest>> \o @ ELSE @]
    BY <1>3, <1>5, <2>2 DEF onmessage
  <2>4. PICK q \in Seq(Seq(Nat)) : /\ q = (IF n > ws.waiter THEN <<rest>> \o <<>> ELSE <<>>)
                                   /\ FlattenSeq(q) = rest
    <3>1. CASE n > ws.waiter
      <4>1. <<rest>> \in Seq(Seq(Nat)) /\ <<rest>> \o <<>> = <<rest>>
        OBVIOUS
      <4>2. FlattenSeq(<<rest>>) = rest
        BY FlattenOne, Zenon
      <4> QED
        BY <3>1, <4>1, <4>2, Zenon
    <3>2. CASE ~(n > ws.waiter)
      <4>1. Len(rest) = 0
        BY <1>1, <1>3, <1>4, <2>2, <3>2
      <4>2. rest = <<>>
        BY <4>1, EmptySeq
      <4> QED
        BY <3>2, <4>2, FlattenEmpty, EmptySeq, Zenon
    <3> QED
      BY <3>1, <3>2, Zenon
  <2>5. ws' = [ws EXCEPT !.waiter = 0, !.queue = q]
    BY <2>1, <2>3, <2>4, Zenon
  <2> QED
    BY <1>1, <1>2, <1>3, <2>1, <2>2, <2>3, <2>4, <2>5, Zenon DEF Cat
<1>6. CASE ~(ws.waiter > 0)
  <2>1. ws.waiter = 0
    BY <1>4, <1>6
  <2>2. ws' = [ws EXCEPT !.queue = Append(@, b)] /\ UNCHANGED <<got, call>>
    BY <1>3, <1>6 DEF onmessage
  <2>3. Append(ws.queue, b) \in Seq(Seq(Nat))
    BY <1>4
  <2>4. FlattenSeq(Append(ws.queue, b)) = Cat(FlattenSeq(ws.queue), b)
    BY <1>4, FlattenAppend, Zenon
  <2>5. ws' = [ws EXCEPT !.queue = Append(ws.queue, b)]
    BY <2>2, Zenon
  <2> QED
    BY <1>1, <1>2, <1>3, <2>1, <2>2, <2>3, <2>4, <2>5, Zenon
<1> QED
  BY <1>5, <1>6

\* What was given to the guest and what is queued for it are all bytes that
\* arrived, in order.
BytesKept == Cat(Cat(got, FlattenSeq(sock.recvQueue)), FlattenSeq(ws.queue)) = Counting(arrived)

SockInv == SockTyped /\ SockLinks /\ BytesKept

\* A step that leaves the queues alone keeps all bytes.
LEMMA QuietKeepsBytes ==
    ASSUME BytesKept, UNCHANGED <<got, arrived>>, sock'.recvQueue = sock.recvQueue, ws'.queue = ws.queue
    PROVE  BytesKept'
BY Zenon DEF BytesKept

\* A new connection has nothing.
LEMMA NothingKept ==
    ASSUME got' = <<>>, arrived' = 0, sock'.recvQueue = <<>>, ws'.queue = <<>>
    PROVE  BytesKept'
<1>1. Cat(<<>>, <<>>) = <<>>
  BY CatFacts, EmptySeq
<1>2. Counting(0) = <<>>
  BY DEF Counting
<1> QED
  BY <1>1, <1>2, FlattenEmpty, Zenon DEF BytesKept

\* A new socket has nothing.
LEMMA SockInitInv ==
    ASSUME SockInit
    PROVE  SockInv
<1>1. SockTyped
  BY DEF SockInit, SockTyped
<1>2. SockLinks
  BY DEF SockInit, SockLinks, ReceiverNotForgotten
<1>3. BytesKept
  <2>1. got = <<>> /\ sock.recvQueue = <<>> /\ ws.queue = <<>> /\ arrived = 0
    BY DEF SockInit
  <2>2. Cat(<<>>, <<>>) = <<>>
    BY CatFacts, EmptySeq
  <2>3. Counting(0) = <<>>
    BY DEF Counting
  <2> QED
    BY <2>1, <2>2, <2>3, FlattenEmpty, Zenon DEF BytesKept
<1> QED
  BY <1>1, <1>2, <1>3 DEF SockInv

\* Concatenation, for bytes.
LEMMA CatBytes ==
    ASSUME NEW g \in Seq(Nat), NEW r \in Seq(Nat)
    PROVE  Cat(g, r) \in Seq(Nat) /\ Cat(g, <<>>) = g /\ Cat(<<>>, g) = g
BY CatFacts

\* recv.
LEMMA RecvKeepsInv ==
    ASSUME SockInv, NEW n \in 1 .. MaxRecv, recv(n)
    PROVE  SockInv'
<1>1. /\ Idle /\ n \in Nat \ {0} /\ UNCHANGED <<net, arrived, sent, out>>
      /\ SockTyped /\ SockLinks /\ BytesKept
  BY RecvParts DEF SockInv
<1>2. PICK r \in Seq(Nat), w \in Seq(Nat) : r = FlattenSeq(sock.recvQueue) /\ w = FlattenSeq(ws.queue)
  BY <1>1, FlattenType, Zenon DEF SockTyped
<1>3. Cat(Cat(got, r), w) = Counting(arrived) /\ got \in Seq(Nat)
  BY <1>1, <1>2, Zenon DEF BytesKept, SockTyped
<1>4. CASE \E o \in Seq(Nat), q \in Seq(Seq(Nat)) :
              /\ got' = Cat(got, o) /\ sock' = [sock EXCEPT !.recvQueue = q]
              /\ sock.recvQueue # <<>> /\ FlattenSeq(sock.recvQueue) = Cat(o, FlattenSeq(q))
              /\ UNCHANGED <<ws, call>>
  <2>1. PICK o \in Seq(Nat), q \in Seq(Seq(Nat)) :
              /\ got' = Cat(got, o) /\ sock' = [sock EXCEPT !.recvQueue = q]
              /\ sock.recvQueue # <<>> /\ FlattenSeq(sock.recvQueue) = Cat(o, FlattenSeq(q))
              /\ UNCHANGED <<ws, call>>
    BY <1>4, Zenon
  <2>2. PICK x \in Seq(Nat) : x = FlattenSeq(q)
    BY FlattenType, Zenon
  <2>3. SockTyped'
    <3>1. got' \in Seq(Nat)
      BY <1>3, <2>1, CatBytes, Zenon
    <3> QED
      BY <1>1, <2>1, <3>1 DEF SockTyped
  <2>4. SockLinks'
    BY <1>1, <2>1 DEF SockTyped, SockLinks, ReceiverNotForgotten, Idle
  <2>5. sock'.recvQueue = q
    BY <1>1, <2>1 DEF SockTyped
  <2>6. Cat(Cat(got, o), x) = Cat(got, r)
    <3>1. Cat(Cat(got, o), x) = Cat(got, Cat(o, x))
      BY <1>3, Associates
    <3> QED
      BY <1>2, <2>1, <2>2, <3>1, Zenon
  <2>7. Cat(Cat(got', x), w) = Counting(arrived)
    BY <1>3, <2>1, <2>6, Zenon
  <2>8. BytesKept'
    BY <1>1, <1>2, <2>1, <2>2, <2>5, <2>7, Zenon DEF BytesKept
  <2> QED
    BY <2>3, <2>4, <2>8 DEF SockInv
<1>5. CASE \E o \in Seq(Nat), q \in Seq(Seq(Nat)) :
              /\ got' = Cat(got, o) /\ ws' = [ws EXCEPT !.queue = q]
              /\ sock.conn /\ FlattenSeq(ws.queue) = Cat(o, FlattenSeq(q))
              /\ UNCHANGED <<sock, call>>
  <2>1. PICK o \in Seq(Nat), q \in Seq(Seq(Nat)) :
              /\ got' = Cat(got, o) /\ ws' = [ws EXCEPT !.queue = q]
              /\ sock.conn /\ FlattenSeq(ws.queue) = Cat(o, FlattenSeq(q))
              /\ UNCHANGED <<sock, call>>
    BY <1>5, Zenon
  <2>2. PICK x \in Seq(Nat) : x = FlattenSeq(q)
    BY FlattenType, Zenon
  <2>3. SockTyped'
    <3>1. got' \in Seq(Nat)
      BY <1>3, <2>1, CatBytes, Zenon
    <3> QED
      BY <1>1, <2>1, <3>1 DEF SockTyped
  <2>4. SockLinks'
    BY <1>1, <2>1 DEF SockTyped, SockLinks, ReceiverNotForgotten, Idle
  <2>5. ws'.queue = q
    BY <1>1, <2>1 DEF SockTyped
  <2>6. r = <<>>
    <3>1. sock.recvQueue = <<>>
      BY <1>1, <2>1 DEF SockLinks
    <3> QED
      BY <1>2, <3>1, FlattenEmpty, Zenon
  <2>7. Cat(got, r) = got /\ Cat(got', r) = Cat(got, o)
    <3>1. Cat(got, o) \in Seq(Nat)
      BY <1>3, CatBytes, Zenon
    <3> QED
      BY <1>3, <2>1, <2>6, <3>1, CatBytes, Zenon
  <2>8. Cat(Cat(got, o), x) = Cat(got, w)
    <3>1. Cat(Cat(got, o), x) = Cat(got, Cat(o, x))
      BY <1>3, Associates
    <3> QED
      BY <1>2, <2>1, <2>2, <3>1, Zenon
  <2>9. Cat(Cat(got', r), x) = Counting(arrived)
    BY <1>3, <2>7, <2>8, Zenon
  <2>10. BytesKept'
    BY <1>1, <1>2, <2>1, <2>2, <2>5, <2>9, Zenon DEF BytesKept
  <2> QED
    BY <2>3, <2>4, <2>10 DEF SockInv
<1>6. CASE \/ /\ sock.recvQueue = <<>> /\ sock.conn /\ ws.queue = <<>> /\ ~ws.closed
              /\ ws' = [ws EXCEPT !.waiter = n] /\ call' = "recv" /\ UNCHANGED <<sock, got>>
           \/ /\ sock.recvQueue = <<>> /\ ~sock.conn /\ ~sock.closed
              /\ sock' = [sock EXCEPT !.waiter = n] /\ call' = "recv" /\ UNCHANGED <<ws, got>>
  <2>1. SockTyped'
    BY <1>1, <1>6 DEF SockTyped
  <2>3. SockLinks'
    <3>1. CASE /\ sock.recvQueue = <<>> /\ sock.conn /\ ws.queue = <<>> /\ ~ws.closed
               /\ ws' = [ws EXCEPT !.waiter = n] /\ call' = "recv" /\ UNCHANGED <<sock, got>>
      BY <1>1, <1>6, <3>1 DEF SockTyped, SockLinks, ReceiverNotForgotten, Idle
    <3>2. CASE /\ sock.recvQueue = <<>> /\ ~sock.conn /\ ~sock.closed
               /\ sock' = [sock EXCEPT !.waiter = n] /\ call' = "recv" /\ UNCHANGED <<ws, got>>
      BY <1>1, <1>6, <3>2 DEF SockTyped, SockLinks, ReceiverNotForgotten, Idle
    <3> QED
      BY <1>6, <3>1, <3>2
  <2>4. BytesKept'
    <3>1. sock'.recvQueue = sock.recvQueue /\ ws'.queue = ws.queue /\ UNCHANGED <<got, arrived>>
      BY <1>1, <1>6 DEF SockTyped
    <3> QED
      BY <1>1, <3>1, QuietKeepsBytes
  <2> QED
    BY <2>1, <2>3, <2>4 DEF SockInv
<1> QED
  BY <1>1, <1>4, <1>5, <1>6, RecvParts, Zenon

\* onmessage.
LEMMA MessageKeepsInv ==
    ASSUME SockInv, NEW n \in 1 .. MaxRecv, onmessage(n)
    PROVE  SockInv'
<1>1. /\ n \in Nat /\ sock.conn /\ arrived' = arrived + n /\ UNCHANGED <<net, sock, sent, out>>
      /\ SockTyped /\ SockLinks /\ BytesKept
  BY MessageParts DEF SockInv
<1>2. PICK r \in Seq(Nat), w \in Seq(Nat) : r = FlattenSeq(sock.recvQueue) /\ w = FlattenSeq(ws.queue)
  BY <1>1, FlattenType, Zenon DEF SockTyped
<1>3. Cat(Cat(got, r), w) = Counting(arrived) /\ got \in Seq(Nat) /\ arrived \in Nat
  BY <1>1, <1>2, Zenon DEF BytesKept, SockTyped
<1>4. PICK b \in Seq(Nat) : b = NewBytes(n) /\ Counting(arrived') = Cat(Counting(arrived), b)
  BY <1>1, <1>3, CountingOn, Zenon
<1>5. r = <<>> /\ Cat(got, r) = got
  <2>1. sock.recvQueue = <<>>
    BY <1>1 DEF SockLinks
  <2> QED
    BY <1>2, <1>3, <2>1, FlattenEmpty, CatBytes, Zenon
<1>6. CASE \E q \in Seq(Seq(Nat)), o \in Seq(Nat) :
              /\ ws.queue = <<>> /\ call' = "none"
              /\ got' = Cat(got, o) /\ ws' = [ws EXCEPT !.waiter = 0, !.queue = q]
              /\ NewBytes(n) = Cat(o, FlattenSeq(q))
  <2>1. PICK q \in Seq(Seq(Nat)), o \in Seq(Nat) :
              /\ ws.queue = <<>> /\ call' = "none"
              /\ got' = Cat(got, o) /\ ws' = [ws EXCEPT !.waiter = 0, !.queue = q]
              /\ NewBytes(n) = Cat(o, FlattenSeq(q))
    BY <1>6, Zenon
  <2>2. PICK x \in Seq(Nat) : x = FlattenSeq(q)
    BY FlattenType, Zenon
  <2>3. Cat(got, o) \in Seq(Nat)
    BY <1>3, CatBytes, Zenon
  <2>4. SockTyped'
    <3>1. got' \in Seq(Nat) /\ arrived' \in Nat
      BY <1>1, <1>3, <2>1, <2>3
    <3>2. ws' \in [state : {"none", "open", "closing", "closed"},
                   queue : Seq(Seq(Nat)), closed : BOOLEAN, waiter : Nat]
      BY <1>1, <2>1 DEF SockTyped
    <3> QED
      BY <1>1, <2>1, <3>1, <3>2 DEF SockTyped
  <2>5. SockLinks'
    <3>1. ws.state = "open"
      BY DEF onmessage
    <3> QED
      BY <1>1, <2>1, <3>1 DEF SockTyped, SockLinks, ReceiverNotForgotten
  <2>6. ws'.queue = q /\ sock'.recvQueue = sock.recvQueue
    BY <1>1, <2>1 DEF SockTyped
  <2>7. Cat(Cat(got, o), x) = Cat(got, b)
    <3>1. Cat(Cat(got, o), x) = Cat(got, Cat(o, x))
      BY <1>3, Associates
    <3> QED
      BY <1>4, <2>1, <2>2, <3>1, Zenon
  <2>8. Counting(arrived) = got
    <3>1. w = <<>> /\ Cat(got, <<>>) = got
      BY <1>2, <1>3, <2>1, FlattenEmpty, CatBytes, Zenon
    <3> QED
      BY <1>3, <1>5, <3>1, Zenon
  <2>9. Cat(got', r) = Cat(got, o)
    BY <1>5, <2>1, <2>3, CatBytes, Zenon
  <2>10. BytesKept'
    BY <1>2, <1>4, <2>2, <2>6, <2>7, <2>8, <2>9, Zenon DEF BytesKept
  <2> QED
    BY <2>4, <2>5, <2>10 DEF SockInv
<1>7. CASE \E q \in Seq(Seq(Nat)) :
              /\ ws.waiter = 0 /\ ws' = [ws EXCEPT !.queue = q]
              /\ FlattenSeq(q) = Cat(FlattenSeq(ws.queue), NewBytes(n))
              /\ UNCHANGED <<got, call>>
  <2>1. PICK q \in Seq(Seq(Nat)) :
              /\ ws.waiter = 0 /\ ws' = [ws EXCEPT !.queue = q]
              /\ FlattenSeq(q) = Cat(FlattenSeq(ws.queue), NewBytes(n))
              /\ UNCHANGED <<got, call>>
    BY <1>7, Zenon
  <2>2. SockTyped'
    <3>1. arrived' \in Nat
      BY <1>1, <1>3
    <3>2. ws' \in [state : {"none", "open", "closing", "closed"},
                   queue : Seq(Seq(Nat)), closed : BOOLEAN, waiter : Nat]
      BY <1>1, <2>1 DEF SockTyped
    <3> QED
      BY <1>1, <2>1, <3>1, <3>2 DEF SockTyped
  <2>3. SockLinks'
    BY <1>1, <2>1 DEF SockTyped, SockLinks, ReceiverNotForgotten
  <2>4. ws'.queue = q /\ sock'.recvQueue = sock.recvQueue
    BY <1>1, <2>1 DEF SockTyped
  <2>5. Cat(Cat(got, w), b) = Cat(got, Cat(w, b))
    BY <1>3, Associates
  <2>6. BytesKept'
    BY <1>2, <1>3, <1>4, <1>5, <2>1, <2>4, <2>5, Zenon DEF BytesKept
  <2> QED
    BY <2>2, <2>3, <2>6 DEF SockInv
<1> QED
  BY <1>1, <1>6, <1>7, MessageParts, Zenon

\* exchangeHttp.
LEMMA ExchangeKeepsInv ==
    ASSUME SockInv, NEW ok \in BOOLEAN, NEW n \in 1 .. MaxRecv, exchangeHttp(ok, n)
    PROVE  SockInv'
<1>1. /\ n \in Nat /\ call = "send" /\ call' = "none" /\ UNCHANGED <<net, ws, got, sent>>
      /\ SockTyped /\ SockLinks /\ BytesKept
  BY BoundAssumption DEF exchangeHttp, SockInv
<1>2. CASE ok
  <2>1. PICK r \in Seq(Nat), w \in Seq(Nat) : r = FlattenSeq(sock.recvQueue) /\ w = FlattenSeq(ws.queue)
    BY <1>1, FlattenType, Zenon DEF SockTyped
  <2>2. Cat(Cat(got, r), w) = Counting(arrived) /\ got \in Seq(Nat) /\ arrived \in Nat
    BY <1>1, <2>1, Zenon DEF BytesKept, SockTyped
  <2>3. /\ arrived' = arrived + n
        /\ sock' = [sock EXCEPT !.httpBuffer = <<>>, !.recvQueue = Append(@, NewBytes(n))]
        /\ out' = out \o sock.httpBuffer
    BY <1>2 DEF exchangeHttp
  <2>4. PICK b \in Seq(Nat) : b = NewBytes(n) /\ Counting(arrived') = Cat(Counting(arrived), b)
    BY <1>1, <2>2, <2>3, CountingOn, Zenon
  <2>5. PICK q \in Seq(Seq(Nat)) : q = Append(sock.recvQueue, b) /\ FlattenSeq(q) = Cat(r, b)
    <3>1. sock.recvQueue \in Seq(Seq(Nat)) /\ Append(sock.recvQueue, b) \in Seq(Seq(Nat))
      BY <1>1 DEF SockTyped
    <3>2. FlattenSeq(Append(sock.recvQueue, b)) = Cat(FlattenSeq(sock.recvQueue), b)
      BY <3>1, FlattenAppend, Zenon
    <3> QED
      BY <2>1, <3>1, <3>2, Zenon
  <2>6. sock' = [sock EXCEPT !.httpBuffer = <<>>, !.recvQueue = q]
    BY <2>3, <2>4, <2>5, Zenon
  <2>7. SockTyped'
    <3>1. out' \in Seq(Int)
      BY <1>1, <2>3, ConcatProperties, Zenon DEF SockTyped
    <3>2. arrived' \in Nat
      BY <1>1, <2>2, <2>3
    <3>3. /\ sock' = [peer |-> sock'.peer, host |-> sock'.host, conn |-> sock'.conn, closed |-> sock'.closed,
                      recvQueue |-> sock'.recvQueue, waiter |-> sock'.waiter, httpBuffer |-> sock'.httpBuffer]
          /\ sock'.conn = sock.conn /\ sock'.closed = sock.closed
          /\ sock'.recvQueue = q /\ sock'.httpBuffer = <<>>
      BY <1>1, <2>6 DEF SockTyped
    <3> QED
      BY <1>1, <3>1, <3>2, <3>3 DEF SockTyped
  <2>8. SockLinks'
    BY <1>1, <2>6 DEF SockTyped, SockLinks, ReceiverNotForgotten
  <2>9. sock'.recvQueue = q /\ ws'.queue = ws.queue /\ ws.queue = <<>>
    BY <1>1, <2>6 DEF SockTyped, SockLinks
  <2>10. w = <<>>
    BY <2>1, <2>9, FlattenEmpty, Zenon
  <2>11. Cat(Cat(got, r), b) = Cat(got, Cat(r, b)) /\ Cat(got, r) \in Seq(Nat) /\ Cat(r, b) \in Seq(Nat)
    <3>1. Cat(Cat(got, r), b) = Cat(got, Cat(r, b))
      BY <2>2, Associates
    <3> QED
      BY <2>2, <3>1, CatBytes, Zenon
  <2>12. Cat(Cat(got, r), <<>>) = Cat(got, r) /\ Cat(Cat(got, Cat(r, b)), <<>>) = Cat(got, Cat(r, b))
    <3>1. Cat(got, Cat(r, b)) \in Seq(Nat)
      BY <2>2, <2>11, CatBytes, Zenon
    <3> QED
      BY <2>11, <3>1, CatBytes, Zenon
  <2>13. Cat(Cat(got, FlattenSeq(q)), <<>>) = Counting(arrived')
    BY <2>2, <2>4, <2>5, <2>10, <2>11, <2>12, Zenon
  <2>14. BytesKept'
    BY <1>1, <2>9, <2>13, FlattenEmpty, Zenon DEF BytesKept
  <2> QED
    BY <2>7, <2>8, <2>14 DEF SockInv
<1>3. CASE ~ok
  <2>1. UNCHANGED <<sock, out, arrived>>
    BY <1>3 DEF exchangeHttp
  <2>2. SockTyped' /\ SockLinks'
    BY <1>1, <2>1 DEF SockTyped, SockLinks, ReceiverNotForgotten
  <2>3. BytesKept'
    BY <1>1, <2>1, QuietKeepsBytes
  <2> QED
    BY <2>2, <2>3 DEF SockInv
<1> QED
  BY <1>2, <1>3

\* Connecting, closing, sending and asking for names.
LEMMA OthersKeepInv ==
    ASSUME SockInv,
           \/ \E h \in Host : sendto(h) \/ connect(h)
           \/ recvfrom \/ onopen \/ onerror \/ onclose \/ closeSocket
           \/ \E blank \in BOOLEAN : send(blank)
    PROVE  SockInv'
<1>1. SockTyped /\ SockLinks /\ BytesKept
  BY DEF SockInv
<1>2. ASSUME SockTyped', SockLinks', UNCHANGED <<got, arrived>>,
             sock'.recvQueue = sock.recvQueue, ws'.queue = ws.queue
      PROVE  SockInv'
  BY <1>1, <1>2, QuietKeepsBytes DEF SockInv
<1>3. ASSUME NEW h \in Host, sendto(h)
      PROVE  SockInv'
  <2>1. UNCHANGED <<net, sock, ws, call, arrived, got, sent, out>>
    BY <1>3 DEF sendto
  <2>2. SockTyped' /\ SockLinks'
    BY <1>1, <2>1 DEF SockTyped, SockLinks, ReceiverNotForgotten
  <2> QED
    BY <1>2, <2>1, <2>2
<1>4. CASE recvfrom
  <2>1. UNCHANGED <<net, sock, ws, call, arrived, got, sent, out>>
    BY <1>4 DEF recvfrom
  <2>2. SockTyped' /\ SockLinks'
    BY <1>1, <2>1 DEF SockTyped, SockLinks, ReceiverNotForgotten
  <2> QED
    BY <1>2, <2>1, <2>2
<1>5. ASSUME NEW h \in Host, connect(h)
      PROVE  SockInv'
  <2>1. /\ Idle /\ UNCHANGED <<net, ws, got, arrived, sent, out>>
        /\ \/ /\ net = "tcp" /\ call' = "connect"
              /\ sock' = [sock EXCEPT !.peer = known[h], !.host = reverse(known[h])]
           \/ net = "fetch" /\ sock' = [sock EXCEPT !.peer = known[h]] /\ UNCHANGED call
    BY <1>5 DEF connect
  <2>2. /\ sock' = [peer |-> sock'.peer, host |-> sock'.host, conn |-> sock'.conn, closed |-> sock'.closed,
                    recvQueue |-> sock'.recvQueue, waiter |-> sock'.waiter, httpBuffer |-> sock'.httpBuffer]
        /\ sock'.conn = sock.conn /\ sock'.closed = sock.closed
        /\ sock'.recvQueue = sock.recvQueue /\ sock'.httpBuffer = sock.httpBuffer
    BY <1>1, <2>1 DEF SockTyped
  <2>3. SockTyped'
    BY <1>1, <2>1, <2>2 DEF SockTyped
  <2>4. SockLinks'
    BY <1>1, <2>1, <2>2 DEF SockTyped, SockLinks, ReceiverNotForgotten, Idle
  <2> QED
    BY <1>2, <2>1, <2>2, <2>3, <2>4
<1>6. CASE onopen
  <2>1. PICK e \in Seq(Seq(Nat)) : e = <<>>
    BY EmptySeq, Zenon
  <2>2. /\ call = "connect" /\ call' = "none" /\ arrived' = 0 /\ got' = <<>>
        /\ ws' = [state |-> "open", queue |-> e, closed |-> FALSE, waiter |-> 0]
        /\ sock' = [sock EXCEPT !.conn = TRUE] /\ UNCHANGED <<net, sent, out>>
    BY <1>6, <2>1, Zenon DEF onopen
  <2>3. got' \in Seq(Nat)
    BY <2>2, EmptySeq, Zenon
  <2>4. SockTyped'
    BY <1>1, <2>2, <2>3 DEF SockTyped
  <2>5. SockLinks'
    BY <1>1, <2>1, <2>2 DEF SockTyped, SockLinks, ReceiverNotForgotten
  <2>6. sock'.recvQueue = <<>> /\ ws'.queue = <<>>
    BY <1>1, <2>1, <2>2 DEF SockTyped, SockLinks
  <2>7. BytesKept'
    BY <2>2, <2>6, NothingKept, Zenon
  <2> QED
    BY <2>4, <2>5, <2>7 DEF SockInv
<1>7. CASE onerror
  <2>1. call' = "none" /\ call = "connect" /\ UNCHANGED <<net, sock, ws, got, arrived, sent, out>>
    BY <1>7 DEF onerror
  <2>2. SockTyped' /\ SockLinks'
    BY <1>1, <2>1 DEF SockTyped, SockLinks, ReceiverNotForgotten
  <2> QED
    BY <1>2, <2>1, <2>2
<1>8. CASE onclose
  <2>1. /\ ws.state \in {"open", "closing"}
        /\ ws' = [ws EXCEPT !.state = "closed", !.closed = TRUE, !.waiter = 0]
        /\ call' = (IF ws.waiter > 0 THEN "none" ELSE call)
        /\ UNCHANGED <<net, sock, got, arrived, sent, out>>
    BY <1>8 DEF onclose
  <2>2. SockTyped'
    BY <1>1, <2>1 DEF SockTyped
  <2>3. SockLinks'
    BY <1>1, <2>1 DEF SockTyped, SockLinks, ReceiverNotForgotten
  <2>4. sock'.recvQueue = sock.recvQueue /\ ws'.queue = ws.queue
    BY <1>1, <2>1 DEF SockTyped
  <2> QED
    BY <1>2, <2>1, <2>2, <2>3, <2>4
<1>9. CASE closeSocket
  <2>1. /\ Idle /\ sock' = [sock EXCEPT !.closed = TRUE]
        /\ UNCHANGED <<net, call, got, arrived, sent, out>>
        /\ ws' = (IF sock.conn
                  THEN [ws EXCEPT !.closed = TRUE, !.state = IF @ = "open" THEN "closing" ELSE @] ELSE ws)
    BY <1>9 DEF closeSocket
  <2>2. SockTyped'
    BY <1>1, <2>1 DEF SockTyped
  <2>3. SockLinks'
    BY <1>1, <2>1 DEF SockTyped, SockLinks, ReceiverNotForgotten, Idle
  <2>4. sock'.recvQueue = sock.recvQueue /\ ws'.queue = ws.queue
    BY <1>1, <2>1 DEF SockTyped
  <2> QED
    BY <1>2, <2>1, <2>2, <2>3, <2>4
<1>10. ASSUME NEW blank \in BOOLEAN, send(blank)
       PROVE  SockInv'
  <2>1. PICK p \in Int : p = IF blank THEN -(sent + 1) ELSE sent + 1
    BY <1>1 DEF SockTyped
  <2>2. /\ Idle /\ sent' = sent + 1 /\ UNCHANGED <<net, ws, got, arrived>>
        /\ \/ sock.conn /\ out' = (IF ws.state = "open" THEN Append(out, p) ELSE out) /\ UNCHANGED <<sock, call>>
           \/ /\ ~sock.conn /\ net = "fetch" /\ sock' = [sock EXCEPT !.httpBuffer = Append(sock.httpBuffer, p)]
              /\ call' \in {"send", call} /\ UNCHANGED out
           \/ ~sock.conn /\ net = "tcp" /\ UNCHANGED <<sock, call, out>>
    BY <1>10, <2>1 DEF send
  <2>3. SockTyped'
    <3>1. Append(out, p) \in Seq(Int) /\ Append(sock.httpBuffer, p) \in Seq(Int) /\ sent' \in Nat
      BY <1>1, <2>2 DEF SockTyped
    <3> QED
      BY <1>1, <2>2, <3>1 DEF SockTyped, Idle
  <2>4. SockLinks'
    BY <1>1, <2>2 DEF SockTyped, SockLinks, ReceiverNotForgotten, Idle
  <2>5. sock'.recvQueue = sock.recvQueue /\ ws'.queue = ws.queue
    BY <1>1, <2>2 DEF SockTyped
  <2> QED
    BY <1>2, <2>2, <2>3, <2>4, <2>5
<1> QED
  BY <1>3, <1>4, <1>5, <1>6, <1>7, <1>8, <1>9, <1>10

-----------------------------------------------------------------------------
(* What the guest gives to the HTTP exchanger.                             *)

\* The pieces are those of the calls 1 .. n, in order.
InOrder(s, n) == Len(s) = n /\ \A i \in 1 .. n : Ordinal(s[i]) = i

SentKept == net = "fetch" => InOrder(Cat(out, sock.httpBuffer), sent)

\* Every step keeps the pieces in order: a failed fetch leaves the buffer.
LEMMA SentStep ==
    ASSUME SockInv, SentKept, [SockNext]_sockVars
    PROVE  SentKept'
<1> SUFFICES ASSUME net' = "fetch"
             PROVE  InOrder(Cat(out', sock'.httpBuffer), sent')
  BY Zenon DEF SentKept
<1>1. SockTyped /\ SockLinks
  BY DEF SockInv
<1>2. UNCHANGED net
  BY DEF SockNext, sendto, connect, recvfrom, onopen, onerror, onclose, closeSocket, onmessage, recv, send,
         exchangeHttp, sockVars
<1>3. net = "fetch" /\ InOrder(Cat(out, sock.httpBuffer), sent) /\ ~sock.conn /\ ws.state = "none"
  BY <1>1, <1>2 DEF SentKept, SockLinks
<1>4. PICK s \in Seq(Int) : s = Cat(out, sock.httpBuffer) /\ InOrder(s, sent)
  BY <1>1, <1>3, CatFacts, Zenon DEF SockTyped
<1>5. ASSUME UNCHANGED <<out, sent>>, sock'.httpBuffer = sock.httpBuffer
      PROVE  InOrder(Cat(out', sock'.httpBuffer), sent')
  BY <1>3, <1>5, Zenon
<1>6. ASSUME NEW blank \in BOOLEAN, send(blank)
      PROVE  InOrder(Cat(out', sock'.httpBuffer), sent')
  <2>1. PICK p \in Int : p = IF blank THEN -(sent + 1) ELSE sent + 1
    BY <1>1 DEF SockTyped
  <2>2. sent \in Nat /\ Ordinal(p) = sent + 1
    BY <1>1, <2>1 DEF SockTyped, Ordinal
  <2>3. sent' = sent + 1 /\ out' = out /\ sock' = [sock EXCEPT !.httpBuffer = Append(sock.httpBuffer, p)]
    BY <1>3, <1>6, <2>1 DEF send
  <2>4. sock'.httpBuffer = Append(sock.httpBuffer, p)
    BY <1>1, <2>3 DEF SockTyped
  <2>5. Cat(out, Append(sock.httpBuffer, p)) = Append(s, p)
    <3>1. out \in Seq(Int) /\ sock.httpBuffer \in Seq(Int) /\ <<p>> \in Seq(Int)
      BY <1>1 DEF SockTyped
    <3>2. Append(sock.httpBuffer, p) = Cat(sock.httpBuffer, <<p>>) /\ Append(s, p) = Cat(s, <<p>>)
      BY <3>1, AppendIsConcat, Zenon DEF Cat
    <3>3. \A t \in Seq(Int) : Cat(Cat(out, sock.httpBuffer), t) = Cat(out, Cat(sock.httpBuffer, t))
      BY <3>1, Associates
    <3> QED
      BY <1>4, <3>1, <3>2, <3>3, Zenon
  <2>6. InOrder(Append(s, p), sent + 1)
    BY <1>4, <2>2, AppendProperties DEF InOrder
  <2> QED
    BY <2>3, <2>4, <2>5, <2>6, Zenon
<1>7. ASSUME NEW ok \in BOOLEAN, NEW n \in 1 .. MaxRecv, exchangeHttp(ok, n)
      PROVE  InOrder(Cat(out', sock'.httpBuffer), sent')
  <2>1. CASE ok
    <3>1. sent' = sent /\ out' = s /\ sock'.httpBuffer = <<>>
      <4>1. /\ sock' = [sock EXCEPT !.httpBuffer = <<>>, !.recvQueue = Append(@, NewBytes(n))]
            /\ sent' = sent /\ out' = out \o sock.httpBuffer
        BY <1>7, <2>1 DEF exchangeHttp
      <4>2. sock'.httpBuffer = <<>>
        BY <1>1, <4>1 DEF SockTyped
      <4> QED
        BY <1>4, <4>1, <4>2, Zenon DEF Cat
    <3>2. Cat(s, <<>>) = s
      BY CatFacts
    <3> QED
      BY <1>4, <3>1, <3>2, Zenon
  <2>2. CASE ~ok
    BY <1>5, <1>7, <2>2 DEF exchangeHttp
  <2> QED
    BY <2>1, <2>2
<1>8. ASSUME NEW n \in 1 .. MaxRecv, recv(n)
      PROVE  InOrder(Cat(out', sock'.httpBuffer), sent')
  <2>1. UNCHANGED <<out, sent>> /\ sock'.httpBuffer = sock.httpBuffer
    <3>1. UNCHANGED <<out, sent>>
      BY <1>8 DEF recv
    <3>2. \/ sock' = sock \/ sock' = [sock EXCEPT !.waiter = n]
          \/ sock' = [sock EXCEPT !.recvQueue = takeBytes(sock.recvQueue, n).queue]
      BY <1>8, Zenon DEF recv
    <3> QED
      BY <1>1, <3>1, <3>2 DEF SockTyped
  <2> QED
    BY <1>5, <2>1
<1>9. ASSUME NEW n \in 1 .. MaxRecv, onmessage(n)
      PROVE  FALSE
  BY <1>3, <1>9 DEF onmessage
<1>10. ASSUME NEW h \in Host, sendto(h) \/ connect(h)
       PROVE  InOrder(Cat(out', sock'.httpBuffer), sent')
  <2>1. UNCHANGED <<out, sent>> /\ sock'.httpBuffer = sock.httpBuffer
    <3>1. UNCHANGED <<out, sent>>
      BY <1>10 DEF sendto, connect
    <3>2. sock' = sock \/ sock' = [sock EXCEPT !.peer = known[h]]
      BY <1>3, <1>10 DEF sendto, connect
    <3> QED
      BY <1>1, <3>1, <3>2 DEF SockTyped
  <2> QED
    BY <1>5, <2>1
<1>11. ASSUME recvfrom \/ onopen \/ onerror \/ onclose \/ closeSocket
       PROVE  InOrder(Cat(out', sock'.httpBuffer), sent')
  <2>1. UNCHANGED <<out, sent>> /\ sock'.httpBuffer = sock.httpBuffer
    <3>1. UNCHANGED <<out, sent>>
      BY <1>11 DEF recvfrom, onopen, onerror, onclose, closeSocket
    <3>2. sock' = sock \/ sock' = [sock EXCEPT !.conn = TRUE] \/ sock' = [sock EXCEPT !.closed = TRUE]
      BY <1>11 DEF recvfrom, onopen, onerror, onclose, closeSocket
    <3> QED
      BY <1>1, <3>1, <3>2 DEF SockTyped
  <2> QED
    BY <1>5, <2>1
<1>12. ASSUME UNCHANGED sockVars
       PROVE  InOrder(Cat(out', sock'.httpBuffer), sent')
  BY <1>5, <1>12 DEF sockVars
<1> QED
  BY <1>6, <1>7, <1>8, <1>9, <1>10, <1>11, <1>12 DEF SockNext

\* Every step keeps the invariant.
LEMMA SockStep ==
    ASSUME SockInv, [SockNext]_sockVars
    PROVE  SockInv'
<1>1. CASE UNCHANGED sockVars
  <2>1. SockTyped' /\ SockLinks'
    BY <1>1 DEF SockInv, SockTyped, SockLinks, ReceiverNotForgotten, sockVars
  <2>2. BytesKept'
    BY <1>1, QuietKeepsBytes DEF SockInv, sockVars
  <2> QED
    BY <2>1, <2>2 DEF SockInv
<1>2. CASE SockNext
  BY <1>2, RecvKeepsInv, MessageKeepsInv, ExchangeKeepsInv, OthersKeepInv, Zenon DEF SockNext
<1> QED
  BY <1>1, <1>2

\* For every number of bytes, calls and counts, and any connects, repeated or
\* failed: socket, connection and suspended call of the code of
\* src/src/network.js agree, and no byte of the present connection is lost.
THEOREM SocketInvariance == SockSpec => [](SockInv /\ SentKept)
<1>1. SockInit => SockInv /\ SentKept
  <2>1. ASSUME SockInit
        PROVE  SentKept
    <3>1. out = <<>> /\ sock.httpBuffer = <<>> /\ sent = 0
      BY <2>1 DEF SockInit
    <3>2. Cat(<<>>, <<>>) = <<>>
      BY CatFacts, EmptySeq
    <3>3. InOrder(<<>>, 0)
      BY DEF InOrder
    <3> QED
      BY <3>1, <3>2, <3>3, Zenon DEF SentKept
  <2> QED
    BY <2>1, SockInitInv
<1>2. SockInv /\ SentKept /\ [SockNext]_sockVars => (SockInv /\ SentKept)'
  BY SockStep, SentStep
<1> QED
  BY <1>1, <1>2, PTL DEF SockSpec

\* The guest reads every byte of its present connection once and in order, and
\* what it sends through the exchanger is fetched once and in order, however
\* messages, responses, failed fetches, failed connects and calls of connect,
\* shutdown, send and recv interleave.
THEOREM SocketsKeepBytes == SockSpec => []SocketKeepsBytes
<1>1. ASSUME SockInv, SentKept
      PROVE  SocketKeepsBytes
  <2>1. got \o FlattenSeq(sock.recvQueue) \o FlattenSeq(ws.queue) = [i \in 1 .. arrived |-> i]
    BY <1>1, Zenon DEF SockInv, BytesKept, Counting, Cat
  <2>2. ASSUME net = "fetch"
        PROVE  [i \in DOMAIN (out \o sock.httpBuffer) |-> Ordinal((out \o sock.httpBuffer)[i])]
                  = [i \in 1 .. sent |-> i]
    <3>1. PICK s \in Seq(Int) : s = Cat(out, sock.httpBuffer) /\ InOrder(s, sent)
      BY <1>1, <2>2, CatFacts, Zenon DEF SockInv, SockTyped, SentKept
    <3>2. [i \in DOMAIN s |-> Ordinal(s[i])] = [i \in 1 .. sent |-> i]
      <4>1. DOMAIN s = 1 .. sent /\ \A i \in 1 .. sent : Ordinal(s[i]) = i
        BY <3>1, LenProperties DEF InOrder
      <4> QED
        BY <4>1
    <3> QED
      BY <3>1, <3>2, Zenon DEF Cat
  <2> QED
    BY <2>1, <2>2, Zenon DEF SocketKeepsBytes
<1> QED
  BY <1>1, SocketInvariance, PTL

\* No guest is suspended in recv while something is queued for it or after the
\* end of its connection.
THEOREM ReceiversAreServed == SockSpec => []ReceiverNotForgotten
<1>1. SockInv => ReceiverNotForgotten
  BY DEF SockInv, SockLinks
<1> QED
  BY <1>1, SocketInvariance, PTL

-----------------------------------------------------------------------------
(* Names and addresses.                                                    *)

\* Configured hosts have numbers of their own below firstHost.  How many names
\* there are, and how many numbers fit in the byte of an answer, is left open.
ConfiguredApart ==
    /\ FirstHost \in Nat /\ Octet \in Nat \ {0}
    /\ \A hosts \in Preset :
          /\ DOMAIN hosts \subseteq Host
          /\ \A h \in DOMAIN hosts : hosts[h] \in Nat /\ hosts[h] < FirstHost
          /\ \A g, h \in DOMAIN hosts : hosts[g] = hosts[h] => g = h

\* Names and numbers correspond, numbers are given out in order, and what the
\* guest was told, or is about to be told, is a byte of the number of the name.
DnsMaps ==
    /\ dns = [next |-> dns.next, hostToIp |-> dns.hostToIp, ipToHost |-> dns.ipToHost]
    /\ DOMAIN dns.hostToIp \subseteq Host /\ dns.next \in Nat
    /\ \A h \in DOMAIN dns.hostToIp :
          /\ dns.hostToIp[h] \in Nat /\ dns.hostToIp[h] < dns.next
          /\ dns.hostToIp[h] \in DOMAIN dns.ipToHost /\ dns.ipToHost[dns.hostToIp[h]] = h

Told(h, ip) == h \in DOMAIN dns.hostToIp /\ ip = dns.hostToIp[h] % Octet

GuestTold ==
    /\ answers \in Seq([host : Host, ip : Nat])
    /\ \A i \in 1 .. Len(answers) : Told(answers[i].host, answers[i].ip)
    /\ DOMAIN known = Host
    /\ \A h \in Host : known[h] # Nothing => Told(h, known[h])

\* What the socket keeps of the host that was asked for.
PeerOfAsked ==
    asked # Nothing =>
        /\ asked \in DOMAIN dns.hostToIp
        /\ dns.hostToIp[asked] < Octet =>
              IF net = "tcp" THEN sock.host = asked ELSE sock.peer = dns.hostToIp[asked]

DnsInv ==
    /\ DnsMaps /\ GuestTold /\ PeerOfAsked
    /\ sock = [peer |-> sock.peer, host |-> sock.host, conn |-> sock.conn, closed |-> sock.closed,
               recvQueue |-> sock.recvQueue, waiter |-> sock.waiter, httpBuffer |-> sock.httpBuffer]

\* A lookup adds a name and a number and changes no other.
LEMMA ResolveKeeps ==
    ASSUME ConfiguredApart, DnsMaps, NEW h \in Host, dns' = resolve(h)
    PROVE  /\ DnsMaps' /\ DOMAIN dns.hostToIp \subseteq DOMAIN dns'.hostToIp /\ h \in DOMAIN dns'.hostToIp
           /\ \A g \in DOMAIN dns.hostToIp : dns'.hostToIp[g] = dns.hostToIp[g]
           /\ buildResponse(h) = [host |-> h, ip |-> dns'.hostToIp[h] % Octet]
           /\ dns'.hostToIp[h] % Octet \in Nat
<1> DEFINE D == DOMAIN dns.hostToIp
<1>1. D \in SUBSET Host /\ Octet \in Nat \ {0}
  BY DEF ConfiguredApart, DnsMaps
<1>2. /\ DnsMaps' /\ D \subseteq DOMAIN dns'.hostToIp /\ h \in DOMAIN dns'.hostToIp
      /\ \A g \in D : dns'.hostToIp[g] = dns.hostToIp[g]
  <2>1. CASE h \in D
    <3>1. dns' = dns
      BY <2>1 DEF resolve
    <3> QED
      BY <2>1, <3>1 DEF DnsMaps
  <2>2. CASE h \notin D
    <3>1. dns' = [next     |-> dns.next + 1,
                  hostToIp |-> [g \in D \cup {h} |-> IF g = h THEN dns.next ELSE dns.hostToIp[g]],
                  ipToHost |-> [i \in DOMAIN dns.ipToHost \cup {dns.next} |->
                                   IF i = dns.next THEN h ELSE dns.ipToHost[i]]]
      BY <2>2 DEF resolve
    <3>2. /\ dns'.next = dns.next + 1 /\ DOMAIN dns'.hostToIp = D \cup {h}
          /\ dns'.hostToIp[h] = dns.next
          /\ \A g \in D : dns'.hostToIp[g] = dns.hostToIp[g]
          /\ DOMAIN dns'.ipToHost = DOMAIN dns.ipToHost \cup {dns.next}
          /\ dns'.ipToHost[dns.next] = h
          /\ \A i \in DOMAIN dns.ipToHost : i # dns.next => dns'.ipToHost[i] = dns.ipToHost[i]
          /\ dns' = [next |-> dns'.next, hostToIp |-> dns'.hostToIp, ipToHost |-> dns'.ipToHost]
      BY <2>2, <3>1
    <3>3. dns'.next \in Nat
      BY <3>2 DEF DnsMaps
    <3>4. ASSUME NEW g \in D \cup {h}
          PROVE  /\ dns'.hostToIp[g] \in Nat /\ dns'.hostToIp[g] < dns'.next
                 /\ dns'.hostToIp[g] \in DOMAIN dns'.ipToHost /\ dns'.ipToHost[dns'.hostToIp[g]] = g
      <4>1. CASE g = h
        BY <3>2, <4>1 DEF DnsMaps
      <4>2. CASE g # h
        BY <3>2, <4>2 DEF DnsMaps
      <4> QED
        BY <4>1, <4>2
    <3> QED
      BY <1>1, <3>2, <3>3, <3>4 DEF DnsMaps
  <2> QED
    BY <2>1, <2>2
<1>3. dns'.hostToIp[h] % Octet \in Nat
  <2>1. dns'.hostToIp[h] \in Nat
    BY <1>2 DEF DnsMaps
  <2> QED
    BY <1>1, <2>1
<1>4. buildResponse(h) = [host |-> h, ip |-> dns'.hostToIp[h] % Octet]
  BY Zenon DEF buildResponse
<1> QED
  BY <1>2, <1>3, <1>4

\* Configured hosts correspond to their numbers.
LEMMA DnsInit ==
    ASSUME ConfiguredApart, SockInit
    PROVE  DnsInv
<1>1. PICK hosts \in Preset :
          dns = [next |-> FirstHost, hostToIp |-> hosts,
                 ipToHost |-> [i \in {hosts[h] : h \in DOMAIN hosts} |->
                                  CHOOSE h \in DOMAIN hosts : hosts[h] = i]]
  BY DEF SockInit
<1>2. /\ DOMAIN hosts \subseteq Host /\ \A h \in DOMAIN hosts : hosts[h] \in Nat /\ hosts[h] < FirstHost
      /\ \A g, h \in DOMAIN hosts : hosts[g] = hosts[h] => g = h
      /\ FirstHost \in Nat
  BY DEF ConfiguredApart
<1>3. ASSUME NEW h \in DOMAIN hosts
      PROVE  hosts[h] \in DOMAIN dns.ipToHost /\ dns.ipToHost[hosts[h]] = h
  <2>1. dns.ipToHost[hosts[h]] = CHOOSE g \in DOMAIN hosts : hosts[g] = hosts[h]
    BY <1>1
  <2>2. (CHOOSE g \in DOMAIN hosts : hosts[g] = hosts[h]) = h
    BY <1>2
  <2>3. hosts[h] \in DOMAIN dns.ipToHost
    BY <1>1
  <2> QED
    BY <2>1, <2>2, <2>3
<1>4. DnsMaps
  BY <1>1, <1>2, <1>3 DEF DnsMaps
<1>5. GuestTold
  BY DEF SockInit, GuestTold
<1> QED
  BY <1>4, <1>5 DEF SockInit, DnsInv, PeerOfAsked

\* Every step keeps names and numbers together.
LEMMA DnsStep ==
    ASSUME ConfiguredApart, DnsInv, [SockNext]_sockVars
    PROVE  DnsInv'
<1>1. DnsMaps /\ GuestTold /\ PeerOfAsked
      /\ sock = [peer |-> sock.peer, host |-> sock.host, conn |-> sock.conn, closed |-> sock.closed,
                 recvQueue |-> sock.recvQueue, waiter |-> sock.waiter, httpBuffer |-> sock.httpBuffer]
  BY DEF DnsInv
<1>2. ASSUME NEW h \in Host, sendto(h)
      PROVE  DnsInv'
  <2>1. /\ dns' = resolve(h) /\ answers' = Append(answers, buildResponse(h))
        /\ UNCHANGED <<net, known, sock, asked>>
    BY <1>2 DEF sendto
  <2>2. /\ DnsMaps' /\ DOMAIN dns.hostToIp \subseteq DOMAIN dns'.hostToIp /\ h \in DOMAIN dns'.hostToIp
        /\ \A g \in DOMAIN dns.hostToIp : dns'.hostToIp[g] = dns.hostToIp[g]
        /\ buildResponse(h) = [host |-> h, ip |-> dns'.hostToIp[h] % Octet] /\ dns'.hostToIp[h] % Octet \in Nat
    BY <1>1, <2>1, ResolveKeeps
  <2>3. PICK a \in [host : Host, ip : Nat] :
            a = buildResponse(h) /\ a.host = h /\ a.ip = dns'.hostToIp[h] % Octet
    BY <2>2
  <2>4. answers \in Seq([host : Host, ip : Nat]) /\ answers' = Append(answers, a)
    BY <1>1, <2>1, <2>3 DEF GuestTold
  <2>5. /\ answers' \in Seq([host : Host, ip : Nat]) /\ Len(answers') = Len(answers) + 1
        /\ \A i \in 1 .. Len(answers) : answers'[i] = answers[i]
        /\ answers'[Len(answers) + 1] = a /\ Len(answers) \in Nat
    BY <2>4, AppendProperties, LenProperties
  <2>6. ASSUME NEW g, NEW ip, Told(g, ip)
        PROVE  g \in DOMAIN dns'.hostToIp /\ ip = dns'.hostToIp[g] % Octet
    BY <2>2, <2>6 DEF Told
  <2>7. GuestTold'
    <3>1. ASSUME NEW i \in 1 .. Len(answers')
          PROVE  /\ answers'[i].host \in DOMAIN dns'.hostToIp
                 /\ answers'[i].ip = dns'.hostToIp[answers'[i].host] % Octet
      <4>1. CASE i = Len(answers) + 1
        BY <2>2, <2>3, <2>5, <4>1
      <4>2. CASE i # Len(answers) + 1
        <5>1. i \in 1 .. Len(answers)
          BY <2>5, <4>2
        <5> QED
          BY <1>1, <2>5, <2>6, <5>1 DEF GuestTold
      <4> QED
        BY <4>1, <4>2
    <3>2. ASSUME NEW g \in Host, known'[g] # Nothing
          PROVE  g \in DOMAIN dns'.hostToIp /\ known'[g] = dns'.hostToIp[g] % Octet
      BY <1>1, <2>1, <2>6, <3>2 DEF GuestTold
    <3> QED
      BY <1>1, <2>1, <2>5, <3>1, <3>2 DEF GuestTold, Told
  <2>8. PeerOfAsked'
    BY <1>1, <2>1, <2>2 DEF PeerOfAsked
  <2> QED
    BY <1>1, <2>1, <2>2, <2>7, <2>8 DEF DnsInv
<1>3. CASE recvfrom
  <2>1. /\ answers # <<>> /\ known' = [known EXCEPT ![Head(answers).host] = Head(answers).ip]
        /\ answers' = <<>> /\ UNCHANGED <<net, dns, sock, asked>>
    BY <1>3 DEF recvfrom
  <2>2. Told(Head(answers).host, Head(answers).ip)
    <3>1. Head(answers) = answers[1] /\ 1 \in 1 .. Len(answers)
      BY <1>1, <2>1, EmptySeq DEF GuestTold
    <3> QED
      BY <1>1, <3>1 DEF GuestTold
  <2>3. GuestTold'
    BY <1>1, <2>1, <2>2 DEF GuestTold, Told
  <2> QED
    BY <1>1, <2>1, <2>3 DEF DnsInv, DnsMaps, PeerOfAsked
<1>4. ASSUME NEW h \in Host, connect(h)
      PROVE  DnsInv'
  <2>1. /\ known[h] # Nothing /\ UNCHANGED <<net, dns, answers, known>> /\ asked' = h
        /\ \/ net = "tcp" /\ sock' = [sock EXCEPT !.peer = known[h], !.host = reverse(known[h])]
           \/ net = "fetch" /\ sock' = [sock EXCEPT !.peer = known[h]]
    BY <1>4 DEF connect
  <2>2. h \in DOMAIN dns.hostToIp /\ known[h] = dns.hostToIp[h] % Octet /\ dns.hostToIp[h] \in Nat
    BY <1>1, <2>1 DEF GuestTold, DnsMaps, Told
  <2>3. ASSUME dns.hostToIp[h] < Octet
        PROVE  known[h] = dns.hostToIp[h] /\ reverse(known[h]) = h
    <3>1. known[h] = dns.hostToIp[h]
      BY <2>2, <2>3 DEF ConfiguredApart
    <3> QED
      BY <1>1, <2>2, <3>1 DEF DnsMaps, reverse
  <2>4. /\ net = "tcp" => sock'.host = reverse(known[h])
        /\ net # "tcp" => sock'.peer = known[h]
        /\ sock' = [peer |-> sock'.peer, host |-> sock'.host, conn |-> sock'.conn, closed |-> sock'.closed,
                    recvQueue |-> sock'.recvQueue, waiter |-> sock'.waiter, httpBuffer |-> sock'.httpBuffer]
    BY <1>1, <2>1
  <2>5. PeerOfAsked'
    BY <2>1, <2>2, <2>3, <2>4 DEF PeerOfAsked
  <2>6. DnsMaps' /\ GuestTold'
    BY <1>1, <2>1 DEF DnsMaps, GuestTold, Told
  <2> QED
    BY <2>4, <2>5, <2>6 DEF DnsInv
<1>5. ASSUME UNCHANGED <<net, dns, answers, known, asked>>,
             \/ sock' = sock
             \/ \E x : sock' = [sock EXCEPT !.conn = x]
             \/ \E x : sock' = [sock EXCEPT !.closed = x]
             \/ \E x : sock' = [sock EXCEPT !.waiter = x]
             \/ \E x : sock' = [sock EXCEPT !.recvQueue = x]
             \/ \E x : sock' = [sock EXCEPT !.httpBuffer = x]
             \/ \E x, y : sock' = [sock EXCEPT !.httpBuffer = x, !.recvQueue = y]
      PROVE  DnsInv'
  <2>1. /\ sock'.host = sock.host /\ sock'.peer = sock.peer
        /\ sock' = [peer |-> sock'.peer, host |-> sock'.host, conn |-> sock'.conn, closed |-> sock'.closed,
                    recvQueue |-> sock'.recvQueue, waiter |-> sock'.waiter, httpBuffer |-> sock'.httpBuffer]
    BY <1>1, <1>5
  <2>2. DnsMaps' /\ GuestTold' /\ PeerOfAsked'
    BY <1>1, <1>5, <2>1 DEF DnsMaps, GuestTold, Told, PeerOfAsked
  <2> QED
    BY <2>1, <2>2 DEF DnsInv
<1>6. CASE onopen \/ onerror \/ onclose \/ closeSocket
  BY <1>5, <1>6, Zenon DEF onopen, onerror, onclose, closeSocket
<1>7. ASSUME NEW n \in 1 .. MaxRecv, onmessage(n)
      PROVE  DnsInv'
  BY <1>5, <1>7 DEF onmessage
<1>8. ASSUME NEW n \in 1 .. MaxRecv, recv(n)
      PROVE  DnsInv'
  BY <1>5, <1>8, Zenon DEF recv
<1>9. ASSUME NEW blank \in BOOLEAN, send(blank)
      PROVE  DnsInv'
  BY <1>5, <1>9, Zenon DEF send
<1>10. ASSUME NEW ok \in BOOLEAN, NEW n \in 1 .. MaxRecv, exchangeHttp(ok, n)
       PROVE  DnsInv'
  BY <1>5, <1>10, Zenon DEF exchangeHttp
<1>11. CASE UNCHANGED sockVars
  BY <1>5, <1>11 DEF sockVars
<1> QED
  BY <1>2, <1>3, <1>4, <1>6, <1>7, <1>8, <1>9, <1>10, <1>11 DEF SockNext

\* However many names the guest looks up, in whatever order, and how ever often it
\* connects: a name whose number fits in a byte is reached.  The lookups that no
\* longer fit, which VirtualDNS answers with somebody else's address, leave it be.
THEOREM NamesReachTheirHost == ConfiguredApart => (SockSpec => []ReachesNamedHost)
<1> SUFFICES ASSUME ConfiguredApart
             PROVE  SockSpec => []ReachesNamedHost
  OBVIOUS
<1>1. SockInit => DnsInv
  BY DnsInit
<1>2. DnsInv /\ [SockNext]_sockVars => DnsInv'
  BY DnsStep
<1>3. DnsInv => ReachesNamedHost
  BY DEF DnsInv, DnsMaps, PeerOfAsked, ReachesNamedHost, Reached, reverse
<1> QED
  BY <1>1, <1>2, <1>3, PTL DEF SockSpec

-----------------------------------------------------------------------------
(* The byte queue: its loops, for any chunks and any waiters.              *)

\* A concatenation is cut where it was made.
LEMMA CatCut ==
    ASSUME NEW S, NEW s \in Seq(S), NEW t \in Seq(S)
    PROVE  First(Len(s), Cat(s, t)) = s /\ After(Len(s), Cat(s, t)) = t
<1>1. Len(s) \in Nat /\ Len(t) \in Nat
  BY LenProperties
<1>2. /\ Cat(s, t) \in Seq(S) /\ Len(Cat(s, t)) = Len(s) + Len(t)
      /\ \A i \in 1 .. Len(s) + Len(t) : Cat(s, t)[i] = IF i <= Len(s) THEN s[i] ELSE t[i - Len(s)]
  BY CatFacts
<1>3. PICK c \in Seq(S) : c = Cat(s, t)
  BY <1>2
<1>4. First(Len(s), c) = s
  <2>1. First(Len(s), c) = SubSeq(c, 1, Len(s))
    BY <1>1, <1>2, <1>3 DEF First
  <2>2. \A i \in 1 .. Len(s) : c[i] \in S /\ c[i] = s[i]
    BY <1>1, <1>2, <1>3, LenProperties
  <2>3. /\ SubSeq(c, 1, Len(s)) \in Seq(S) /\ Len(SubSeq(c, 1, Len(s))) = Len(s)
        /\ \A i \in 1 .. Len(s) : SubSeq(c, 1, Len(s))[i] = c[i]
    BY <1>1, <1>2, <1>3, <2>2, SubSeqProperties
  <2> QED
    BY <2>1, <2>2, <2>3, SeqEqual
<1>5. After(Len(s), c) = t
  <2>1. /\ After(Len(s), c) \in Seq(S) /\ Len(After(Len(s), c)) = Len(t)
        /\ \A i \in 1 .. Len(t) : After(Len(s), c)[i] = c[Len(s) + i]
    <3>1. /\ After(Len(s), c) \in Seq(S)
          /\ Len(After(Len(s), c)) = IF Len(s) <= Len(c) THEN Len(c) - Len(s) ELSE 0
          /\ \A i \in 1 .. Len(c) - Len(s) : After(Len(s), c)[i] = c[Len(s) + i]
      BY <1>1, FirstAfter
    <3>2. Len(c) - Len(s) = Len(t) /\ Len(s) <= Len(c)
      BY <1>1, <1>2, <1>3
    <3> QED
      BY <3>1, <3>2
  <2>2. \A i \in 1 .. Len(t) : c[Len(s) + i] = t[i]
    BY <1>1, <1>2, <1>3, SMTT(60)
  <2> QED
    BY <2>1, <2>2, SeqEqual
<1> QED
  BY <1>3, <1>4, <1>5

\* The rounds of _take follow each other.
LEMMA TakeRounds ==
    ASSUME NEW cs, Len(cs) \in Nat, NEW n
    PROVE  \E f : /\ f[0] = [left |-> n, out |-> <<>>, chunks |-> cs]
                  /\ \A k \in 1 .. Len(cs) : f[k] = TakeOnce(f[k - 1])
                  /\ TakeLoop(cs, n) = f[Len(cs)]
<1> DEFINE x == [left |-> n, out |-> <<>>, chunks |-> cs]
           Is(f, m) == f = [k \in 0 .. m |-> IF k = 0 THEN x ELSE TakeOnce(f[k - 1])]
           G == {m \in Nat : \E f : Is(f, m)}
           round == CHOOSE f : Is(f, Len(cs))
<1>1. TakeLoop(cs, n) = round[Len(cs)]
  BY Zenon DEF TakeLoop
<1>2. 0 \in G
  <2>1. Is([k \in 0 .. 0 |-> x], 0)
    OBVIOUS
  <2> HIDE DEF Is
  <2> QED
    BY <2>1
<1>3. ASSUME NEW m \in 1 .. Len(cs), m - 1 \in G
      PROVE  m \in G
  <2>1. PICK f : Is(f, m - 1)
    BY <1>3
  <2> DEFINE g == [k \in 0 .. m |-> IF k = m THEN TakeOnce(f[m - 1]) ELSE f[k]]
  <2>2. \A k \in 0 .. m - 1 : f[k] = IF k = 0 THEN x ELSE TakeOnce(f[k - 1])
    BY <2>1
  <2>3. ASSUME NEW k \in 0 .. m
        PROVE  g[k] = IF k = 0 THEN x ELSE TakeOnce(g[k - 1])
    <3> HIDE DEF x
    <3>1. CASE k = 0
      BY <3>1, <2>2
    <3>2. CASE k # 0
      <4>1. k - 1 \in 0 .. m - 1 /\ g[k - 1] = f[k - 1]
        BY <3>2
      <4> QED
        BY <3>2, <4>1, <2>2
    <3> QED
      BY <3>1, <3>2
  <2>4. Is(g, m)
    <3>1. g = [k \in 0 .. m |-> g[k]]
      OBVIOUS
    <3> HIDE DEF g, x
    <3> QED
      BY <3>1, <2>3
  <2> HIDE DEF Is, g
  <2> QED
    BY <2>4, <1>3
<1>4. Len(cs) \in G
  <2> HIDE DEF G
  <2>1. \A k \in 0 + 1 .. Len(cs) : k - 1 \in G => k \in G
    BY <1>3
  <2>2. \A k \in 0 .. Len(cs) : k \in G
    BY <1>2, <2>1, Climbs
  <2> QED
    BY <2>2
<1>5. Is(round, Len(cs))
  <2>1. \E f : Is(f, Len(cs))
    BY <1>4
  <2> HIDE DEF Is
  <2> QED
    BY <2>1, Zenon
<1>6. round[0] = x /\ \A k \in 1 .. Len(cs) : round[k] = TakeOnce(round[k - 1])
  <2> HIDE DEF round, x
  <2> QED
    BY <1>5
<1> HIDE DEF round
<1> QED
  BY <1>1, <1>6

\* What a round of _take has copied and what it has left are what was there.
Copied(t, S, all, n) ==
    /\ t.out \in Seq(S) /\ t.chunks \in Seq(Seq(S)) /\ t.left \in Nat
    /\ Cat(t.out, FlattenSeq(t.chunks)) = all /\ Len(t.out) + t.left = n

LEMMA TakeOnceKeeps ==
    ASSUME NEW S, NEW all, NEW n, NEW t, Copied(t, S, all, n)
    PROVE  /\ Copied(TakeOnce(t), S, all, n)
           /\ t.left = 0 \/ t.chunks = <<>> => TakeOnce(t) = t
           /\ t.left # 0 /\ t.chunks # <<>> =>
                 TakeOnce(t).left = 0 \/ Len(TakeOnce(t).chunks) = Len(t.chunks) - 1
<1>1. CASE t.left = 0 \/ t.chunks = <<>>
  <2>1. TakeOnce(t) = t
    BY <1>1 DEF TakeOnce
  <2> QED
    BY <1>1, <2>1
<1>2. CASE ~(t.left = 0 \/ t.chunks = <<>>)
  <2>1. /\ t.out \in Seq(S) /\ t.chunks \in Seq(Seq(S)) /\ t.left \in Nat
        /\ Cat(t.out, FlattenSeq(t.chunks)) = all /\ Len(t.out) + t.left = n
    BY DEF Copied
  <2>2. PICK q \in Seq(Seq(S)), o \in Seq(S), l \in Nat : q = t.chunks /\ o = t.out /\ l = t.left
    BY <2>1
  <2> DEFINE first == Head(q)
             take == Smaller(Len(first), l)
             rest == IF take = Len(first) THEN <<>> ELSE <<SubSeq(first, take + 1, Len(first))>>
             new == [left |-> l - take, out |-> o \o SubSeq(first, 1, take), chunks |-> rest \o Tail(q)]
  <2>3. TakeOnce(t) = new
    BY <1>2, <2>2 DEF TakeOnce
  <2>4. first \in Seq(S) /\ Tail(q) \in Seq(Seq(S)) /\ Len(Tail(q)) = Len(q) - 1 /\ q = Cat(<<first>>, Tail(q))
    <3>1. q # <<>>
      BY <1>2, <2>2
    <3>2. first \in Seq(S) /\ Tail(q) \in Seq(Seq(S)) /\ Len(Tail(q)) = Len(q) - 1 /\ Len(q) \in Nat \ {0}
      BY <3>1, HeadTailProperties, EmptySeq, LenProperties
    <3>3. q = <<first>> \o Tail(q)
      BY <3>1, HeadTailProperties
    <3> QED
      BY <3>2, <3>3, Zenon DEF Cat
  <2>5. PICK fr \in Seq(S), tl \in Seq(Seq(S)) : fr = first /\ tl = Tail(q)
    BY <2>4
  <2>6. PICK k \in Nat : k = take /\ k <= Len(fr) /\ k <= l /\ (k = Len(fr) \/ k = l)
    <3>1. Len(fr) \in Nat
      BY LenProperties
    <3>2. PICK m \in Nat : m = Len(fr)
      BY <3>1
    <3>3. take = Smaller(m, l)
      BY <2>5, <3>2
    <3>4. Smaller(m, l) \in Nat /\ Smaller(m, l) <= m /\ Smaller(m, l) <= l /\ Smaller(m, l) \in {m, l}
      BY DEF Smaller
    <3> HIDE DEF take
    <3> QED
      BY <3>2, <3>3, <3>4
  <2>7. PICK a \in Seq(S), b \in Seq(S) :
           /\ a = First(k, fr) /\ b = After(k, fr) /\ Cat(a, b) = fr
           /\ a = SubSeq(fr, 1, k) /\ Len(a) = k /\ b = SubSeq(fr, k + 1, Len(fr))
           /\ Len(b) = Len(fr) - k
    <3>1. Len(fr) \in Nat
      BY LenProperties
    <3>2. First(k, fr) = SubSeq(fr, 1, k) /\ After(k, fr) = SubSeq(fr, k + 1, Len(fr))
      BY <2>6, <3>1 DEF First, After
    <3>3. /\ First(k, fr) \in Seq(S) /\ After(k, fr) \in Seq(S) /\ Cat(First(k, fr), After(k, fr)) = fr
          /\ Len(After(k, fr)) = Len(fr) - k
      BY <2>6, <3>1, FirstAfter
    <3>4. Len(First(k, fr)) + Len(After(k, fr)) = Len(fr) /\ Len(First(k, fr)) \in Nat
      BY <3>3, CatFacts, LenProperties
    <3>5. Len(First(k, fr)) = k
      BY <3>1, <3>3, <3>4
    <3> QED
      BY <3>2, <3>3, <3>5
  <2>8. PICK r \in Seq(Seq(S)) : r = rest /\ FlattenSeq(r) = b /\ (k = Len(fr) => r = <<>>)
    <3>1. CASE k = Len(fr)
      <4>1. b = <<>>
        BY <2>7, <3>1, EmptySeq, LenProperties
      <4> QED
        BY <2>5, <2>6, <3>1, <4>1, FlattenEmpty, EmptySeq
    <3>2. CASE k # Len(fr)
      <4>1. rest = <<b>>
        BY <2>5, <2>6, <2>7, <3>2
      <4>2. FlattenSeq(<<b>>) = b /\ <<b>> \in Seq(Seq(S))
        BY FlattenOne
      <4> QED
        BY <4>1, <4>2, <3>2
    <3> QED
      BY <3>1, <3>2
  <2>9. new.left = l - k /\ new.out = Cat(o, a) /\ new.chunks = Cat(r, tl)
    BY <2>5, <2>6, <2>7, <2>8 DEF Cat
  <2> HIDE DEF new, take, rest
  <2>10. /\ Cat(o, a) \in Seq(S) /\ Len(Cat(o, a)) = Len(o) + k
         /\ Cat(r, tl) \in Seq(Seq(S)) /\ Len(Cat(r, tl)) = Len(r) + Len(tl)
    BY <2>7, CatFacts
  <2>11. Cat(Cat(o, a), FlattenSeq(Cat(r, tl))) = all
    <3>1. PICK f \in Seq(S) : f = FlattenSeq(tl)
      BY FlattenType
    <3>2. FlattenSeq(Cat(r, tl)) = Cat(b, f)
      BY <2>8, <3>1, FlattenConcat
    <3>3. FlattenSeq(q) = Cat(fr, f)
      <4>1. <<fr>> \in Seq(Seq(S)) /\ FlattenSeq(<<fr>>) = fr
        BY FlattenOne
      <4> QED
        BY <2>4, <2>5, <3>1, <4>1, FlattenConcat
    <3>4. Cat(Cat(a, b), f) = Cat(a, Cat(b, f)) /\ Cat(b, f) \in Seq(S)
      BY Associates, CatFacts
    <3>5. Cat(Cat(o, a), Cat(b, f)) = Cat(o, Cat(a, Cat(b, f)))
      BY <3>4, Associates
    <3> QED
      BY <2>1, <2>2, <2>7, <3>2, <3>3, <3>4, <3>5, Zenon
  <2>12. Copied(new, S, all, n)
    <3>1. Len(o) \in Nat /\ l - k \in Nat /\ Len(o) + l = n
      BY <2>1, <2>2, <2>6, LenProperties
    <3>2. Len(new.out) + new.left = n
      BY <3>1, <2>9, <2>10
    <3> QED
      BY <3>1, <3>2, <2>9, <2>10, <2>11, Zenon DEF Copied
  <2>13. new.left = 0 \/ Len(new.chunks) = Len(t.chunks) - 1
    <3>1. CASE k = l
      BY <3>1, <2>9
    <3>2. CASE k = Len(fr)
      <4>1. r = <<>> /\ Len(Cat(r, tl)) = Len(tl)
        BY <3>2, <2>8, CatFacts
      <4> QED
        BY <4>1, <2>2, <2>4, <2>5, <2>9
    <3> QED
      BY <2>6, <3>1, <3>2
  <2> QED
    BY <1>2, <2>3, <2>12, <2>13
<1> QED
  BY <1>1, <1>2

\* _take returns the first n bytes and leaves the others.
LEMMA TakeLoopTakes ==
    ASSUME NEW S, NEW cs \in Seq(Seq(S)), NEW n \in Nat, n <= Len(FlattenSeq(cs))
    PROVE  /\ TakeLoop(cs, n).chunks \in Seq(Seq(S))
           /\ TakeLoop(cs, n).out = First(n, FlattenSeq(cs))
           /\ FlattenSeq(TakeLoop(cs, n).chunks) = After(n, FlattenSeq(cs))
<1>1. Len(cs) \in Nat
  BY LenProperties
<1>2. PICK all \in Seq(S) : all = FlattenSeq(cs)
  BY FlattenType
<1>3. PICK f : /\ f[0] = [left |-> n, out |-> <<>>, chunks |-> cs]
               /\ \A k \in 1 .. Len(cs) : f[k] = TakeOnce(f[k - 1])
               /\ TakeLoop(cs, n) = f[Len(cs)]
  BY <1>1, TakeRounds
<1> DEFINE Done(k) == f[k].left = 0 \/ Len(f[k].chunks) = Len(cs) - k
           G == {k \in Nat : Copied(f[k], S, all, n) /\ Done(k)}
<1>4. 0 \in G
  <2>1. f[0].left = n /\ f[0].out = <<>> /\ f[0].chunks = cs
    BY <1>3
  <2>2. Cat(<<>>, all) = all /\ Len(<<>>) = 0 /\ <<>> \in Seq(S)
    BY CatFacts, EmptySeq
  <2>3. Len(f[0].out) + f[0].left = n
    BY <2>1, <2>2
  <2>4. Copied(f[0], S, all, n)
    BY <2>1, <2>2, <2>3, <1>2, Zenon DEF Copied
  <2>5. Done(0)
    BY <1>1, <2>1
  <2> QED
    BY <2>4, <2>5
<1>5. ASSUME NEW k \in 0 + 1 .. Len(cs), k - 1 \in G
      PROVE  k \in G
  <2>1. k \in Nat /\ k - 1 \in Nat /\ f[k] = TakeOnce(f[k - 1]) /\ Copied(f[k - 1], S, all, n)
    BY <1>1, <1>3, <1>5
  <2>2. /\ Copied(f[k], S, all, n)
        /\ f[k - 1].left = 0 \/ f[k - 1].chunks = <<>> => f[k] = f[k - 1]
        /\ f[k - 1].left # 0 /\ f[k - 1].chunks # <<>> =>
              f[k].left = 0 \/ Len(f[k].chunks) = Len(f[k - 1].chunks) - 1
    <3>1. \A t : Copied(t, S, all, n) =>
             /\ Copied(TakeOnce(t), S, all, n)
             /\ t.left = 0 \/ t.chunks = <<>> => TakeOnce(t) = t
             /\ t.left # 0 /\ t.chunks # <<>> =>
                   TakeOnce(t).left = 0 \/ Len(TakeOnce(t).chunks) = Len(t.chunks) - 1
      BY TakeOnceKeeps, Zenon
    <3> QED
      BY <2>1, <3>1, Zenon
  <2>3. Done(k)
    <3>1. CASE f[k - 1].left = 0
      BY <3>1, <2>2
    <3>2. CASE f[k - 1].left # 0
      <4>1. Len(f[k - 1].chunks) = Len(cs) - (k - 1)
        BY <1>5, <3>2
      <4>2. f[k - 1].chunks # <<>>
        BY <1>1, <2>1, <4>1, EmptySeq
      <4> QED
        BY <1>1, <2>1, <2>2, <3>2, <4>1, <4>2
    <3> QED
      BY <3>1, <3>2
  <2> HIDE DEF Done
  <2> QED
    BY <2>1, <2>2, <2>3
<1>6. Copied(f[Len(cs)], S, all, n) /\ Done(Len(cs))
  <2>1. \A k \in 0 .. Len(cs) : k \in G
    <3> HIDE DEF G
    <3> QED
      BY <1>1, <1>4, <1>5, Climbs
  <2>2. Len(cs) \in G
    BY <1>1, <2>1
  <2> HIDE DEF Done
  <2> QED
    BY <2>2
<1>7. PICK o \in Seq(S), c \in Seq(Seq(S)), l \in Nat :
         /\ o = f[Len(cs)].out /\ c = f[Len(cs)].chunks /\ l = f[Len(cs)].left
         /\ Cat(o, FlattenSeq(c)) = all /\ Len(o) + l = n
  BY <1>6 DEF Copied
<1>8. PICK t \in Seq(S) : t = FlattenSeq(c)
  BY FlattenType
<1>9. Len(o) = n
  <2>1. CASE l = 0
    BY <2>1, <1>7, LenProperties
  <2>2. CASE l # 0
    <3>1. Len(c) = 0
      BY <1>1, <1>6, <1>7, <2>2
    <3>2. c = <<>> /\ t = <<>>
      BY <1>8, <3>1, EmptySeq, FlattenEmpty
    <3>3. o = all
      BY <1>7, <1>8, <3>2, CatFacts
    <3> QED
      BY <1>2, <1>7, <3>3, LenProperties
  <2> QED
    BY <2>1, <2>2
<1>10. First(n, all) = o /\ After(n, all) = t
  BY <1>7, <1>8, <1>9, CatCut
<1> QED
  BY <1>2, <1>3, <1>7, <1>8, <1>10, Zenon

\* What comes after m of the bytes after n, and the first m of them.
LEMMA AfterAfter ==
    ASSUME NEW S, NEW s \in Seq(S), NEW n \in 0 .. Len(s), NEW m \in 0 .. Len(s) - n
    PROVE  /\ After(n, s) \in Seq(S) /\ Len(After(n, s)) = Len(s) - n
           /\ After(m, After(n, s)) = After(n + m, s)
           /\ First(m, After(n, s)) = SubSeq(s, n + 1, n + m)
           /\ SubSeq(s, n + 1, n + m) \in Seq(S)
<1>1. Len(s) \in Nat /\ n \in Nat /\ m \in Nat /\ n + m \in Nat /\ n + m <= Len(s)
  BY LenProperties
<1>2. PICK a \in Seq(S) : /\ a = After(n, s) /\ Len(a) = Len(s) - n
                          /\ \A i \in 1 .. Len(s) - n : a[i] = s[n + i]
  <2>1. /\ After(n, s) \in Seq(S)
        /\ Len(After(n, s)) = IF n <= Len(s) THEN Len(s) - n ELSE 0
        /\ \A i \in 1 .. Len(s) - n : After(n, s)[i] = s[n + i]
    BY <1>1, FirstAfter
  <2>2. n <= Len(s)
    BY <1>1
  <2> QED
    BY <2>1, <2>2
<1>3. After(m, a) = After(n + m, s)
  <2>1. /\ After(m, a) \in Seq(S)
        /\ Len(After(m, a)) = IF m <= Len(a) THEN Len(a) - m ELSE 0
        /\ \A i \in 1 .. Len(a) - m : After(m, a)[i] = a[m + i]
    <3>1. \A k \in Nat :
             /\ After(k, a) \in Seq(S)
             /\ Len(After(k, a)) = IF k <= Len(a) THEN Len(a) - k ELSE 0
             /\ \A i \in 1 .. Len(a) - k : After(k, a)[i] = a[k + i]
      BY FirstAfter, Zenon
    <3> QED
      BY <1>1, <3>1
  <2>2. /\ After(n + m, s) \in Seq(S)
        /\ Len(After(n + m, s)) = IF n + m <= Len(s) THEN Len(s) - (n + m) ELSE 0
        /\ \A i \in 1 .. Len(s) - (n + m) : After(n + m, s)[i] = s[n + m + i]
    BY <1>1, FirstAfter
  <2>3. Len(a) - m = Len(s) - (n + m) /\ m <= Len(a)
    BY <1>1, <1>2
  <2>4. \A i \in 1 .. Len(a) - m : After(m, a)[i] = After(n + m, s)[i]
    <3>1. ASSUME NEW i \in 1 .. Len(a) - m
          PROVE  After(m, a)[i] = After(n + m, s)[i]
      <4>1. m + i \in 1 .. Len(s) - n /\ n + (m + i) = n + m + i /\ i \in 1 .. Len(s) - (n + m)
        BY <1>1, <1>2, <2>3
      <4>2. a[m + i] = s[n + (m + i)]
        BY <1>2, <4>1
      <4> QED
        BY <2>1, <2>2, <4>1, <4>2
    <3> QED
      BY <3>1
  <2>5. Len(After(m, a)) = Len(After(n + m, s)) /\ Len(After(m, a)) = Len(a) - m
    BY <1>1, <2>1, <2>2, <2>3
  <2> QED
    BY <2>1, <2>2, <2>4, <2>5, SeqEqual
<1>4. First(m, a) = SubSeq(s, n + 1, n + m) /\ SubSeq(s, n + 1, n + m) \in Seq(S)
  <2>1. First(m, a) = SubSeq(a, 1, m)
    <3>1. Len(a) \in Nat /\ m <= Len(a)
      BY <1>1, <1>2
    <3> QED
      BY <1>1, <3>1 DEF First
  <2>2. \A i \in 1 .. m : a[i] \in S
    BY <1>1, <1>2, LenProperties
  <2>3. /\ SubSeq(a, 1, m) \in Seq(S) /\ Len(SubSeq(a, 1, m)) = m
        /\ \A i \in 1 .. m : SubSeq(a, 1, m)[i] = a[i]
    BY <1>1, <2>2, SubSeqProperties
  <2>4. \A i \in n + 1 .. n + m : s[i] \in S
    BY <1>1, LenProperties
  <2>5. /\ SubSeq(s, n + 1, n + m) \in Seq(S) /\ Len(SubSeq(s, n + 1, n + m)) = m
        /\ \A i \in 1 .. m : SubSeq(s, n + 1, n + m)[i] = s[n + i]
    <3>1. \A i \in n + 1 .. n + m : i \in 1 .. Len(s)
      BY <1>1
    <3>2. /\ SubSeq(s, n + 1, n + m) \in Seq(S)
          /\ Len(SubSeq(s, n + 1, n + m)) = IF n + 1 <= n + m THEN (n + m) - (n + 1) + 1 ELSE 0
          /\ \A i \in 1 .. (n + m) - (n + 1) + 1 : SubSeq(s, n + 1, n + m)[i] = s[(n + 1) + i - 1]
      BY <1>1, <2>4, SubSeqProperties
    <3>3. (n + m) - (n + 1) + 1 = m /\ \A i \in Nat : (n + 1) + i - 1 = n + i
      BY <1>1
    <3> QED
      BY <1>1, <3>2, <3>3
  <2>6. \A i \in 1 .. m : a[i] = s[n + i]
    BY <1>1, <1>2
  <2> QED
    BY <2>1, <2>3, <2>5, <2>6, SeqEqual
<1> QED
  BY <1>2, <1>3, <1>4

\* The rounds of _flush follow each other, and the last gives its result.
FlushesBy(f, q, n, c) ==
    f[0] = q /\ (\A k \in 1 .. n : f[k] = FlushOnce(f[k - 1], c)) /\ Flush(q, c) = f[n]

LEMMA FlushRounds ==
    ASSUME NEW q, Len(q.readers) \in Nat, NEW c
    PROVE  \E f : FlushesBy(f, q, Len(q.readers), c)
<1> DEFINE Is(f, m) == f = [k \in 0 .. m |-> IF k = 0 THEN q ELSE FlushOnce(f[k - 1], c)]
           G == {m \in Nat : \E f : Is(f, m)}
           round == CHOOSE f : Is(f, Len(q.readers))
<1>1. Flush(q, c) = round[Len(q.readers)]
  BY Zenon DEF Flush
<1>2. 0 \in G
  <2>1. Is([k \in 0 .. 0 |-> q], 0)
    OBVIOUS
  <2> HIDE DEF Is
  <2> QED
    BY <2>1
<1>3. ASSUME NEW m \in 0 + 1 .. Len(q.readers), m - 1 \in G
      PROVE  m \in G
  <2>1. PICK f : Is(f, m - 1)
    BY <1>3
  <2> DEFINE g == [k \in 0 .. m |-> IF k = m THEN FlushOnce(f[m - 1], c) ELSE f[k]]
  <2>2. \A k \in 0 .. m - 1 : f[k] = IF k = 0 THEN q ELSE FlushOnce(f[k - 1], c)
    BY <2>1
  <2>3. ASSUME NEW k \in 0 .. m
        PROVE  g[k] = IF k = 0 THEN q ELSE FlushOnce(g[k - 1], c)
    <3>1. CASE k = 0
      BY <3>1, <2>2
    <3>2. CASE k # 0
      <4>1. k - 1 \in 0 .. m - 1 /\ g[k - 1] = f[k - 1]
        BY <3>2
      <4> QED
        BY <3>2, <4>1, <2>2
    <3> QED
      BY <3>1, <3>2
  <2>4. Is(g, m)
    <3>1. g = [k \in 0 .. m |-> g[k]]
      OBVIOUS
    <3> HIDE DEF g
    <3> QED
      BY <3>1, <2>3
  <2> HIDE DEF Is, g
  <2> QED
    BY <2>4, <1>3
<1>4. Len(q.readers) \in G
  <2> HIDE DEF G
  <2>1. \A k \in 0 .. Len(q.readers) : k \in G
    BY <1>2, <1>3, Climbs
  <2> QED
    BY <2>1
<1>5. Is(round, Len(q.readers))
  <2>1. \E f : Is(f, Len(q.readers))
    BY <1>4
  <2> HIDE DEF Is
  <2> QED
    BY <2>1, Zenon
<1>6. round[0] = q /\ \A k \in 1 .. Len(q.readers) : round[k] = FlushOnce(round[k - 1], c)
  <2> HIDE DEF round
  <2> QED
    BY <1>5
<1> HIDE DEF round
<1> QED
  BY <1>1, <1>6, Zenon DEF FlushesBy

Results == [Reader -> Seq(Byte) \cup {Waiting}]
Waiter == [reader : Reader, count : 1 .. MaxRead]

\* _take gives reader r the first n of all the bytes of the queue.
Gives(cs, l, w, g, r, count, n, new, all) ==
    \E ds \in Seq(Seq(Byte)) :
       Take(Queue(cs, l, w, g), r, count) = Queue(ds, l - n, w, new) /\ FlattenSeq(ds) = After(n, all)

LEMMA TakeGives ==
    ASSUME NEW cs \in Seq(Seq(Byte)), NEW all \in Seq(Byte), all = FlattenSeq(cs),
           NEW l \in Nat, l = Len(all), NEW count \in Nat, NEW n \in Nat, n = Smaller(count, l),
           NEW w, NEW g, NEW r, NEW new, new = [g EXCEPT ![r] = First(n, all)]
    PROVE  Gives(cs, l, w, g, r, count, n, new, all)
<1>1. n <= l
  BY DEF Smaller
<1>2. PICK ds \in Seq(Seq(Byte)) :
         ds = TakeLoop(cs, n).chunks /\ TakeLoop(cs, n).out = First(n, all) /\ FlattenSeq(ds) = After(n, all)
  BY <1>1, TakeLoopTakes
<1> DEFINE q == Queue(cs, l, w, g)
<1>3. q.chunks = cs /\ q.length = l /\ q.readers = w /\ q.result = g
  BY DEF Queue
<1>4. Take(q, r, count)
        = Queue(TakeLoop(q.chunks, Smaller(count, q.length)).chunks, q.length - Smaller(count, q.length),
                q.readers, [q.result EXCEPT ![r] = TakeLoop(q.chunks, Smaller(count, q.length)).out])
  BY Zenon DEF Take
<1> HIDE DEF q
<1>5. Take(q, r, count) = Queue(ds, l - n, w, new)
  BY <1>2, <1>3, <1>4, Zenon
<1> QED
  BY <1>2, <1>5, Zenon DEF q, Gives

\* Nobody waits twice.
Different(w) == \A i, k \in 1 .. Len(w) : i # k => w[i].reader # w[k].reader

\* Between the queue q, whose bytes are all, and the queue p, j readers were
\* served with the bytes between the cuts.
Cuts(w, all, j, cut) ==
    /\ j \in 0 .. Len(w) /\ cut \in [0 .. j -> 0 .. Len(all)] /\ cut[0] = 0
    /\ \A i \in 1 .. j : cut[i - 1] < Len(all) /\ cut[i] = Smaller(cut[i - 1] + w[i].count, Len(all))

Dealt(w, g, p, all, j, cut) ==
    /\ Cuts(w, all, j, cut)
    /\ p = Queue(p.chunks, p.length, p.readers, p.result)
    /\ p.chunks \in Seq(Seq(Byte)) /\ FlattenSeq(p.chunks) = After(cut[j], all)
    /\ p.length = Len(all) - cut[j] /\ p.readers = After(j, w) /\ p.result \in Results
    /\ \A i \in 1 .. j : p.result[w[i].reader] = SubSeq(all, cut[i - 1] + 1, cut[i])
    /\ \A r \in Reader : (\A i \in 1 .. j : w[i].reader # r) => p.result[r] = g[r]

\* The cuts of one reader more.
LEMMA NextCut ==
    ASSUME NEW w \in Seq(Waiter), NEW all \in Seq(Byte), NEW j \in Nat, NEW cut, Cuts(w, all, j, cut),
           j < Len(w), cut[j] < Len(all), NEW n \in Nat,
           n = Smaller(w[j + 1].count, Len(all) - cut[j])
    PROVE  \E new : /\ Cuts(w, all, j + 1, new) /\ new[j + 1] = cut[j] + n
                    /\ \A i \in 0 .. j : new[i] = cut[i]
<1>1. Len(w) \in Nat /\ Len(all) \in Nat
  BY LenProperties
<1>2. PICK c \in Nat : c = cut[j] /\ c < Len(all)
  BY <1>1 DEF Cuts
<1>3. PICK m \in Nat : m = w[j + 1].count
  <2>1. j + 1 \in 1 .. Len(w)
    BY <1>1
  <2>2. w[j + 1] \in Waiter
    BY <2>1, LenProperties
  <2> QED
    BY <2>2, QueueAssumption DEF Waiter
<1>4. c + n \in 0 .. Len(all) /\ c + n = Smaller(c + m, Len(all))
  BY <1>1, <1>2, <1>3, SMTT(60) DEF Smaller
<1> DEFINE new == [i \in 0 .. j + 1 |-> IF i = j + 1 THEN c + n ELSE cut[i]]
<1>5. new[j + 1] = c + n /\ \A i \in 0 .. j : new[i] = cut[i]
  OBVIOUS
<1>6. new \in [0 .. j + 1 -> 0 .. Len(all)] /\ new[0] = 0
  BY <1>1, <1>4 DEF Cuts
<1>7. ASSUME NEW i \in 1 .. j + 1
      PROVE  new[i - 1] < Len(all) /\ new[i] = Smaller(new[i - 1] + w[i].count, Len(all))
  <2> HIDE DEF new
  <2>1. CASE i = j + 1
    <3>1. i - 1 = j /\ j \in 0 .. j
      BY <2>1
    <3>2. new[i - 1] = c /\ new[i] = c + n /\ w[i].count = m
      BY <2>1, <3>1, <1>2, <1>3, <1>5
    <3> QED
      BY <3>2, <1>2, <1>4
  <2>2. CASE i # j + 1
    <3>1. i \in 1 .. j /\ i \in 0 .. j /\ i - 1 \in 0 .. j
      BY <2>2
    <3>2. new[i - 1] = cut[i - 1] /\ new[i] = cut[i]
      BY <3>1, <1>5
    <3> QED
      BY <3>1, <3>2 DEF Cuts
  <2> QED
    BY <2>1, <2>2
<1>8. Cuts(w, all, j + 1, new)
  <2> HIDE DEF new
  <2>1. j + 1 \in 0 .. Len(w)
    BY <1>1
  <2> QED
    BY <2>1, <1>6, <1>7 DEF Cuts
<1> HIDE DEF new
<1> QED
  BY <1>2, <1>5, <1>8

\* A round of _flush while the queue is open serves one reader more, if there
\* are bytes and readers.
LEMMA FlushOnceDeals ==
    ASSUME NEW w \in Seq(Waiter), Different(w), NEW g \in Results, NEW all \in Seq(Byte),
           NEW p, NEW j \in Nat, NEW cut, Dealt(w, g, p, all, j, cut)
    PROVE  /\ j = Len(w) \/ cut[j] = Len(all) => FlushOnce(p, FALSE) = p
           /\ j < Len(w) /\ cut[j] # Len(all) =>
                 \E new : Dealt(w, g, FlushOnce(p, FALSE), all, j + 1, new)
<1>1. Len(w) \in Nat /\ Len(all) \in Nat
  BY LenProperties
<1>2. /\ Cuts(w, all, j, cut)
      /\ p = Queue(p.chunks, p.length, p.readers, p.result)
      /\ p.chunks \in Seq(Seq(Byte)) /\ FlattenSeq(p.chunks) = After(cut[j], all)
      /\ p.length = Len(all) - cut[j] /\ p.readers = After(j, w) /\ p.result \in Results
      /\ \A i \in 1 .. j : p.result[w[i].reader] = SubSeq(all, cut[i - 1] + 1, cut[i])
      /\ \A r \in Reader : (\A i \in 1 .. j : w[i].reader # r) => p.result[r] = g[r]
  BY Zenon DEF Dealt
<1>3. PICK c \in 0 .. Len(all) : c = cut[j]
  BY <1>2 DEF Cuts
<1>4. j <= Len(w) /\ j \in 0 .. Len(w)
  BY <1>2 DEF Cuts
<1>5. /\ After(j, w) \in Seq(Waiter) /\ Len(After(j, w)) = Len(w) - j
      /\ \A i \in 1 .. Len(w) - j : After(j, w)[i] = w[j + i]
  <2>1. /\ After(j, w) \in Seq(Waiter)
        /\ Len(After(j, w)) = IF j <= Len(w) THEN Len(w) - j ELSE 0
        /\ \A i \in 1 .. Len(w) - j : After(j, w)[i] = w[j + i]
    BY FirstAfter, Zenon
  <2> QED
    BY <1>4, <2>1
<1>6. CASE j = Len(w) \/ cut[j] = Len(all)
  <2>1. p.readers = <<>> \/ p.length = 0
    <3>1. CASE j = Len(w)
      <4>1. Len(After(j, w)) = 0
        BY <1>1, <1>5, <3>1
      <4> QED
        BY <1>2, <1>5, <4>1, EmptySeq
    <3>2. CASE cut[j] = Len(all)
      BY <1>1, <1>2, <3>2
    <3> QED
      BY <1>6, <3>1, <3>2
  <2>2. FlushOnce(p, FALSE) = p
    BY <2>1 DEF FlushOnce
  <2>3. ~(j < Len(w) /\ cut[j] # Len(all))
    BY <1>1, <1>6
  <2> QED
    BY <2>2, <2>3
<1>7. CASE ~(j = Len(w) \/ cut[j] = Len(all))
  <2>1. j < Len(w) /\ c < Len(all)
    BY <1>1, <1>3, <1>4, <1>7
  <2>2. PICK v \in Waiter : v = w[j + 1] /\ v.reader \in Reader /\ v.count \in Nat /\ v.count > 0
    <3>1. j + 1 \in 1 .. Len(w)
      BY <1>1, <2>1
    <3>2. w[j + 1] \in Waiter
      BY <3>1, LenProperties
    <3> QED
      BY <3>2, QueueAssumption DEF Waiter
  <2>3. p.readers # <<>> /\ Head(p.readers) = v /\ Tail(p.readers) = After(j + 1, w)
    <3>1. PICK a \in Seq(Waiter) : a = After(j, w) /\ Len(a) = Len(w) - j /\ a[1] = w[j + 1]
      <4>1. 1 \in 1 .. Len(w) - j
        BY <1>1, <2>1
      <4> QED
        BY <1>5, <4>1
    <3>2. a # <<>>
      BY <1>1, <2>1, <3>1, EmptySeq
    <3>3. Head(a) = a[1] /\ Tail(a) = SubSeq(a, 2, Len(a))
      BY <3>2
    <3>4. Tail(a) = After(1, a)
      BY <3>3 DEF After
    <3>5. After(1, After(j, w)) = After(j + 1, w)
      BY <1>1, <1>4, <2>1, AfterAfter
    <3> QED
      BY <1>2, <2>2, <3>1, <3>2, <3>3, <3>4, <3>5
  <2>4. PICK l \in Nat : l = Len(all) - c /\ l > 0 /\ p.length = l
    BY <1>1, <1>2, <1>3, <2>1
  <2>5. PICK n \in Nat : n = Smaller(v.count, l) /\ n <= l
    <3>1. PICK m \in Nat : m = v.count
      BY <2>2
    <3> QED
      BY <3>1, <2>4 DEF Smaller
  <2>6. /\ Len(After(c, all)) = l /\ After(n, After(c, all)) = After(c + n, all)
        /\ First(n, After(c, all)) = SubSeq(all, c + 1, c + n) /\ SubSeq(all, c + 1, c + n) \in Seq(Byte)
    <3>1. n \in 0 .. Len(all) - c
      BY <1>1, <1>3, <2>4, <2>5
    <3> QED
      BY <2>4, <3>1, AfterAfter
  <2>7. FlushOnce(p, FALSE) = Take(Queue(p.chunks, l, After(j + 1, w), p.result), v.reader, v.count)
    <3>1. ~(p.readers = <<>> \/ (p.length = 0 /\ ~FALSE)) /\ p.length > 0
      BY <2>3, <2>4
    <3>2. FlushOnce(p, FALSE) = Take(Queue(p.chunks, p.length, Tail(p.readers), p.result),
                                     Head(p.readers).reader, Head(p.readers).count)
      BY <3>1, Zenon DEF FlushOnce
    <3> QED
      BY <2>3, <2>4, <3>2
  <2>8. PICK ds \in Seq(Seq(Byte)) :
           /\ FlushOnce(p, FALSE) = Queue(ds, l - n, After(j + 1, w),
                                          [p.result EXCEPT ![v.reader] = SubSeq(all, c + 1, c + n)])
           /\ FlattenSeq(ds) = After(c + n, all)
    <3>1. PICK cs \in Seq(Seq(Byte)), b \in Seq(Byte), ct \in Nat :
             cs = p.chunks /\ b = After(c, all) /\ b = FlattenSeq(cs) /\ l = Len(b) /\ ct = v.count
      <4>1. After(c, all) \in Seq(Byte)
        BY <1>1, <1>3, FirstAfter
      <4> QED
        BY <1>2, <1>3, <2>2, <2>6, <4>1
    <3>2. PICK u, h, r, y : /\ u = After(j + 1, w) /\ h = p.result /\ r = v.reader
                            /\ y = [h EXCEPT ![r] = First(n, b)]
      BY Zenon
    <3>3. n = Smaller(ct, l)
      BY <2>5, <3>1
    <3>4. Gives(cs, l, u, h, r, ct, n, y, b)
      BY <3>1, <3>2, <3>3, TakeGives, Zenon
    <3>5. PICK ds \in Seq(Seq(Byte)) :
             Take(Queue(cs, l, u, h), r, ct) = Queue(ds, l - n, u, y) /\ FlattenSeq(ds) = After(n, b)
      BY <3>4, Zenon DEF Gives
    <3>6. y = [p.result EXCEPT ![v.reader] = SubSeq(all, c + 1, c + n)]
      BY <2>6, <3>1, <3>2, Zenon
    <3>7. FlushOnce(p, FALSE) = Queue(ds, l - n, u, y) /\ FlattenSeq(ds) = After(c + n, all)
      BY <2>6, <2>7, <3>1, <3>2, <3>5, Zenon
    <3> QED
      BY <3>2, <3>6, <3>7, Zenon
  <2>9. PICK new : /\ Cuts(w, all, j + 1, new) /\ new[j + 1] = c + n
                   /\ \A i \in 0 .. j : new[i] = cut[i]
    <3>1. cut[j] < Len(all) /\ n = Smaller(w[j + 1].count, Len(all) - cut[j])
      BY <1>3, <2>1, <2>2, <2>4, <2>5
    <3>2. \E new : /\ Cuts(w, all, j + 1, new) /\ new[j + 1] = cut[j] + n
                   /\ \A i \in 0 .. j : new[i] = cut[i]
      <4>1. Cuts(w, all, j, cut) /\ j < Len(w)
        BY <1>2, <2>1
      <4> QED
        BY <3>1, <4>1, NextCut
    <3> QED
      BY <1>3, <3>2
  <2>10. PICK x : x = FlushOnce(p, FALSE)
    OBVIOUS
  <2>11. /\ x = Queue(x.chunks, x.length, x.readers, x.result)
         /\ x.chunks = ds /\ x.length = l - n /\ x.readers = After(j + 1, w)
         /\ x.result = [p.result EXCEPT ![v.reader] = SubSeq(all, c + 1, c + n)]
    <3>1. PICK d, h, u, y : /\ d = ds /\ h = l - n /\ u = After(j + 1, w)
                            /\ y = [p.result EXCEPT ![v.reader] = SubSeq(all, c + 1, c + n)]
      BY Zenon
    <3>2. x = Queue(d, h, u, y)
      BY <2>8, <2>10, <3>1, Zenon
    <3>3. x.chunks = d /\ x.length = h /\ x.readers = u /\ x.result = y
      BY <3>2 DEF Queue
    <3> QED
      BY <3>1, <3>2, <3>3, Zenon
  <2>12. l - n = Len(all) - (c + n)
    BY <1>1, <1>3, <2>4
  <2>13. x.result \in Results
    BY <1>2, <2>2, <2>6, <2>11 DEF Results
  <2>14. ASSUME NEW r \in Reader
         PROVE  x.result[r] = IF r = v.reader THEN SubSeq(all, c + 1, c + n) ELSE p.result[r]
    BY <1>2, <2>11 DEF Results
  <2>15. ASSUME NEW i \in 1 .. j + 1
         PROVE  x.result[w[i].reader] = SubSeq(all, new[i - 1] + 1, new[i])
    <3>1. CASE i = j + 1
      <4>1. i - 1 = j /\ j \in 0 .. j
        BY <3>1
      <4>2. new[i - 1] = c /\ new[i] = c + n /\ w[i].reader = v.reader
        BY <1>3, <2>2, <2>9, <3>1, <4>1
      <4> QED
        BY <2>2, <2>14, <4>2
    <3>2. CASE i # j + 1
      <4>1. i \in 1 .. j /\ i \in 0 .. j /\ i - 1 \in 0 .. j /\ i \in 1 .. Len(w) /\ j + 1 \in 1 .. Len(w)
        BY <1>1, <2>1, <3>2
      <4>2. w[i].reader # v.reader
        BY <2>2, <3>2, <4>1 DEF Different
      <4>3. w[i].reader \in Reader
        <5>1. w[i] \in Waiter
          BY <4>1, LenProperties
        <5> QED
          BY <5>1 DEF Waiter
      <4>4. new[i - 1] = cut[i - 1] /\ new[i] = cut[i]
        BY <2>9, <4>1
      <4>5. p.result[w[i].reader] = SubSeq(all, cut[i - 1] + 1, cut[i])
        BY <1>2, <4>1
      <4> QED
        BY <2>14, <4>2, <4>3, <4>4, <4>5
    <3> QED
      BY <3>1, <3>2
  <2>16. ASSUME NEW r \in Reader, \A i \in 1 .. j + 1 : w[i].reader # r
         PROVE  x.result[r] = g[r]
    <3>1. \A i \in 1 .. j : w[i].reader # r
      BY <2>16
    <3>2. r # v.reader
      <4>1. j + 1 \in 1 .. j + 1
        OBVIOUS
      <4> QED
        BY <2>2, <2>16, <4>1
    <3> QED
      BY <1>2, <2>14, <3>1, <3>2
  <2>17. Dealt(w, g, x, all, j + 1, new)
    <3>1. x.chunks \in Seq(Seq(Byte)) /\ FlattenSeq(x.chunks) = After(new[j + 1], all)
      BY <2>8, <2>9, <2>11
    <3>2. x.length = Len(all) - new[j + 1]
      BY <2>9, <2>11, <2>12
    <3> QED
      BY <2>9, <2>11, <2>13, <2>15, <2>16, <3>1, <3>2, Zenon DEF Dealt
  <2> QED
    BY <1>7, <2>10, <2>17
<1> QED
  BY <1>6, <1>7

\* The whole of _flush on an open queue: it stops when nobody waits or no byte is
\* left.
DealsOut(w, g, p, all) ==
    \E j \in Nat : \E cut : Dealt(w, g, p, all, j, cut) /\ (j = Len(w) \/ cut[j] = Len(all))

LEMMA FlushDeals ==
    ASSUME NEW w \in Seq(Waiter), Different(w), NEW g \in Results, NEW cs \in Seq(Seq(Byte)),
           NEW all \in Seq(Byte), all = FlattenSeq(cs), NEW l \in Nat, l = Len(all)
    PROVE  DealsOut(w, g, Flush(Queue(cs, l, w, g), FALSE), all)
<1>1. Len(w) \in Nat
  BY LenProperties
<1>0. PICK q : q = Queue(cs, l, w, g)
  OBVIOUS
<1>2. q = Queue(cs, l, w, g) /\ q.readers = w /\ q.chunks = cs /\ q.length = l /\ q.result = g
  BY <1>0 DEF Queue
<1>3. PICK f : /\ f[0] = q
               /\ \A k \in 1 .. Len(w) : f[k] = FlushOnce(f[k - 1], FALSE)
               /\ Flush(q, FALSE) = f[Len(w)]
  <2>1. Len(q.readers) \in Nat
    BY <1>1, <1>2
  <2>2. PICK f : FlushesBy(f, q, Len(q.readers), FALSE)
    BY <2>1, FlushRounds, Zenon
  <2> QED
    BY <1>2, <2>2, Zenon DEF FlushesBy
<1> DEFINE Stops(k, j, cut) == j = k \/ j = Len(w) \/ cut[j] = Len(all)
           Served(k, j) == \E cut : Dealt(w, g, f[k], all, j, cut) /\ Stops(k, j, cut)
           G == {k \in Nat : \E j \in Nat : Served(k, j)}
<1>4. 0 \in G
  <2> DEFINE cut == [i \in 0 .. 0 |-> 0]
  <2>1. Cuts(w, all, 0, cut)
    BY <1>1 DEF Cuts
  <2>2. After(0, w) = w /\ After(0, all) = all
    <3>1. /\ Cat(First(0, w), After(0, w)) = w /\ Len(After(0, w)) = Len(w) - 0
          /\ Cat(First(0, all), After(0, all)) = all
      BY <1>1, FirstAfter
    <3>2. First(0, w) = <<>> /\ First(0, all) = <<>>
      <4>1. SubSeq(w, 1, 0) = <<>> /\ SubSeq(all, 1, 0) = <<>>
        BY SubSeqEmpty
      <4>2. (IF 0 < Len(w) THEN 0 ELSE Len(w)) = 0 /\ (IF 0 < Len(all) THEN 0 ELSE Len(all)) = 0
        BY <1>1
      <4> QED
        BY <4>1, <4>2 DEF First
    <3>3. After(0, w) \in Seq(Waiter) /\ After(0, all) \in Seq(Byte)
      BY FirstAfter
    <3> QED
      BY <3>1, <3>2, <3>3, CatFacts
  <2>3. cut[0] = 0
    OBVIOUS
  <2>4. q.length = Len(all) - cut[0]
    BY <1>2, <2>3
  <2>5. \A i : i \notin 1 .. 0
    OBVIOUS
  <2> HIDE DEF cut
  <2>6. Dealt(w, g, q, all, 0, cut)
    BY <1>2, <2>1, <2>2, <2>3, <2>4, <2>5, Zenon DEF Dealt
  <2> QED
    BY <1>3, <2>6
<1>5. ASSUME NEW k \in 0 + 1 .. Len(w), k - 1 \in G
      PROVE  k \in G
  <2>1. k \in Nat /\ f[k] = FlushOnce(f[k - 1], FALSE)
    <3>1. k \in Nat /\ k \in 1 .. Len(w)
      BY <1>1
    <3> QED
      BY <1>3, <3>1
  <2>0. PICK j \in Nat : Served(k - 1, j)
    BY <1>5
  <2>2. PICK cut : Dealt(w, g, f[k - 1], all, j, cut) /\ Stops(k - 1, j, cut)
    BY <2>0
  <2>3. /\ j = Len(w) \/ cut[j] = Len(all) => f[k] = f[k - 1]
        /\ j < Len(w) /\ cut[j] # Len(all) => \E new : Dealt(w, g, f[k], all, j + 1, new)
    <3>1. PICK p : p = f[k - 1]
      OBVIOUS
    <3>2. /\ j = Len(w) \/ cut[j] = Len(all) => FlushOnce(p, FALSE) = p
          /\ j < Len(w) /\ cut[j] # Len(all) => \E new : Dealt(w, g, FlushOnce(p, FALSE), all, j + 1, new)
      <4>1. Dealt(w, g, p, all, j, cut)
        BY <2>2, <3>1
      <4> QED
        BY <4>1, FlushOnceDeals
    <3> QED
      BY <2>1, <3>1, <3>2
  <2>4. CASE j = Len(w) \/ cut[j] = Len(all)
    BY <2>1, <2>2, <2>3, <2>4
  <2>5. CASE ~(j = Len(w) \/ cut[j] = Len(all))
    <3>1. j = k - 1 /\ j + 1 = k /\ j < Len(w)
      BY <1>1, <2>1, <2>2, <2>5
    <3>2. PICK new : Dealt(w, g, f[k], all, k, new)
      BY <2>3, <2>5, <3>1
    <3> QED
      BY <2>1, <3>2
  <2> QED
    BY <2>4, <2>5
<1>6. Len(w) \in G
  <2> HIDE DEF G
  <2>1. \A k \in 0 .. Len(w) : k \in G
    BY <1>1, <1>4, <1>5, Climbs
  <2> QED
    BY <1>1, <2>1
<1>7. PICK j \in Nat : Served(Len(w), j)
  BY <1>6
<1> QED
  BY <1>2, <1>3, <1>7 DEF DealsOut

\* j readers were told that nothing comes any more.
Ended(w, g, p, cs, j) ==
    /\ p.chunks = cs /\ p.length = 0 /\ p.readers = After(j, w) /\ p.result \in Results
    /\ \A r \in Reader : p.result[r] = IF \E i \in 1 .. j : w[i].reader = r THEN <<>> ELSE g[r]

\* The whole of _flush on a closed queue without bytes: everybody is told.
LEMMA FlushEnds ==
    ASSUME NEW w \in Seq(Waiter), NEW g \in Results, NEW cs
    PROVE  Ended(w, g, Flush(Queue(cs, 0, w, g), TRUE), cs, Len(w))
<1>1. Len(w) \in Nat
  BY LenProperties
<1>0. PICK q : q = Queue(cs, 0, w, g)
  OBVIOUS
<1>2. q = Queue(cs, 0, w, g) /\ q.readers = w /\ q.chunks = cs /\ q.length = 0 /\ q.result = g
  BY <1>0 DEF Queue
<1>3. PICK f : /\ f[0] = q
               /\ \A k \in 1 .. Len(w) : f[k] = FlushOnce(f[k - 1], TRUE)
               /\ Flush(q, TRUE) = f[Len(w)]
  <2>1. Len(q.readers) \in Nat
    BY <1>1, <1>2
  <2>2. PICK f : FlushesBy(f, q, Len(q.readers), TRUE)
    BY <2>1, FlushRounds, Zenon
  <2> QED
    BY <1>2, <2>2, Zenon DEF FlushesBy
<1> DEFINE G == {k \in Nat : Ended(w, g, f[k], cs, k)}
<1>4. 0 \in G
  <2>1. After(0, w) = w
    <3>1. /\ Len(After(0, w)) = Len(w) /\ After(0, w) \in Seq(Waiter)
          /\ \A i \in 1 .. Len(w) : After(0, w)[i] = w[0 + i]
      <4>1. /\ Len(After(0, w)) = IF 0 <= Len(w) THEN Len(w) - 0 ELSE 0
            /\ After(0, w) \in Seq(Waiter)
            /\ \A i \in 1 .. Len(w) - 0 : After(0, w)[i] = w[0 + i]
        BY FirstAfter
      <4> QED
        BY <1>1, <4>1
    <3> QED
      BY <3>1, SeqEqual
  <2>2. \A r \in Reader : g[r] = IF \E i \in 1 .. 0 : w[i].reader = r THEN <<>> ELSE g[r]
    OBVIOUS
  <2>3. Ended(w, g, f[0], cs, 0)
    BY <1>2, <1>3, <2>1, <2>2, Zenon DEF Ended
  <2> QED
    BY <2>3
<1>5. ASSUME NEW k \in 0 + 1 .. Len(w), k - 1 \in G
      PROVE  k \in G
  <2>1. k \in Nat /\ k - 1 \in Nat /\ f[k] = FlushOnce(f[k - 1], TRUE)
    <3>1. k \in Nat /\ k - 1 \in Nat /\ k \in 1 .. Len(w)
      BY <1>1
    <3> QED
      BY <1>3, <3>1
  <2>0. PICK p : p = f[k - 1]
    OBVIOUS
  <2>2. PICK j \in Nat : p = f[k - 1] /\ j = k - 1 /\ j + 1 = k /\ j < Len(w)
    BY <1>1, <2>1, <2>0
  <2>3. /\ p.chunks = cs /\ p.length = 0 /\ p.readers = After(j, w) /\ p.result \in Results
        /\ \A r \in Reader : p.result[r] = IF \E i \in 1 .. j : w[i].reader = r THEN <<>> ELSE g[r]
    BY <1>5, <2>2, Zenon DEF Ended
  <2>4. PICK v \in Waiter : v = w[k] /\ v.reader \in Reader
    <3>1. w[k] \in Waiter
      BY <1>1, LenProperties
    <3> QED
      BY <3>1 DEF Waiter
  <2>5. p.readers # <<>> /\ Head(p.readers) = v /\ Tail(p.readers) = After(k, w)
    <3>1. PICK a \in Seq(Waiter) : a = After(j, w) /\ Len(a) = Len(w) - j /\ a[1] = w[k]
      <4>1. 1 \in 1 .. Len(w) - j /\ j + 1 = k /\ j <= Len(w)
        BY <1>1, <2>2
      <4>2. /\ After(j, w) \in Seq(Waiter)
            /\ Len(After(j, w)) = IF j <= Len(w) THEN Len(w) - j ELSE 0
            /\ \A i \in 1 .. Len(w) - j : After(j, w)[i] = w[j + i]
        BY FirstAfter
      <4> QED
        BY <4>1, <4>2
    <3>2. a # <<>>
      BY <1>1, <2>2, <3>1, EmptySeq
    <3>3. Head(a) = a[1] /\ Tail(a) = SubSeq(a, 2, Len(a))
      BY <3>2
    <3>4. Tail(a) = After(1, a)
      BY <3>3 DEF After
    <3>5. After(1, After(j, w)) = After(j + 1, w)
      <4>1. j \in 0 .. Len(w) /\ 1 \in 0 .. Len(w) - j
        BY <1>1, <2>2
      <4> QED
        BY <4>1, AfterAfter
    <3> QED
      BY <2>2, <2>3, <2>4, <3>1, <3>2, <3>3, <3>4, <3>5
  <2>6. FlushOnce(p, TRUE) = Queue(cs, 0, After(k, w), [p.result EXCEPT ![v.reader] = <<>>])
    <3>1. ~(p.readers = <<>> \/ (p.length = 0 /\ ~TRUE)) /\ ~(p.length > 0)
      BY <2>3, <2>5
    <3>2. FlushOnce(p, TRUE) = Queue(p.chunks, p.length, Tail(p.readers),
                                     [p.result EXCEPT ![Head(p.readers).reader] = <<>>])
      BY <3>1, Zenon DEF FlushOnce
    <3> QED
      BY <2>3, <2>5, <3>2, Zenon
  <2>7. PICK x, y : x = f[k] /\ y = [p.result EXCEPT ![v.reader] = <<>>] /\ x = Queue(cs, 0, After(k, w), y)
    BY <2>1, <2>2, <2>6
  <2>8. x.chunks = cs /\ x.length = 0 /\ x.readers = After(k, w) /\ x.result = y
    BY <2>7 DEF Queue
  <2>9. y \in Results
    BY <2>3, <2>4, <2>7, EmptySeq DEF Results
  <2>10. ASSUME NEW r \in Reader
         PROVE  y[r] = IF \E i \in 1 .. k : w[i].reader = r THEN <<>> ELSE g[r]
    <3>1. y[r] = IF r = v.reader THEN <<>> ELSE p.result[r]
      BY <2>3, <2>7 DEF Results
    <3>2. (\E i \in 1 .. k : w[i].reader = r) <=> r = v.reader \/ \E i \in 1 .. j : w[i].reader = r
      <4>1. 1 .. k = (1 .. j) \cup {k}
        BY <2>2
      <4> QED
        BY <2>4, <4>1, Zenon
    <3> QED
      BY <2>3, <3>1, <3>2
  <2>11. Ended(w, g, f[k], cs, k)
    BY <2>7, <2>8, <2>9, <2>10, ZenonT(60) DEF Ended
  <2> QED
    BY <2>1, <2>11
<1>6. Len(w) \in G
  <2> HIDE DEF G
  <2>1. \A k \in 0 .. Len(w) : k \in G
    BY <1>1, <1>4, <1>5, Climbs
  <2> QED
    BY <1>1, <2>1
<1>7. Ended(w, g, f[Len(w)], cs, Len(w))
  BY <1>6
<1> QED
  BY <1>2, <1>3, <1>7

\* Who is in the list waits, and is there once.
ReadersWait ==
    Different(readers) /\ \A i \in 1 .. Len(readers) : result[readers[i].reader] = Waiting

QueueInv == QueueTypeOK /\ ReadersWait /\ NobodyWaitsInVain

\* The parts of the invariant in the words of the lemmas above.
LEMMA QueueInvParts ==
    ASSUME QueueInv
    PROVE  /\ chunks \in Seq(Seq(Byte)) /\ FlattenSeq(chunks) \in Seq(Byte)
           /\ length = Len(FlattenSeq(chunks)) /\ length \in Nat
           /\ readers \in Seq(Waiter) /\ Len(readers) \in Nat /\ closed \in BOOLEAN
           /\ result \in Results /\ Different(readers)
           /\ \A i \in 1 .. Len(readers) : result[readers[i].reader] = Waiting
           /\ readers # <<>> => length = 0 /\ ~closed
           /\ \A i \in 1 .. Len(readers) : readers[i] \in Waiter /\ readers[i].reader \in Reader
<1>1. /\ chunks \in Seq(Seq(Byte)) /\ length = Len(FlattenSeq(chunks)) /\ closed \in BOOLEAN
      /\ readers \in Seq(Waiter) /\ result \in Results
  BY DEF QueueInv, QueueTypeOK, Waiter, Results
<1>2. FlattenSeq(chunks) \in Seq(Byte) /\ Len(FlattenSeq(chunks)) \in Nat /\ Len(readers) \in Nat
  BY <1>1, FlattenType, LenProperties
<1>3. \A i \in 1 .. Len(readers) : readers[i] \in Waiter /\ readers[i].reader \in Reader
  <2>1. ASSUME NEW i \in 1 .. Len(readers)
        PROVE  readers[i] \in Waiter /\ readers[i].reader \in Reader
    <3>1. readers[i] \in Waiter
      BY <1>1, LenProperties
    <3> QED
      BY <3>1 DEF Waiter
  <2> QED
    BY <2>1
<1> QED
  BY <1>1, <1>2, <1>3 DEF QueueInv, ReadersWait, NobodyWaitsInVain

LEMMA QueueInitInv == QueueInit => QueueInv
<1> SUFFICES ASSUME QueueInit
             PROVE  QueueInv
  OBVIOUS
<1>1. FlattenSeq(<<>>) = <<>> /\ Len(<<>>) = 0
  BY FlattenEmpty
<1>2. QueueTypeOK
  BY <1>1, EmptySeq DEF QueueInit, QueueTypeOK
<1>3. ReadersWait /\ NobodyWaitsInVain
  BY <1>1 DEF QueueInit, ReadersWait, Different, NobodyWaitsInVain
<1> QED
  BY <1>2, <1>3 DEF QueueInv

\* push is a write to the stream.
LEMMA PushStep ==
    ASSUME QueueInv, NEW bytes \in Chunk, push(bytes)
    PROVE  QueueInv' /\ Stream!Write(bytes)
<1>1. /\ chunks \in Seq(Seq(Byte)) /\ FlattenSeq(chunks) \in Seq(Byte)
      /\ length = Len(FlattenSeq(chunks)) /\ length \in Nat
      /\ readers \in Seq(Waiter) /\ Len(readers) \in Nat
      /\ result \in Results /\ Different(readers)
      /\ \A i \in 1 .. Len(readers) : result[readers[i].reader] = Waiting
      /\ \A i \in 1 .. Len(readers) : readers[i] \in Waiter /\ readers[i].reader \in Reader
  BY QueueInvParts
<1>2. ~closed /\ closed' = closed /\ closed = FALSE
  BY QueueInvParts DEF push
<1>3. bytes \in Seq(Byte) /\ Len(bytes) \in Nat
  BY QueueAssumption DEF Chunk
<1>4. PICK cs \in Seq(Seq(Byte)), all \in Seq(Byte), l \in Nat :
         /\ cs = Append(chunks, bytes) /\ all = Cat(FlattenSeq(chunks), bytes) /\ all = FlattenSeq(cs)
         /\ l = Len(all) /\ l = length + Len(bytes)
  <2>1. Append(chunks, bytes) \in Seq(Seq(Byte))
    BY <1>1, <1>3, AppendProperties
  <2>2. FlattenSeq(Append(chunks, bytes)) = Cat(FlattenSeq(chunks), bytes)
    BY <1>1, <1>3, FlattenAppend
  <2>3. /\ Cat(FlattenSeq(chunks), bytes) \in Seq(Byte)
        /\ Len(Cat(FlattenSeq(chunks), bytes)) = length + Len(bytes)
    BY <1>1, <1>3, CatFacts
  <2>4. length + Len(bytes) \in Nat
    BY <1>1, <1>3
  <2> QED
    BY <2>1, <2>2, <2>3, <2>4
<1>5. PICK p : p = Flush(Queue(cs, l, readers, result), FALSE)
  OBVIOUS
<1>6. chunks' = p.chunks /\ length' = p.length /\ readers' = p.readers /\ result' = p.result
  BY <1>2, <1>4, <1>5 DEF push, Becomes
<1>0. PICK j \in Nat :
         \E cut : Dealt(readers, result, p, all, j, cut) /\ (j = Len(readers) \/ cut[j] = Len(all))
  <2>1. DealsOut(readers, result, Flush(Queue(cs, l, readers, result), FALSE), all)
    BY <1>1, <1>4, FlushDeals
  <2> QED
    BY <1>5, <2>1, Zenon DEF DealsOut
<1>7. PICK cut : Dealt(readers, result, p, all, j, cut) /\ (j = Len(readers) \/ cut[j] = Len(all))
  BY <1>0, Zenon
<1>8. /\ Cuts(readers, all, j, cut)
      /\ p.chunks \in Seq(Seq(Byte)) /\ FlattenSeq(p.chunks) = After(cut[j], all)
      /\ p.length = Len(all) - cut[j] /\ p.readers = After(j, readers) /\ p.result \in Results
      /\ \A i \in 1 .. j : p.result[readers[i].reader] = SubSeq(all, cut[i - 1] + 1, cut[i])
      /\ \A r \in Reader : (\A i \in 1 .. j : readers[i].reader # r) => p.result[r] = result[r]
  BY <1>7, Zenon DEF Dealt
<1>9. j \in 0 .. Len(readers) /\ cut \in [0 .. j -> 0 .. Len(all)] /\ cut[j] \in 0 .. Len(all) /\ cut[0] = 0
  BY <1>8 DEF Cuts
<1>10. Len(After(cut[j], all)) = Len(all) - cut[j] /\ Len(all) \in Nat
  <2>1. /\ Len(all) \in Nat /\ cut[j] \in Nat /\ cut[j] <= Len(all)
    BY <1>4, <1>9
  <2> QED
    BY <2>1, FirstAfter
<1>11. /\ After(j, readers) \in Seq(Waiter) /\ Len(After(j, readers)) = Len(readers) - j
       /\ \A i \in 1 .. Len(readers) - j : After(j, readers)[i] = readers[j + i]
  <2>1. /\ After(j, readers) \in Seq(Waiter)
        /\ Len(After(j, readers)) = IF j <= Len(readers) THEN Len(readers) - j ELSE 0
        /\ \A i \in 1 .. Len(readers) - j : After(j, readers)[i] = readers[j + i]
    BY <1>1, FirstAfter, ZenonT(60)
  <2> QED
    BY <1>9, <2>1
<1>12. QueueTypeOK'
  BY <1>2, <1>6, <1>8, <1>10, <1>11 DEF QueueTypeOK, Waiter, Results
<1>13. NobodyWaitsInVain'
  <2>1. CASE j = Len(readers)
    <3>1. After(j, readers) = <<>>
      BY <1>1, <1>11, <2>1, EmptySeq
    <3> QED
      BY <1>6, <1>8, <3>1 DEF NobodyWaitsInVain
  <2>2. CASE cut[j] = Len(all)
    BY <1>2, <1>6, <1>8, <1>10, <2>2 DEF NobodyWaitsInVain
  <2> QED
    BY <1>7, <2>1, <2>2
<1>14. ReadersWait'
  <2>1. Different(readers')
    <3>1. ASSUME NEW i \in 1 .. Len(readers) - j, NEW k \in 1 .. Len(readers) - j, i # k
          PROVE  After(j, readers)[i].reader # After(j, readers)[k].reader
      <4>1. j + i \in 1 .. Len(readers) /\ j + k \in 1 .. Len(readers) /\ j + i # j + k
        BY <1>1, <1>9, <3>1
      <4>2. readers[j + i].reader # readers[j + k].reader
        BY <1>1, <4>1 DEF Different
      <4> QED
        BY <1>11, <4>2
    <3>2. Different(After(j, readers))
      BY <1>11, <3>1 DEF Different
    <3> QED
      BY <1>6, <1>8, <3>2
  <2>2. ASSUME NEW i \in 1 .. Len(readers) - j
        PROVE  p.result[After(j, readers)[i].reader] = Waiting
    <3>1. PICK m \in 1 .. Len(readers) : m = j + i /\ m > j
      BY <1>1, <1>9
    <3>2. After(j, readers)[i] = readers[m]
      BY <1>11, <3>1
    <3>3. \A k \in 1 .. j : k \in 1 .. Len(readers) /\ k # m
      BY <1>1, <1>9, <3>1
    <3>4. \A k \in 1 .. j : readers[k].reader # readers[m].reader
      BY <1>1, <3>3 DEF Different
    <3>5. p.result[readers[m].reader] = result[readers[m].reader]
      BY <1>1, <1>8, <3>4
    <3> QED
      BY <1>1, <3>2, <3>5
  <2>3. \A i \in 1 .. Len(readers') : result'[readers'[i].reader] = Waiting
    BY <1>6, <1>8, <1>11, <2>2
  <2> QED
    BY <2>1, <2>3 DEF ReadersWait
<1>15. Stream!Write(bytes)
  <2>1. FlattenSeq(chunks) \o bytes = all
    BY <1>4 DEF Cat
  <2>2. \A m, n : Stream!Least(m, n) = Smaller(m, n)
    BY Zenon DEF Stream!Least, Smaller
  <2>3. \A i \in 1 .. j :
           cut[i - 1] < Len(all) /\ cut[i] = Stream!Least(cut[i - 1] + readers[i].count, Len(all))
    BY <1>8, <2>2, Zenon DEF Cuts
  <2>4. Stream!After(readers, j) = readers' /\ Stream!After(all, cut[j]) = FlattenSeq(chunks')
    <3>1. Stream!Least(j, Len(readers)) = j /\ Stream!Least(cut[j], Len(all)) = cut[j]
      BY <1>1, <1>9, <1>10 DEF Stream!Least
    <3> QED
      BY <1>6, <1>8, <3>1 DEF Stream!After, After
  <2>5. result' = [r \in Reader |->
                      IF \E i \in 1 .. j : readers[i].reader = r
                      THEN LET i == CHOOSE i \in 1 .. j : readers[i].reader = r
                           IN  SubSeq(all, cut[i - 1] + 1, cut[i])
                      ELSE result[r]]
    <3>1. ASSUME NEW r \in Reader
          PROVE  p.result[r] = IF \E i \in 1 .. j : readers[i].reader = r
                               THEN LET i == CHOOSE i \in 1 .. j : readers[i].reader = r
                                    IN  SubSeq(all, cut[i - 1] + 1, cut[i])
                               ELSE result[r]
      <4>1. CASE \E i \in 1 .. j : readers[i].reader = r
        <5> DEFINE k == CHOOSE i \in 1 .. j : readers[i].reader = r
        <5>1. k \in 1 .. j /\ readers[k].reader = r
          BY <4>1, Zenon
        <5> HIDE DEF k
        <5>2. p.result[r] = SubSeq(all, cut[k - 1] + 1, cut[k])
          BY <1>8, <5>1
        <5> QED
          BY <4>1, <5>2, Zenon DEF k
      <4>2. CASE ~ \E i \in 1 .. j : readers[i].reader = r
        BY <1>8, <4>2, Zenon
      <4> QED
        BY <4>1, <4>2, Zenon
    <3>2. p.result = [r \in Reader |-> p.result[r]]
      BY <1>8 DEF Results
    <3> QED
      BY <1>6, <3>1, <3>2, Zenon
  <2> DEFINE Deal(served, new) ==
                /\ new[0] = 0
                /\ \A i \in 1 .. served :
                      new[i - 1] < Len(all) /\ new[i] = Stream!Least(new[i - 1] + readers[i].count, Len(all))
                /\ served = Len(readers) \/ new[served] = Len(all)
                /\ result' = [r \in Reader |->
                                 IF \E i \in 1 .. served : readers[i].reader = r
                                 THEN LET i == CHOOSE i \in 1 .. served : readers[i].reader = r
                                      IN  SubSeq(all, new[i - 1] + 1, new[i])
                                 ELSE result[r]]
                /\ readers' = Stream!After(readers, served)
                /\ FlattenSeq(chunks') = Stream!After(all, new[served])
  <2>6. Deal(j, cut)
    BY <1>7, <1>9, <2>3, <2>4, <2>5, Zenon
  <2>7. \E served \in 0 .. Len(readers) : \E new \in [0 .. served -> 0 .. Len(all)] : Deal(served, new)
    <3> HIDE DEF Deal
    <3> QED
      BY <1>9, <2>6
  <2> QED
    BY <1>2, <2>1, <2>7, ZenonT(60) DEF Stream!Write
<1> QED
  BY <1>12, <1>13, <1>14, <1>15 DEF QueueInv

\* close ends the stream.
LEMMA CloseStep ==
    ASSUME QueueInv, close
    PROVE  QueueInv' /\ Stream!End
<1>1. /\ chunks \in Seq(Seq(Byte)) /\ length = Len(FlattenSeq(chunks))
      /\ readers \in Seq(Waiter) /\ Len(readers) \in Nat /\ result \in Results
      /\ readers # <<>> => length = 0
  BY QueueInvParts
<1>2. closed' = TRUE
  BY DEF close
<1>3. PICK p : p = Flush(Queue(chunks, length, readers, result), TRUE)
  OBVIOUS
<1>4. chunks' = p.chunks /\ length' = p.length /\ readers' = p.readers /\ result' = p.result
  BY <1>3 DEF close, Becomes
<1>5. /\ chunks' = chunks /\ length' = length /\ readers' = <<>> /\ result' \in Results
      /\ \A r \in Reader : result'[r] = IF \E i \in 1 .. Len(readers) : readers[i].reader = r
                                        THEN <<>> ELSE result[r]
  <2>1. CASE readers = <<>>
    <3>1. PICK q : q = Queue(chunks, length, readers, result)
      OBVIOUS
    <3>2. q.readers = <<>> /\ Len(q.readers) = 0 /\ q.chunks = chunks /\ q.length = length /\ q.result = result
      BY <2>1, <3>1 DEF Queue
    <3>3. PICK f : FlushesBy(f, q, Len(q.readers), TRUE)
      <4>1. Len(q.readers) \in Nat
        BY <3>2
      <4> QED
        BY <4>1, FlushRounds, Zenon
    <3>4. p = q
      BY <1>3, <3>1, <3>2, <3>3 DEF FlushesBy
    <3>5. \A i : i \notin 1 .. Len(readers)
      BY <2>1
    <3> QED
      BY <1>1, <1>4, <2>1, <3>2, <3>4, <3>5, Zenon
  <2>2. CASE readers # <<>>
    <3>1. length = 0
      BY <1>1, <2>2
    <3>2. Ended(readers, result, p, chunks, Len(readers))
      <4>1. Ended(readers, result, Flush(Queue(chunks, 0, readers, result), TRUE), chunks, Len(readers))
        BY <1>1, FlushEnds
      <4> QED
        BY <1>3, <3>1, <4>1
    <3>3. After(Len(readers), readers) = <<>>
      <4>1. SubSeq(readers, Len(readers) + 1, Len(readers)) = <<>>
        BY <1>1, SubSeqEmpty
      <4> QED
        BY <4>1 DEF After
    <3> QED
      BY <1>4, <3>1, <3>2, <3>3, Zenon DEF Ended
  <2> QED
    BY <2>1, <2>2
<1>6. QueueInv'
  <2>1. QueueTypeOK'
    BY <1>1, <1>2, <1>5, EmptySeq DEF QueueTypeOK, Results
  <2>2. ReadersWait' /\ NobodyWaitsInVain'
    BY <1>5 DEF ReadersWait, NobodyWaitsInVain, Different
  <2> QED
    BY <2>1, <2>2 DEF QueueInv
<1>7. Stream!End
  <2>1. result' = [r \in Reader |-> IF \E i \in 1 .. Len(readers) : readers[i].reader = r
                                    THEN <<>> ELSE result[r]]
    <3>1. result' = [r \in Reader |-> result'[r]]
      BY <1>5 DEF Results
    <3> QED
      BY <1>5, <3>1, Zenon
  <2> QED
    BY <1>2, <1>5, <2>1, Zenon DEF Stream!End
<1> QED
  BY <1>6, <1>7

\* A new result for a reader that does not wait leaves the others waiting.
LEMMA AnswerKeeps ==
    ASSUME QueueInv, NEW r \in Reader, result[r] # Waiting, NEW o \in Seq(Byte),
           readers' = readers, result' = [result EXCEPT ![r] = o]
    PROVE  ReadersWait' /\ result' \in Results
<1>1. result \in Results /\ Different(readers)
      /\ \A i \in 1 .. Len(readers) : result[readers[i].reader] = Waiting /\ readers[i].reader \in Reader
  BY QueueInvParts
<1>2. result' \in Results
  BY <1>1 DEF Results
<1>3. ASSUME NEW i \in 1 .. Len(readers)
      PROVE  result'[readers[i].reader] = Waiting
  BY <1>1 DEF Results
<1> QED
  BY <1>1, <1>2, <1>3 DEF ReadersWait

\* read is a read of the stream, now or later.
LEMMA ReadStep ==
    ASSUME QueueInv, NEW r \in Reader, NEW n \in 0 .. MaxRead, read(r, n)
    PROVE  QueueInv' /\ (Stream!ReadNow(r, n) \/ Stream!ReadLater(r, n))
<1>1. /\ chunks \in Seq(Seq(Byte)) /\ FlattenSeq(chunks) \in Seq(Byte)
      /\ length = Len(FlattenSeq(chunks)) /\ length \in Nat
      /\ readers \in Seq(Waiter) /\ Len(readers) \in Nat /\ closed \in BOOLEAN
      /\ result \in Results /\ Different(readers)
      /\ \A i \in 1 .. Len(readers) : result[readers[i].reader] = Waiting
      /\ readers # <<>> => length = 0 /\ ~closed
  BY QueueInvParts
<1>2. n \in Nat /\ result[r] # Waiting /\ closed' = closed
  BY QueueAssumption DEF read
<1>3. PICK all \in Seq(Byte) : all = FlattenSeq(chunks) /\ length = Len(all)
  BY <1>1
<1>4. ASSUME chunks' = chunks, length' = length, readers' = readers,
             result' = [result EXCEPT ![r] = <<>>], n = 0 \/ (all = <<>> /\ closed)
      PROVE  QueueInv' /\ Stream!ReadNow(r, n)
  <2>1. ReadersWait' /\ result' \in Results
    BY <1>2, <1>4, EmptySeq, AnswerKeeps
  <2>2. QueueTypeOK'
    BY <1>1, <1>2, <1>4, <2>1 DEF QueueTypeOK, Waiter, Results
  <2>3. NobodyWaitsInVain'
    BY <1>1, <1>2, <1>4 DEF NobodyWaitsInVain
  <2>4. Stream!Least(n, Len(all)) = 0
    <3>1. Len(all) \in Nat /\ (all = <<>> => Len(all) = 0)
      BY <1>1, <1>3
    <3> QED
      BY <1>2, <1>4, <3>1 DEF Stream!Least
  <2>5. Stream!Prefix(all, n) = <<>> /\ Stream!After(all, n) = all
    <3>1. SubSeq(all, 1, 0) = <<>> /\ SubSeq(all, 0 + 1, Len(all)) = all
      <4>1. SubSeq(all, 1, 0) = <<>>
        BY SubSeqEmpty
      <4>2. SubSeq(all, 1, Len(all)) = all
        OBVIOUS
      <4> QED
        BY <4>1, <4>2
    <3> QED
      BY <2>4, <3>1 DEF Stream!Prefix, Stream!After
  <2>6. Stream!ReadNow(r, n)
    BY <1>2, <1>3, <1>4, <2>5 DEF Stream!ReadNow
  <2> QED
    BY <2>1, <2>2, <2>3, <2>6 DEF QueueInv
<1>5. CASE n = 0 /\ Becomes(Queue(chunks, length, readers, [result EXCEPT ![r] = <<>>]))
  <2>1. /\ chunks' = chunks /\ length' = length /\ readers' = readers
        /\ result' = [result EXCEPT ![r] = <<>>]
    BY <1>5 DEF Becomes, Queue
  <2> QED
    BY <1>4, <1>5, <2>1
<1>6. CASE /\ n > 0 /\ length = 0 /\ closed
           /\ Becomes(Queue(chunks, length, readers, [result EXCEPT ![r] = <<>>]))
  <2>1. /\ chunks' = chunks /\ length' = length /\ readers' = readers
        /\ result' = [result EXCEPT ![r] = <<>>]
    BY <1>6 DEF Becomes, Queue
  <2>2. all = <<>>
    BY <1>3, <1>6, EmptySeq
  <2> QED
    BY <1>4, <1>6, <2>1, <2>2
<1>7. CASE n > 0 /\ length > 0 /\ Becomes(Take(Queue(chunks, length, readers, result), r, n))
  <2>1. PICK m \in Nat : m = Smaller(n, length) /\ m <= length
    BY <1>1, <1>2 DEF Smaller
  <2>2. PICK new : new = [result EXCEPT ![r] = First(m, all)]
    OBVIOUS
  <2>3. Gives(chunks, length, readers, result, r, n, m, new, all)
    BY <1>1, <1>2, <1>3, <2>1, <2>2, TakeGives, Zenon
  <2>4. PICK ds \in Seq(Seq(Byte)) :
           /\ Take(Queue(chunks, length, readers, result), r, n) = Queue(ds, length - m, readers, new)
           /\ FlattenSeq(ds) = After(m, all)
    BY <2>3, Zenon DEF Gives
  <2>5. chunks' = ds /\ length' = length - m /\ readers' = readers /\ result' = new
    BY <1>7, <2>4 DEF Becomes, Queue
  <2>6. First(m, all) \in Seq(Byte) /\ Len(After(m, all)) = length - m
    <3>1. /\ First(m, all) \in Seq(Byte)
          /\ Len(After(m, all)) = IF m <= Len(all) THEN Len(all) - m ELSE 0
      BY FirstAfter
    <3> QED
      BY <1>3, <2>1, <3>1
  <2>7. ReadersWait' /\ result' \in Results
    BY <1>2, <2>2, <2>5, <2>6, AnswerKeeps
  <2>8. QueueTypeOK'
    BY <1>1, <1>2, <2>4, <2>5, <2>6, <2>7 DEF QueueTypeOK, Waiter, Results
  <2>9. NobodyWaitsInVain'
    <3>1. readers = <<>>
      BY <1>1, <1>7
    <3> QED
      BY <2>5, <3>1 DEF NobodyWaitsInVain
  <2>10. Stream!Prefix(all, n) = First(m, all) /\ Stream!After(all, n) = After(m, all)
    <3>1. Stream!Least(n, Len(all)) = m
      BY <1>3, <2>1 DEF Stream!Least, Smaller
    <3>2. (IF m < Len(all) THEN m ELSE Len(all)) = m
      BY <1>1, <1>3, <2>1
    <3> QED
      BY <3>1, <3>2 DEF Stream!Prefix, Stream!After, First, After
  <2>11. Stream!ReadNow(r, n)
    <3>1. all # <<>>
      BY <1>3, <1>7
    <3> QED
      BY <1>2, <1>3, <2>2, <2>4, <2>5, <2>10, <3>1, Zenon DEF Stream!ReadNow
  <2> QED
    BY <2>7, <2>8, <2>9, <2>11 DEF QueueInv
<1>8. CASE /\ n > 0 /\ length = 0 /\ ~closed
           /\ Becomes(Queue(chunks, length, Append(readers, [reader |-> r, count |-> n]),
                            [result EXCEPT ![r] = Waiting]))
  <2>1. PICK v : v = [reader |-> r, count |-> n] /\ v \in Waiter /\ v.reader = r
    BY <1>2, <1>8 DEF Waiter
  <2>2. /\ chunks' = chunks /\ length' = length /\ readers' = Append(readers, v)
        /\ result' = [result EXCEPT ![r] = Waiting]
    BY <1>8, <2>1 DEF Becomes, Queue
  <2>3. /\ readers' \in Seq(Waiter) /\ Len(readers') = Len(readers) + 1
        /\ \A i \in 1 .. Len(readers) : readers'[i] = readers[i]
        /\ readers'[Len(readers) + 1] = v
    BY <1>1, <2>1, <2>2, AppendProperties
  <2>4. result' \in Results /\ \A s \in Reader : result'[s] = IF s = r THEN Waiting ELSE result[s]
    BY <1>1, <2>2 DEF Results
  <2>5. QueueTypeOK'
    BY <1>1, <1>2, <2>2, <2>3, <2>4 DEF QueueTypeOK, Waiter, Results
  <2>6. NobodyWaitsInVain'
    BY <1>2, <1>8, <2>2 DEF NobodyWaitsInVain
  <2>7. \A i \in 1 .. Len(readers) : readers[i].reader \in Reader /\ readers[i].reader # r
    BY <1>1, <1>2, QueueInvParts
  <2>8. ReadersWait'
    <3>1. ASSUME NEW i \in 1 .. Len(readers) + 1
          PROVE  result'[readers'[i].reader] = Waiting
      <4>1. CASE i = Len(readers) + 1
        BY <4>1, <2>1, <2>3, <2>4
      <4>2. CASE i # Len(readers) + 1
        <5>1. i \in 1 .. Len(readers)
          BY <1>1, <4>2
        <5> QED
          BY <1>1, <2>3, <2>4, <2>7, <5>1
      <4> QED
        BY <4>1, <4>2
    <3>2. ASSUME NEW i \in 1 .. Len(readers) + 1, NEW k \in 1 .. Len(readers) + 1, i # k
          PROVE  readers'[i].reader # readers'[k].reader
      <4>1. i \in 1 .. Len(readers) \/ i = Len(readers) + 1
        BY <1>1
      <4>2. k \in 1 .. Len(readers) \/ k = Len(readers) + 1
        BY <1>1
      <4> QED
        BY <1>1, <2>1, <2>3, <2>7, <3>2, <4>1, <4>2 DEF Different
    <3>3. Different(readers')
      BY <2>3, <3>2 DEF Different
    <3> QED
      BY <2>3, <3>1, <3>3 DEF ReadersWait
  <2>9. Stream!ReadLater(r, n)
    <3>1. all = <<>>
      BY <1>3, <1>8, EmptySeq
    <3> QED
      BY <1>2, <1>3, <1>8, <2>1, <2>2, <3>1 DEF Stream!ReadLater
  <2> QED
    BY <2>5, <2>6, <2>8, <2>9 DEF QueueInv
<1> QED
  BY <1>5, <1>6, <1>7, <1>8, Zenon DEF read

\* Every step keeps the invariant and is a step of the stream.
LEMMA QueueStep ==
    ASSUME QueueInv, [QueueNext]_queueVars
    PROVE  QueueInv' /\ [Stream!Next]_(Stream!vars)
<1>1. CASE UNCHANGED queueVars
  <2>1. /\ chunks' = chunks /\ length' = length /\ readers' = readers /\ closed' = closed
        /\ result' = result
    BY <1>1 DEF queueVars
  <2>2. QueueInv'
    BY <2>1 DEF QueueInv, QueueTypeOK, ReadersWait, Different, NobodyWaitsInVain
  <2>3. UNCHANGED Stream!vars
    BY <2>1 DEF Stream!vars
  <2> QED
    BY <2>2, <2>3
<1>2. CASE \E bytes \in Chunk : push(bytes)
  <2>1. PICK bytes \in Chunk : push(bytes)
    BY <1>2
  <2>2. QueueInv' /\ Stream!Write(bytes)
    BY <2>1, PushStep
  <2>3. bytes \in Stream!Strings
    BY DEF Chunk, Stream!Strings
  <2> QED
    BY <2>2, <2>3 DEF Stream!Next
<1>3. CASE close
  BY <1>3, CloseStep DEF Stream!Next
<1>4. CASE \E r \in Reader, n \in 0 .. MaxRead : read(r, n)
  <2>1. PICK r \in Reader, n \in 0 .. MaxRead : read(r, n)
    BY <1>4
  <2>2. QueueInv' /\ (Stream!ReadNow(r, n) \/ Stream!ReadLater(r, n))
    BY <2>1, ReadStep
  <2> QED
    BY <2>2 DEF Stream!Next
<1> QED
  BY <1>1, <1>2, <1>3, <1>4 DEF QueueNext

\* The invariant of the byte queue of src/src/io.js: its cached length is that of
\* its chunks, who is in its list waits for an answer and is there once, and
\* nobody is there beside data or after the end.
THEOREM QueueInvariance == QueueSpec => []QueueInv
<1>1. QueueInit => QueueInv
  BY QueueInitInv
<1>2. QueueInv /\ [QueueNext]_queueVars => QueueInv'
  BY QueueStep
<1> QED
  BY <1>1, <1>2, PTL DEF QueueSpec

\* No push and no close of a byte queue overlooks a reader that is suspended,
\* whatever the chunks and the counts asked for: the loop of _flush goes on
\* until nobody waits or nothing is left.
THEOREM ReadersAreServed == QueueSpec => []NobodyWaitsInVain
<1>1. QueueInv => NobodyWaitsInVain
  BY DEF QueueInv
<1> QED
  BY <1>1, QueueInvariance, PTL

\* The chunks of a byte queue, cut by _take and dealt out by _flush, implement a
\* stream: every byte is read once, in the order of the pushes, and the readers
\* that wait are served in their order.
THEOREM QueueIsAStream == QueueSpec => IsAStream
<1>1. QueueInit => Stream!Init
  BY FlattenEmpty DEF QueueInit, Stream!Init
<1>2. QueueInv /\ [QueueNext]_queueVars => [Stream!Next]_(Stream!vars)
  BY QueueStep
<1> QED
  BY <1>1, <1>2, QueueInvariance, PTL DEF QueueSpec, IsAStream, Stream!Spec
=============================================================================
