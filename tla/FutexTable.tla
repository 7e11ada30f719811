----------------------------- MODULE FutexTable -----------------------------
(***************************************************************************)
(* The futex wait queues of src/src/sync.js and the futex system call      *)
(* (number 240) of src/src/syscalls.js.                                    *)
(*                                                                         *)
(* A guest that waits is suspended on a promise; the promise is resolved   *)
(* by a wake or by its timer, and the guest goes on in a later microtask.  *)
(* One system call is one step.  Whether the word in memory has the        *)
(* expected value is the caller's input: with another value the call       *)
(* returns EAGAIN and changes nothing.                                     *)
(*                                                                         *)
(* Runtimes that are given one options.futex share a table (forkProcess    *)
(* passes it on to the child); ProcessManager gives none to the processes  *)
(* it spawns, so each has its own.  TableOf says who uses which.           *)
(***************************************************************************)
EXTENDS Integers, Sequences, SequencesExt, FiniteSets

CONSTANTS Guest,      \* processes that make futex calls
          Addr,       \* futex addresses
          TableOf,    \* TableOf[g]: the FutexTable of guest g
          MaxCount,   \* bound: the largest count passed to FUTEX_WAKE
          Requeues    \* TRUE: guests use FUTEX_REQUEUE as well

Table == {TableOf[g] : g \in Guest}
Count == 0 .. MaxCount

ASSUME CountAssumption == MaxCount \in Nat /\ Requeues \in BOOLEAN

VARIABLES waiters,    \* waiters[t]: the map from addresses to lists of waiters
          status,     \* what each guest is doing
          waitsAt,    \* the address of a guest's last wait
          timer       \* guests whose wait has a timer that has not fired

vars == <<waiters, status, waitsAt, timer>>

Status == {"running", "blocked", "woken", "timedout"}

\* Tables from addresses to lists of guests, and what the guests do.  No list is
\* empty: addresses nobody waits on any more do not pile up in the table.
TypeOK ==
    /\ DOMAIN waiters = Table
    /\ \A t \in Table : /\ DOMAIN waiters[t] \subseteq Addr
                        /\ \A a \in DOMAIN waiters[t] : waiters[t][a] \in Seq(Guest) \ {<<>>}
    /\ status \in [Guest -> Status]
    /\ waitsAt \in [Guest -> Addr]
    /\ timer \in SUBSET Guest

Init == /\ waiters = [t \in Table |-> <<>>]
        /\ status = [g \in Guest |-> "running"]
        /\ waitsAt \in {[g \in Guest |-> a] : a \in Addr}
        /\ timer = {}

-----------------------------------------------------------------------------
\* The list of an address; a missing key is an empty list.
ListOf(t, a) == IF a \in DOMAIN waiters[t] THEN waiters[t][a] ELSE <<>>

\* The list of an address changes; an empty list takes its key with it.
SetList(t, a, list) ==
    waiters' = [waiters EXCEPT ![t] =
                   [b \in (DOMAIN waiters[t] \cup {a}) \ (IF list = <<>> THEN {a} ELSE {}) |->
                       IF b = a THEN list ELSE waiters[t][b]]]

\* FUTEX_WAIT with the expected value in memory; timed: a timeout is given.
wait(g, a, timed) ==
    /\ status[g] = "running"
    /\ SetList(TableOf[g], a, Append(ListOf(TableOf[g], a), g))
    /\ status' = [status EXCEPT ![g] = "blocked"]
    /\ waitsAt' = [waitsAt EXCEPT ![g] = a]
    /\ timer' = IF timed THEN timer \cup {g} ELSE timer

\* Mutant: the timer resolves the promise but leaves the waiter in the list.
timeoutKeepsWaiter(g) ==
    /\ g \in timer
    /\ UNCHANGED waiters
    /\ timer' = timer \ {g}
    /\ status' = [status EXCEPT ![g] = "timedout"]
    /\ UNCHANGED waitsAt

\* The timer of a wait: _remove takes the waiter out, then it is resolved.
timeout(g) ==
    /\ g \in timer
    /\ LET t == TableOf[g]
           a == waitsAt[g]
       IN  SetList(t, a, RemoveFirst(ListOf(t, a), g))
    /\ timer' = timer \ {g}
    /\ status' = IF status[g] = "blocked" THEN [status EXCEPT ![g] = "timedout"] ELSE status
    /\ UNCHANGED waitsAt

\* The waiters a wake with this count resolves: the oldest ones.
Woken(t, a, count) ==
    LET list == ListOf(t, a)
    IN  SubSeq(list, 1, IF count < Len(list) THEN count ELSE Len(list))

Rest(t, a, count) ==
    LET list == ListOf(t, a) IN SubSeq(list, Len(Woken(t, a, count)) + 1, Len(list))

\* Mutant: wake takes the newest waiter of the list.
wakeNewest(t, a, count) ==
    LET list == ListOf(t, a)
        n    == IF count < Len(list) THEN count ELSE Len(list)
        woken == ToSet(SubSeq(list, Len(list) - n + 1, Len(list)))
    IN  /\ SetList(t, a, SubSeq(list, 1, Len(list) - n))
        /\ status' = [g \in Guest |-> IF g \in woken THEN "woken" ELSE status[g]]
        /\ timer' = timer \ woken
        /\ UNCHANGED waitsAt

\* FutexTable.wake: timers are cleared and promises resolved, oldest first.
wake(t, a, count) ==
    LET woken == ToSet(Woken(t, a, count))
    IN  /\ SetList(t, a, Rest(t, a, count))
        /\ status' = [g \in Guest |-> IF g \in woken THEN "woken" ELSE status[g]]
        /\ timer' = timer \ woken
        /\ UNCHANGED waitsAt

\* FUTEX_WAKE: a count of zero means one.
futexWake(g, a, count) ==
    /\ status[g] = "running"
    /\ wake(TableOf[g], a, IF count = 0 THEN 1 ELSE count)

\* FUTEX_REQUEUE and FUTEX_CMP_REQUEUE to address b are a wake; b and the
\* value to compare are ignored.
futexRequeue(g, a, b, count) ==
    /\ Requeues
    /\ futexWake(g, a, count)

\* Mutant: only a wake makes the guest go on.
resumeWokenOnly(g) ==
    /\ status[g] = "woken"
    /\ status' = [status EXCEPT ![g] = "running"]
    /\ UNCHANGED <<waiters, waitsAt, timer>>

\* The continuation of the promise: the guest goes on with its result.
resume(g) ==
    /\ status[g] \in {"woken", "timedout"}
    /\ status' = [status EXCEPT ![g] = "running"]
    /\ UNCHANGED <<waiters, waitsAt, timer>>

-----------------------------------------------------------------------------
Next ==
    \E g \in Guest :
        \/ \E a \in Addr, timed \in BOOLEAN : wait(g, a, timed)
        \/ timeout(g)
        \/ \E a \in Addr, n \in Count : futexWake(g, a, n)
        \/ \E a, b \in Addr, n \in Count : futexRequeue(g, a, b, n)
        \/ resume(g)

Spec == Init /\ [][Next]_vars

WakeAt(t, a) == \E g \in Guest, n \in Count : TableOf[g] = t /\ futexWake(g, a, n)

\* Host timers fire and promise continuations run.
FairSpec == /\ Spec
            /\ \A g \in Guest : WF_vars(timeout(g)) /\ WF_vars(resume(g))

-----------------------------------------------------------------------------
\* Positions of guest g in the lists of table t.
PlacesOf(g, t) ==
    UNION {{<<a, i>> : i \in {j \in DOMAIN waiters[t][a] : waiters[t][a][j] = g}} : a \in DOMAIN waiters[t]}

\* A guest that is blocked is in exactly one list, that of its address in its
\* table, once; a guest that is not blocked is in none.  A waiter that is in no
\* list can never be woken; one in a list after its answer eats a wake.
QueuedOnceIffBlocked ==
    \A g \in Guest, t \in Table :
        Cardinality(PlacesOf(g, t)) =
           IF status[g] = "blocked" /\ t = TableOf[g] THEN 1 ELSE 0

\* A wait with a timeout returns.
TimedWaitsEnd ==
    \A g \in Guest : (status[g] = "blocked" /\ g \in timer) ~> (status[g] = "running")

\* If the address a guest waits on is woken again and again, the guest's turn
\* comes: nobody who arrives later overtakes it for ever.
WakesReachEveryWaiter ==
    \A g \in Guest, a \in Addr :
        ([]<><<WakeAt(TableOf[g], a)>>_vars) =>
            (status[g] = "blocked" /\ waitsAt[g] = a) ~> (status[g] # "blocked")

\* Requeue: whoever is not woken waits at the second address afterwards.
\* The code moves nobody (known deviation).
RequeueMovesWaiters ==
    [][\A g \in Guest, a, b \in Addr, n \in Count :
          a # b /\ futexRequeue(g, a, b, n) =>
             \A h \in ToSet(Rest(TableOf[g], a, IF n = 0 THEN 1 ELSE n)) :
                b \in DOMAIN waiters'[TableOf[g]] /\ h \in ToSet(waiters'[TableOf[g]][b])]_vars

\* One futex namespace for all processes of a process manager: the list a wake
\* of one process looks at has the waiters of the other processes in it.
\* It has not (known deviation).
WakersFindWaiters ==
    \A g, h \in Guest : status[h] = "blocked" =>
        h \in ToSet(ListOf(TableOf[g], waitsAt[h]))
=============================================================================
