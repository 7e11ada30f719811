---------------------------- MODULE KernelProofs ----------------------------
(***************************************************************************)
(* Proofs about the kernel: its actors, and the file descriptors of its    *)
(* system calls, which share no state.                                     *)
(*                                                                         *)
(* Actors, for any number of calls, with overlapping calls and resets at   *)
(* any time.  The table of a running kernel holds no dead processes,       *)
(* because an EXIT takes out the process that ended, a FAULT stops the     *)
(* kernel from running and only a RESET, which empties the table, leads    *)
(* back.  So the invariant says that an idle kernel has an empty table,    *)
(* and that the process of a call that is under way is running.            *)
(*                                                                         *)
(* Descriptors, for any programs, tables, handles and bytes: tables stay   *)
(* apart, streams and files keep what is written, and a report of          *)
(* readiness stays true.                                                   *)
(***************************************************************************)
EXTENDS KernelActors, Descriptors, FiniteSetTheorems, SequenceTheorems, WellFoundedInduction, TLAPS

-----------------------------------------------------------------------------
(* The kernel and its actors.                                              *)

\* The process actor of a call that is under way is running.
UnderWayRuns == \A c \in Call : phase[c] \in {"loaded", "running"} => process[c] = "running"

\* A kernel that has not booted has no processes.
IdleIsEmpty == kernel = "idle" => processes = {}

\* The inductive invariant.
IInv == /\ KernelTypeOK /\ UnderWayRuns /\ IdleIsEmpty /\ OverMeansEnded /\ TableHoldsNoDead

\* The machines lead from states to states.
LEMMA MachinesAreTotal ==
    /\ \A s \in KernelState, e \in {"BOOT", "RESET", "SHUTDOWN", "FAULT"} : KernelOn(s, e) \in KernelState
    /\ \A s \in ProcessState, e \in {"START", "EXIT", "FAULT", "SIGNAL"} : ProcessOn(s, e) \in ProcessState
BY DEF KernelOn, ProcessOn, KernelState, ProcessState

\* What a running process does on the events that it is sent.
LEMMA RunningReacts ==
    /\ ProcessOn("created", "START") = "running"
    /\ ProcessOn("running", "EXIT") = "exited"
    /\ ProcessOn("running", "FAULT") = "faulted"
    /\ \A s \in ProcessState \ {"blocked"} : ProcessOn(s, "SIGNAL") = s
BY DEF ProcessOn, ProcessState

\* The kernel, as the events lead it.
LEMMA KernelReacts ==
    /\ \A s \in KernelState : KernelOn(s, "FAULT") # "running"
    /\ \A s \in KernelState : KernelOn(s, "FAULT") = "idle" => s = "idle"
    /\ \A s \in KernelState, e \in {"BOOT", "RESET", "SHUTDOWN"} :
          /\ KernelOn(s, e) = "running" => s \in {"idle", "running"}
          /\ KernelOn(s, e) = "idle" => s = "idle" \/ (s = "faulted" /\ e = "RESET")
BY DEF KernelOn, KernelState

\* The inductive invariant holds in every reachable state of the kernel.
THEOREM Invariance == KernelSpec => []IInv
<1>1. KernelInit => IInv
  BY CallAssumption DEF KernelInit, IInv, KernelTypeOK, UnderWayRuns, IdleIsEmpty, OverMeansEnded, TableHoldsNoDead,
        KernelState, ProcessState
<1>2. IInv /\ [KernelNext]_kernelVars => IInv'
  <2> SUFFICES ASSUME IInv, [KernelNext]_kernelVars PROVE IInv'
    OBVIOUS
  <2> USE DEF IInv
  <2>1. ASSUME NEW c \in Call, load(c) PROVE IInv'
    <3>1. process' = [process EXCEPT ![c] = "running"]
      BY <2>1, RunningReacts DEF load
    <3>2. processes' \subseteq processes \cup {c} /\ (kernel # "running" => processes' = processes)
      BY <2>1 DEF load, Spawned
    <3>3. KernelTypeOK'
      BY <2>1, <3>1, <3>2 DEF KernelTypeOK, load, Loaded, ProcessState
    <3>4. UnderWayRuns' /\ OverMeansEnded'
      BY <2>1, <3>1 DEF load, KernelTypeOK, UnderWayRuns, OverMeansEnded
    <3>5. IdleIsEmpty' /\ TableHoldsNoDead'
      BY <2>1, <3>1, <3>2 DEF load, KernelTypeOK, IdleIsEmpty, TableHoldsNoDead
    <3> QED BY <3>3, <3>4, <3>5
  <2>2. ASSUME NEW c \in Call, loadFails(c) PROVE IInv'
    BY <2>2 DEF loadFails, Loaded, KernelTypeOK, UnderWayRuns, IdleIsEmpty, OverMeansEnded, TableHoldsNoDead
  <2>3. ASSUME NEW c \in Call, start(c) PROVE IInv'
    BY <2>3 DEF start, KernelTypeOK, UnderWayRuns, IdleIsEmpty, OverMeansEnded, TableHoldsNoDead
  <2>4. ASSUME NEW c \in Call, exits(c) PROVE IInv'
    <3>1. process' = [process EXCEPT ![c] = "exited"]
      BY <2>4, RunningReacts DEF exits, UnderWayRuns
    <3>2. processes' \subseteq processes /\ (kernel = "running" => c \notin processes')
      BY <2>4 DEF exits, Exited, SamePid, KernelTypeOK
    <3>3. KernelTypeOK'
      BY <2>4, <3>1, <3>2 DEF KernelTypeOK, exits, ProcessState
    <3>4. UnderWayRuns' /\ OverMeansEnded'
      BY <2>4, <3>1 DEF exits, KernelTypeOK, UnderWayRuns, OverMeansEnded
    <3>5. IdleIsEmpty' /\ TableHoldsNoDead'
      BY <2>4, <3>1, <3>2 DEF exits, KernelTypeOK, IdleIsEmpty, TableHoldsNoDead
    <3> QED BY <3>3, <3>4, <3>5
  <2>5. ASSUME NEW c \in Call, faults(c) PROVE IInv'
    <3>1. process' = [process EXCEPT ![c] = "faulted"]
      BY <2>5, RunningReacts DEF faults, UnderWayRuns
    <3>2. kernel' \in KernelState /\ kernel' # "running" /\ (kernel' = "idle" => kernel = "idle")
      BY <2>5, MachinesAreTotal, KernelReacts DEF faults, KernelTypeOK
    <3>3. KernelTypeOK'
      BY <2>5, <3>1, <3>2 DEF KernelTypeOK, faults, ProcessState
    <3>4. UnderWayRuns' /\ OverMeansEnded'
      BY <2>5, <3>1 DEF faults, KernelTypeOK, UnderWayRuns, OverMeansEnded
    <3>5. IdleIsEmpty' /\ TableHoldsNoDead'
      BY <2>5, <3>2 DEF faults, IdleIsEmpty, TableHoldsNoDead
    <3> QED BY <3>3, <3>4, <3>5
  <2>6. ASSUME NEW c \in Call, signal(c) PROVE IInv'
    <3>1. process' \in [Call -> ProcessState]
      BY <2>6, MachinesAreTotal DEF signal, KernelTypeOK
    <3>2. \A d \in Call : process[d] # "blocked" => process'[d] = process[d]
      BY <2>6, RunningReacts DEF signal, KernelTypeOK
    <3>3. KernelTypeOK'
      BY <2>6, <3>1 DEF KernelTypeOK, signal
    <3>4. UnderWayRuns' /\ OverMeansEnded'
      BY <2>6, <3>2 DEF signal, UnderWayRuns, OverMeansEnded
    <3>5. IdleIsEmpty' /\ TableHoldsNoDead'
      BY <2>6, <3>2 DEF signal, KernelTypeOK, IdleIsEmpty, TableHoldsNoDead
    <3> QED BY <3>3, <3>4, <3>5
  <2>7. ASSUME NEW e \in {"BOOT", "RESET", "SHUTDOWN"}, command(e) PROVE IInv'
    <3>1. kernel' \in KernelState
      BY <2>7, MachinesAreTotal DEF command, KernelTypeOK
    <3>2. processes' \in {processes, {}}
      BY <2>7 DEF command
    <3>3. KernelTypeOK'
      BY <2>7, <3>1, <3>2 DEF KernelTypeOK, command
    <3>4. IdleIsEmpty'
      BY <2>7, KernelReacts DEF command, KernelTypeOK, IdleIsEmpty
    <3>5. TableHoldsNoDead'
      BY <2>7, <3>2, KernelReacts DEF command, KernelTypeOK, IdleIsEmpty, TableHoldsNoDead
    <3>6. UnderWayRuns' /\ OverMeansEnded'
      BY <2>7 DEF command, UnderWayRuns, OverMeansEnded
    <3> QED BY <3>3, <3>4, <3>5, <3>6
  <2>8. CASE UNCHANGED kernelVars
    BY <2>8 DEF kernelVars, KernelTypeOK, UnderWayRuns, IdleIsEmpty, OverMeansEnded, TableHoldsNoDead
  <2> QED BY <2>1, <2>2, <2>3, <2>4, <2>5, <2>6, <2>7, <2>8 DEF KernelNext
<1> QED BY <1>1, <1>2, PTL DEF KernelSpec

\* Every reachable state of the kernel is well typed; in particular no event
\* leads an actor to a state that its machine does not have.
THEOREM TypeCorrect == KernelSpec => []KernelTypeOK
BY Invariance, PTL DEF IInv

\* A call of run that is over has ended its process actor accordingly.
THEOREM CallsEndProcesses == KernelSpec => []OverMeansEnded
BY Invariance, PTL DEF IInv

\* The process table of a running kernel never holds a process that has ended,
\* for any number of calls, overlaps, faults, resets and dropped events.
THEOREM NoDeadInTable == KernelSpec => []TableHoldsNoDead
BY Invariance, PTL DEF IInv

-----------------------------------------------------------------------------
(* Helpers.                                                                *)

\* A set of natural numbers that is not empty has a smallest element.
LEMMA SmallestExists ==
    ASSUME NEW T, T \subseteq Nat, T # {}
    PROVE  \E a \in T : \A b \in T : a <= b
<1> DEFINE R == OpToRel(<, Nat)
<1>1. R = {ss \in Nat \X Nat : ss[1] < ss[2]}
  BY Zenon DEF OpToRel
<1>2. IsWellFoundedOn(R, Nat)
  BY NatLessThanWellFounded, Zenon
<1> HIDE DEF R
<1>3. PICK a \in T : \A b \in T : ~(<<b, a>> \in R)
  BY <1>2, WFMin, Zenon
<1>4. \A b \in T : ~(b < a)
  BY <1>1, <1>3
<1> QED
  BY <1>3, <1>4

\* The smaller of two numbers.
LEMMA MinOfTwo ==
    ASSUME NEW a \in Nat, NEW b \in Nat
    PROVE  Min({a, b}) \in Nat /\ Min({a, b}) <= a /\ Min({a, b}) <= b /\ Min({a, b}) \in {a, b}
<1>1. \E x \in {a, b} : \A y \in {a, b} : x <= y
  OBVIOUS
<1>2. Min({a, b}) \in {a, b} /\ \A y \in {a, b} : Min({a, b}) <= y
  BY <1>1 DEF Min
<1> QED
  BY <1>2

\* The larger of two numbers.
LEMMA MaxOfTwo ==
    ASSUME NEW a \in Nat, NEW b \in Nat
    PROVE  Max({a, b}) \in Nat /\ Max({a, b}) >= a /\ Max({a, b}) >= b /\ Max({a, b}) \in {a, b}
<1>1. \E x \in {a, b} : \A y \in {a, b} : x >= y
  OBVIOUS
<1>2. Max({a, b}) \in {a, b} /\ \A y \in {a, b} : Max({a, b}) >= y
  BY <1>1 DEF Max
<1> QED
  BY <1>2

\* A number that firstFree hands out is free.
LEMMA FreeIsFree ==
    ASSUME NEW N, NEW table \in [Fd -> N], NEW hint \in Nat, firstFree(table, hint) <= MaxFd
    PROVE  /\ firstFree(table, hint) \in Fd /\ firstFree(table, hint) >= hint
           /\ table[firstFree(table, hint)] = NoHandle
<1> DEFINE T == {f \in hint .. MaxFd : table[f] = NoHandle}
<1>1. T # {}
  <2>1. CASE T = {}
    <3>1. firstFree(table, hint) = MaxFd + 1
      BY <2>1 DEF firstFree
    <3> QED
      BY <3>1, DescAssumption
  <2> QED
    BY <2>1
<1>2. firstFree(table, hint) = Min(T)
  BY <1>1 DEF firstFree
<1>3. T \subseteq Nat
  BY DescAssumption
<1>4. Min(T) \in T
  <2> HIDE DEF T
  <2>1. \E x \in T : \A y \in T : x <= y
    BY <1>1, <1>3, SmallestExists
  <2> QED
    BY <2>1 DEF Min
<1> QED
  BY <1>2, <1>3, <1>4, DescAssumption DEF Fd

\* Concatenation under a name of its own, so that the provers do not expand it.
Cat(s, t) == s \o t

\* What is taken from the front and what is left are the whole.
LEMMA TakeOff ==
    ASSUME NEW s \in Seq(Nat), NEW n \in Nat, n <= Len(s)
    PROVE  /\ SubSeq(s, 1, n) \in Seq(Nat) /\ takeOff(s, n) \in Seq(Nat)
           /\ Cat(SubSeq(s, 1, n), takeOff(s, n)) = s
<1>1. Len(s) \in Nat /\ \A i \in 1 .. Len(s) : s[i] \in Nat
  BY LenProperties
<1>2. SubSeq(s, 1, n) \in Seq(Nat)
  BY <1>1, SubSeqProperties
<1>3. SubSeq(s, n + 1, Len(s)) \in Seq(Nat)
  <2>1. \A i \in n + 1 .. Len(s) : s[i] \in Nat
    BY <1>1
  <2> QED
    BY <1>1, <2>1, SubSeqProperties
<1>4. SubSeq(s, 1, n) \o SubSeq(s, n + 1, Len(s)) = SubSeq(s, 1, Len(s))
  <2>1. 1 \in 1 .. Len(s) + 1 /\ n \in 1 - 1 .. Len(s) /\ Len(s) \in n .. Len(s)
    BY <1>1
  <2> QED
    BY <2>1, ConcatAdjacentSubSeq
<1>5. SubSeq(s, 1, Len(s)) = s
  BY SubSeqFull
<1> QED
  BY <1>2, <1>3, <1>4, <1>5, Zenon DEF takeOff, Cat

\* Type, length and grouping of concatenations.
LEMMA CatFacts ==
    ASSUME NEW s \in Seq(Nat), NEW t \in Seq(Nat)
    PROVE  Cat(s, t) \in Seq(Nat) /\ Len(Cat(s, t)) = Len(s) + Len(t)
BY ConcatProperties DEF Cat

\* How three pieces are grouped does not matter.
LEMMA Associates ==
    ASSUME NEW s \in Seq(Nat), NEW t \in Seq(Nat), NEW u \in Seq(Nat)
    PROVE  Cat(Cat(s, t), u) = Cat(s, Cat(t, u))
BY ConcatAssociative, SMTT(60) DEF Cat

\* Laying bytes over a file: at its end they are appended, within it the length
\* stays.
LEMMA OverlayFacts ==
    ASSUME NEW bytes \in Seq(Nat), NEW at \in Nat, NEW more \in Seq(Nat)
    PROVE  /\ Overlay(bytes, at, more) \in Seq(Nat)
           /\ at = Len(bytes) => /\ Overlay(bytes, at, more) = Cat(bytes, more)
                                 /\ Len(Overlay(bytes, at, more)) = at + Len(more)
           /\ at + Len(more) <= Len(bytes) => Len(Overlay(bytes, at, more)) = Len(bytes)
<1>1. /\ Len(bytes) \in Nat /\ Len(more) \in Nat /\ \A i \in 1 .. Len(bytes) : bytes[i] \in Nat
      /\ \A i \in 1 .. Len(more) : more[i] \in Nat
  BY LenProperties
<1>2. PICK m \in Nat : /\ m = Max({Len(bytes), at + Len(more)})
                      /\ m >= Len(bytes) /\ m >= at + Len(more) /\ m \in {Len(bytes), at + Len(more)}
  <2>1. PICK e \in Nat : e = at + Len(more)
    BY <1>1
  <2>2. \A a, b \in Nat : /\ Max({a, b}) \in Nat /\ Max({a, b}) >= a /\ Max({a, b}) >= b
                          /\ Max({a, b}) \in {a, b}
    BY MaxOfTwo
  <2> QED
    BY <1>1, <2>1, <2>2, Zenon
<1>3. m >= Len(bytes) /\ m >= at + Len(more) /\ (m = Len(bytes) \/ m = at + Len(more))
  BY <1>2
<1> DEFINE F(i) == IF i > at /\ i <= at + Len(more) THEN more[i - at]
                   ELSE IF i <= Len(bytes) THEN bytes[i] ELSE 0
<1>4. Overlay(bytes, at, more) = [i \in 1 .. m |-> F(i)]
  BY <1>2, Zenon DEF Overlay
<1>5. ASSUME NEW i \in 1 .. m
      PROVE  F(i) \in Nat
  <2>1. CASE i > at /\ i <= at + Len(more)
    <3>1. i - at \in 1 .. Len(more)
      BY <1>1, <2>1
    <3> QED
      BY <1>1, <2>1, <3>1
  <2>2. CASE ~(i > at /\ i <= at + Len(more))
    BY <1>1, <2>2
  <2> QED
    BY <2>1, <2>2
<1>6. PICK o \in Seq(Nat) : o = Overlay(bytes, at, more) /\ Len(o) = m /\ \A i \in 1 .. m : o[i] = F(i)
  <2> HIDE DEF F
  <2>1. [i \in 1 .. m |-> F(i)] \in Seq(Nat)
    BY <1>5
  <2>2. Len([i \in 1 .. m |-> F(i)]) = m /\ \A j \in 1 .. m : [i \in 1 .. m |-> F(i)][j] = F(j)
    BY <1>2
  <2> QED
    BY <1>4, <2>1, <2>2, Zenon
<1>7. ASSUME at = Len(bytes)
      PROVE  o = Cat(bytes, more) /\ Len(o) = at + Len(more)
  <2>1. PICK c \in Seq(Nat) : /\ c = Cat(bytes, more) /\ Len(c) = Len(bytes) + Len(more)
                              /\ \A i \in 1 .. Len(bytes) + Len(more) :
                                    c[i] = IF i <= Len(bytes) THEN bytes[i] ELSE more[i - Len(bytes)]
    <3>1. /\ Cat(bytes, more) \in Seq(Nat) /\ Len(Cat(bytes, more)) = Len(bytes) + Len(more)
          /\ \A i \in 1 .. Len(bytes) + Len(more) :
                Cat(bytes, more)[i] = IF i <= Len(bytes) THEN bytes[i] ELSE more[i - Len(bytes)]
      BY ConcatProperties DEF Cat
    <3> QED
      BY <3>1, Zenon
  <2>2. Len(o) = at + Len(more)
    BY <1>1, <1>3, <1>6, <1>7
  <2>3. \A i \in 1 .. Len(o) : o[i] = c[i]
    <3>1. ASSUME NEW i \in 1 .. Len(o)
          PROVE  o[i] = c[i]
      <4>1. i \in 1 .. m /\ i \in 1 .. Len(bytes) + Len(more) /\ i \in Nat
        BY <1>1, <1>6, <1>7, <2>2
      <4>2. o[i] = F(i) /\ c[i] = IF i <= Len(bytes) THEN bytes[i] ELSE more[i - Len(bytes)]
        BY <1>6, <2>1, <4>1
      <4> QED
        BY <1>1, <1>7, <4>1, <4>2
    <3> QED
      BY <3>1
  <2>4. o = c
    <3>1. Len(o) = Len(c)
      BY <1>7, <2>1, <2>2
    <3> QED
      BY <2>3, <3>1, SeqEqual, Zenon
  <2> QED
    BY <2>1, <2>2, <2>4
<1>8. ASSUME at + Len(more) <= Len(bytes)
      PROVE  Len(o) = Len(bytes)
  BY <1>1, <1>3, <1>6, <1>8
<1> QED
  BY <1>6, <1>7, <1>8, Zenon

-----------------------------------------------------------------------------
(* The inductive invariant.                                                *)

Kind == {"stdin", "stdout", "pipeR", "pipeW", "file", "event", "epoll"}
Rec  == [kind : Kind, pos : Nat, acc : {"rd", "wr", "rdwr"}, app : BOOLEAN, want : SUBSET Fd, sys : Proc]

\* Types; tables name handles that exist, and the child has a table only while
\* it lives.
DescTyped ==
    /\ turn \in Proc /\ child \in {"none", "forked", "done"} /\ (turn = "child" => child = "forked")
    /\ handles \in Seq(Rec) /\ nextFd \in [Proc -> Nat]
    /\ fd \in [Proc -> [Fd -> 0 .. Len(handles)]]
    /\ child # "forked" => \A f \in Fd : fd["child"][f] = NoHandle
    /\ streams \in [Stream -> Seq(Nat)] /\ put \in [Stream -> Seq(Nat)] /\ got \in [Stream -> Seq(Nat)]
    /\ data \in Seq(Nat) /\ log \in Seq(Nat) /\ moved \in BOOLEAN
    /\ seen \in [Proc -> SUBSET Fd]

\* Bytes of the streams.
BytesKept == \A s \in {"stdin", "stdout", "pipe"} : put[s] = Cat(got[s], streams[s])

\* There is one event counter at most, and it counts from the first.
IsEvent(i) == handles[i].kind = "event"
EventsKept ==
    /\ \A i \in 1 .. Len(handles) : IsEvent(i) => Len(put["event"]) = Len(got["event"]) + handles[i].pos
    /\ \A i, j \in 1 .. Len(handles) : IsEvent(i) /\ IsEvent(j) => i = j
    /\ (\A i \in 1 .. Len(handles) : ~IsEvent(i)) => put["event"] = <<>> /\ got["event"] = <<>>

\* The only handle of the file, as long as nothing but writes moves it, is at the
\* end; and a file nobody opened is empty.
AtTheEnd(i) == handles[i].acc = "rd" \/ handles[i].app \/ handles[i].pos = Len(data)
FileKept ==
    /\ FileKeepsWrites
    /\ \A i \in FileHandles : FileHandles = {i} /\ ~moved => AtTheEnd(i)
    /\ FileHandles = {} => data = <<>>

DescInv == DescTyped /\ BytesKept /\ EventsKept /\ FileKept /\ ReportedIsReadable

-----------------------------------------------------------------------------
(* What a step leaves alone, part by part.                                 *)

\* Old handles stay, and those of kind k keep their position; none of kind k is new.
Carries(k) ==
    /\ handles' \in Seq(Rec) /\ Len(handles) <= Len(handles')
    /\ \A i \in 1 .. Len(handles) :
          /\ handles'[i].kind = handles[i].kind /\ handles'[i].acc = handles[i].acc
          /\ handles'[i].app = handles[i].app
          /\ handles[i].kind = k => handles'[i].pos = handles[i].pos
NoneNew(k) == \A i \in 1 .. Len(handles') : i > Len(handles) => handles'[i].kind # k

\* Lengths are numbers, and indices go from 1 to them.
LEMMA HandleIndices ==
    ASSUME DescTyped
    PROVE  /\ Len(handles) \in Nat /\ DOMAIN handles = 1 .. Len(handles)
           /\ \A i \in 1 .. Len(handles) : handles[i] \in Rec
<1>1. handles \in Seq(Rec)
  BY DEF DescTyped
<1> HIDE DEF Rec
<1> QED
  BY <1>1, LenProperties, ElementOfSeq

\* No handle changes.
LEMMA HandlesStay ==
    ASSUME DescTyped, UNCHANGED handles, NEW k
    PROVE  Carries(k) /\ NoneNew(k)
<1>1. Len(handles) \in Nat /\ handles \in Seq(Rec)
  BY HandleIndices DEF DescTyped
<1> HIDE DEF Rec
<1> QED
  BY <1>1 DEF Carries, NoneNew

\* A handle of another kind is moved.
LEMMA PosChanges ==
    ASSUME DescTyped, NEW k \in 1 .. Len(handles), NEW v \in Nat, handles' = [handles EXCEPT ![k].pos = v]
    PROVE  /\ \A kind : handles[k].kind # kind => Carries(kind)
           /\ \A kind : NoneNew(kind)
           /\ Len(handles') = Len(handles) /\ handles' \in Seq(Rec) /\ handles'[k].pos = v
           /\ \A i \in 1 .. Len(handles) :
                 /\ handles'[i].kind = handles[i].kind /\ handles'[i].acc = handles[i].acc
                 /\ handles'[i].app = handles[i].app /\ (i # k => handles'[i].pos = handles[i].pos)
<1>1. PICK r \in Rec : r = [handles[k] EXCEPT !.pos = v]
  BY HandleIndices DEF Rec
<1>2. handles' = [handles EXCEPT ![k] = r]
  BY <1>1
<1>3. handles \in Seq(Rec) /\ Len(handles) \in Nat
  BY HandleIndices DEF DescTyped
<1>4. r.pos = v /\ r.kind = handles[k].kind /\ r.acc = handles[k].acc /\ r.app = handles[k].app
  BY <1>1, HandleIndices DEF Rec
<1> HIDE DEF Rec
<1>5. /\ handles' \in Seq(Rec) /\ Len(handles') = Len(handles)
      /\ \A i \in 1 .. Len(handles) : handles'[i] = IF i = k THEN r ELSE handles[i]
  BY <1>2, <1>3, ExceptSeq
<1> QED
  BY <1>3, <1>4, <1>5 DEF Carries, NoneNew

\* A set is asked for other descriptors.
LEMMA WantChanges ==
    ASSUME DescTyped, NEW k \in 1 .. Len(handles), NEW w \in SUBSET Fd, handles' = [handles EXCEPT ![k].want = w]
    PROVE  /\ \A kind : Carries(kind) /\ NoneNew(kind)
           /\ Len(handles') = Len(handles) /\ handles' \in Seq(Rec)
<1>1. PICK r \in Rec : r = [handles[k] EXCEPT !.want = w]
  BY HandleIndices DEF Rec
<1>2. handles' = [handles EXCEPT ![k] = r]
  BY <1>1
<1>3. handles \in Seq(Rec) /\ Len(handles) \in Nat
  BY HandleIndices DEF DescTyped
<1>4. r.pos = handles[k].pos /\ r.kind = handles[k].kind /\ r.acc = handles[k].acc /\ r.app = handles[k].app
  BY <1>1, HandleIndices DEF Rec
<1> HIDE DEF Rec
<1>5. /\ handles' \in Seq(Rec) /\ Len(handles') = Len(handles)
      /\ \A i \in 1 .. Len(handles) : handles'[i] = IF i = k THEN r ELSE handles[i]
  BY <1>2, <1>3, ExceptSeq
<1> QED
  BY <1>3, <1>4, <1>5 DEF Carries, NoneNew

\* A handle is added.
LEMMA HandleAdded ==
    ASSUME DescTyped, NEW r \in Rec, handles' = Append(handles, r)
    PROVE  /\ \A kind : Carries(kind) /\ (r.kind # kind => NoneNew(kind))
           /\ Len(handles') = Len(handles) + 1 /\ handles' \in Seq(Rec) /\ handles'[Len(handles) + 1] = r
           /\ \A i \in 1 .. Len(handles) : handles'[i] = handles[i]
<1>1. handles \in Seq(Rec) /\ Len(handles) \in Nat
  BY HandleIndices DEF DescTyped
<1> HIDE DEF Rec
<1>2. /\ handles' \in Seq(Rec) /\ Len(handles') = Len(handles) + 1 /\ handles'[Len(handles) + 1] = r
      /\ \A i \in 1 .. Len(handles) : handles'[i] = handles[i]
  BY <1>1, AppendProperties
<1> QED
  BY <1>1, <1>2 DEF Carries, NoneNew

\* The counter is left alone.
LEMMA EventFrame ==
    ASSUME DescTyped, EventsKept, Carries("event"), NoneNew("event"),
           put'["event"] = put["event"], got'["event"] = got["event"]
    PROVE  EventsKept'
<1>1. Len(handles) \in Nat /\ Len(handles') \in Nat /\ Len(handles) <= Len(handles')
  BY HandleIndices, LenProperties DEF Carries
<1>2. ASSUME NEW i \in 1 .. Len(handles'), handles'[i].kind = "event"
      PROVE  i \in 1 .. Len(handles) /\ IsEvent(i) /\ handles'[i].pos = handles[i].pos
  BY <1>1, <1>2 DEF Carries, NoneNew, IsEvent
<1>3. ASSUME NEW i \in 1 .. Len(handles)
      PROVE  i \in 1 .. Len(handles') /\ (IsEvent(i) => handles'[i].kind = "event")
  BY <1>1 DEF Carries, IsEvent
<1> QED
  BY <1>2, <1>3 DEF EventsKept, IsEvent

\* The file is left alone.
LEMMA FileFrame ==
    ASSUME DescTyped, FileKept, Carries("file"), NoneNew("file"), UNCHANGED <<data, log, moved>>
    PROVE  FileKept'
<1>1. /\ Len(handles) \in Nat /\ Len(handles') \in Nat /\ Len(handles) <= Len(handles')
      /\ DOMAIN handles = 1 .. Len(handles) /\ DOMAIN handles' = 1 .. Len(handles')
  BY HandleIndices, LenProperties DEF Carries
<1>2. FileHandles' = FileHandles
  BY <1>1 DEF FileHandles, Carries, NoneNew
<1>3. \A i \in FileHandles : /\ handles'[i].app = handles[i].app /\ handles'[i].pos = handles[i].pos
                             /\ handles'[i].acc = handles[i].acc
  BY <1>1 DEF FileHandles, Carries
<1>4. Sequential' => Sequential
  BY <1>2, <1>3 DEF Sequential
<1>5. FileKeepsWrites'
  BY <1>4 DEF FileKept, FileKeepsWrites
<1>6. \A i \in FileHandles : AtTheEnd(i) => AtTheEnd(i)'
  BY <1>3 DEF AtTheEnd
<1> QED
  BY <1>2, <1>5, <1>6 DEF FileKept

Readable(p, f) == hasData(fd[p][f])

\* A report stays true of descriptors that stay.
LEMMA ReportFrame ==
    ASSUME DescTyped, ReportedIsReadable, Carries("event"), seen' \in [Proc -> SUBSET Fd],
           \A p \in Proc : \A f \in seen'[p] : f \in seen[p] /\ fd'[p][f] = fd[p][f]
    PROVE  ReportedIsReadable'
<1> SUFFICES ASSUME NEW p \in Proc, NEW f \in seen'[p]
             PROVE  Readable(p, f)'
  BY Zenon DEF ReportedIsReadable, Readable
<1>1. f \in Fd /\ hasData(fd[p][f]) /\ fd'[p][f] = fd[p][f]
  BY DEF ReportedIsReadable
<1>2. fd[p][f] \in 0 .. Len(handles)
  BY <1>1 DEF DescTyped
<1>3. fd[p][f] \in 1 .. Len(handles)
  BY <1>1, <1>2, HandleIndices DEF hasData, NoHandle
<1> QED
  BY <1>1, <1>3 DEF hasData, Carries, Readable, NoHandle

-----------------------------------------------------------------------------
(* The calls that leave the tables alone.                                  *)

TypedIO == /\ streams \in [Stream -> Seq(Nat)] /\ put \in [Stream -> Seq(Nat)] /\ got \in [Stream -> Seq(Nat)]
           /\ data \in Seq(Nat) /\ log \in Seq(Nat) /\ moved \in BOOLEAN
           /\ seen \in [Proc -> SUBSET Fd]

\* A call that leaves the tables alone and creates nothing keeps the types.
LEMMA TypedStep ==
    ASSUME DescTyped, UNCHANGED <<turn, child, fd, nextFd>>,
           handles' \in Seq(Rec), Len(handles') = Len(handles), TypedIO'
    PROVE  DescTyped'
<1> HIDE DEF Rec
<1> QED
  BY DEF DescTyped, TypedIO

\* A descriptor that is open stands for a handle.
LEMMA OpenHandle ==
    ASSUME DescTyped, NEW f \in Fd, Open(f)
    PROVE  fd[turn][f] \in 1 .. Len(handles) /\ HandleOf(f) \in Rec
<1>1. fd[turn][f] \in 0 .. Len(handles) /\ fd[turn][f] # 0
  BY DEF DescTyped, Open, NoHandle
<1>2. fd[turn][f] \in 1 .. Len(handles)
  BY <1>1, HandleIndices
<1> QED
  BY <1>2, HandleIndices DEF HandleOf

\* read of standard input or a pipe.
LEMMA ReadStreamKeeps ==
    ASSUME DescInv, NEW f \in Fd, Open(f), NEW count \in Nat, readStream(f, count), UNCH_tables
    PROVE  DescInv'
<1>1. DescTyped /\ BytesKept /\ EventsKept /\ FileKept /\ ReportedIsReadable
  BY DEF DescInv
<1>2. PICK s \in {"stdin", "pipe"}, n \in Nat :
         /\ n <= Len(streams[s])
         /\ streams' = [streams EXCEPT ![s] = takeOff(@, n)]
         /\ got' = [got EXCEPT ![s] = @ \o SubSeq(streams[s], 1, n)]
  <2> DEFINE s == StreamOf(HandleOf(f).kind)
             n == Min({count, Len(streams[s])})
  <2>1. s \in {"stdin", "pipe"}
    BY DEF readStream, StreamOf
  <2>2. Len(streams[s]) \in Nat
    <3>1. streams[s] \in Seq(Nat)
      BY <1>1, <2>1 DEF DescTyped, Stream
    <3> QED
      BY <3>1, LenProperties
  <2>3. n \in Nat /\ n <= Len(streams[s])
    <3> HIDE DEF s
    <3> QED
      BY <2>2, MinOfTwo
  <2>4. /\ streams' = [streams EXCEPT ![s] = takeOff(@, n)]
        /\ got' = [got EXCEPT ![s] = @ \o SubSeq(streams[s], 1, n)]
    BY Zenon DEF readStream
  <2> HIDE DEF s, n
  <2> QED
    BY <2>1, <2>3, <2>4
<1>3. UNCHANGED <<turn, child, fd, nextFd, handles, data, put, log, moved, seen>>
  BY DEF readStream, UNCH_tables
<1>4. PICK x \in Seq(Nat), y \in Seq(Nat) : x = SubSeq(streams[s], 1, n) /\ y = takeOff(streams[s], n)
                                            /\ Cat(x, y) = streams[s]
  <2>1. streams[s] \in Seq(Nat)
    BY <1>1 DEF DescTyped, Stream
  <2> QED
    BY <1>2, <2>1, TakeOff, Zenon
<1>5. PICK g \in Seq(Nat) : g = Cat(got[s], x) /\ Cat(g, y) = Cat(got[s], streams[s])
  <2>1. got[s] \in Seq(Nat)
    BY <1>1 DEF DescTyped, Stream
  <2>2. Cat(got[s], x) \in Seq(Nat)
    BY <2>1, CatFacts
  <2>3. Cat(Cat(got[s], x), y) = Cat(got[s], Cat(x, y))
    BY <2>1, Associates
  <2> QED
    BY <1>4, <2>2, <2>3, Zenon
<1>6. streams' = [streams EXCEPT ![s] = y] /\ got' = [got EXCEPT ![s] = g]
  BY <1>2, <1>4, <1>5, Zenon DEF Cat
<1>7. DescTyped'
  <2>1. TypedIO'
    BY <1>1, <1>3, <1>6 DEF DescTyped, TypedIO, Stream
  <2>2. handles' \in Seq(Rec) /\ Len(handles') = Len(handles)
    <3> HIDE DEF Rec
    <3> QED
      BY <1>1, <1>3 DEF DescTyped
  <2> QED
    BY <1>1, <1>3, <2>1, <2>2, TypedStep
<1>8. BytesKept'
  <2>1. ASSUME NEW r \in {"stdin", "stdout", "pipe"}
        PROVE  put'[r] = Cat(got'[r], streams'[r])
    <3>1. CASE r = s
      BY <1>1, <1>3, <1>5, <1>6, <3>1 DEF DescTyped, Stream, BytesKept
    <3>2. CASE r # s
      BY <1>1, <1>3, <1>6, <3>2 DEF DescTyped, Stream, BytesKept
    <3> QED
      BY <3>1, <3>2
  <2> QED
    BY <2>1 DEF BytesKept
<1>9. EventsKept' /\ FileKept' /\ ReportedIsReadable'
  <2>1. put'["event"] = put["event"] /\ got'["event"] = got["event"]
    BY <1>1, <1>3, <1>6 DEF DescTyped, Stream
  <2>2. seen' \in [Proc -> SUBSET Fd] /\ \A p \in Proc : \A g1 \in seen'[p] : g1 \in seen[p] /\ fd'[p][g1] = fd[p][g1]
    BY <1>1, <1>3 DEF DescTyped
  <2> QED
    BY <1>1, <1>3, <2>1, <2>2, HandlesStay, EventFrame, FileFrame, ReportFrame
<1> QED
  BY <1>7, <1>8, <1>9 DEF DescInv

\* write to standard output or a pipe.
LEMMA WriteStreamKeeps ==
    ASSUME DescInv, NEW f \in Fd, Open(f), NEW bytes \in Seq(Nat), writeStream(f, bytes), UNCH_tables
    PROVE  DescInv'
<1>1. DescTyped /\ BytesKept /\ EventsKept /\ FileKept /\ ReportedIsReadable
  BY DEF DescInv
<1>2. PICK s \in {"stdout", "pipe"} :
         /\ streams' = [streams EXCEPT ![s] = @ \o bytes]
         /\ put' = [put EXCEPT ![s] = @ \o bytes]
  <2>1. StreamOf(HandleOf(f).kind) \in {"stdout", "pipe"}
    BY DEF writeStream, StreamOf
  <2> QED
    BY <2>1, Zenon DEF writeStream
<1>3. UNCHANGED <<turn, child, fd, nextFd, handles, data, got, log, moved, seen>>
  BY DEF writeStream, UNCH_tables
<1>4. got[s] \in Seq(Nat) /\ streams[s] \in Seq(Nat) /\ put[s] \in Seq(Nat) /\ put[s] = Cat(got[s], streams[s])
  BY <1>1 DEF DescTyped, Stream, BytesKept
<1>5. PICK x \in Seq(Nat), y \in Seq(Nat) : x = Cat(streams[s], bytes) /\ y = Cat(put[s], bytes)
                                            /\ y = Cat(got[s], x)
  <2>1. Cat(streams[s], bytes) \in Seq(Nat) /\ Cat(put[s], bytes) \in Seq(Nat)
    BY <1>4, CatFacts
  <2>2. Cat(Cat(got[s], streams[s]), bytes) = Cat(got[s], Cat(streams[s], bytes))
    BY <1>4, Associates
  <2> QED
    BY <1>4, <2>1, <2>2, Zenon
<1>6. streams' = [streams EXCEPT ![s] = x] /\ put' = [put EXCEPT ![s] = y]
  BY <1>2, <1>5, Zenon DEF Cat
<1>7. DescTyped'
  <2>1. TypedIO'
    BY <1>1, <1>3, <1>6 DEF DescTyped, TypedIO, Stream
  <2>2. handles' \in Seq(Rec) /\ Len(handles') = Len(handles)
    <3> HIDE DEF Rec
    <3> QED
      BY <1>1, <1>3 DEF DescTyped
  <2> QED
    BY <1>1, <1>3, <2>1, <2>2, TypedStep
<1>8. BytesKept'
  <2>1. ASSUME NEW r \in {"stdin", "stdout", "pipe"}
        PROVE  put'[r] = Cat(got'[r], streams'[r])
    <3>1. CASE r = s
      BY <1>1, <1>3, <1>5, <1>6, <3>1 DEF DescTyped, Stream, BytesKept
    <3>2. CASE r # s
      BY <1>1, <1>3, <1>6, <3>2 DEF DescTyped, Stream, BytesKept
    <3> QED
      BY <3>1, <3>2
  <2> QED
    BY <2>1 DEF BytesKept
<1>9. EventsKept' /\ FileKept' /\ ReportedIsReadable'
  <2>1. put'["event"] = put["event"] /\ got'["event"] = got["event"]
    BY <1>1, <1>3, <1>6 DEF DescTyped, Stream
  <2>2. seen' \in [Proc -> SUBSET Fd] /\ \A p \in Proc : \A g1 \in seen'[p] : g1 \in seen[p] /\ fd'[p][g1] = fd[p][g1]
    BY <1>1, <1>3 DEF DescTyped
  <2> QED
    BY <1>1, <1>3, <2>1, <2>2, HandlesStay, EventFrame, FileFrame, ReportFrame
<1> QED
  BY <1>7, <1>8, <1>9 DEF DescInv

-----------------------------------------------------------------------------
(* Calls on the file.                                                      *)

\* The handles of the file are the same after a step that only moves one.
LEMMA FileHandlesStay ==
    ASSUME DescTyped, NEW k \in 1 .. Len(handles), NEW v \in Nat, handles' = [handles EXCEPT ![k].pos = v]
    PROVE  /\ FileHandles' = FileHandles
           /\ \A i \in FileHandles : /\ handles'[i].app = handles[i].app /\ handles'[i].acc = handles[i].acc
                                     /\ i # k => handles'[i].pos = handles[i].pos
<1>1. /\ Len(handles') = Len(handles) /\ handles' \in Seq(Rec)
      /\ \A i \in 1 .. Len(handles) :
            /\ handles'[i].kind = handles[i].kind /\ handles'[i].acc = handles[i].acc
            /\ handles'[i].app = handles[i].app /\ (i # k => handles'[i].pos = handles[i].pos)
  BY PosChanges
<1>2. DOMAIN handles = 1 .. Len(handles) /\ DOMAIN handles' = 1 .. Len(handles')
  BY <1>1, HandleIndices, LenProperties
<1> HIDE DEF Rec
<1> QED
  BY <1>1, <1>2 DEF FileHandles

\* The descriptors, the streams and the counter do not see what happens to the file.
LEMMA FileStep ==
    ASSUME DescInv, UNCH_tables, UNCHANGED <<streams, put, got, seen>>,
           handles' \in Seq(Rec), Len(handles') = Len(handles), Carries("event"), NoneNew("event"),
           data' \in Seq(Nat), log' \in Seq(Nat), moved' \in BOOLEAN
    PROVE  DescTyped' /\ BytesKept' /\ EventsKept' /\ ReportedIsReadable'
<1>1. DescTyped /\ BytesKept /\ EventsKept /\ ReportedIsReadable
  BY DEF DescInv
<1>2. UNCHANGED <<turn, child, fd, nextFd>>
  BY DEF UNCH_tables
<1> HIDE DEF Rec
<1>3. DescTyped'
  <2>1. TypedIO'
    BY <1>1 DEF DescTyped, TypedIO
  <2> QED
    BY <1>1, <1>2, <2>1, TypedStep
<1>4. BytesKept'
  BY <1>1 DEF BytesKept
<1>5. EventsKept'
  BY <1>1, EventFrame
<1>6. ReportedIsReadable'
  <2>1. seen' \in [Proc -> SUBSET Fd] /\ \A p \in Proc : \A g \in seen'[p] : g \in seen[p] /\ fd'[p][g] = fd[p][g]
    BY <1>1, <1>2 DEF DescTyped
  <2> QED
    BY <1>1, <2>1, ReportFrame
<1> QED
  BY <1>3, <1>4, <1>5, <1>6

\* A position is moved and the bytes stay: the move is remembered, unless the
\* handle cannot write.
LEMMA MoveKeeps ==
    ASSUME DescInv, UNCH_tables, UNCHANGED <<streams, put, got, seen, data, log>>,
           NEW k \in 1 .. Len(handles), NEW v \in Nat, handles' = [handles EXCEPT ![k].pos = v],
           handles[k].kind = "file", moved' \in BOOLEAN, moved => moved', moved' \/ handles[k].acc = "rd"
    PROVE  DescInv'
<1>1. DescTyped /\ FileKept /\ data \in Seq(Nat) /\ log \in Seq(Nat)
  BY DEF DescInv, DescTyped
<1>2. DescTyped' /\ BytesKept' /\ EventsKept' /\ ReportedIsReadable'
  <2>1. /\ Carries("event") /\ NoneNew("event") /\ Len(handles') = Len(handles) /\ handles' \in Seq(Rec)
    BY <1>1, PosChanges
  <2> HIDE DEF Rec
  <2> QED
    BY <1>1, <2>1, FileStep
<1>3. /\ FileHandles' = FileHandles
      /\ \A i \in FileHandles : /\ handles'[i].app = handles[i].app /\ handles'[i].acc = handles[i].acc
                                /\ i # k => handles'[i].pos = handles[i].pos
  BY <1>1, FileHandlesStay
<1>4. Sequential' => Sequential
  BY <1>3 DEF Sequential
<1>5. FileKeepsWrites'
  BY <1>1, <1>4 DEF FileKept, FileKeepsWrites
<1>6. ASSUME NEW i \in FileHandles, FileHandles = {i}, ~moved'
      PROVE  AtTheEnd(i)'
  <2>1. AtTheEnd(i)
    BY <1>1, <1>6 DEF FileKept
  <2>2. CASE i = k
    BY <1>3, <1>6, <2>2 DEF AtTheEnd
  <2>3. CASE i # k
    BY <1>3, <2>1, <2>3 DEF AtTheEnd
  <2> QED
    BY <2>2, <2>3
<1>7. FileKept'
  BY <1>1, <1>3, <1>5, <1>6 DEF FileKept
<1> QED
  BY <1>2, <1>7 DEF DescInv

\* read of a file.
LEMMA ReadFileKeeps ==
    ASSUME DescInv, NEW f \in Fd, Open(f), NEW count \in Nat, readFile(f, count), UNCH_tables
    PROVE  DescInv'
<1>1. DescTyped /\ data \in Seq(Nat) /\ moved \in BOOLEAN
  BY DEF DescInv, DescTyped
<1>2. fd[turn][f] \in 1 .. Len(handles) /\ HandleOf(f) \in Rec
  BY <1>1, OpenHandle
<1>3. PICK v \in Nat : handles' = [handles EXCEPT ![fd[turn][f]].pos = v]
  <2>1. HandleOf(f).pos \in Nat /\ Len(data) \in Nat
    BY <1>1, <1>2, LenProperties DEF Rec
  <2>2. PICK e \in Nat : e = HandleOf(f).pos + count
    BY <2>1
  <2>3. Min({Len(data), e}) \in Nat
    BY <2>1, <2>2, MinOfTwo
  <2>4. handles' = [handles EXCEPT ![fd[turn][f]].pos = Min({Len(data), HandleOf(f).pos + count})]
    BY DEF readFile, HandleOf
  <2> QED
    BY <2>2, <2>3, <2>4, Zenon
<1>4. /\ handles[fd[turn][f]].kind = "file" /\ moved' \in BOOLEAN /\ (moved => moved')
      /\ (moved' \/ handles[fd[turn][f]].acc = "rd")
  <2>1. HandleOf(f).kind = "file" /\ HandleOf(f).acc # "wr" /\ HandleOf(f).acc \in {"rd", "wr", "rdwr"}
    BY <1>2 DEF readFile, Rec
  <2>2. moved' = (moved \/ HandleOf(f).acc = "rdwr")
    BY DEF readFile
  <2> QED
    BY <1>1, <2>1, <2>2 DEF HandleOf
<1>5. UNCHANGED <<streams, put, got, seen, data, log>>
  BY DEF readFile
<1> QED
  BY <1>2, <1>3, <1>4, <1>5, MoveKeeps

\* lseek.
LEMMA LseekKeeps ==
    ASSUME DescInv, NEW f \in Fd, NEW base \in {"set", "cur", "end"}, lseek(f, base)
    PROVE  DescInv'
<1>1. DescTyped /\ data \in Seq(Nat) /\ Open(f)
  BY DEF DescInv, DescTyped, lseek
<1>2. fd[turn][f] \in 1 .. Len(handles) /\ HandleOf(f) \in Rec
  BY <1>1, OpenHandle
<1>3. PICK v \in Nat : handles' = [handles EXCEPT ![fd[turn][f]].pos = v]
  <2>1. HandleOf(f).pos \in Nat /\ Len(data) \in Nat
    BY <1>1, <1>2, LenProperties DEF Rec
  <2>2. PICK e \in Nat : e = HandleOf(f).pos + 1
    BY <2>1
  <2>3. Min({e, MaxBytes}) \in Nat
    BY <2>1, <2>2, MinOfTwo, DescAssumption
  <2>4. handles' = [handles EXCEPT ![fd[turn][f]].pos =
                CASE base = "set" -> 0 [] base = "cur" -> Min({HandleOf(f).pos + 1, MaxBytes})
                  [] base = "end" -> Len(data)]
    BY DEF lseek, HandleOf
  <2>5. CASE base = "set"
    BY <2>4, <2>5
  <2>6. CASE base = "cur"
    <3>1. handles' = [handles EXCEPT ![fd[turn][f]].pos = Min({HandleOf(f).pos + 1, MaxBytes})]
      BY <2>4, <2>6
    <3> QED
      BY <2>2, <2>3, <3>1, Zenon
  <2>7. CASE base = "end"
    BY <2>1, <2>4, <2>7
  <2> QED
    BY <2>5, <2>6, <2>7
<1>4. handles[fd[turn][f]].kind = "file" /\ moved' = TRUE
  BY DEF lseek, HandleOf
<1>5. UNCHANGED <<streams, put, got, seen, data, log>> /\ UNCH_tables
  BY DEF lseek
<1> QED
  BY <1>2, <1>3, <1>4, <1>5, MoveKeeps

\* The only handle is the only one.
LEMMA OnlyHandle ==
    ASSUME DescTyped, NEW k \in FileHandles
    PROVE  (Cardinality(FileHandles) = 1) <=> (FileHandles = {k})
<1>1. IsFiniteSet(1 .. Len(handles))
  BY HandleIndices, FS_Interval
<1>2. IsFiniteSet(FileHandles)
  <2>1. FileHandles \subseteq 1 .. Len(handles)
    BY HandleIndices DEF FileHandles
  <2> QED
    BY <1>1, <2>1, FS_Subset
<1>3. (Cardinality(FileHandles) = 1) <=> \E x : FileHandles = {x}
  BY <1>2, FS_Singleton
<1> HIDE DEF FileHandles
<1> QED
  BY <1>3

\* write to a file: as long as the history follows the calls, the bytes go to
\* the end.
LEMMA WriteFileKeeps ==
    ASSUME DescInv, NEW f \in Fd, Open(f), NEW bytes \in Seq(Nat), writeFile(f, bytes), UNCH_tables
    PROVE  DescInv'
<1>1. /\ DescTyped /\ FileKept /\ data \in Seq(Nat) /\ log \in Seq(Nat) /\ moved \in BOOLEAN
      /\ Len(data) \in Nat /\ Len(bytes) \in Nat
  BY LenProperties DEF DescInv, DescTyped
<1>2. PICK k \in 1 .. Len(handles) : k = fd[turn][f] /\ HandleOf(f) = handles[k] /\ handles[k] \in Rec
  BY <1>1, OpenHandle DEF HandleOf
<1>3. PICK at \in Nat : at = writeAt(handles[k]) /\ (handles[k].app => at = Len(data))
                        /\ (~handles[k].app => at = handles[k].pos)
  BY <1>1, <1>2 DEF Rec, writeAt
<1>4. /\ handles[k].kind = "file" /\ handles[k].acc # "rd"
      /\ data' = Overlay(data, at, bytes)
      /\ handles' = [handles EXCEPT ![k].pos = at + Len(bytes)]
      /\ log' = IF Sequential THEN log \o bytes ELSE data'
      /\ UNCHANGED <<streams, put, got, moved, seen>>
  BY <1>2, <1>3 DEF writeFile
<1>5. k \in FileHandles
  BY <1>1, <1>2, <1>4, HandleIndices DEF FileHandles
<1>6. at + Len(bytes) \in Nat
  BY <1>1
<1>7. Sequential => at = Len(data)
  <2>1. CASE handles[k].app
    BY <1>3, <2>1
  <2>2. CASE ~handles[k].app /\ Sequential
    <3>1. Cardinality(FileHandles) = 1 /\ ~moved
      BY <1>5, <2>2 DEF Sequential
    <3>2. FileHandles = {k}
      BY <1>1, <1>5, <3>1, OnlyHandle
    <3>3. AtTheEnd(k)
      BY <1>1, <1>5, <3>1, <3>2 DEF FileKept
    <3> QED
      BY <1>3, <1>4, <2>2, <3>3 DEF AtTheEnd
  <2> QED
    BY <2>1, <2>2
<1>8. PICK d \in Seq(Nat) : d = data' /\ (at = Len(data) => /\ d = Cat(data, bytes)
                                                             /\ Len(d) = at + Len(bytes))
  <2>1. Overlay(data, at, bytes) \in Seq(Nat) /\ (at = Len(data) => /\ Overlay(data, at, bytes) = Cat(data, bytes)
                                                                    /\ Len(Overlay(data, at, bytes)) = at + Len(bytes))
    BY <1>1, OverlayFacts
  <2> QED
    BY <1>4, <2>1, Zenon
<1>9. log' = d
  <2>1. CASE Sequential
    <3>1. data = log
      BY <1>1, <2>1 DEF FileKept, FileKeepsWrites
    <3>2. log' = Cat(log, bytes)
      BY <1>4, <2>1, Zenon DEF Cat
    <3> QED
      BY <1>7, <1>8, <2>1, <3>1, <3>2, Zenon
  <2>2. CASE ~Sequential
    BY <1>4, <1>8, <2>2
  <2> QED
    BY <2>1, <2>2
<1>10. DescTyped' /\ BytesKept' /\ EventsKept' /\ ReportedIsReadable'
  <2>1. /\ Carries("event") /\ NoneNew("event") /\ Len(handles') = Len(handles) /\ handles' \in Seq(Rec)
    BY <1>1, <1>4, <1>6, PosChanges
  <2>2. data' \in Seq(Nat) /\ log' \in Seq(Nat) /\ moved' \in BOOLEAN /\ UNCHANGED <<streams, put, got, seen>>
    BY <1>1, <1>4, <1>8, <1>9, Zenon
  <2> HIDE DEF Rec
  <2> QED
    BY <2>1, <2>2, FileStep
<1>11. FileKept'
  <2>1. /\ FileHandles' = FileHandles /\ handles'[k].pos = at + Len(bytes)
    BY <1>1, <1>4, <1>6, FileHandlesStay, PosChanges
  <2>2. FileKeepsWrites'
    BY <1>8, <1>9, Zenon DEF FileKeepsWrites
  <2>3. ASSUME NEW i \in FileHandles, FileHandles = {i}, ~moved
        PROVE  AtTheEnd(i)'
    <3>1. i = k
      BY <1>5, <2>3
    <3>2. Sequential
      BY <1>1, <1>5, <2>3, <3>1, OnlyHandle DEF Sequential
    <3>3. handles'[i].pos = Len(data')
      BY <1>7, <1>8, <2>1, <3>1, <3>2
    <3> QED
      BY <3>3 DEF AtTheEnd
  <2> QED
    BY <1>4, <1>5, <2>1, <2>2, <2>3 DEF FileKept
<1> QED
  BY <1>10, <1>11 DEF DescInv

\* Nothing but the reports changes.
LEMMA ReportKeeps ==
    ASSUME DescInv, UNCHANGED <<turn, child, fd, nextFd, handles, streams, data, put, got, log, moved>>,
           seen' \in [Proc -> SUBSET Fd],
           \A p \in Proc : \A g \in seen'[p] : g \in seen[p] \/ hasData(fd[p][g])
    PROVE  DescInv'
<1>1. DescTyped /\ BytesKept /\ EventsKept /\ FileKept /\ ReportedIsReadable
  BY DEF DescInv
<1>2. DescTyped'
  <2>1. TypedIO'
    BY <1>1 DEF DescTyped, TypedIO
  <2>2. handles' \in Seq(Rec) /\ Len(handles') = Len(handles)
    <3> HIDE DEF Rec
    <3> QED
      BY <1>1 DEF DescTyped
  <2> QED
    BY <1>1, <2>1, <2>2, TypedStep
<1>3. BytesKept'
  BY <1>1 DEF BytesKept
<1>4. EventsKept' /\ FileKept'
  BY <1>1, HandlesStay, EventFrame, FileFrame
<1>5. ReportedIsReadable'
  BY <1>1 DEF ReportedIsReadable, hasData
<1> QED
  BY <1>2, <1>3, <1>4, <1>5 DEF DescInv

\* Nothing the invariant speaks of changes.
LEMMA NothingKeeps ==
    ASSUME DescInv, UNCHANGED <<turn, child, fd, nextFd, handles, streams, data, put, got, log, moved, seen>>
    PROVE  DescInv'
<1>1. seen' \in [Proc -> SUBSET Fd] /\ \A p \in Proc : \A g \in seen'[p] : g \in seen[p]
  BY DEF DescInv, DescTyped
<1> QED
  BY <1>1, ReportKeeps

\* pread, whose handle may refuse.
LEMMA PreadFileKeeps ==
    ASSUME DescInv, NEW f \in Fd, Open(f), NEW at \in Nat, preadFile(f, at), UNCH_tables
    PROVE  DescInv'
<1>1. DescTyped /\ Open(f) /\ UNCH_tables /\ UNCHANGED <<streams, data, put, got, log, seen>>
  BY DEF DescInv, preadFile
<1>2. fd[turn][f] \in 1 .. Len(handles)
  BY <1>1, OpenHandle
<1>3. CASE HandleOf(f).acc = "wr"
  <2>1. /\ handles' = [handles EXCEPT ![fd[turn][f]].pos = at] /\ moved' = TRUE
        /\ handles[fd[turn][f]].kind = "file"
    BY <1>3 DEF preadFile, HandleOf
  <2> QED
    BY <1>1, <1>2, <2>1, MoveKeeps
<1>4. CASE HandleOf(f).acc # "wr"
  <2>1. UNCHANGED <<handles, moved>> /\ UNCHANGED <<turn, child, fd, nextFd>>
    BY <1>1, <1>4 DEF preadFile, UNCH_tables
  <2> QED
    BY <1>1, <2>1, NothingKeeps
<1> QED
  BY <1>3, <1>4

\* pwrite: through the only handle it stays within the file, or counts as a move.
LEMMA PwriteFileKeeps ==
    ASSUME DescInv, NEW f \in Fd, Open(f), NEW at \in Nat, NEW bytes \in Seq(Nat),
           pwriteFile(f, at, bytes), UNCH_tables
    PROVE  DescInv'
<1>1. /\ DescTyped /\ FileKept /\ data \in Seq(Nat) /\ log \in Seq(Nat) /\ moved \in BOOLEAN
      /\ Len(data) \in Nat /\ Len(bytes) \in Nat /\ Len(log) \in Nat
      /\ Open(f) /\ UNCH_tables /\ UNCHANGED <<streams, put, got, seen>>
  BY LenProperties DEF DescInv, DescTyped, pwriteFile
<1>2. PICK k \in 1 .. Len(handles) : k = fd[turn][f] /\ HandleOf(f) = handles[k]
  BY <1>1, OpenHandle DEF HandleOf
<1>3. CASE handles[k].acc = "rd"
  <2>1. /\ handles' = [handles EXCEPT ![k].pos = at] /\ moved' = TRUE
        /\ handles[k].kind = "file" /\ UNCHANGED <<data, log>>
    BY <1>2, <1>3 DEF pwriteFile
  <2> QED
    BY <1>1, <2>1, MoveKeeps
<1>4. CASE handles[k].acc # "rd"
  <2>1. PICK from \in Nat :
          /\ data' = Overlay(data, from, bytes) /\ log' = Overlay(log, from, bytes)
          /\ moved' = (moved \/ from + Len(bytes) > Len(log)) /\ UNCHANGED handles
    BY <1>1, <1>2, <1>4 DEF pwriteFile
  <2>2. PICK d \in Seq(Nat) : d = data' /\ (from + Len(bytes) <= Len(data) => Len(d) = Len(data))
    <3>1. /\ Overlay(data, from, bytes) \in Seq(Nat)
          /\ from + Len(bytes) <= Len(data) => Len(Overlay(data, from, bytes)) = Len(data)
      BY <1>1, OverlayFacts
    <3> QED
      BY <2>1, <3>1, Zenon
  <2>3. log' \in Seq(Nat)
    <3>1. Overlay(log, from, bytes) \in Seq(Nat)
      BY <1>1, OverlayFacts
    <3> QED
      BY <2>1, <3>1, Zenon
  <2>4. data = log => data' = log'
    BY <2>1, Zenon
  <2>5. DescTyped' /\ BytesKept' /\ EventsKept' /\ ReportedIsReadable'
    <3>1. Carries("event") /\ NoneNew("event")
      BY <1>1, <2>1, HandlesStay
    <3>2. handles' \in Seq(Rec) /\ Len(handles') = Len(handles)
      <4> HIDE DEF Rec
      <4> QED
        BY <1>1, <2>1 DEF DescTyped
    <3>3. data' \in Seq(Nat) /\ moved' \in BOOLEAN
      BY <2>1, <2>2
    <3> HIDE DEF Rec
    <3> QED
      BY <1>1, <2>3, <3>1, <3>2, <3>3, FileStep
  <2>6. FileHandles' = FileHandles /\ (Sequential' => Sequential)
    BY <2>1 DEF FileHandles, Sequential
  <2>7. FileKeepsWrites'
    BY <1>1, <2>4, <2>6 DEF FileKept, FileKeepsWrites
  <2>8. ASSUME NEW i \in FileHandles, FileHandles = {i}, ~moved'
        PROVE  AtTheEnd(i)'
    <3>0. ~moved /\ ~(from + Len(bytes) > Len(log))
      BY <2>1, <2>8, Zenon
    <3>1. ~moved /\ from + Len(bytes) <= Len(log)
      BY <1>1, <3>0
    <3>2. Sequential
      BY <1>1, <2>8, <3>1, OnlyHandle DEF Sequential
    <3>3. data = log
      BY <1>1, <3>2 DEF FileKept, FileKeepsWrites
    <3>4. Len(data') = Len(data)
      BY <2>2, <3>1, <3>3
    <3>5. AtTheEnd(i)
      BY <1>1, <2>8, <3>1 DEF FileKept
    <3> QED
      BY <2>1, <3>4, <3>5 DEF AtTheEnd
  <2>9. k \in FileHandles
    BY <1>1, <1>2, HandleIndices DEF FileHandles, pwriteFile
  <2> QED
    BY <2>5, <2>6, <2>7, <2>8, <2>9 DEF FileKept, DescInv
<1> QED
  BY <1>3, <1>4

\* ftruncate.
LEMMA FtruncateKeeps ==
    ASSUME DescInv, NEW f \in Fd, NEW len \in Nat, ftruncate(f, len)
    PROVE  DescInv'
<1>1. /\ DescTyped /\ data \in Seq(Nat) /\ Len(data) \in Nat /\ Open(f) /\ UNCH_tables
      /\ UNCHANGED <<handles, streams, put, got, seen>> /\ moved' = TRUE /\ log' = data'
      /\ \A i \in 1 .. Len(data) : data[i] \in Nat
  BY LenProperties, ElementOfSeq DEF DescInv, DescTyped, ftruncate
<1>2. data' \in Seq(Nat)
  <2> DEFINE F(i) == IF i <= Len(data) THEN data[i] ELSE 0
  <2>1. \A i \in 1 .. len : F(i) \in Nat
    BY <1>1
  <2>2. data' = [i \in 1 .. len |-> F(i)]
    BY DEF ftruncate
  <2> HIDE DEF F
  <2> QED
    BY <2>1, <2>2
<1>3. DescTyped' /\ BytesKept' /\ EventsKept' /\ ReportedIsReadable'
  <2>1. Carries("event") /\ NoneNew("event")
    BY <1>1, HandlesStay
  <2>2. handles' \in Seq(Rec) /\ Len(handles') = Len(handles)
    <3> HIDE DEF Rec
    <3> QED
      BY <1>1 DEF DescTyped
  <2> HIDE DEF Rec
  <2> QED
    BY <1>1, <1>2, <2>1, <2>2, FileStep
<1>4. FileHandles' # {}
  <2>1. fd[turn][f] \in FileHandles
    BY <1>1, OpenHandle, HandleIndices DEF FileHandles, ftruncate, HandleOf
  <2>2. FileHandles' = FileHandles
    BY <1>1 DEF FileHandles
  <2> QED
    BY <2>1, <2>2
<1> QED
  BY <1>1, <1>3, <1>4 DEF DescInv, FileKept, FileKeepsWrites

-----------------------------------------------------------------------------
(* The event counter, and reports of it.                                   *)

\* The counter changes, and what was put in and taken with it.
LEMMA CounterMoves ==
    ASSUME DescInv, UNCH_tables, UNCHANGED <<streams, data, log, moved>>,
           NEW k \in 1 .. Len(handles), NEW v \in Nat, handles' = [handles EXCEPT ![k].pos = v],
           handles[k].kind = "event",
           put' \in [Stream -> Seq(Nat)], got' \in [Stream -> Seq(Nat)], seen' \in [Proc -> SUBSET Fd],
           \A s \in {"stdin", "stdout", "pipe"} : put'[s] = put[s] /\ got'[s] = got[s],
           Len(put'["event"]) = Len(got'["event"]) + v
    PROVE  DescTyped' /\ BytesKept' /\ EventsKept' /\ FileKept'
<1>1. DescTyped /\ BytesKept /\ EventsKept /\ FileKept /\ Len(handles) \in Nat
  BY HandleIndices DEF DescInv
<1>2. /\ Carries("file") /\ NoneNew("file") /\ Len(handles') = Len(handles) /\ handles' \in Seq(Rec)
      /\ handles'[k].pos = v /\ \A i \in 1 .. Len(handles) : handles'[i].kind = handles[i].kind
  BY <1>1, PosChanges
<1> HIDE DEF Rec
<1>3. DescTyped'
  <2>1. TypedIO'
    BY <1>1 DEF DescTyped, TypedIO
  <2>2. UNCHANGED <<turn, child, fd, nextFd>>
    BY DEF UNCH_tables
  <2> QED
    BY <1>1, <1>2, <2>1, <2>2, TypedStep
<1>4. BytesKept'
  BY <1>1 DEF BytesKept
<1>5. EventsKept'
  <2>1. \A i \in 1 .. Len(handles) : handles[i].kind = "event" => i = k
    BY <1>1 DEF EventsKept, IsEvent
  <2>2. \A i \in 1 .. Len(handles') : handles'[i].kind = "event" => i = k
    BY <1>2, <2>1
  <2>3. handles'[k].kind = "event" /\ k \in 1 .. Len(handles')
    BY <1>2
  <2> QED
    BY <1>2, <2>2, <2>3 DEF EventsKept, IsEvent
<1>6. FileKept'
  BY <1>1, <1>2, FileFrame
<1> QED
  BY <1>3, <1>4, <1>5, <1>6

\* n ones.
LEMMA OnesFacts ==
    ASSUME NEW n \in Nat, NEW s \in Seq(Nat)
    PROVE  Cat(s, [i \in 1 .. n |-> 1]) \in Seq(Nat) /\ Len(Cat(s, [i \in 1 .. n |-> 1])) = Len(s) + n
<1>1. PICK t \in Seq(Nat) : t = [i \in 1 .. n |-> 1] /\ Len(t) = n
  <2>1. [i \in 1 .. n |-> 1] \in Seq(Nat) /\ Len([i \in 1 .. n |-> 1]) = n
    OBVIOUS
  <2> QED
    BY <2>1, Zenon
<1>2. Cat(s, t) \in Seq(Nat) /\ Len(Cat(s, t)) = Len(s) + n
  BY <1>1, CatFacts, ZenonT(60)
<1> QED
  BY <1>1, <1>2, Zenon

\* read of the counter.
LEMMA ReadEventKeeps ==
    ASSUME DescInv, NEW f \in Fd, Open(f), readEvent(f), UNCH_tables
    PROVE  DescInv'
<1>1. DescTyped /\ EventsKept /\ ReportedIsReadable /\ Len(handles) \in Nat
  BY HandleIndices DEF DescInv
<1>2. PICK k \in 1 .. Len(handles) : k = fd[turn][f] /\ HandleOf(f) = handles[k] /\ handles[k] \in Rec
  BY <1>1, OpenHandle DEF HandleOf
<1>3. /\ handles[k].kind = "event" /\ handles' = [handles EXCEPT ![k].pos = 0]
      /\ seen' = [p \in Proc |-> {g \in seen[p] : fd[p][g] # k}]
      /\ UNCHANGED <<streams, data, put, log, moved>>
  BY <1>2 DEF readEvent, Unseen
<1>4. handles[k].pos \in Nat /\ Len(put["event"]) = Len(got["event"]) + handles[k].pos
      /\ got["event"] \in Seq(Nat) /\ got \in [Stream -> Seq(Nat)] /\ put \in [Stream -> Seq(Nat)]
  BY <1>1, <1>2, <1>3 DEF Rec, EventsKept, IsEvent, DescTyped, Stream
<1>5. PICK g \in Seq(Nat) : got' = [got EXCEPT !["event"] = g] /\ Len(g) = Len(got["event"]) + handles[k].pos
  <2>1. /\ Cat(got["event"], [i \in 1 .. handles[k].pos |-> 1]) \in Seq(Nat)
        /\ Len(Cat(got["event"], [i \in 1 .. handles[k].pos |-> 1])) = Len(got["event"]) + handles[k].pos
    BY <1>4, OnesFacts
  <2>2. got' = [got EXCEPT !["event"] = Cat(got["event"], [i \in 1 .. handles[k].pos |-> 1])]
    BY <1>2, Zenon DEF readEvent, Cat
  <2> QED
    BY <2>1, <2>2, Zenon
<1>6. /\ seen' \in [Proc -> SUBSET Fd] /\ got' \in [Stream -> Seq(Nat)] /\ put' \in [Stream -> Seq(Nat)]
      /\ \A s \in {"stdin", "stdout", "pipe"} : put'[s] = put[s] /\ got'[s] = got[s]
  <2>1. seen' \in [Proc -> SUBSET Fd]
    BY <1>1, <1>3 DEF DescTyped
  <2> QED
    BY <1>3, <1>4, <1>5, <2>1 DEF Stream
<1>7. Len(put'["event"]) = Len(got'["event"]) + 0
  <2>1. got'["event"] = g /\ Len(g) \in Nat
    BY <1>4, <1>5, LenProperties DEF Stream
  <2> QED
    BY <1>3, <1>4, <1>5, <2>1
<1>8. DescTyped' /\ BytesKept' /\ EventsKept' /\ FileKept'
  BY <1>3, <1>6, <1>7, CounterMoves
<1>9. ReportedIsReadable'
  <2> SUFFICES ASSUME NEW p \in Proc, NEW h \in seen'[p]
               PROVE  Readable(p, h)'
    BY Zenon DEF ReportedIsReadable, Readable
  <2>1. h \in Fd /\ hasData(fd[p][h]) /\ fd[p][h] # k /\ fd' = fd
    BY <1>1, <1>3, <1>6 DEF ReportedIsReadable, UNCH_tables
  <2>2. fd[p][h] \in 0 .. Len(handles) /\ fd[p][h] # 0
    BY <1>1, <2>1 DEF DescTyped, hasData, NoHandle
  <2>3. fd[p][h] \in 1 .. Len(handles) /\ handles[fd[p][h]].kind = "event"
    BY <1>1, <2>1, <2>2 DEF hasData
  <2> QED
    BY <1>1, <1>3, <2>1, <2>3 DEF EventsKept, IsEvent
<1> QED
  BY <1>8, <1>9 DEF DescInv

\* write of the counter.
LEMMA WriteEventKeeps ==
    ASSUME DescInv, NEW f \in Fd, Open(f), NEW n \in Nat, writeEvent(f, n), UNCH_tables
    PROVE  DescInv'
<1>1. DescTyped /\ EventsKept /\ ReportedIsReadable /\ Len(handles) \in Nat
  BY HandleIndices DEF DescInv
<1>2. PICK k \in 1 .. Len(handles) : k = fd[turn][f] /\ HandleOf(f) = handles[k] /\ handles[k] \in Rec
  BY <1>1, OpenHandle DEF HandleOf
<1>3. /\ handles[k].kind = "event" /\ handles' = [handles EXCEPT ![k].pos = handles[k].pos + n]
      /\ UNCHANGED <<streams, data, got, log, moved, seen>>
  BY <1>2 DEF writeEvent
<1>4. handles[k].pos \in Nat /\ Len(put["event"]) = Len(got["event"]) + handles[k].pos
      /\ put["event"] \in Seq(Nat) /\ got \in [Stream -> Seq(Nat)] /\ put \in [Stream -> Seq(Nat)]
      /\ got["event"] \in Seq(Nat) /\ Len(got["event"]) \in Nat
  BY <1>1, <1>2, <1>3, LenProperties DEF Rec, EventsKept, IsEvent, DescTyped, Stream
<1>5. PICK g \in Seq(Nat) : put' = [put EXCEPT !["event"] = g] /\ Len(g) = Len(put["event"]) + n
  <2>1. /\ Cat(put["event"], [i \in 1 .. n |-> 1]) \in Seq(Nat)
        /\ Len(Cat(put["event"], [i \in 1 .. n |-> 1])) = Len(put["event"]) + n
    BY <1>4, OnesFacts
  <2>2. put' = [put EXCEPT !["event"] = Cat(put["event"], [i \in 1 .. n |-> 1])]
    BY Zenon DEF writeEvent, Cat
  <2> QED
    BY <2>1, <2>2, Zenon
<1>6. /\ seen' \in [Proc -> SUBSET Fd] /\ got' \in [Stream -> Seq(Nat)] /\ put' \in [Stream -> Seq(Nat)]
      /\ \A s \in {"stdin", "stdout", "pipe"} : put'[s] = put[s] /\ got'[s] = got[s]
  <2>1. seen' \in [Proc -> SUBSET Fd]
    BY <1>1, <1>3 DEF DescTyped
  <2> QED
    BY <1>3, <1>4, <1>5, <2>1 DEF Stream
<1>7. Len(put'["event"]) = Len(got'["event"]) + (handles[k].pos + n) /\ handles[k].pos + n \in Nat
  <2>1. put'["event"] = g /\ got' = got
    BY <1>3, <1>4, <1>5 DEF Stream
  <2> QED
    BY <1>4, <1>5, <2>1
<1>8. DescTyped' /\ BytesKept' /\ EventsKept' /\ FileKept'
  BY <1>3, <1>6, <1>7, CounterMoves
<1>9. ReportedIsReadable'
  <2> SUFFICES ASSUME NEW p \in Proc, NEW h \in seen'[p]
               PROVE  Readable(p, h)'
    BY Zenon DEF ReportedIsReadable, Readable
  <2>1. h \in Fd /\ hasData(fd[p][h]) /\ fd' = fd
    BY <1>1, <1>3, <1>6 DEF ReportedIsReadable, UNCH_tables
  <2>2. fd[p][h] \in 0 .. Len(handles) /\ fd[p][h] # 0
    BY <1>1, <2>1 DEF DescTyped, hasData, NoHandle
  <2>3. fd[p][h] \in 1 .. Len(handles) /\ handles[fd[p][h]].kind = "event" /\ handles[fd[p][h]].pos > 0
    BY <1>1, <2>1, <2>2 DEF hasData
  <2>4. fd[p][h] = k
    BY <1>1, <1>3, <2>3 DEF EventsKept, IsEvent
  <2>5. handles'[k].pos = handles[k].pos + n /\ handles'[k].kind = "event"
    BY <1>1, <1>3, <1>7, PosChanges
  <2> QED
    BY <1>4, <2>1, <2>3, <2>4, <2>5 DEF Readable, hasData, NoHandle
<1> QED
  BY <1>8, <1>9 DEF DescInv

\* poll and select.
LEMMA PollKeeps ==
    ASSUME DescInv, poll
    PROVE  DescInv'
<1>1. DescTyped /\ seen \in [Proc -> SUBSET Fd] /\ turn \in Proc
  BY DEF DescInv, DescTyped
<1>2. UNCHANGED <<turn, child, fd, nextFd, handles, streams, data, put, got, log, moved>>
  BY DEF poll, UNCH_tables
<1>3. seen' = [seen EXCEPT ![turn] = {f \in Fd : hasData(fd[turn][f])}]
  BY DEF poll
<1>4. seen' \in [Proc -> SUBSET Fd]
  BY <1>1, <1>3
<1>5. ASSUME NEW p \in Proc, NEW g \in seen'[p]
      PROVE  g \in seen[p] \/ hasData(fd[p][g])
  BY <1>1, <1>3, <1>5
<1> QED
  BY <1>2, <1>4, <1>5, ReportKeeps

\* epoll_wait, whichever process calls it: what it reports it has found in the
\* table of the process it reports to.
LEMMA EpollWaitKeeps ==
    ASSUME DescInv, NEW e \in Fd, epollWait(e)
    PROVE  DescInv'
<1>1. DescTyped /\ seen \in [Proc -> SUBSET Fd] /\ Open(e)
  BY DEF DescInv, DescTyped, epollWait
<1>2. UNCHANGED <<turn, child, fd, nextFd, handles, streams, data, put, got, log, moved>>
  BY DEF epollWait, UNCH_tables
<1>3. PICK q \in Proc, w \in SUBSET Fd : seen' = [seen EXCEPT ![q] = @ \cup {f \in w : hasData(fd[q][f])}]
  <2>1. HandleOf(e).sys \in Proc /\ HandleOf(e).want \in SUBSET Fd
    BY <1>1, OpenHandle DEF Rec
  <2>2. seen' = [seen EXCEPT ![HandleOf(e).sys] =
                    @ \cup {f \in HandleOf(e).want : hasData(fd[HandleOf(e).sys][f])}]
    BY Zenon DEF epollWait, epollReady, epollTable
  <2> QED
    BY <2>1, <2>2, Zenon
<1>4. seen' \in [Proc -> SUBSET Fd]
  BY <1>1, <1>3
<1>5. ASSUME NEW p \in Proc, NEW g \in seen'[p]
      PROVE  g \in seen[p] \/ hasData(fd[p][g])
  BY <1>1, <1>3, <1>5
<1> QED
  BY <1>2, <1>4, <1>5, ReportKeeps

\* A change of a handle that is neither a file nor a counter.
LEMMA OtherHandleKeeps ==
    ASSUME DescInv, UNCH_tables, UNCHANGED <<streams, put, got, seen, data, log, moved>>,
           handles' \in Seq(Rec), Len(handles') = Len(handles),
           \A kind \in {"file", "event"} : Carries(kind) /\ NoneNew(kind)
    PROVE  DescInv'
<1>1. DescTyped /\ FileKept /\ data \in Seq(Nat) /\ log \in Seq(Nat) /\ moved \in BOOLEAN
  BY DEF DescInv, DescTyped
<1> HIDE DEF Rec
<1>2. DescTyped' /\ BytesKept' /\ EventsKept' /\ ReportedIsReadable'
  BY <1>1, FileStep
<1>3. FileKept'
  BY <1>1, FileFrame
<1> QED
  BY <1>2, <1>3 DEF DescInv

\* epoll_ctl.
LEMMA EpollCtlKeeps ==
    ASSUME DescInv, NEW e \in Fd, NEW f \in Fd, NEW add \in BOOLEAN, epollCtl(e, f, add)
    PROVE  DescInv'
<1>1. DescTyped /\ Open(e)
  BY DEF DescInv, epollCtl
<1>2. fd[turn][e] \in 1 .. Len(handles) /\ HandleOf(e) \in Rec
  BY <1>1, OpenHandle
<1>3. PICK w \in SUBSET Fd : handles' = [handles EXCEPT ![fd[turn][e]].want = w]
  <2>1. HandleOf(e).want \in SUBSET Fd
    BY <1>2 DEF Rec
  <2>2. handles' = [handles EXCEPT ![fd[turn][e]].want =
                       IF add THEN HandleOf(e).want \cup {f} ELSE HandleOf(e).want \ {f}]
    BY DEF epollCtl, HandleOf
  <2>3. CASE add
    <3>1. HandleOf(e).want \cup {f} \in SUBSET Fd
      BY <2>1
    <3>2. handles' = [handles EXCEPT ![fd[turn][e]].want = HandleOf(e).want \cup {f}]
      BY <2>2, <2>3
    <3> QED
      BY <3>1, <3>2, Zenon
  <2>4. CASE ~add
    <3>1. HandleOf(e).want \ {f} \in SUBSET Fd
      BY <2>1
    <3>2. handles' = [handles EXCEPT ![fd[turn][e]].want = HandleOf(e).want \ {f}]
      BY <2>2, <2>4
    <3> QED
      BY <3>1, <3>2, Zenon
  <2> QED
    BY <2>3, <2>4
<1>4. /\ \A kind : Carries(kind) /\ NoneNew(kind)
      /\ Len(handles') = Len(handles) /\ handles' \in Seq(Rec)
  BY <1>1, <1>2, <1>3, WantChanges
<1>5. UNCH_tables /\ UNCHANGED <<streams, put, got, seen, data, log, moved>>
  BY DEF epollCtl, UNCH_io
<1> HIDE DEF Rec
<1> QED
  BY <1>4, <1>5, OtherHandleKeeps

-----------------------------------------------------------------------------
(* Descriptor tables.                                                      *)

\* Free descriptors of the process that runs got handles, of L there are; nothing
\* else changed in the tables.
Allotted(L) ==
    /\ nextFd' \in [Proc -> Nat] /\ fd' \in [Proc -> [Fd -> 0 .. L]]
    /\ \A p \in Proc \ {turn} : fd'[p] = fd[p]
    /\ \A p \in Proc, f \in Fd : fd[p][f] # NoHandle => fd'[p][f] = fd[p][f]

\* allocFd.
LEMMA Alloc ==
    ASSUME DescTyped, NEW L \in Nat, Len(handles) <= L, NEW h \in 0 .. L, allocFd(h)
    PROVE  Allotted(L)
<1>1. /\ turn \in Proc /\ nextFd \in [Proc -> Nat] /\ fd \in [Proc -> [Fd -> 0 .. Len(handles)]]
      /\ fd[turn] \in [Fd -> 0 .. Len(handles)] /\ nextFd[turn] \in Nat /\ Len(handles) \in Nat
  BY HandleIndices DEF DescTyped
<1>2. PICK n \in Fd : /\ fd[turn][n] = NoHandle /\ fd' = [fd EXCEPT ![turn][n] = h]
                      /\ nextFd' = [nextFd EXCEPT ![turn] = n + 1]
  <2> DEFINE n == firstFree(fd[turn], nextFd[turn])
  <2>1. n <= MaxFd /\ fd' = [fd EXCEPT ![turn][n] = h] /\ nextFd' = [nextFd EXCEPT ![turn] = n + 1]
    BY DEF allocFd
  <2>2. n \in Fd /\ fd[turn][n] = NoHandle
    BY <1>1, <2>1, FreeIsFree
  <2> HIDE DEF n
  <2> QED
    BY <2>1, <2>2
<1>3. fd' = [fd EXCEPT ![turn] = [fd[turn] EXCEPT ![n] = h]]
  BY <1>2
<1>4. [fd[turn] EXCEPT ![n] = h] \in [Fd -> 0 .. L] /\ \A p \in Proc : fd[p] \in [Fd -> 0 .. L]
  BY <1>1, <1>2
<1>5. n + 1 \in Nat
  BY DescAssumption DEF Fd
<1>6. nextFd' \in [Proc -> Nat]
  BY <1>1, <1>2, <1>5
<1>7. fd' \in [Proc -> [Fd -> 0 .. L]] /\ \A p \in Proc \ {turn} : fd'[p] = fd[p]
  BY <1>1, <1>3, <1>4
<1>8. ASSUME NEW p \in Proc, NEW f \in Fd, fd[p][f] # NoHandle
      PROVE  fd'[p][f] = fd[p][f]
  BY <1>1, <1>2, <1>3, <1>8
<1> QED
  BY <1>6, <1>7, <1>8 DEF Allotted

\* New descriptors, and perhaps new handles for them, disturb neither the types
\* nor a report.
LEMMA AllotKeeps ==
    ASSUME DescInv, Allotted(Len(handles')), handles' \in Seq(Rec), Carries("event"), TypedIO',
           UNCHANGED <<turn, child, seen>>
    PROVE  DescTyped' /\ ReportedIsReadable'
<1>1. DescTyped /\ ReportedIsReadable
  BY DEF DescInv
<1>2. child # "forked" => \A f \in Fd : fd'["child"][f] = NoHandle
  <2>1. SUFFICES ASSUME child # "forked"
                 PROVE  \A f \in Fd : fd'["child"][f] = NoHandle
    OBVIOUS
  <2>2. turn # "child" /\ "child" \in Proc
    BY <1>1, <2>1 DEF DescTyped, Proc
  <2> QED
    BY <1>1, <2>1, <2>2 DEF DescTyped, Allotted
<1>3. DescTyped'
  <2> HIDE DEF Rec
  <2> QED
    BY <1>1, <1>2 DEF DescTyped, TypedIO, Allotted
<1>4. ReportedIsReadable'
  <2>1. seen' \in [Proc -> SUBSET Fd]
    BY <1>1 DEF DescTyped
  <2>2. ASSUME NEW p \in Proc, NEW f \in seen'[p]
        PROVE  f \in seen[p] /\ fd'[p][f] = fd[p][f]
    <3>1. f \in seen[p] /\ f \in Fd /\ fd[p][f] # NoHandle
      BY <1>1, <2>1, <2>2 DEF ReportedIsReadable, hasData
    <3> QED
      BY <3>1 DEF Allotted
  <2> QED
    BY <1>1, <2>1, <2>2, ReportFrame
<1> QED
  BY <1>3, <1>4

\* dup.
LEMMA DupKeeps ==
    ASSUME DescInv, NEW f \in Fd, dup(f)
    PROVE  DescInv' /\ Allotted(Len(handles'))
<1>1. /\ DescTyped /\ BytesKept /\ EventsKept /\ FileKept /\ ReportedIsReadable
      /\ Open(f) /\ allocFd(fd[turn][f]) /\ Len(handles) \in Nat
  BY HandleIndices DEF DescInv, dup
<1>2. UNCHANGED <<turn, child, handles, streams, data, put, got, log, moved, seen>>
  BY DEF dup, UNCH_io
<1>3. Allotted(Len(handles'))
  <2>1. fd[turn][f] \in 0 .. Len(handles)
    BY <1>1, OpenHandle
  <2>2. Allotted(Len(handles))
    BY <1>1, <2>1, Alloc
  <2> QED
    BY <1>2, <2>2
<1>4. /\ \A kind : Carries(kind) /\ NoneNew(kind)
      /\ handles' \in Seq(Rec)
  <2>1. \A kind : Carries(kind) /\ NoneNew(kind)
    BY <1>1, <1>2, HandlesStay
  <2> HIDE DEF Rec
  <2> QED
    BY <1>1, <1>2, <2>1 DEF DescTyped
<1>5. TypedIO'
  BY <1>1, <1>2 DEF DescTyped, TypedIO
<1> HIDE DEF Rec
<1>6. DescTyped' /\ ReportedIsReadable'
  BY <1>2, <1>3, <1>4, <1>5, AllotKeeps
<1>7. EventsKept' /\ FileKept'
  BY <1>1, <1>2, <1>4, EventFrame, FileFrame
<1>8. BytesKept'
  BY <1>1, <1>2 DEF BytesKept
<1> QED
  BY <1>3, <1>6, <1>7, <1>8 DEF DescInv

\* create: the new handle is the last, and a free descriptor stands for it.
LEMMA CreateFacts ==
    ASSUME DescTyped, NEW r \in Rec, create(r)
    PROVE  /\ Allotted(Len(handles'))
           /\ \A kind : Carries(kind) /\ (r.kind # kind => NoneNew(kind))
           /\ Len(handles') = Len(handles) + 1 /\ handles' \in Seq(Rec) /\ handles'[Len(handles) + 1] = r
           /\ \A i \in 1 .. Len(handles) : handles'[i] = handles[i]
<1>1. handles' = Append(handles, r) /\ allocFd(Len(handles) + 1) /\ Len(handles) \in Nat
  BY HandleIndices DEF create
<1>2. /\ \A kind : Carries(kind) /\ (r.kind # kind => NoneNew(kind))
      /\ Len(handles') = Len(handles) + 1 /\ handles' \in Seq(Rec) /\ handles'[Len(handles) + 1] = r
      /\ \A i \in 1 .. Len(handles) : handles'[i] = handles[i]
  BY <1>1, HandleAdded
<1>3. Allotted(Len(handles) + 1)
  <2>1. Len(handles) + 1 \in Nat /\ Len(handles) <= Len(handles) + 1 /\ Len(handles) + 1 \in 0 .. Len(handles) + 1
    BY <1>1
  <2> QED
    BY <1>1, <2>1, Alloc
<1> HIDE DEF Rec
<1> QED
  BY <1>2, <1>3

\* eventfd, epoll_create and the opening of a directory: a new counter starts
\* at 0, when nothing was put into or taken from one before.
LEMMA NewHandleKeeps ==
    ASSUME DescInv, NEW kind \in {"event", "epoll"}, newHandle(kind)
    PROVE  DescInv' /\ Allotted(Len(handles'))
<1>1. /\ DescTyped /\ BytesKept /\ EventsKept /\ FileKept /\ ReportedIsReadable
      /\ create(Handle(kind)) /\ Len(handles) \in Nat /\ DOMAIN handles = 1 .. Len(handles)
      /\ \A i \in 1 .. Len(handles) : handles[i].kind # kind
  BY HandleIndices DEF DescInv, newHandle
<1>2. UNCHANGED <<turn, child, streams, data, put, got, log, moved, seen>>
  BY DEF newHandle, UNCH_io
<1>3. PICK r \in Rec : r = Handle(kind) /\ r.kind = kind /\ r.pos = 0
  <2>1. turn \in Proc
    BY <1>1 DEF DescTyped
  <2>2. Handle(kind) \in Rec
    BY <2>1 DEF Handle, Rec, Kind
  <2>3. Handle(kind).kind = kind /\ Handle(kind).pos = 0
    BY DEF Handle
  <2> QED
    BY <2>2, <2>3, Zenon
<1>4. /\ Allotted(Len(handles'))
      /\ \A k : Carries(k) /\ (kind # k => NoneNew(k))
      /\ Len(handles') = Len(handles) + 1 /\ handles' \in Seq(Rec) /\ handles'[Len(handles) + 1] = r
      /\ \A i \in 1 .. Len(handles) : handles'[i] = handles[i]
  BY <1>1, <1>3, CreateFacts
<1>5. TypedIO'
  BY <1>1, <1>2 DEF DescTyped, TypedIO
<1> HIDE DEF Rec
<1>6. DescTyped' /\ ReportedIsReadable'
  BY <1>2, <1>4, <1>5, AllotKeeps
<1>7. FileKept'
  BY <1>1, <1>2, <1>4, FileFrame
<1>8. BytesKept'
  BY <1>1, <1>2 DEF BytesKept
<1>9. EventsKept'
  <2>1. CASE kind # "event"
    BY <1>1, <1>2, <1>4, <2>1, EventFrame
  <2>2. CASE kind = "event"
    <3>1. put["event"] = <<>> /\ got["event"] = <<>>
      BY <1>1, <2>2 DEF EventsKept, IsEvent
    <3>2. \A i \in 1 .. Len(handles') : handles'[i].kind = "event" => i = Len(handles) + 1
      BY <1>1, <1>4, <2>2
    <3>3. /\ Len(handles) + 1 \in 1 .. Len(handles') /\ handles'[Len(handles) + 1].kind = "event"
          /\ handles'[Len(handles) + 1].pos = 0
      BY <1>1, <1>3, <1>4, <2>2
    <3>4. Len(put'["event"]) = Len(got'["event"]) + 0
      BY <1>2, <3>1
    <3> QED
      BY <3>2, <3>3, <3>4 DEF EventsKept, IsEvent
  <2> QED
    BY <2>1, <2>2
<1> QED
  BY <1>4, <1>6, <1>7, <1>8, <1>9 DEF DescInv

\* open: the history starts again, and so does the only handle.
LEMMA OpenKeeps ==
    ASSUME DescInv, NEW acc \in {"rd", "wr", "rdwr"}, NEW app \in BOOLEAN, NEW trunc \in BOOLEAN,
           open(acc, app, trunc)
    PROVE  DescInv' /\ Allotted(Len(handles'))
<1>1. /\ DescTyped /\ BytesKept /\ EventsKept /\ FileKept /\ ReportedIsReadable
      /\ Len(handles) \in Nat /\ DOMAIN handles = 1 .. Len(handles) /\ moved \in BOOLEAN
  BY HandleIndices DEF DescInv, DescTyped
<1>2. UNCHANGED <<turn, child, streams, put, got, seen>>
  BY DEF open
<1>3. PICK d \in Seq(Nat) : d = data' /\ d = log' /\ d \in {<<>>, data} /\ Len(d) \in Nat
  <2>1. data \in Seq(Nat) /\ data' \in {<<>>, data} /\ log' = data'
    BY <1>1 DEF DescTyped, open
  <2>2. data' \in Seq(Nat)
    BY <2>1, EmptySeq
  <2>3. Len(data') \in Nat
    BY <2>2, LenProperties
  <2> QED
    BY <2>1, <2>2, <2>3, Zenon
<1>4. PICK r \in Rec : create(r) /\ r.kind = "file" /\ r.pos \in {0, Len(d)} /\ r.app = app
  <2> DEFINE v == IF app THEN Len(d) ELSE 0
  <2>1. turn \in Proc /\ v \in Nat
    BY <1>1, <1>3 DEF DescTyped
  <2>2. d = IF trunc /\ acc # "rd" THEN <<>> ELSE data
    BY <1>3 DEF open
  <2>3. create([Handle("file") EXCEPT !.acc = acc, !.app = app, !.pos = v])
    BY <2>2, Zenon DEF open
  <2>4. v \in {0, Len(d)}
    OBVIOUS
  <2> HIDE DEF v
  <2>5. PICK h \in Rec : h = Handle("file") /\ h.kind = "file"
    <3>1. Handle("file") \in Rec
      BY <2>1 DEF Handle, Rec, Kind
    <3>2. Handle("file").kind = "file"
      BY DEF Handle
    <3> QED
      BY <3>1, <3>2, Zenon
  <2>6. PICK r \in Rec : r = [h EXCEPT !.acc = acc, !.app = app, !.pos = v]
    BY <2>1 DEF Rec
  <2>7. r.kind = "file" /\ r.app = app /\ r.pos = v
    BY <2>5, <2>6 DEF Rec
  <2>8. create(r)
    BY <2>3, <2>5, <2>6, Zenon
  <2> QED
    BY <2>4, <2>7, <2>8
<1>5. /\ Allotted(Len(handles'))
      /\ \A k : Carries(k) /\ ("file" # k => NoneNew(k))
      /\ Len(handles') = Len(handles) + 1 /\ handles' \in Seq(Rec) /\ handles'[Len(handles) + 1] = r
      /\ \A i \in 1 .. Len(handles) : handles'[i] = handles[i]
  BY <1>1, <1>4, CreateFacts
<1>6. moved' = (moved \/ FileHandles # {})
  BY DEF open
<1>7. TypedIO'
  <2>1. moved' \in BOOLEAN
    BY <1>1, <1>6
  <2>2. data' \in Seq(Nat) /\ log' \in Seq(Nat)
    BY <1>3
  <2> QED
    BY <1>1, <1>2, <2>1, <2>2 DEF DescTyped, TypedIO
<1> HIDE DEF Rec
<1>8. DescTyped' /\ ReportedIsReadable'
  BY <1>2, <1>5, <1>7, AllotKeeps
<1>9. EventsKept'
  BY <1>1, <1>2, <1>5, EventFrame
<1>10. BytesKept'
  BY <1>1, <1>2 DEF BytesKept
<1>11. FileKept'
  <2>1. DOMAIN handles' = 1 .. Len(handles) + 1
    BY <1>5, LenProperties
  <2>2. FileHandles' = FileHandles \cup {Len(handles) + 1}
    BY <1>1, <1>4, <1>5, <2>1 DEF FileHandles
  <2>3. FileKeepsWrites'
    BY <1>3 DEF FileKeepsWrites
  <2>4. ASSUME NEW i \in FileHandles', FileHandles' = {i}, ~moved'
        PROVE  AtTheEnd(i)'
    <3>1. FileHandles = {}
      BY <1>6, <2>4, Zenon
    <3>2. i = Len(handles) + 1 /\ d = <<>>
      BY <1>1, <1>3, <2>2, <3>1 DEF FileKept
    <3>3. handles'[i].pos = Len(data')
      BY <1>3, <1>4, <1>5, <3>2
    <3> QED
      BY <3>3 DEF AtTheEnd
  <2> QED
    BY <2>2, <2>3, <2>4 DEF FileKept
<1> QED
  BY <1>5, <1>8, <1>9, <1>10, <1>11 DEF DescInv

\* pipe: two free descriptors, which are not the same.
LEMMA PipeKeeps ==
    ASSUME DescInv, pipe
    PROVE  DescInv' /\ Allotted(Len(handles'))
<1>1. /\ DescTyped /\ BytesKept /\ EventsKept /\ FileKept /\ ReportedIsReadable
      /\ Len(handles) \in Nat /\ turn \in Proc /\ nextFd \in [Proc -> Nat] /\ nextFd[turn] \in Nat
      /\ fd \in [Proc -> [Fd -> 0 .. Len(handles)]] /\ fd[turn] \in [Fd -> 0 .. Len(handles)]
  BY HandleIndices DEF DescInv, DescTyped
<1>2. UNCHANGED <<turn, child, streams, data, put, got, log, moved, seen>>
  BY DEF pipe, UNCH_io
<1>3. PICK r \in Fd, w \in Fd :
         /\ r # w /\ fd[turn][r] = NoHandle /\ fd[turn][w] = NoHandle
         /\ fd' = [fd EXCEPT ![turn][r] = Len(handles) + 1, ![turn][w] = Len(handles) + 2]
         /\ nextFd' = [nextFd EXCEPT ![turn] = w + 1]
  <2> DEFINE r == firstFree(fd[turn], nextFd[turn])
             t == [fd[turn] EXCEPT ![r] = 1]
             w == firstFree(t, r + 1)
  <2>1. /\ r <= MaxFd /\ w <= MaxFd /\ nextFd' = [nextFd EXCEPT ![turn] = w + 1]
        /\ fd' = [fd EXCEPT ![turn][r] = Len(handles) + 1, ![turn][w] = Len(handles) + 2]
    BY Zenon DEF pipe
  <2>2. r \in Fd /\ fd[turn][r] = NoHandle
    BY <1>1, <2>1, FreeIsFree
  <2>3. t \in [Fd -> Nat] /\ r + 1 \in Nat /\ r \in Nat
    <3> HIDE DEF r
    <3> QED
      BY <1>1, <2>2, DescAssumption DEF Fd
  <2>4. w \in Fd /\ w >= r + 1 /\ t[w] = NoHandle
    <3> HIDE DEF r, t
    <3> QED
      BY <2>1, <2>3, FreeIsFree
  <2> HIDE DEF r, w
  <2>5. r # w
    BY <2>3, <2>4
  <2>6. fd[turn][w] = NoHandle
    BY <1>1, <2>4, <2>5
  <2> QED
    BY <2>1, <2>2, <2>4, <2>5, <2>6
<1>4. /\ handles' \in Seq(Rec) /\ Len(handles') = Len(handles) + 2
      /\ \A i \in 1 .. Len(handles) : handles'[i] = handles[i]
      /\ handles'[Len(handles) + 1].kind = "pipeR" /\ handles'[Len(handles) + 2].kind = "pipeW"
  <2>1. PICK a \in Rec, b \in Rec : a = Handle("pipeR") /\ b = Handle("pipeW")
                                    /\ a.kind = "pipeR" /\ b.kind = "pipeW"
    <3>1. Handle("pipeR") \in Rec /\ Handle("pipeW") \in Rec
      BY <1>1 DEF Handle, Rec, Kind
    <3>2. Handle("pipeR").kind = "pipeR" /\ Handle("pipeW").kind = "pipeW"
      BY DEF Handle
    <3> QED
      BY <3>1, <3>2, Zenon
  <2>2. handles' = handles \o <<a, b>> /\ handles \in Seq(Rec)
    BY <1>1, <2>1 DEF pipe, DescTyped
  <2> HIDE DEF Rec
  <2>3. <<a, b>> \in Seq(Rec) /\ Len(<<a, b>>) = 2 /\ <<a, b>>[1] = a /\ <<a, b>>[2] = b
    OBVIOUS
  <2>4. /\ handles \o <<a, b>> \in Seq(Rec) /\ Len(handles \o <<a, b>>) = Len(handles) + Len(<<a, b>>)
        /\ \A i \in 1 .. Len(handles) + Len(<<a, b>>) :
              (handles \o <<a, b>>)[i] = IF i <= Len(handles) THEN handles[i] ELSE <<a, b>>[i - Len(handles)]
    BY <2>2, <2>3, ConcatProperties
  <2>5. /\ handles' \in Seq(Rec) /\ Len(handles') = Len(handles) + 2
        /\ \A i \in 1 .. Len(handles) + 2 :
              handles'[i] = IF i <= Len(handles) THEN handles[i] ELSE <<a, b>>[i - Len(handles)]
    BY <2>2, <2>3, <2>4, Zenon
  <2>6. handles'[Len(handles) + 1] = a /\ handles'[Len(handles) + 2] = b
    BY <1>1, <2>5
  <2> QED
    BY <1>1, <2>1, <2>5, <2>6
<1>5. \A kind \in {"file", "event"} : Carries(kind) /\ NoneNew(kind)
  <2> HIDE DEF Rec
  <2>1. \A i \in 1 .. Len(handles') : i > Len(handles) => i = Len(handles) + 1 \/ i = Len(handles) + 2
    BY <1>1, <1>4
  <2> QED
    BY <1>1, <1>4, <2>1 DEF Carries, NoneNew
<1>6. Allotted(Len(handles'))
  <2>1. PICK L \in Nat : L = Len(handles') /\ L = Len(handles) + 2
    BY <1>1, <1>4
  <2>2. PICK t \in [Fd -> 0 .. L] :
           /\ fd' = [fd EXCEPT ![turn] = t]
           /\ \A f \in Fd : fd[turn][f] # NoHandle => t[f] = fd[turn][f]
    <3> DEFINE t == [fd[turn] EXCEPT ![r] = Len(handles) + 1, ![w] = Len(handles) + 2]
    <3>1. fd' = [fd EXCEPT ![turn] = t]
      BY <1>1, <1>3
    <3>2. t \in [Fd -> 0 .. L]
      BY <1>1, <1>3, <2>1
    <3>3. \A f \in Fd : fd[turn][f] # NoHandle => t[f] = fd[turn][f]
      BY <1>1, <1>3
    <3> HIDE DEF t
    <3> QED
      BY <3>1, <3>2, <3>3
  <2>3. \A p \in Proc : fd[p] \in [Fd -> 0 .. L]
    BY <1>1, <2>1
  <2>4. fd' \in [Proc -> [Fd -> 0 .. L]] /\ \A p \in Proc \ {turn} : fd'[p] = fd[p]
    BY <1>1, <2>2, <2>3
  <2>5. ASSUME NEW p \in Proc, NEW f \in Fd, fd[p][f] # NoHandle
        PROVE  fd'[p][f] = fd[p][f]
    BY <1>1, <2>2, <2>5
  <2>6. nextFd' \in [Proc -> Nat]
    <3>1. w + 1 \in Nat
      BY <1>3, DescAssumption DEF Fd
    <3> QED
      BY <1>1, <1>3, <3>1
  <2> QED
    BY <2>1, <2>4, <2>5, <2>6 DEF Allotted
<1>7. TypedIO'
  BY <1>1, <1>2 DEF DescTyped, TypedIO
<1> HIDE DEF Rec
<1>8. DescTyped' /\ ReportedIsReadable'
  BY <1>2, <1>4, <1>5, <1>6, <1>7, AllotKeeps
<1>9. EventsKept' /\ FileKept'
  BY <1>1, <1>2, <1>5, EventFrame, FileFrame
<1>10. BytesKept'
  BY <1>1, <1>2 DEF BytesKept
<1> QED
  BY <1>6, <1>8, <1>9, <1>10 DEF DescInv

\* Only tables and reports change: it remains to look at those.
LEMMA TablesKeep ==
    ASSUME DescInv, UNCHANGED <<handles, streams, data, put, got, log, moved>>,
           turn' \in Proc, child' \in {"none", "forked", "done"}, turn' = "child" => child' = "forked",
           nextFd' \in [Proc -> Nat], fd' \in [Proc -> [Fd -> 0 .. Len(handles)]],
           child' # "forked" => \A f \in Fd : fd'["child"][f] = NoHandle,
           seen' \in [Proc -> SUBSET Fd],
           \A p \in Proc : \A f \in seen'[p] : f \in seen[p] /\ fd'[p][f] = fd[p][f]
    PROVE  DescInv'
<1>1. DescTyped /\ BytesKept /\ EventsKept /\ FileKept /\ ReportedIsReadable
  BY DEF DescInv
<1>2. \A kind : Carries(kind) /\ NoneNew(kind)
  BY <1>1, HandlesStay
<1> HIDE DEF Rec
<1>3. DescTyped'
  BY <1>1 DEF DescTyped
<1>4. BytesKept'
  BY <1>1 DEF BytesKept
<1>5. EventsKept' /\ FileKept' /\ ReportedIsReadable'
  BY <1>1, <1>2, EventFrame, FileFrame, ReportFrame
<1> QED
  BY <1>3, <1>4, <1>5 DEF DescInv

\* One descriptor of the process that runs is set, and is not reported any more.
LEMMA SetKeeps ==
    ASSUME DescInv, UNCHANGED <<turn, child, nextFd, handles, streams, data, put, got, log, moved>>,
           NEW g \in Fd, NEW h \in 0 .. Len(handles), Table(g, h), seen' = [seen EXCEPT ![turn] = @ \ {g}]
    PROVE  DescInv'
<1>1. /\ turn \in Proc /\ child \in {"none", "forked", "done"} /\ (turn = "child" => child = "forked")
      /\ nextFd \in [Proc -> Nat] /\ fd \in [Proc -> [Fd -> 0 .. Len(handles)]]
      /\ (child # "forked" => \A f \in Fd : fd["child"][f] = NoHandle)
      /\ seen \in [Proc -> SUBSET Fd] /\ fd[turn] \in [Fd -> 0 .. Len(handles)]
  BY DEF DescInv, DescTyped
<1>2. fd' = [fd EXCEPT ![turn] = [fd[turn] EXCEPT ![g] = h]]
  BY DEF Table
<1>3. fd' \in [Proc -> [Fd -> 0 .. Len(handles)]]
  BY <1>1, <1>2
<1>4. child # "forked" => \A f \in Fd : fd'["child"][f] = NoHandle
  BY <1>1, <1>2 DEF Proc
<1>5. seen' \in [Proc -> SUBSET Fd]
  BY <1>1
<1>6. ASSUME NEW p \in Proc, NEW f \in seen'[p]
      PROVE  f \in seen[p] /\ fd'[p][f] = fd[p][f]
  BY <1>1, <1>2, <1>6
<1> QED
  BY <1>1, <1>3, <1>4, <1>5, <1>6, TablesKeep

\* dup2.
LEMMA Dup2Keeps ==
    ASSUME DescInv, NEW f \in Fd, NEW g \in Fd, dup2(f, g)
    PROVE  DescInv'
<1>1. DescTyped /\ Open(f) /\ Len(handles) \in Nat
  BY HandleIndices DEF DescInv, dup2
<1>2. fd[turn][f] \in 0 .. Len(handles)
  BY <1>1, OpenHandle
<1>3. /\ Table(g, fd[turn][f]) /\ seen' = [seen EXCEPT ![turn] = @ \ {g}]
      /\ UNCHANGED <<turn, child, nextFd, handles, streams, data, put, got, log, moved>>
  BY DEF dup2
<1> QED
  BY <1>2, <1>3, SetKeeps

\* close.
LEMMA CloseKeeps ==
    ASSUME DescInv, NEW f \in Fd, closeFd(f)
    PROVE  DescInv'
<1>1. Len(handles) \in Nat
  BY HandleIndices DEF DescInv
<1>2. /\ Table(f, NoHandle) /\ seen' = [seen EXCEPT ![turn] = @ \ {f}]
      /\ UNCHANGED <<turn, child, nextFd, handles, streams, data, put, got, log, moved>>
  BY DEF closeFd
<1>3. NoHandle \in 0 .. Len(handles)
  BY <1>1 DEF NoHandle
<1> QED
  BY <1>2, <1>3, SetKeeps

\* fork: nothing was reported to a child that did not exist.
LEMMA ForkKeeps ==
    ASSUME DescInv, fork
    PROVE  DescInv'
<1>1. /\ DescTyped /\ ReportedIsReadable /\ turn = "parent" /\ child = "none" /\ child' = "forked"
      /\ fd' = [fd EXCEPT !["child"] = fd["parent"]]
      /\ nextFd' = [nextFd EXCEPT !["child"] = nextFd["parent"]]
      /\ UNCHANGED <<turn, handles, streams, data, put, got, log, moved, seen>>
  BY DEF DescInv, fork, UNCH_io
<1>2. /\ nextFd \in [Proc -> Nat] /\ fd \in [Proc -> [Fd -> 0 .. Len(handles)]]
      /\ \A f \in Fd : fd["child"][f] = NoHandle
      /\ seen \in [Proc -> SUBSET Fd]
  BY <1>1 DEF DescTyped
<1>3. seen["child"] = {}
  BY <1>1, <1>2 DEF ReportedIsReadable, hasData, Proc
<1>4. /\ nextFd' \in [Proc -> Nat] /\ fd' \in [Proc -> [Fd -> 0 .. Len(handles)]] /\ fd'["parent"] = fd["parent"]
  BY <1>1, <1>2 DEF Proc
<1>5. ASSUME NEW p \in Proc, NEW f \in seen'[p]
      PROVE  f \in seen[p] /\ fd'[p][f] = fd[p][f]
  BY <1>1, <1>3, <1>4, <1>5 DEF Proc
<1> QED
  BY <1>1, <1>2, <1>4, <1>5, TablesKeep DEF Proc

\* wait4 and the end of the child.
LEMMA WaitExitKeep ==
    ASSUME DescInv, wait4 \/ exit
    PROVE  DescInv'
<1>1. /\ DescTyped /\ nextFd \in [Proc -> Nat] /\ fd \in [Proc -> [Fd -> 0 .. Len(handles)]]
      /\ seen \in [Proc -> SUBSET Fd] /\ Len(handles) \in Nat
  BY HandleIndices DEF DescInv, DescTyped
<1>2. CASE wait4
  <2>1. /\ child = "forked" /\ turn' = "child"
        /\ UNCHANGED <<child, fd, nextFd, handles, streams, data, put, got, log, moved, seen>>
    BY <1>2 DEF wait4, UNCH_io
  <2> QED
    BY <1>1, <2>1, TablesKeep DEF Proc
<1>3. CASE exit
  <2>1. /\ turn' = "parent" /\ child' = "done"
        /\ fd' = [fd EXCEPT !["child"] = [f \in Fd |-> NoHandle]]
        /\ nextFd' = [nextFd EXCEPT !["child"] = 3] /\ seen' = [seen EXCEPT !["child"] = {}]
        /\ UNCHANGED <<handles, streams, data, put, got, log, moved>>
    BY <1>3 DEF exit
  <2>2. [f \in Fd |-> NoHandle] \in [Fd -> 0 .. Len(handles)]
    BY <1>1 DEF NoHandle
  <2>3. /\ nextFd' \in [Proc -> Nat] /\ fd' \in [Proc -> [Fd -> 0 .. Len(handles)]]
        /\ seen' \in [Proc -> SUBSET Fd] /\ \A f \in Fd : fd'["child"][f] = NoHandle
    BY <1>1, <2>1, <2>2 DEF Proc
  <2>4. ASSUME NEW p \in Proc, NEW f \in seen'[p]
        PROVE  f \in seen[p] /\ fd'[p][f] = fd[p][f]
    BY <1>1, <2>1, <2>4 DEF Proc
  <2> QED
    BY <2>1, <2>3, <2>4, TablesKeep DEF Proc
<1> QED
  BY <1>2, <1>3

-----------------------------------------------------------------------------
(* The theorems.                                                           *)

\* The initial states.
LEMMA InitInvariant ==
    ASSUME DescInit
    PROVE  DescInv
<1> DEFINE a == [kind |-> "stdin", pos |-> 0, acc |-> "rd", app |-> FALSE, want |-> {}, sys |-> "parent"]
           b == [kind |-> "stdout", pos |-> 0, acc |-> "wr", app |-> FALSE, want |-> {}, sys |-> "parent"]
<1>1. a \in Rec /\ b \in Rec /\ a.kind = "stdin" /\ b.kind = "stdout"
  BY DEF Rec, Kind, Proc
<1>2. handles = <<a, b>>
  BY DEF DescInit
<1> HIDE DEF a, b
<1>3. /\ handles \in Seq(Rec) /\ Len(handles) = 2 /\ DOMAIN handles = 1 .. 2 /\ handles[1] = a /\ handles[2] = b
  <2> HIDE DEF Rec
  <2> QED
    BY <1>1, <1>2
<1>4. \A i \in 1 .. 2 : handles[i].kind # "file" /\ handles[i].kind # "event"
  <2>1. \A i \in 1 .. 2 : i = 1 \/ i = 2
    OBVIOUS
  <2> QED
    BY <1>1, <1>3, <2>1
<1>5. /\ turn = "parent" /\ child = "none" /\ nextFd = [p \in Proc |-> 3]
      /\ streams = [s \in Stream |-> IF s = "stdin" THEN Input ELSE <<>>]
      /\ put = streams /\ got = [s \in Stream |-> <<>>]
      /\ data = <<>> /\ log = <<>> /\ moved = FALSE /\ seen = [p \in Proc |-> {}]
  BY DEF DescInit
<1>6. fd \in [Proc -> [Fd -> 0 .. 2]] /\ \A f \in Fd : fd["child"][f] = NoHandle
  <2> DEFINE T(p) == [f \in Fd |-> IF p = "child" THEN NoHandle
                                   ELSE CASE f = 0 -> 1 [] f \in {1, 2} -> 2 [] OTHER -> NoHandle]
  <2>1. fd = [p \in Proc |-> T(p)]
    BY DEF DescInit
  <2>2. \A p \in Proc : T(p) \in [Fd -> 0 .. 2]
    BY DEF NoHandle
  <2>3. \A f \in Fd : T("child")[f] = NoHandle
    OBVIOUS
  <2> HIDE DEF T
  <2> QED
    BY <2>1, <2>2, <2>3 DEF Proc
<1>7. streams \in [Stream -> Seq(Nat)] /\ got \in [Stream -> Seq(Nat)] /\ <<>> \in Seq(Nat)
  <2>1. <<>> \in Seq(Nat) /\ Input \in Seq(Nat)
    BY EmptySeq, DescAssumption
  <2> QED
    BY <1>5, <2>1
<1>8. DescTyped
  <2> HIDE DEF Rec
  <2>1. /\ handles \in Seq(Rec) /\ nextFd \in [Proc -> Nat] /\ seen \in [Proc -> SUBSET Fd]
        /\ fd \in [Proc -> [Fd -> 0 .. Len(handles)]]
    BY <1>3, <1>5, <1>6
  <2>2. turn \in Proc /\ child \in {"none", "forked", "done"} /\ (turn = "child" => child = "forked")
    BY <1>5 DEF Proc
  <2>3. put \in [Stream -> Seq(Nat)] /\ data \in Seq(Nat) /\ log \in Seq(Nat) /\ moved \in BOOLEAN
    BY <1>5, <1>7
  <2> QED
    BY <1>6, <1>7, <2>1, <2>2, <2>3 DEF DescTyped
<1>9. BytesKept
  <2>1. ASSUME NEW s \in Stream
        PROVE  put[s] = Cat(got[s], streams[s])
    <3>1. streams[s] \in Seq(Nat)
      BY <1>7
    <3>2. <<>> \o streams[s] = streams[s]
      BY <3>1, ConcatEmptySeq
    <3> QED
      BY <1>5, <3>2 DEF Cat
  <2> QED
    BY <2>1 DEF BytesKept, Stream
<1>10. EventsKept
  <2>1. put["event"] = <<>> /\ got["event"] = <<>>
    BY <1>5 DEF Stream
  <2> QED
    BY <1>3, <1>4, <2>1 DEF EventsKept, IsEvent
<1>11. FileKept
  <2>1. FileHandles = {}
    BY <1>3, <1>4 DEF FileHandles
  <2> QED
    BY <1>5, <2>1 DEF FileKept, FileKeepsWrites
<1>12. ReportedIsReadable
  BY <1>5 DEF ReportedIsReadable
<1> QED
  BY <1>5, <1>8, <1>9, <1>10, <1>11, <1>12, EmptySeq DEF DescInv

\* read of every kind of handle.
LEMMA ReadKeeps ==
    ASSUME DescInv, NEW f \in Fd, NEW n \in Nat, read(f, n)
    PROVE  DescInv'
BY ReadStreamKeeps, ReadFileKeeps, ReadEventKeeps DEF read

\* write to every kind of handle.
LEMMA WriteKeeps ==
    ASSUME DescInv, NEW f \in Fd, NEW bytes \in Bytes, write(f, bytes)
    PROVE  DescInv'
<1>1. bytes \in Seq(Nat) /\ Len(bytes) \in Nat
  <2>1. bytes \in Seq(Nat)
    <3>1. CASE bytes = <<1, 2>>
      BY <3>1
    <3>2. ASSUME NEW b \in Byte, bytes = <<b>>
          PROVE  bytes \in Seq(Nat)
      BY <3>2, DescAssumption
    <3> QED
      BY <3>1, <3>2 DEF Bytes
  <2> QED
    BY <2>1, LenProperties
<1> QED
  BY <1>1, WriteStreamKeeps, WriteFileKeeps, WriteEventKeeps DEF write

\* pread and pwrite of every kind of handle.
LEMMA PreadKeeps ==
    ASSUME DescInv, NEW f \in Fd, NEW count \in Nat, NEW at \in Nat, pread(f, count, at)
    PROVE  DescInv'
BY PreadFileKeeps, ReadStreamKeeps, ReadEventKeeps DEF pread

LEMMA PwriteKeeps ==
    ASSUME DescInv, NEW f \in Fd, NEW bytes \in Seq(Nat), NEW at \in Nat, pwrite(f, bytes, at)
    PROVE  DescInv'
<1>1. Len(bytes) \in Nat
  BY LenProperties
<1> QED
  BY <1>1, PwriteFileKeeps, WriteStreamKeeps, WriteEventKeeps DEF pwrite

\* Every step keeps the invariant.
LEMMA StepInvariant ==
    ASSUME DescInv, [DescNext]_descVars
    PROVE  DescInv'
<1>1. DescInv /\ Source \subseteq Fd /\ Target \subseteq Fd
  BY LenProperties, DescAssumption DEF Fd
<1>2. CASE UNCHANGED descVars
  BY <1>1, <1>2, NothingKeeps DEF descVars
<1>4. ASSUME NEW f \in Fd, NEW n \in 1 .. 2, read(f, n)
      PROVE  DescInv'
  <2>1. n \in Nat
    OBVIOUS
  <2> QED
    BY <1>1, <1>4, <2>1, ReadKeeps
<1>5. ASSUME NEW f \in Fd, NEW bytes \in Bytes, write(f, bytes)
      PROVE  DescInv'
  BY <1>1, <1>5, WriteKeeps
<1>6. ASSUME NEW f \in Fd, pread(f, 1, 0)
      PROVE  DescInv'
  BY <1>1, <1>6, PreadKeeps
<1>7. ASSUME NEW f \in Fd, NEW b \in Byte, pwrite(f, <<b>>, 0)
      PROVE  DescInv'
  <2>1. <<b>> \in Seq(Nat)
    BY DescAssumption
  <2> QED
    BY <1>1, <1>7, <2>1, PwriteKeeps
<1>8. ASSUME NEW f \in Fd, NEW base \in {"set", "cur", "end"}, lseek(f, base)
      PROVE  DescInv'
  BY <1>1, <1>8, LseekKeeps DEF lseek
<1>9. ASSUME NEW f \in Fd, NEW len \in 0 .. 2, ftruncate(f, len)
      PROVE  DescInv'
  BY <1>1, <1>9, FtruncateKeeps DEF ftruncate
<1>10. ASSUME NEW f \in Fd, closeFd(f) \/ epollWait(f)
       PROVE  DescInv'
  BY <1>1, <1>10, CloseKeeps, EpollWaitKeeps DEF closeFd, epollWait
<1>11. ASSUME NEW f \in Fd, NEW g \in Target, NEW add \in BOOLEAN, epollCtl(f, g, add)
       PROVE  DescInv'
  BY <1>1, <1>11, EpollCtlKeeps DEF epollCtl, UNCH_io
<1>12. ASSUME NEW f \in Source, dup(f)
       PROVE  DescInv'
  BY <1>1, <1>12, DupKeeps DEF dup, UNCH_io
<1>13. ASSUME NEW f \in Source, NEW g \in Target, dup2(f, g)
       PROVE  DescInv'
  BY <1>1, <1>13, Dup2Keeps DEF dup2
<1>14. ASSUME NEW acc \in {"rd", "wr", "rdwr"}, NEW app \in BOOLEAN, NEW trunc \in BOOLEAN, open(acc, app, trunc)
       PROVE  DescInv'
  BY <1>1, <1>14, OpenKeeps DEF open
<1>15. ASSUME NEW kind \in {"event", "epoll"}, newHandle(kind)
       PROVE  DescInv'
  BY <1>1, <1>15, NewHandleKeeps DEF newHandle, UNCH_io
<1>16. ASSUME pipe \/ poll \/ fork \/ wait4 \/ exit
       PROVE  DescInv'
  BY <1>1, <1>16, PipeKeeps, PollKeeps, ForkKeeps, WaitExitKeep DEF pipe, poll, fork, wait4, exit, UNCH_io
<1> QED
  BY <1>2, <1>4, <1>5, <1>6, <1>7, <1>8, <1>9, <1>10, <1>11, <1>12, <1>13, <1>14, <1>15, <1>16
     DEF DescNext

\* The tables, the handles and the histories of every program stay as DescInv says.
THEOREM DescInvariance == DescSpec => []DescInv
<1>1. DescInit => DescInv
  BY InitInvariant
<1>2. DescInv /\ [DescNext]_descVars => DescInv'
  BY StepInvariant
<1> QED
  BY <1>1, <1>2, PTL DEF DescSpec

\* StreamsKeepBytes: whichever processes and copies of descriptors of standard
\* streams, pipes and event counters the calls of src/src/syscalls.js go through,
\* no byte is lost, repeated or reordered, for any input, bytes and bounds.
THEOREM DescriptorsKeepBytes == DescSpec => []StreamsKeepBytes
<1>1. DescInv => StreamsKeepBytes
  BY HandleIndices, Zenon DEF DescInv, BytesKept, EventsKept, IsEvent, StreamsKeepBytes, Cat
<1> QED
  BY <1>1, DescInvariance, PTL

\* FileKeepsWrites: a file that is written by appending handles only, or through
\* copies of the one handle there is, holds all that was written, in order.
THEOREM FilesKeepWrites == DescSpec => []FileKeepsWrites
<1>1. DescInv => FileKeepsWrites
  BY DEF DescInv, FileKept
<1> QED
  BY <1>1, DescInvariance, PTL

\* ReportedIsReadable: what poll, select and epoll_wait report stays true until
\* the descriptor is read, closed or replaced.
THEOREM ReportsStayTrue == DescSpec => []ReportedIsReadable
<1>1. DescInv => ReportedIsReadable
  BY DEF DescInv
<1> QED
  BY <1>1, DescInvariance, PTL

\* What a step may do to the tables.
TableStep ==
    /\ \A p \in Proc \ {turn} : fd'[p] # fd[p] => child = "none" /\ child' = "forked"
    /\ \A f \in Fd : fd[turn][f] \notin {NoHandle, fd'[turn][f]} =>
          exit \/ closeFd(f) \/ \E g \in Fd : dup2(g, f)

\* Descriptors are only handed out when they are free.
LEMMA AllottedApart ==
    ASSUME DescTyped, NEW L, Allotted(L)
    PROVE  TableStep
BY DEF DescTyped, Allotted, TableStep

\* One step changes one table, as TablesStayApart says.
LEMMA StepsStayApart ==
    ASSUME DescInv, DescNext
    PROVE  TableStep
<1>1. /\ DescInv /\ DescTyped /\ Source \subseteq Fd /\ Target \subseteq Fd /\ turn \in Proc
      /\ fd \in [Proc -> [Fd -> 0 .. Len(handles)]] /\ fd[turn] \in [Fd -> 0 .. Len(handles)]
  BY DescAssumption DEF DescInv, DescTyped, Fd
<1>2. ASSUME fd' = fd
      PROVE  TableStep
  BY <1>2 DEF TableStep
<1>3. ASSUME NEW g \in Fd, NEW h, Table(g, h), closeFd(g) \/ \E f \in Fd : dup2(f, g)
      PROVE  TableStep
  <2>1. fd' = [fd EXCEPT ![turn] = [fd[turn] EXCEPT ![g] = h]]
    BY <1>3 DEF Table
  <2>2. \A p \in Proc \ {turn} : fd'[p] = fd[p]
    BY <1>1, <2>1
  <2>3. \A f \in Fd : f # g => fd'[turn][f] = fd[turn][f]
    BY <1>1, <2>1
  <2> QED
    BY <1>3, <2>2, <2>3 DEF TableStep
<1>4. ASSUME fork
      PROVE  TableStep
  <2>1. turn = "parent" /\ child = "none" /\ child' = "forked" /\ fd' = [fd EXCEPT !["child"] = fd["parent"]]
    BY <1>4 DEF fork
  <2>2. fd'[turn] = fd[turn]
    BY <1>1, <2>1
  <2> QED
    BY <2>1, <2>2 DEF TableStep
<1>5. ASSUME exit
      PROVE  TableStep
  <2>1. turn = "child" /\ fd' = [fd EXCEPT !["child"] = [f \in Fd |-> NoHandle]]
    BY <1>5 DEF exit
  <2>2. \A p \in Proc \ {turn} : fd'[p] = fd[p]
    BY <1>1, <2>1
  <2> QED
    BY <1>5, <2>2 DEF TableStep
<1>6. ASSUME NEW f \in Fd,
             \/ \E n \in 1 .. 2 : read(f, n)
             \/ \E bytes \in Bytes : write(f, bytes)
             \/ pread(f, 1, 0)
             \/ \E b \in Byte : pwrite(f, <<b>>, 0)
             \/ \E base \in {"set", "cur", "end"} : lseek(f, base)
             \/ \E len \in 0 .. 2 : ftruncate(f, len)
             \/ epollWait(f)
             \/ \E g \in Target, add \in BOOLEAN : epollCtl(f, g, add)
      PROVE  fd' = fd
  BY <1>6, Zenon DEF read, write, pread, pwrite, lseek, ftruncate, epollWait, epollCtl, UNCH_tables
<1>7. ASSUME NEW f \in Fd, closeFd(f)
      PROVE  TableStep
  BY <1>3, <1>7 DEF closeFd
<1>8. ASSUME NEW f \in Source, dup(f) \/ \E g \in Target : dup2(f, g)
      PROVE  TableStep
  <2>1. CASE dup(f)
    BY <1>1, <2>1, DupKeeps, AllottedApart
  <2>2. ASSUME NEW g \in Target, dup2(f, g)
        PROVE  TableStep
    BY <1>1, <1>3, <2>2 DEF dup2
  <2> QED
    BY <1>8, <2>1, <2>2
<1>9. ASSUME \/ \E acc \in {"rd", "wr", "rdwr"}, app, trunc \in BOOLEAN : open(acc, app, trunc)
             \/ \E kind \in {"event", "epoll"} : newHandle(kind)
             \/ pipe
      PROVE  TableStep
  BY <1>1, <1>9, OpenKeeps, NewHandleKeeps, PipeKeeps, AllottedApart
<1>10. ASSUME poll \/ wait4
       PROVE  fd' = fd
  BY <1>10, Zenon DEF poll, wait4, UNCH_tables
<1> QED
  BY <1>2, <1>4, <1>5, <1>6, <1>7, <1>8, <1>9, <1>10 DEF DescNext

\* TablesStayApart: a call changes the table of its caller only, and a number that
\* allocFd hands out is never one in use, whatever dup2 has put where.
THEOREM TablesAreApart == DescSpec => TablesStayApart
<1>1. DescInv /\ [DescNext]_descVars => [TableStep]_descVars
  BY StepsStayApart
<1>2. DescSpec => [][TableStep]_descVars
  BY <1>1, DescInvariance, PTL DEF DescSpec
<1> QED
  BY <1>2 DEF TablesStayApart, TableStep
=============================================================================
