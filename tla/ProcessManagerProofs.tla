------------------------ MODULE ProcessManagerProofs ------------------------
(***************************************************************************)
(* Proofs about the process table, for any numbers of processes, waiters   *)
(* and overlapping runs.                                                   *)
(*                                                                         *)
(* IInv holds whatever callers do.  The end of a run comes late when the   *)
(* process was killed meanwhile, so the argument needs that a run under    *)
(* way has a record (FreshPidsUnused): completing it again moves nothing   *)
(* that is live.  OInv adds what is true of careful processes, namely that *)
(* the run that ends is the only one and its process is still live; from   *)
(* it follow the agreement of the answers and the refinement.              *)
(***************************************************************************)
EXTENDS ProcessManager, TLAPS

\* The inductive invariant, for all processes.
IInv == /\ TypeOK
        /\ TablesTellWhoEnded
        /\ ExitAnswersWaiters
        /\ AnsweredMeansEnded
        /\ FreshPidsUnused

USE PidAssumption, RunAssumption, CodeAssumption, AnswerAssumption

\* The process id allocPid returns is new.
LEMMA AllocPidFresh ==
    ASSUME IInv, NEW p \in Pid, allocPid(p)
    PROVE  /\ p >= nextPid
           /\ state[p] = "none" /\ p \notin processes /\ p \notin completed
           /\ runs[p] = 0 /\ waiters[p] = {}
BY DEF IInv, TypeOK, allocPid, FreshPidsUnused, Pid

\* An exit code of either kind is an ExitCode.
LEMMA CodesAreExitCodes ==
    /\ \A code \in Code : code \in ExitCode
    /\ \A sig \in Signal : KillCode(sig) \in ExitCode
BY DEF ExitCode

\* The invariant holds at the start.
LEMMA InitIInv == Init => IInv
BY DEF Init, IInv, TypeOK, TablesTellWhoEnded, ExitAnswersWaiters, AnsweredMeansEnded,
       FreshPidsUnused, RecordState, Pid

-----------------------------------------------------------------------------
\* An end of a process (by return, throw or signal) preserves the invariant:
\* the record ends in the state st, its waiters are drained and it is retired.
LEMMA EndKeepsIInv ==
    ASSUME IInv, NEW p \in Pid, state[p] # "none",
           NEW st \in {"exited", "faulted"}, NEW code \in ExitCode \cup {NoCode},
           state' = [state EXCEPT ![p] = st],
           exitCode' = [exitCode EXCEPT ![p] = code],
           Drain(p, st, code), Retire(p), nextPid' = nextPid,
           \/ runs' = runs
           \/ runs[p] > 0 /\ runs' = [runs EXCEPT ![p] = runs[p] - 1],
           blocked' = blocked
    PROVE  IInv'
<1>1. [pid |-> p, state |-> st, exitCode |-> code] \in Answer
  BY DEF Answer
<1>2. seen' \in [Waiter -> Answer \cup {NoAnswer}]
  BY <1>1 DEF Drain, IInv, TypeOK
<1>3. runs' \in [Pid -> 0 .. MaxRuns]
  BY DEF IInv, TypeOK
<1>4. waiters' \in [Pid -> SUBSET Waiter] /\ waiters' = [waiters EXCEPT ![p] = {}]
  BY DEF IInv, TypeOK, Drain
<1>5. TypeOK'
  BY <1>2, <1>3, <1>4 DEF IInv, TypeOK, Retire, RecordState
<1>6. TablesTellWhoEnded'
  BY DEF IInv, TypeOK, Retire, TablesTellWhoEnded
<1>7. ExitAnswersWaiters'
  BY <1>4 DEF IInv, TypeOK, ExitAnswersWaiters
<1>8. AnsweredMeansEnded'
  <2> SUFFICES ASSUME NEW w \in Waiter, seen'[w] # NoAnswer
               PROVE  state'[seen'[w].pid] \in {"exited", "faulted"}
    BY DEF AnsweredMeansEnded
  <2>1. CASE w \in waiters[p]
    <3>1. seen'[w].pid = p
      BY <2>1 DEF Drain
    <3> QED
      BY <3>1 DEF IInv, TypeOK
  <2>2. CASE w \notin waiters[p]
    <3>1. seen'[w] = seen[w] /\ seen[w].pid \in Pid
      BY <2>2 DEF Drain, IInv, TypeOK, Answer
    <3>2. state[seen[w].pid] \in {"exited", "faulted"}
      BY <3>1 DEF IInv, AnsweredMeansEnded
    <3> QED
      BY <3>1, <3>2 DEF IInv, TypeOK
  <2> QED
    BY <2>1, <2>2
<1>9. FreshPidsUnused'
  <2>1. p < nextPid
    BY DEF IInv, FreshPidsUnused, TypeOK, Pid
  <2> SUFFICES ASSUME NEW q \in Pid, q >= nextPid \/ state'[q] = "none"
               PROVE  /\ state'[q] = "none" /\ q \notin processes' /\ q \notin completed'
                      /\ runs'[q] = 0 /\ waiters'[q] = {}
    BY DEF FreshPidsUnused
  <2>2. q # p
    BY <2>1 DEF IInv, TypeOK, Pid
  <2> QED
    BY <2>2, <1>4 DEF IInv, FreshPidsUnused, TypeOK, Retire
<1> QED
  BY <1>5, <1>6, <1>7, <1>8, <1>9 DEF IInv

\* A run that is under way belongs to a process that has a record.
LEMMA RunHasRecord ==
    ASSUME IInv, NEW p \in Pid, runs[p] > blocked[p]
    PROVE  runs[p] > 0 /\ state[p] # "none"
BY DEF IInv, FreshPidsUnused, TypeOK

\* So does one in the table.
LEMMA LiveHasRecord ==
    ASSUME IInv, NEW p \in Pid, p \in processes
    PROVE  state[p] # "none"
BY DEF IInv, TablesTellWhoEnded

\* The program of a run exits.
LEMMA RunReturnsIInv ==
    ASSUME IInv, NEW p \in Pid, NEW code \in Code, runReturns(p, code)
    PROVE  IInv'
<1>1. runs[p] > 0 /\ state[p] # "none" /\ code \in ExitCode
  BY RunHasRecord, CodesAreExitCodes DEF runReturns, RunEnds
<1> QED
  BY <1>1, EndKeepsIInv DEF runReturns, RunEnds, complete

\* A run throws.
LEMMA RunThrowsIInv ==
    ASSUME IInv, NEW p \in Pid, runThrows(p)
    PROVE  IInv'
<1>1. runs[p] > 0 /\ state[p] # "none" /\ exitCode[p] \in ExitCode \cup {NoCode}
  BY RunHasRecord DEF runThrows, RunEnds, IInv, TypeOK
<1>2. exitCode' = [exitCode EXCEPT ![p] = exitCode[p]]
  BY DEF runThrows, IInv, TypeOK
<1> QED
  BY <1>1, <1>2, EndKeepsIInv DEF runThrows, RunEnds

\* A process is killed.
LEMMA SignalIInv ==
    ASSUME IInv, NEW p \in Pid, NEW sig \in Signal, signal(p, sig)
    PROVE  IInv'
<1>1. state[p] # "none" /\ KillCode(sig) \in ExitCode
  BY LiveHasRecord, CodesAreExitCodes DEF signal
<1> QED
  BY <1>1, EndKeepsIInv DEF signal, complete

\* A process is made, or its program does not load.
LEMMA SpawnIInv ==
    ASSUME IInv, NEW p \in Pid, spawnExecutable(p) \/ spawnFails(p)
    PROVE  IInv'
<1>1. /\ allocPid(p) /\ nextPid' = p + 1
      /\ UNCHANGED <<completed, exitCode, waiters, runs, blocked, seen>>
  BY DEF spawnExecutable, spawnFails
<1>2. /\ p >= nextPid /\ state[p] = "none"
      /\ p \notin processes /\ p \notin completed /\ runs[p] = 0 /\ waiters[p] = {}
  BY <1>1, AllocPidFresh
<1>3. CASE spawnExecutable(p)
  <2>1. processes' = processes \cup {p} /\ state' = [state EXCEPT ![p] = "created"]
    BY <1>3 DEF spawnExecutable
  <2>2. TypeOK'
    BY <1>1, <2>1 DEF IInv, TypeOK, RecordState, Pid
  <2>3. TablesTellWhoEnded' /\ ExitAnswersWaiters'
    BY <1>1, <1>2, <2>1 DEF IInv, TypeOK, TablesTellWhoEnded, ExitAnswersWaiters
  <2>4. AnsweredMeansEnded'
    BY <1>1, <1>2, <2>1 DEF IInv, TypeOK, AnsweredMeansEnded, Answer
  <2>5. FreshPidsUnused'
    BY <1>1, <1>2, <2>1 DEF IInv, TypeOK, FreshPidsUnused, Pid
  <2> QED
    BY <2>2, <2>3, <2>4, <2>5 DEF IInv
<1>4. CASE spawnFails(p)
  <2>1. processes' = processes /\ state' = state
    BY <1>4 DEF spawnFails
  <2>2. TypeOK'
    BY <1>1, <2>1 DEF IInv, TypeOK, Pid
  <2>3. FreshPidsUnused'
    BY <1>1, <1>2, <2>1 DEF IInv, TypeOK, FreshPidsUnused, Pid
  <2> QED
    BY <1>1, <2>1, <2>2, <2>3
       DEF IInv, TablesTellWhoEnded, ExitAnswersWaiters, AnsweredMeansEnded
<1> QED
  BY <1>3, <1>4

\* A run starts.
LEMMA RunIInv ==
    ASSUME IInv, NEW p \in Pid, run(p)
    PROVE  IInv'
<1>1. /\ p \in processes /\ runs[p] < MaxRuns
      /\ state' = [state EXCEPT ![p] = "running"]
      /\ runs' = [runs EXCEPT ![p] = runs[p] + 1]
      /\ UNCHANGED <<nextPid, processes, completed, exitCode, waiters, blocked, seen>>
  BY DEF run
<1>2. state[p] \in {"created", "running"} /\ p \notin completed /\ p < nextPid
  <2>1. state[p] \in {"created", "running"}
    BY <1>1 DEF IInv, TablesTellWhoEnded
  <2>2. p \notin completed
    BY <2>1 DEF IInv, TablesTellWhoEnded
  <2>3. p < nextPid
    BY <1>1 DEF IInv, FreshPidsUnused, TypeOK, Pid
  <2> QED
    BY <2>1, <2>2, <2>3
<1>3. TypeOK'
  BY <1>1 DEF IInv, TypeOK, RecordState
<1>4. TablesTellWhoEnded' /\ ExitAnswersWaiters'
  BY <1>1, <1>2 DEF IInv, TypeOK, TablesTellWhoEnded, ExitAnswersWaiters
<1>5. AnsweredMeansEnded'
  BY <1>1, <1>2 DEF IInv, TypeOK, AnsweredMeansEnded, Answer
<1>6. FreshPidsUnused'
  BY <1>1, <1>2 DEF IInv, TypeOK, FreshPidsUnused, Pid
<1> QED
  BY <1>3, <1>4, <1>5, <1>6 DEF IInv

\* A caller waits.
LEMMA WaitIInv ==
    ASSUME IInv, NEW p \in Pid, NEW w \in Waiter, wait(w, p)
    PROVE  IInv'
<1>1. /\ p \in processes \cup completed
      /\ UNCHANGED <<nextPid, processes, completed, state, exitCode, runs, blocked>>
  BY DEF wait
<1>2. TablesTellWhoEnded'
  BY <1>1 DEF IInv, TablesTellWhoEnded
<1>3. CASE state[p] = "exited"
  <2> DEFINE a == [pid |-> p, state |-> "exited", exitCode |-> exitCode[p]]
  <2>1. a \in Answer /\ a.pid = p
    BY DEF IInv, TypeOK, Answer
  <2>2. seen' = [seen EXCEPT ![w] = a] /\ waiters' = waiters
    BY <1>3 DEF wait
  <2> HIDE DEF a
  <2>3. TypeOK'
    BY <1>1, <2>1, <2>2 DEF IInv, TypeOK
  <2>4. AnsweredMeansEnded'
    BY <1>1, <1>3, <2>1, <2>2 DEF IInv, TypeOK, AnsweredMeansEnded
  <2> QED
    BY <1>1, <1>2, <2>2, <2>3, <2>4 DEF IInv, ExitAnswersWaiters, FreshPidsUnused
<1>4. CASE state[p] # "exited"
  <2>1. seen' = seen /\ waiters' = [waiters EXCEPT ![p] = waiters[p] \cup {w}]
    BY <1>4 DEF wait
  <2>2. TypeOK'
    BY <1>1, <2>1 DEF IInv, TypeOK
  <2>3. ExitAnswersWaiters'
    BY <1>1, <1>4, <2>1 DEF IInv, TypeOK, ExitAnswersWaiters
  <2>4. FreshPidsUnused'
    BY <1>1, <2>1 DEF IInv, TypeOK, FreshPidsUnused, Pid
  <2> QED
    BY <1>1, <1>2, <2>1, <2>2, <2>3, <2>4 DEF IInv, AnsweredMeansEnded
<1> QED
  BY <1>3, <1>4

\* A record is reaped.
LEMMA ReapIInv ==
    ASSUME IInv, NEW p \in Pid, reap(p)
    PROVE  IInv'
BY DEF IInv, reap, TypeOK, TablesTellWhoEnded, ExitAnswersWaiters, AnsweredMeansEnded,
       FreshPidsUnused

\* A run suspends itself in a system call, or goes on after one.
LEMMA BlocksIInv ==
    ASSUME IInv, NEW p \in Pid, blocks(p) \/ unblocks(p)
    PROVE  IInv'
<1>1. /\ UNCHANGED <<nextPid, processes, completed, state, exitCode, waiters, runs, seen>>
      /\ \/ runs[p] > blocked[p] /\ blocked' = [blocked EXCEPT ![p] = blocked[p] + 1]
         \/ blocked[p] > 0 /\ blocked' = [blocked EXCEPT ![p] = blocked[p] - 1]
  BY DEF blocks, unblocks
<1>2. blocked' \in [Pid -> 0 .. MaxRuns]
  BY <1>1 DEF IInv, TypeOK
<1> QED
  BY <1>1, <1>2 DEF IInv, TypeOK, TablesTellWhoEnded, ExitAnswersWaiters, AnsweredMeansEnded,
                    FreshPidsUnused

\* Every step preserves the invariant.
LEMMA NextIInv == IInv /\ [Next]_vars => IInv'
<1> SUFFICES ASSUME IInv, [Next]_vars PROVE IInv'
  OBVIOUS
<1>1. CASE UNCHANGED vars
  BY <1>1 DEF vars, IInv, TypeOK, TablesTellWhoEnded, ExitAnswersWaiters,
              AnsweredMeansEnded, FreshPidsUnused
<1>2. CASE Next
  <2> PICK p \in Pid :
        \/ spawnExecutable(p)
        \/ spawnFails(p)
        \/ run(p)
        \/ EndRun(p)
        \/ blocks(p) \/ unblocks(p)
        \/ reap(p)
        \/ \E w \in Waiter : wait(w, p)
        \/ \E sig \in Signal : signal(p, sig)
    BY <1>2 DEF Next
  <2> QED
    BY SpawnIInv, RunIInv, RunReturnsIInv, RunThrowsIInv, ReapIInv, WaitIInv, SignalIInv,
       BlocksIInv DEF EndRun
<1> QED
  BY <1>1, <1>2

\* The invariant holds in every reachable state, whatever callers do.
THEOREM Invariance == Spec => []IInv
BY InitIInv, NextIInv, PTL DEF Spec

\* Every variable of the process table keeps its type.
THEOREM TypeCorrect == Spec => []TypeOK
<1>1. IInv => TypeOK
  BY DEF IInv
<1> QED
  BY Invariance, <1>1, PTL

\* The two tables always tell apart processes that ended from those that did not.
THEOREM TablesAreRight == Spec => []TablesTellWhoEnded
<1>1. IInv => TablesTellWhoEnded
  BY DEF IInv
<1> QED
  BY Invariance, <1>1, PTL

\* No wait() stays queued on a process that has exited.
THEOREM ExitsAnswerWaiters == Spec => []ExitAnswersWaiters
<1>1. IInv => ExitAnswersWaiters
  BY DEF IInv
<1> QED
  BY Invariance, <1>1, PTL

\* An answered wait() was answered for a process that has ended and stays ended.
THEOREM AnswersAreForEnded == Spec => []AnsweredMeansEnded
<1>1. IInv => AnsweredMeansEnded
  BY DEF IInv
<1> QED
  BY Invariance, <1>1, PTL

-----------------------------------------------------------------------------
(* Careful processes: one run at a time, no signal while it is under way. *)

\* The inductive invariant, with what is true of careful processes.
OInv == /\ IInv
        /\ RunsAreLive
        /\ AnswersMatchRecords

\* The invariant of careful processes holds at the start.
LEMMA InitOInv == Init => OInv
<1>1. Init => RunsAreLive /\ AnswersMatchRecords
  BY DEF Init, RunsAreLive, AnswersMatchRecords, Pid
<1> QED
  BY <1>1, InitIInv DEF OInv

\* An end of a process, which for a careful one is the end of a live process
\* without further runs, keeps the answers about careful processes right.
LEMMA EndKeepsOInv ==
    ASSUME OInv, NEW p \in Pid, p \in Careful => p \in processes /\ runs'[p] = 0,
           NEW st \in {"exited", "faulted"}, NEW code \in ExitCode \cup {NoCode},
           state' = [state EXCEPT ![p] = st],
           exitCode' = [exitCode EXCEPT ![p] = code],
           Drain(p, st, code), Retire(p),
           \A q \in Pid : q # p => runs'[q] = runs[q]
    PROVE  RunsAreLive' /\ AnswersMatchRecords'
<1>1. RunsAreLive'
  BY DEF OInv, RunsAreLive, Retire
<1>2. p \in Careful => state[p] \in {"created", "running"}
  BY DEF OInv, IInv, TablesTellWhoEnded
<1>3. AnswersMatchRecords'
  <2> SUFFICES ASSUME NEW w \in Waiter, seen'[w] # NoAnswer, seen'[w].pid \in Careful
               PROVE  /\ seen'[w].state = state'[seen'[w].pid]
                      /\ seen'[w].exitCode = exitCode'[seen'[w].pid]
    BY DEF AnswersMatchRecords
  <2>1. CASE w \in waiters[p]
    <3>1. seen'[w].pid = p /\ seen'[w].state = st /\ seen'[w].exitCode = code
      BY <2>1 DEF Drain
    <3> QED
      BY <3>1 DEF OInv, IInv, TypeOK
  <2>2. CASE w \notin waiters[p]
    <3>1. seen'[w] = seen[w] /\ seen[w].pid \in Pid
      BY <2>2 DEF Drain, OInv, IInv, TypeOK, Answer
    <3>2. state[seen[w].pid] \in {"exited", "faulted"}
      BY <3>1 DEF OInv, IInv, AnsweredMeansEnded
    <3>3. seen[w].pid # p
      BY <3>1, <3>2, <1>2
    <3>4. /\ seen[w].state = state[seen[w].pid]
          /\ seen[w].exitCode = exitCode[seen[w].pid]
      BY <3>1 DEF OInv, AnswersMatchRecords
    <3> QED
      BY <3>1, <3>3, <3>4 DEF OInv, IInv, TypeOK
  <2> QED
    BY <2>1, <2>2
<1> QED
  BY <1>1, <1>3

\* The end of a run: the run of a careful process is its last one.
LEMMA RunEndsLast ==
    ASSUME OInv, NEW p \in Pid, RunEnds(p)
    PROVE  /\ p \in Careful => p \in processes /\ runs'[p] = 0
           /\ \A q \in Pid : q # p => runs'[q] = runs[q]
BY DEF OInv, IInv, TypeOK, RunEnds, RunsAreLive

\* Every step preserves the invariant of careful processes.
LEMMA NextOInv == OInv /\ [Next]_vars => OInv'
<1> SUFFICES ASSUME OInv, [Next]_vars PROVE RunsAreLive' /\ AnswersMatchRecords'
  BY NextIInv DEF OInv
<1>0. IInv /\ TypeOK
  BY DEF OInv, IInv
<1>1. CASE UNCHANGED vars
  BY <1>1 DEF vars, OInv, RunsAreLive, AnswersMatchRecords
<1>2. ASSUME NEW p \in Pid, NEW code \in Code, runReturns(p, code)
      PROVE  RunsAreLive' /\ AnswersMatchRecords'
  <2>1. RunEnds(p) /\ code \in ExitCode
    BY <1>2, CodesAreExitCodes DEF runReturns
  <2> QED
    BY <1>2, <2>1, RunEndsLast, EndKeepsOInv DEF runReturns, complete
<1>3. ASSUME NEW p \in Pid, runThrows(p)
      PROVE  RunsAreLive' /\ AnswersMatchRecords'
  <2>1. RunEnds(p) /\ exitCode[p] \in ExitCode \cup {NoCode}
    BY <1>0, <1>3 DEF runThrows, TypeOK
  <2>2. exitCode' = [exitCode EXCEPT ![p] = exitCode[p]]
    BY <1>0, <1>3 DEF runThrows, TypeOK
  <2> QED
    BY <1>3, <2>1, <2>2, RunEndsLast, EndKeepsOInv DEF runThrows
<1>4. ASSUME NEW p \in Pid, NEW sig \in Signal, signal(p, sig)
      PROVE  RunsAreLive' /\ AnswersMatchRecords'
  <2>1. /\ KillCode(sig) \in ExitCode /\ p \in processes
        /\ p \in Careful => runs[p] = 0
        /\ runs' = runs
    BY <1>4, CodesAreExitCodes DEF signal, Undisturbed
  <2> QED
    BY <1>4, <2>1, EndKeepsOInv DEF signal, complete
<1>5. ASSUME NEW p \in Pid, spawnExecutable(p) \/ spawnFails(p)
      PROVE  RunsAreLive' /\ AnswersMatchRecords'
  <2>1. state[p] = "none"
    BY <1>0, <1>5, AllocPidFresh DEF spawnExecutable, spawnFails
  <2>2. RunsAreLive'
    BY <1>5 DEF OInv, RunsAreLive, spawnExecutable, spawnFails
  <2>3. \A q \in Pid : state[q] \in {"exited", "faulted"} => state'[q] = state[q]
    BY <1>0, <1>5, <2>1 DEF spawnExecutable, spawnFails, TypeOK
  <2>4. exitCode' = exitCode /\ seen' = seen
    BY <1>5 DEF spawnExecutable, spawnFails
  <2>5. AnswersMatchRecords'
    BY <1>0, <2>3, <2>4
       DEF OInv, IInv, AnswersMatchRecords, AnsweredMeansEnded, TypeOK, Answer
  <2> QED
    BY <2>2, <2>5
<1>6. ASSUME NEW p \in Pid, run(p)
      PROVE  RunsAreLive' /\ AnswersMatchRecords'
  <2>1. state[p] \in {"created", "running"}
    BY <1>0, <1>6 DEF run, IInv, TablesTellWhoEnded
  <2>2. RunsAreLive'
    BY <1>0, <1>6 DEF OInv, RunsAreLive, run, Undisturbed, TypeOK
  <2>3. \A q \in Pid : state[q] \in {"exited", "faulted"} => state'[q] = state[q]
    BY <1>0, <1>6, <2>1 DEF run, TypeOK
  <2>4. exitCode' = exitCode /\ seen' = seen
    BY <1>6 DEF run
  <2>5. AnswersMatchRecords'
    BY <1>0, <2>3, <2>4
       DEF OInv, IInv, AnswersMatchRecords, AnsweredMeansEnded, TypeOK, Answer
  <2> QED
    BY <2>2, <2>5
<1>7. ASSUME NEW p \in Pid, reap(p)
      PROVE  RunsAreLive' /\ AnswersMatchRecords'
  BY <1>7 DEF reap, OInv, RunsAreLive, AnswersMatchRecords
<1>8. ASSUME NEW p \in Pid, NEW w \in Waiter, wait(w, p)
      PROVE  RunsAreLive' /\ AnswersMatchRecords'
  <2>1. UNCHANGED <<processes, state, exitCode, runs>>
    BY <1>8 DEF wait
  <2>2. RunsAreLive'
    BY <2>1 DEF OInv, RunsAreLive
  <2>3. CASE state[p] = "exited"
    <3> DEFINE a == [pid |-> p, state |-> "exited", exitCode |-> exitCode[p]]
    <3>1. a.pid = p /\ a.state = "exited" /\ a.exitCode = exitCode[p]
      OBVIOUS
    <3>2. seen' = [seen EXCEPT ![w] = a]
      BY <1>8, <2>3 DEF wait
    <3> HIDE DEF a
    <3> QED
      BY <1>0, <2>1, <2>2, <2>3, <3>1, <3>2 DEF OInv, AnswersMatchRecords, TypeOK
  <2>4. CASE state[p] # "exited"
    BY <1>8, <2>1, <2>2, <2>4 DEF wait, OInv, AnswersMatchRecords
  <2> QED
    BY <2>3, <2>4
<1>9. ASSUME NEW p \in Pid, blocks(p) \/ unblocks(p)
      PROVE  RunsAreLive' /\ AnswersMatchRecords'
  BY <1>9 DEF blocks, unblocks, OInv, RunsAreLive, AnswersMatchRecords
<1> QED
  BY <1>1, <1>2, <1>3, <1>4, <1>5, <1>6, <1>7, <1>8, <1>9 DEF Next, EndRun

\* All callers that wait for a careful process learn the same outcome, which is
\* the one on record.
THEOREM CarefulAnswersAgree == Spec => []AnswersAgree
<1>1. OInv => AnswersAgree
  <2> SUFFICES ASSUME OInv, NEW v \in Waiter, NEW w \in Waiter,
                      Answered(v), Answered(w), seen[v].pid = seen[w].pid,
                      seen[v].pid \in Careful
               PROVE  seen[v] = seen[w]
    BY DEF AnswersAgree
  <2>1. seen[v] \in Answer /\ seen[w] \in Answer
    BY DEF OInv, IInv, TypeOK, Answered
  <2>2. seen[v].state = seen[w].state /\ seen[v].exitCode = seen[w].exitCode
    BY DEF OInv, AnswersMatchRecords, Answered
  <2> QED
    BY <2>1, <2>2 DEF Answer
<1> QED
  BY InitOInv, NextOInv, <1>1, PTL DEF Spec

-----------------------------------------------------------------------------
(* The process table implements ProcessLifecycle for careful processes. *)

\* Only the stage and the result of p change.
OthersKeep(p) ==
    \A q \in Careful : q # p => Stage(q)' = Stage(q) /\ Result(q)' = Result(q)

\* A step that writes only the record of p shows nothing of other processes.
LEMMA OthersKeepByFrame ==
    ASSUME TypeOK, NEW p \in Pid,
           NEW st, NEW code,
           state' = [state EXCEPT ![p] = st], exitCode' = [exitCode EXCEPT ![p] = code],
           \A q \in Pid : q # p => /\ (q \in processes' <=> q \in processes)
                                  /\ (q \in completed' <=> q \in completed)
    PROVE  OthersKeep(p)
<1> SUFFICES ASSUME NEW q \in Careful, q # p
             PROVE  Stage(q)' = Stage(q) /\ Result(q)' = Result(q)
  BY DEF OthersKeep
<1>1. state'[q] = state[q] /\ exitCode'[q] = exitCode[q]
  BY DEF TypeOK
<1> QED
  BY <1>1 DEF Stage, Result

\* What happens to a process that is not careful is not seen.
LEMMA OthersAreUnseen ==
    ASSUME NEW p, p \notin Careful, OthersKeep(p)
    PROVE  UNCHANGED Lifecycle!vars
BY DEF OthersKeep, Lifecycle!vars

\* An end of a live careful process is the abstract End.
LEMMA EndIsEnd ==
    ASSUME IInv, NEW p \in Pid, p \in Careful => p \in processes,
           NEW st \in {"exited", "faulted"}, NEW code \in ExitCode \cup {NoCode},
           state' = [state EXCEPT ![p] = st],
           exitCode' = [exitCode EXCEPT ![p] = code],
           Retire(p)
    PROVE  Lifecycle!Next \/ UNCHANGED Lifecycle!vars
<1>0. TypeOK
  BY DEF IInv
<1>1. OthersKeep(p)
  BY <1>0, OthersKeepByFrame DEF Retire
<1>2. CASE p \in Careful
  <2>1. Stage(p) \in {"created", "running"}
    BY <1>2 DEF IInv, TablesTellWhoEnded, Stage
  <2>2. state'[p] = st /\ exitCode'[p] = code /\ p \notin processes' /\ p \in completed'
    BY <1>0 DEF TypeOK, Retire
  <2>3. Stage(p)' = "ended" /\ Result(p)' = <<st, code>>
    BY <2>2 DEF Stage, Result
  <2>4. Lifecycle!End(p, <<st, code>>)
    BY <1>1, <1>2, <2>1, <2>3 DEF Lifecycle!End, OthersKeep
  <2> QED
    BY <1>2, <2>4 DEF Lifecycle!Next
<1> QED
  BY <1>1, <1>2, OthersAreUnseen

\* Every step is a step of ProcessLifecycle or changes nothing it can see.
LEMMA StepSimulation == OInv /\ [Next]_vars => [Lifecycle!Next]_(Lifecycle!vars)
<1> DEFINE Goal == Lifecycle!Next \/ UNCHANGED Lifecycle!vars
<1> SUFFICES ASSUME OInv, [Next]_vars
             PROVE  Goal
  OBVIOUS
<1>0. IInv /\ TypeOK
  BY DEF OInv, IInv
<1>1. CASE UNCHANGED vars
  BY <1>1 DEF vars, Lifecycle!vars, Stage, Result
<1>2. ASSUME NEW p \in Pid, NEW code \in Code, runReturns(p, code)
      PROVE  Goal
  <2>1. RunEnds(p) /\ code \in ExitCode
    BY <1>2, CodesAreExitCodes DEF runReturns
  <2> QED
    BY <1>0, <1>2, <2>1, RunEndsLast, EndIsEnd DEF runReturns, complete
<1>3. ASSUME NEW p \in Pid, runThrows(p)
      PROVE  Goal
  <2>1. RunEnds(p) /\ exitCode[p] \in ExitCode \cup {NoCode}
    BY <1>0, <1>3 DEF runThrows, TypeOK
  <2>2. exitCode' = [exitCode EXCEPT ![p] = exitCode[p]]
    BY <1>0, <1>3 DEF runThrows, TypeOK
  <2> QED
    BY <1>0, <1>3, <2>1, <2>2, RunEndsLast, EndIsEnd DEF runThrows
<1>4. ASSUME NEW p \in Pid, NEW sig \in Signal, signal(p, sig)
      PROVE  Goal
  <2>1. KillCode(sig) \in ExitCode /\ p \in processes
    BY <1>4, CodesAreExitCodes DEF signal
  <2> QED
    BY <1>0, <1>4, <2>1, EndIsEnd DEF signal, complete
<1>5. ASSUME NEW p \in Pid, spawnExecutable(p)
      PROVE  Goal
  <2>1. state[p] = "none" /\ p \notin processes /\ p \notin completed
    BY <1>0, <1>5, AllocPidFresh DEF spawnExecutable
  <2>2. exitCode' = [exitCode EXCEPT ![p] = exitCode[p]] /\ exitCode' = exitCode
    BY <1>0, <1>5 DEF spawnExecutable, TypeOK
  <2>3. state' = [state EXCEPT ![p] = "created"]
    BY <1>5 DEF spawnExecutable
  <2>4. OthersKeep(p)
    BY <1>0, <1>5, <2>2, <2>3, OthersKeepByFrame DEF spawnExecutable
  <2>5. state'[p] = "created" /\ p \in processes'
    BY <1>0, <1>5, <2>3 DEF spawnExecutable, TypeOK
  <2>6. /\ Stage(p) = "unused" /\ Stage(p)' = "created"
        /\ Result(p) = NoAnswer /\ Result(p)' = NoAnswer
    BY <2>1, <2>5 DEF Stage, Result
  <2>7. p \in Careful => Lifecycle!Create(p)
    BY <2>4, <2>6 DEF Lifecycle!Create, OthersKeep
  <2> QED
    BY <2>4, <2>7, OthersAreUnseen DEF Lifecycle!Next
<1>6. ASSUME NEW p \in Pid, spawnFails(p)
      PROVE  Goal
  BY <1>6 DEF spawnFails, Lifecycle!vars, Stage, Result
<1>7. ASSUME NEW p \in Pid, run(p)
      PROVE  Goal
  <2>1. state[p] \in {"created", "running"} /\ p \in processes
    BY <1>0, <1>7 DEF run, IInv, TablesTellWhoEnded
  <2>2. exitCode' = [exitCode EXCEPT ![p] = exitCode[p]] /\ exitCode' = exitCode
    BY <1>0, <1>7 DEF run, TypeOK
  <2>3. state' = [state EXCEPT ![p] = "running"]
    BY <1>7 DEF run
  <2>4. OthersKeep(p)
    BY <1>0, <1>7, <2>2, <2>3, OthersKeepByFrame DEF run
  <2>5. state'[p] = "running" /\ p \in processes'
    BY <1>0, <1>7, <2>1, <2>3 DEF run, TypeOK
  <2>6. /\ Stage(p) = state[p] /\ Stage(p)' = "running"
        /\ Result(p) = NoAnswer /\ Result(p)' = NoAnswer
    BY <2>1, <2>5 DEF Stage, Result
  <2>7. CASE p \in Careful /\ state[p] = "created"
    <3>1. Lifecycle!Begin(p)
      BY <2>4, <2>6, <2>7 DEF Lifecycle!Begin, OthersKeep
    <3> QED
      BY <2>7, <3>1 DEF Lifecycle!Next
  <2>8. CASE p \in Careful /\ state[p] = "running"
    BY <2>4, <2>6, <2>8 DEF Lifecycle!vars, OthersKeep
  <2> QED
    BY <2>1, <2>4, <2>7, <2>8, OthersAreUnseen
<1>8. ASSUME NEW p \in Pid, reap(p)
      PROVE  Goal
  <2>1. state[p] \in {"exited", "faulted"} /\ p \in completed /\ p \notin processes
    <3>1. p \in completed /\ state[p] \in {"exited", "faulted"}
      BY <1>0, <1>8 DEF reap, IInv, TablesTellWhoEnded
    <3> QED
      BY <1>0, <3>1 DEF IInv, TablesTellWhoEnded
  <2>2. \A q \in Careful : Result(q)' = Result(q)
    BY <1>8 DEF reap, Result
  <2>3. \A q \in Careful : q # p => Stage(q)' = Stage(q)
    BY <1>8 DEF reap, Stage
  <2>4. Stage(p) = "ended" /\ Stage(p)' = "reaped"
    BY <1>8, <2>1 DEF reap, Stage
  <2>5. p \in Careful => Lifecycle!Reap(p)
    BY <2>2, <2>3, <2>4 DEF Lifecycle!Reap
  <2> QED
    BY <2>2, <2>3, <2>5, OthersAreUnseen DEF Lifecycle!Next, OthersKeep
<1>9. ASSUME NEW p \in Pid, NEW w \in Waiter, wait(w, p)
      PROVE  Goal
  BY <1>9 DEF wait, Lifecycle!vars, Stage, Result
<1>10. ASSUME NEW p \in Pid, blocks(p) \/ unblocks(p)
       PROVE  Goal
  BY <1>10 DEF blocks, unblocks, Lifecycle!vars, Stage, Result
<1> HIDE DEF Goal
<1> QED
  BY <1>1, <1>2, <1>3, <1>4, <1>5, <1>6, <1>7, <1>8, <1>9, <1>10 DEF Next, EndRun

\* A careful process ends at most once, its outcome is final and its id is used
\* once, whatever callers do with other processes.
THEOREM CarefulProcessesEndOnce == Spec => EndsOnce
<1>1. Init => Lifecycle!Init
  BY DEF Init, Lifecycle!Init, Stage, Result
<1> QED
  BY InitOInv, NextOInv, StepSimulation, <1>1, PTL DEF Spec, EndsOnce, Lifecycle!Spec
=============================================================================
