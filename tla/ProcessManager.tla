--------------------------- MODULE ProcessManager ---------------------------
(***************************************************************************)
(* The process table of src/src/process-manager.js: ProcessRecord and      *)
(* ProcessManager.                                                         *)
(*                                                                         *)
(* Everything between two awaits is one step.  The only await is the one   *)
(* of run() on runAsync(), so a run is two steps: run and its end, with    *)
(* any other call in between.  The guest program behind runAsync (runtime) *)
(* is abstracted to what run() sees of it: it ends with an exit code, or   *)
(* throws, and before that it may suspend itself in a system call (futex,  *)
(* input, recv) that nothing limits in time.                               *)
(* A ProcessRecord is identified by its process id, which is why the       *)
(* fields of the records are functions of it.                              *)
(*                                                                         *)
(* The class restricts neither overlapping runs of one process nor signals *)
(* to a process that is running.  Careful says of which processes callers  *)
(* do without both; with the others they do as they like.                  *)
(***************************************************************************)
EXTENDS Integers, FiniteSets

CONSTANTS FirstPid,      \* options.firstPid
          LastPid,       \* bound: the last process id that is handed out
          MaxProcesses,  \* options.maxProcesses
          Code,          \* exit codes of programs
          Signal,        \* signal numbers
          NoCode,        \* exitCode null
          Waiter,        \* calls of wait()
          NoAnswer,      \* the call has not been answered
          MaxRuns,       \* bound: overlapping run() calls of one process
          Careful        \* processes that are run once at a time and not
                         \* signalled while they run

Pid == FirstPid .. LastPid

\* 128 + signal, the exit code of a killed process.
KillCode(sig) == 128 + sig

ExitCode == Code \cup {KillCode(sig) : sig \in Signal}

ASSUME PidAssumption  == FirstPid \in Nat /\ LastPid \in Nat /\ FirstPid <= LastPid
ASSUME RunAssumption  == MaxRuns \in Nat /\ MaxProcesses \in Nat /\ Careful \subseteq Pid
ASSUME CodeAssumption == /\ Code \subseteq Nat /\ Signal \subseteq Nat
                         /\ NoCode \notin ExitCode

VARIABLES nextPid,     \* this.nextPid
          processes,   \* keys of this.processes
          completed,   \* keys of this.completed
          state,       \* rec.state
          exitCode,    \* rec.exitCode
          waiters,     \* rec.waiters
          runs,        \* run() calls of the process suspended in runAsync
          blocked,     \* how many of them await the promise of a system call
          seen         \* what a wait() call was answered with

vars == <<nextPid, processes, completed, state, exitCode, waiters, runs, blocked, seen>>

RecordState == {"none", "created", "running", "exited", "faulted"}
Answer      == [pid : Pid, state : {"exited", "faulted"}, exitCode : ExitCode \cup {NoCode}]

ASSUME AnswerAssumption == NoAnswer \notin Answer

\* Ids, tables, record states, exit codes of programs or kills, and answers.
TypeOK ==
    /\ nextPid \in FirstPid .. LastPid + 1
    /\ processes \in SUBSET Pid /\ completed \in SUBSET Pid
    /\ state \in [Pid -> RecordState]
    /\ exitCode \in [Pid -> ExitCode \cup {NoCode}]
    /\ waiters \in [Pid -> SUBSET Waiter]
    /\ runs \in [Pid -> 0 .. MaxRuns]
    /\ blocked \in [Pid -> 0 .. MaxRuns]
    /\ seen \in [Waiter -> Answer \cup {NoAnswer}]

Init ==
    /\ nextPid = FirstPid
    /\ processes = {} /\ completed = {}
    /\ state = [p \in Pid |-> "none"]
    /\ exitCode = [p \in Pid |-> NoCode]
    /\ waiters = [p \in Pid |-> {}]
    /\ runs = [p \in Pid |-> 0]
    /\ blocked = [p \in Pid |-> 0]
    /\ seen = [w \in Waiter |-> NoAnswer]

-----------------------------------------------------------------------------
\* Mutant: the lowest id that no process of the two tables has.
allocPidReusing(p) ==
    /\ p \in Pid \ (processes \cup completed)
    /\ \A q \in Pid \ (processes \cup completed) : p <= q

\* p is what allocPid returns: the loop from nextPid on skips ids in use.
allocPid(p) ==
    /\ p \in nextPid .. LastPid
    /\ p \notin processes \cup completed
    /\ \A q \in nextPid .. p - 1 : q \in processes \cup completed

HasRoom == Cardinality(processes) < MaxProcesses

\* spawn/spawnExecutable with a program that loads.
spawnExecutable(p) ==
    /\ HasRoom
    /\ allocPid(p)
    /\ nextPid' = p + 1
    /\ processes' = processes \cup {p}
    /\ state' = [state EXCEPT ![p] = "created"]
    /\ UNCHANGED <<completed, exitCode, waiters, runs, blocked, seen>>

\* The same when loadExecutableFromVFS throws: the process id is used up.
spawnFails(p) ==
    /\ HasRoom
    /\ allocPid(p)
    /\ nextPid' = p + 1
    /\ UNCHANGED <<processes, completed, state, exitCode, waiters, runs, blocked, seen>>

\* Callers leave a careful process alone while it runs.
Undisturbed(p) == p \in Careful => runs[p] = 0

\* run up to the await: the process is in the table and has not exited.
run(p) ==
    /\ p \in processes
    /\ state[p] # "exited"
    /\ runs[p] < MaxRuns /\ Undisturbed(p)
    /\ state' = [state EXCEPT ![p] = "running"]
    /\ runs' = [runs EXCEPT ![p] = runs[p] + 1]
    /\ UNCHANGED <<nextPid, processes, completed, exitCode, waiters, blocked, seen>>

\* All of rec.waiters are resolved with the record.
Drain(p, st, code) ==
    /\ seen' = [w \in Waiter |->
                  IF w \in waiters[p] THEN [pid |-> p, state |-> st, exitCode |-> code]
                                      ELSE seen[w]]
    /\ waiters' = [waiters EXCEPT ![p] = {}]

\* Mutant: the waiters are answered before the exit code is stored.
completeAnswersFirst(p, code) ==
    /\ state' = [state EXCEPT ![p] = "exited"]
    /\ exitCode' = [exitCode EXCEPT ![p] = code]
    /\ Drain(p, "exited", exitCode[p])

\* ProcessRecord.complete
complete(p, code) ==
    /\ state' = [state EXCEPT ![p] = "exited"]
    /\ exitCode' = [exitCode EXCEPT ![p] = code]
    /\ Drain(p, "exited", code)

\* Mutant: the record stays in the table of live processes.
RetireNowhere(p) ==
    /\ completed' = completed \cup {p}
    /\ UNCHANGED processes

\* processes.delete(pid); completed.set(pid, rec)
Retire(p) ==
    /\ processes' = processes \ {p}
    /\ completed' = completed \cup {p}

\* A run that awaits nothing but its turn stops stepping.
RunEnds(p) == /\ runs[p] > blocked[p]
              /\ runs' = [runs EXCEPT ![p] = runs[p] - 1]
              /\ UNCHANGED <<nextPid, blocked>>

\* runAsync catches AsyncSyscallPending and awaits its promise.
blocks(p) ==
    /\ runs[p] > blocked[p]
    /\ blocked' = [blocked EXCEPT ![p] = blocked[p] + 1]
    /\ UNCHANGED <<nextPid, processes, completed, state, exitCode, waiters, runs, seen>>

\* The promise settles and runAsync goes on (or throws, which is its end).
unblocks(p) ==
    /\ blocked[p] > 0
    /\ blocked' = [blocked EXCEPT ![p] = blocked[p] - 1]
    /\ UNCHANGED <<nextPid, processes, completed, state, exitCode, waiters, runs, seen>>

\* run after the await: the program exited.
runReturns(p, code) ==
    /\ RunEnds(p)
    /\ complete(p, code)
    /\ Retire(p)

\* Mutant: the catch clause leaves the waiters where they are.
runThrowsSilently(p) ==
    /\ RunEnds(p)
    /\ state' = [state EXCEPT ![p] = "faulted"]
    /\ Retire(p)
    /\ UNCHANGED <<exitCode, seen, waiters>>

\* run after the await: runAsync threw (memory fault, step limit, host error).
runThrows(p) ==
    /\ RunEnds(p)
    /\ state' = [state EXCEPT ![p] = "faulted"]
    /\ UNCHANGED exitCode
    /\ Drain(p, "faulted", exitCode[p])
    /\ Retire(p)

\* wait on a known process: answered at once if it has exited, otherwise
\* queued.  An unknown process id is answered with null and changes nothing.
wait(w, p) ==
    /\ p \in processes \cup completed
    /\ seen[w] = NoAnswer /\ \A q \in Pid : w \notin waiters[q]
    /\ IF state[p] = "exited"
       THEN /\ seen' = [seen EXCEPT ![w] =
                           [pid |-> p, state |-> "exited", exitCode |-> exitCode[p]]]
            /\ UNCHANGED waiters
       ELSE /\ waiters' = [waiters EXCEPT ![p] = waiters[p] \cup {w}]
            /\ UNCHANGED seen
    /\ UNCHANGED <<nextPid, processes, completed, state, exitCode, runs, blocked>>

reap(p) ==
    /\ p \in completed
    /\ completed' = completed \ {p}
    /\ UNCHANGED <<nextPid, processes, state, exitCode, waiters, runs, blocked, seen>>

\* signal completes the record; a run that is under way is not told.
signal(p, sig) ==
    /\ p \in processes
    /\ Undisturbed(p)
    /\ complete(p, KillCode(sig))
    /\ Retire(p)
    /\ UNCHANGED <<nextPid, runs, blocked>>

-----------------------------------------------------------------------------
EndRun(p) == runThrows(p) \/ \E code \in Code : runReturns(p, code)

Next ==
    \E p \in Pid :
        \/ spawnExecutable(p)
        \/ spawnFails(p)
        \/ run(p)
        \/ EndRun(p)
        \/ blocks(p) \/ unblocks(p)
        \/ reap(p)
        \/ \E w \in Waiter : wait(w, p)
        \/ \E sig \in Signal : signal(p, sig)

Spec == Init /\ [][Next]_vars

\* runAsync stops after maxSteps steps, so a run that comes back from its system
\* calls again and again ends.  Nothing makes a suspended system call return.
FairSpec == Spec /\ \A p \in Pid : SF_vars(EndRun(p))

-----------------------------------------------------------------------------
\* A record in the table of live processes has not ended, and one in the
\* completed table has, whatever signals and overlapping runs did: the early
\* return of run for an exited process is never needed.
TablesTellWhoEnded ==
    /\ \A p \in processes : state[p] \in {"created", "running"}
    /\ \A p \in completed : state[p] \in {"exited", "faulted"}

\* No call of wait is left queued on a process that has exited.
ExitAnswersWaiters == \A p \in Pid : state[p] = "exited" => waiters[p] = {}

\* A wait that was answered was answered for a process that has ended, and the
\* process does not start again afterwards.
AnsweredMeansEnded ==
    \A w \in Waiter : seen[w] # NoAnswer =>
        state[seen[w].pid] \in {"exited", "faulted"}

\* Used by the proofs: ids from nextPid on are unused, and a process with a run
\* under way or a waiter has a record.
FreshPidsUnused ==
    \A p \in Pid : (p >= nextPid \/ state[p] = "none") =>
        /\ state[p] = "none" /\ p \notin processes /\ p \notin completed
        /\ runs[p] = 0 /\ waiters[p] = {}

Queued(w, p)   == w \in waiters[p]
Answered(w)    == seen[w] # NoAnswer

\* A caller that waits for a process that somebody is running gets an answer,
\* unless every run of the process stays suspended in a system call for ever.
RunningWaitersAnswered ==
    \A w \in Waiter, p \in Pid :
        \/ (Queued(w, p) /\ runs[p] > 0) ~> Answered(w)
        \/ <>[](blocked[p] > 0 /\ blocked[p] = runs[p])

\* Every call of wait on a process that was started gets an answer.
\* One that comes after a fault does not (known deviation).
StartedWaitersAnswered ==
    \A w \in Waiter, p \in Pid :
        (Queued(w, p) /\ state[p] \notin {"none", "created"}) ~> Answered(w)

\* Used by the proofs: the run of a careful process that is under way is the
\* only one and its process is live, and an answer still is what the record
\* says.
RunsAreLive == \A p \in Careful : runs[p] > 0 => runs[p] = 1 /\ p \in processes
AnswersMatchRecords ==
    \A w \in Waiter : seen[w] # NoAnswer /\ seen[w].pid \in Careful =>
        /\ seen[w].state = state[seen[w].pid]
        /\ seen[w].exitCode = exitCode[seen[w].pid]

\* All callers that wait for a careful process learn the same outcome, those
\* that come after its end as well, whatever happens to other processes.
AnswersAgree ==
    \A v, w \in Waiter :
        /\ Answered(v) /\ Answered(w)
        /\ seen[v].pid = seen[w].pid /\ seen[v].pid \in Careful
        => seen[v] = seen[w]

\* Killing is final: the exit status of a process that has exited never changes.
\* It does for processes that are killed while they run (known deviation).
ExitIsFinal ==
    [][\A p \in Pid : state[p] = "exited" =>
          state'[p] = "exited" /\ exitCode'[p] = exitCode[p]]_vars

\* The life of a process as its callers see it.
Stage(p) == IF p \in processes THEN state[p]
            ELSE IF p \in completed THEN "ended"
            ELSE IF state[p] = "none" THEN "unused"
            ELSE "reaped"

Result(p) == IF state[p] \in {"exited", "faulted"} THEN <<state[p], exitCode[p]>> ELSE NoAnswer

Lifecycle == INSTANCE ProcessLifecycle WITH
                Pid <- Careful,
                life <- [p \in Careful |-> Stage(p)], outcome <- [p \in Careful |-> Result(p)],
                Outcome <- {"exited", "faulted"} \X (ExitCode \cup {NoCode}),
                NoOutcome <- NoAnswer

\* A process that nobody signals while it runs or runs twice at a time ends
\* once, its outcome is final and its id is never used again, even if callers
\* do both with other processes.
EndsOnce == Lifecycle!Spec
=============================================================================
