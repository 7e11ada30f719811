---------------------------- MODULE ProcessTree ----------------------------
(***************************************************************************)
(* fork, wait4 and exit of src/src/runtime.js under runAsync.  Every guest *)
(* process is an EmulatedRuntime.  fork only creates the runtime of the    *)
(* child; it is wait4 of the parent that runs it, from the start to the    *)
(* end, while the parent is suspended in its own system call.              *)
(*                                                                         *)
(* A step is what one process does between two awaits.  A child whose run  *)
(* has ended and a parent that has not yet resumed is a state of its own.  *)
(* A process may also suspend itself in a system call that waits for input *)
(* or a futex; what it waits for is the matter of other modules, here such *)
(* a call may last for ever.                                               *)
(***************************************************************************)
EXTENDS Integers

CONSTANTS Runtime,    \* the runtimes that may be created
          Root,       \* the first one
          NoRuntime,
          RootPid,    \* options.pid of the first runtime
          FirstPid,   \* options.nextPid of the first runtime
          Code,       \* exit codes
          NoCode,
          Dir,        \* directories, by path
          Slash       \* the directory every process tree starts in

ASSUME RuntimeAssumption == Root \in Runtime /\ NoRuntime \notin Runtime
ASSUME PidAssumption     == RootPid \in Nat \ {0} /\ FirstPid \in Nat /\ RootPid < FirstPid
ASSUME CodeAssumption    == Code \subseteq Nat /\ NoCode \notin Code
ASSUME DirAssumption     == Slash \in Dir

VARIABLES state,       \* how far the runtime's run is
          parent,      \* the runtime whose forkProcess created it
          pid,         \* syscalls.pid
          nextPid,     \* nextPid
          children,    \* runtimes in the map children
          waitsFor,    \* the child that wait4 is running
          blocked,     \* runtimes that await the promise of another system call
          exitCode,    \* what the run returned
          cwd,         \* syscalls.cwd
          vfsCwd,      \* vfs.cwd, of the one VFS all runtimes share
          collected    \* history: the answers wait4 gave

vars == <<state, parent, pid, nextPid, children, waitsFor, blocked, exitCode, cwd, vfsCwd, collected>>
dirs == <<cwd, vfsCwd>>
tree == <<parent, pid, nextPid>>

Free     == "free"
States   == {Free, "forked", "running", "waiting", "exited", "failed"}
Ended    == {"exited", "failed"}
Answer   == [by : Runtime, child : Runtime, pid : Nat, code : 0 .. 255]

\* Runtimes, process ids, children and what wait4 reported.
TypeOK ==
    /\ state \in [Runtime -> States]
    /\ parent \in [Runtime -> Runtime \cup {NoRuntime}]
    /\ pid \in [Runtime -> Nat]
    /\ nextPid \in [Runtime -> Nat]
    /\ children \in [Runtime -> SUBSET Runtime]
    /\ waitsFor \in [Runtime -> Runtime \cup {NoRuntime}]
    /\ blocked \in SUBSET Runtime
    /\ exitCode \in [Runtime -> Code \cup {NoCode}]
    /\ cwd \in [Runtime -> Dir]
    /\ vfsCwd \in Dir
    /\ collected \in SUBSET Answer

\* A program has been loaded into the first runtime and runAsync was called.
Init ==
    /\ state = [r \in Runtime |-> IF r = Root THEN "running" ELSE Free]
    /\ parent = [r \in Runtime |-> NoRuntime]
    /\ pid = [r \in Runtime |-> IF r = Root THEN RootPid ELSE 0]
    /\ nextPid = [r \in Runtime |-> IF r = Root THEN FirstPid ELSE 0]
    /\ children = [r \in Runtime |-> {}]
    /\ waitsFor = [r \in Runtime |-> NoRuntime]
    /\ blocked = {}
    /\ exitCode = [r \in Runtime |-> NoCode]
    /\ cwd = [r \in Runtime |-> Slash]
    /\ vfsCwd = Slash
    /\ collected = {}

-----------------------------------------------------------------------------
\* child.nextPid: the child goes on counting where its parent is.
ChildNextPid(r) == nextPid[r] + 1

\* this.nextPid after a fork.
AfterFork(r) == nextPid[r] + 1

\* fork, vfork and clone without threads.
forkProcess(r, c) ==
    /\ state[r] = "running" /\ r \notin blocked /\ state[c] = Free
    /\ state' = [state EXCEPT ![c] = "forked"]
    /\ parent' = [parent EXCEPT ![c] = r]
    /\ pid' = [pid EXCEPT ![c] = nextPid[r]]
    /\ nextPid' = [nextPid EXCEPT ![r] = AfterFork(r), ![c] = ChildNextPid(r)]
    /\ children' = [children EXCEPT ![r] = @ \cup {c}]
    /\ cwd' = [cwd EXCEPT ![c] = cwd[r]]
    /\ UNCHANGED <<waitsFor, blocked, exitCode, vfsCwd, collected>>

\* The child that wait4 selects for the argument q: a process id, or with 0
\* the first key of the map, which is the smallest because pids grow.
Selected(r, q) ==
    IF q = 0 THEN {c \in children[r] : \A d \in children[r] : pid[c] <= pid[d]}
             ELSE {c \in children[r] : pid[c] = q}

\* Mutant: the child is waited for without being run.
wait4Idle(r, c) ==
    /\ state[r] = "running" /\ r \notin blocked
    /\ \E q \in {0, pid[c]} : c \in Selected(r, q)
    /\ state[c] = "forked"
    /\ state' = [state EXCEPT ![r] = "waiting"]
    /\ waitsFor' = [waitsFor EXCEPT ![r] = c]
    /\ UNCHANGED <<tree, children, blocked, exitCode, dirs, collected>>

\* Mutant: the child is started and the parent does not wait for it.
wait4NoWait(r, c) ==
    /\ state[r] = "running" /\ r \notin blocked
    /\ \E q \in {0, pid[c]} : c \in Selected(r, q)
    /\ state[c] = "forked"
    /\ state' = [state EXCEPT ![c] = "running"]
    /\ UNCHANGED <<tree, children, waitsFor, blocked, exitCode, dirs, collected>>

\* waitpid and wait4, up to the await.  Without a child that is selected they
\* return -ECHILD, which changes nothing here.
wait4(r, c) ==
    /\ state[r] = "running" /\ r \notin blocked
    /\ \E q \in {0, pid[c]} : c \in Selected(r, q)
    /\ state[c] = "forked"
    /\ state' = [state EXCEPT ![r] = "waiting", ![c] = "running"]
    /\ waitsFor' = [waitsFor EXCEPT ![r] = c]
    /\ UNCHANGED <<tree, children, blocked, exitCode, dirs, collected>>

\* exit and exit_group: the run returns.
exit(r, code) ==
    /\ state[r] = "running" /\ r \notin blocked
    /\ state' = [state EXCEPT ![r] = "exited"]
    /\ exitCode' = [exitCode EXCEPT ![r] = code]
    /\ UNCHANGED <<tree, children, waitsFor, blocked, dirs, collected>>

\* A fault, an unsupported instruction, a failed execve after the memory was
\* replaced, or the step limit: the run throws.
fault(r) ==
    /\ state[r] = "running" /\ r \notin blocked
    /\ state' = [state EXCEPT ![r] = "failed"]
    /\ UNCHANGED <<tree, children, waitsFor, blocked, exitCode, dirs, collected>>

\* Mutant: the record of the child is kept.
ChildrenLeftAll(r, c) == children[r]

\* this.children.delete(selectedPid)
ChildrenLeft(r, c) == children[r] \ {c}

\* (child.status.exitCode & 0xff) << 8, of which the shift is left out.
StatusOf(c) == exitCode[c] % 256

\* The await of wait4 has a result: the status is stored, the child is gone.
wait4Returns(r) ==
    /\ state[r] = "waiting" /\ state[waitsFor[r]] = "exited"
    /\ LET c == waitsFor[r]
       IN  /\ children' = [children EXCEPT ![r] = ChildrenLeft(r, c)]
           /\ collected' = collected \cup
                 {[by |-> r, child |-> c, pid |-> pid[c], code |-> StatusOf(c)]}
    /\ state' = [state EXCEPT ![r] = "running"]
    /\ waitsFor' = [waitsFor EXCEPT ![r] = NoRuntime]
    /\ UNCHANGED <<tree, blocked, exitCode, dirs>>

\* Mutant: the failure of the child is swallowed and the parent goes on.
wait4ThrowsNot(r) ==
    /\ state[r] = "waiting" /\ state[waitsFor[r]] \in Ended
    /\ state' = [state EXCEPT ![r] = IF state[waitsFor[r]] = "failed" THEN "running" ELSE "failed"]
    /\ waitsFor' = [waitsFor EXCEPT ![r] = NoRuntime]
    /\ UNCHANGED <<tree, children, blocked, exitCode, dirs, collected>>

\* The child threw, or storing its status faults: the parent's run throws too.
wait4Throws(r) ==
    /\ state[r] = "waiting" /\ state[waitsFor[r]] \in Ended
    /\ state' = [state EXCEPT ![r] = "failed"]
    /\ waitsFor' = [waitsFor EXCEPT ![r] = NoRuntime]
    /\ UNCHANGED <<tree, children, blocked, exitCode, dirs, collected>>

\* chdir and fchdir to a directory.
chdir(r, d) ==
    /\ state[r] = "running" /\ r \notin blocked
    /\ cwd' = [cwd EXCEPT ![r] = d]
    /\ vfsCwd' = d
    /\ UNCHANGED <<state, tree, children, waitsFor, blocked, exitCode, collected>>

\* A system call throws AsyncSyscallPending, and the run awaits its promise.
blocks(r) ==
    /\ state[r] = "running" /\ r \notin blocked
    /\ blocked' = blocked \cup {r}
    /\ UNCHANGED <<state, tree, children, waitsFor, exitCode, dirs, collected>>

\* The promise settles.
unblocks(r) ==
    /\ r \in blocked
    /\ blocked' = blocked \ {r}
    /\ UNCHANGED <<state, tree, children, waitsFor, exitCode, dirs, collected>>

Ends(r)    == fault(r) \/ \E code \in Code : exit(r, code)
Resumes(r) == wait4Returns(r) \/ wait4Throws(r)

Next ==
    \E r \in Runtime :
        \/ \E c \in Runtime : forkProcess(r, c) \/ wait4(r, c)
        \/ Ends(r)
        \/ Resumes(r)
        \/ blocks(r) \/ unblocks(r)
        \/ \E d \in Dir : chdir(r, d)

Spec == Init /\ [][Next]_vars

\* runAsync gives up at its step limit, so whoever comes back from its system
\* calls again and again ends at some time; nothing makes a suspended system
\* call return.  A child that has ended resumes who awaits it in wait4.
FairSpec == Spec /\ SF_vars(\E r \in Runtime : Ends(r)) /\ WF_vars(\E r \in Runtime : Resumes(r))

-----------------------------------------------------------------------------
Started == {r \in Runtime : state[r] \in {"running", "waiting"}}

\* The run has ended and the parent's wait4 has not resumed yet.
Returning == {c \in Runtime : /\ state[c] \in Ended /\ parent[c] # NoRuntime
                              /\ waitsFor[parent[c]] = c}

Live   == Started \cup Returning
Active == {r \in Runtime : state[r] = "running"} \cup Returning

\* Although runAsync is asynchronous, never two processes of a tree run at a
\* time: there is one thread of control, and everyone else who has started
\* waits for the child that leads to it.
OneThreadOfControl ==
    /\ \A a, b \in Active : a = b
    /\ \A c \in Started \ {Root} : waitsFor[parent[c]] = c

\* getpid tells apart the processes that are under way, and waitpid's argument
\* the children of its caller.  (A child that waits to be started may have the
\* number of a process that was created elsewhere in the tree.)
PidsTellApart ==
    /\ \A a, b \in Live : pid[a] = pid[b] => a = b
    /\ \A r \in Runtime : \A c, d \in children[r] : pid[c] = pid[d] => c = d

\* wait4 reports every child once: its answers carry the number and the exit
\* code of a child of the caller that did exit, an answered child is no longer
\* in the table, and no exited child is lost.
EveryChildCollectedOnce ==
    /\ \A a \in collected :
          /\ parent[a.child] = a.by /\ a.child \notin children[a.by]
          /\ state[a.child] = "exited"
          /\ a.pid = pid[a.child] /\ a.code = exitCode[a.child] % 256
    /\ \A c \in Runtime \ {Root} :
          state[c] = "exited" =>
             c \in children[parent[c]] \/ \E a \in collected : a.child = c

\* Used by the proofs, what the process ids need to tell apart: nobody who is under way has a number
\* between a waiting process and the child it waits for.
WaitingIsAChain ==
    /\ \A a \in Active, b \in Live : pid[b] <= pid[a]
    /\ \A r \in Runtime : state[r] = "waiting" =>
          \A b \in Live : pid[b] > pid[r] => pid[b] >= pid[waitsFor[r]]

\* How the records of the runtimes fit together.
TreeShape ==
    /\ state[Root] # Free /\ parent[Root] = NoRuntime
    /\ \A r \in Runtime \ {Root} : parent[r] = NoRuntime <=> state[r] = Free
    /\ \A r \in Runtime : state[r] = Free => children[r] = {}
    /\ \A r \in Runtime : state[r] # Free => pid[r] < nextPid[r]
    /\ \A r \in Runtime : parent[r] # NoRuntime =>
          /\ state[parent[r]] # Free
          /\ pid[parent[r]] < pid[r] /\ pid[r] < nextPid[parent[r]]
    /\ \A c, d \in Runtime :
          parent[c] = parent[d] /\ parent[c] # NoRuntime /\ pid[c] = pid[d] => c = d
    /\ \A r \in Runtime : \A c \in children[r] : parent[c] = r
    /\ \A r \in Runtime : state[r] # "waiting" => waitsFor[r] = NoRuntime
    /\ \A r \in Runtime : state[r] = "waiting" =>
          waitsFor[r] \in children[r] /\ state[waitsFor[r]] \notin {Free, "forked"}
    /\ \A r \in Runtime : state[r] = "exited" => exitCode[r] \in Code

\* The directory relative paths are resolved in (the one of the shared VFS) is
\* the directory getcwd reports to the process that is running.
\* After a chdir of a child it is not (known deviation).
CwdIsPrivate == \A r \in Runtime : state[r] = "running" => cwd[r] = vfsCwd

\* Whoever has control is suspended in a system call, so nobody runs.
TreeIsBlocked == blocked # {} /\ Active = blocked

\* Every wait4 comes to an end, unless the one process that would have to run
\* stays suspended in a system call for ever.
WaitsEnd ==
    \A r \in Runtime :
        \/ (state[r] = "waiting") ~> (state[r] # "waiting")
        \/ <>[]TreeIsBlocked

\* A process that fails takes all that wait for it along, up to the first one.
FaultsReachTheRoot ==
    \A r \in Runtime : (state[r] = "failed") ~> (state[Root] = "failed")
=============================================================================
