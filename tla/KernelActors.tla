---------------------------- MODULE KernelActors ----------------------------
(***************************************************************************)
(* XOSKernel of src/src/kernel.js: calls of run, each of which loads a     *)
(* program into the one runtime of the kernel and then steps it, and the   *)
(* actors (src/src/machines.js, interpreted by src/src/xstate-lite.js)     *)
(* that are told of what happens.  An event that an actor's state has no   *)
(* transition for is dropped.                                              *)
(*                                                                         *)
(* A call is the program that it was made for.  Nothing keeps callers from *)
(* making a call while another one is under way, or from resetting or      *)
(* shutting down the kernel meanwhile.  The events BLOCK and WAKE, and all *)
(* of the scheduler's, are sent by nobody.                                 *)
(***************************************************************************)
EXTENDS Integers, FiniteSets

CONSTANTS Call, None

ASSUME CallAssumption == None \notin Call

VARIABLES onePid,     \* the runtime has a process id, which every process then gets
          phase,      \* where each call of run is
          cpu,        \* runtime.cpu: the program it was made for
          result,     \* result[c]: the program whose exit ended call c
          kernel,     \* kernelActor: the state
          processes,  \* kernelActor: context.processes, as a set of processes
          actors,     \* processActors, as a set of processes
          process     \* process[c]: the state of the process actor of call c

kernelVars == <<onePid, phase, cpu, result, kernel, processes, actors, process>>

KernelState  == {"idle", "running", "faulted", "stopped"}
ProcessState == {"none", "created", "running", "blocked", "exited", "faulted"}

\* Calls, actors and their states.
KernelTypeOK ==
    /\ phase \in [Call -> {"idle", "loaded", "running", "returned", "threw", "rejected"}]
    /\ cpu \in Call \cup {None} /\ result \in [Call -> Call \cup {None}]
    /\ kernel \in KernelState /\ processes \subseteq Call /\ actors \subseteq Call
    /\ process \in [Call -> ProcessState]
    /\ onePid \in BOOLEAN

\* The constructor has sent BOOT; the runtime was made with a process id (the
\* default, 100) or with 0.
KernelInit ==
    /\ phase = [c \in Call |-> "idle"] /\ cpu = None
    /\ result = [c \in Call |-> None]
    /\ kernel = "running" /\ processes = {} /\ actors = {}
    /\ process = [c \in Call |-> "none"]
    /\ onePid \in BOOLEAN

-----------------------------------------------------------------------------
(* The machines: the state after an event, the same state where there is   *)
(* no transition.                                                          *)

KernelOn(s, e) ==
    CASE s = "idle" /\ e = "BOOT"        -> "running"
      [] s = "running" /\ e = "FAULT"    -> "faulted"
      [] s = "running" /\ e = "SHUTDOWN" -> "stopped"
      [] s = "faulted" /\ e = "RESET"    -> "idle"
      [] OTHER                           -> s

ProcessOn(s, e) ==
    CASE s = "created" /\ e = "START"              -> "running"
      [] s = "running" /\ e = "BLOCK"              -> "blocked"
      [] s \in {"running", "blocked"} /\ e = "EXIT" -> "exited"
      [] s = "running" /\ e = "FAULT"              -> "faulted"
      [] s = "blocked" /\ e \in {"WAKE", "SIGNAL"} -> "running"
      [] OTHER                                     -> s

\* Those in S that have the process id of c.
SamePid(S, c) == IF onePid THEN S ELSE S \cap {c}

\* context.processes after SPAWN
Spawned(c) == IF kernel = "running" THEN (processes \ SamePid(processes, c)) \cup {c} ELSE processes

\* context.processes after EXIT
Exited(c) == IF kernel = "running" THEN processes \ SamePid(processes, c) ELSE processes

-----------------------------------------------------------------------------
(* A call of run. *)

\* loadELF: this.cpu = createCPU(...)
Loaded(c) == c

\* loadExecutable, up to the first await of run: the program is in the runtime
\* and its actor has started.
load(c) ==
    /\ phase[c] = "idle"
    /\ phase' = [phase EXCEPT ![c] = "loaded"]
    /\ cpu' = Loaded(c)
    /\ actors' = (actors \ SamePid(actors, c)) \cup {c}
    /\ processes' = Spawned(c)
    /\ process' = [process EXCEPT ![c] = ProcessOn("created", "START")]
    /\ UNCHANGED <<onePid, result, kernel>>

\* The file is missing or is no program, or its stack cannot be set up, which is
\* after the CPU was made: loadExecutable throws before anyone is told.
loadFails(c) ==
    /\ phase[c] = "idle"
    /\ phase' = [phase EXCEPT ![c] = "rejected"]
    /\ cpu' \in {cpu, Loaded(c)}
    /\ UNCHANGED <<onePid, result, kernel, processes, actors, process>>

\* runAsync starts.
start(c) ==
    /\ phase[c] = "loaded"
    /\ phase' = [phase EXCEPT ![c] = "running"]
    /\ UNCHANGED <<onePid, cpu, result, kernel, processes, actors, process>>

\* The loop of call c has stepped the CPU, whichever program it runs, to its
\* exit.
exits(c) ==
    /\ phase[c] = "running"
    /\ phase' = [phase EXCEPT ![c] = "returned"]
    /\ result' = [result EXCEPT ![c] = cpu]
    /\ process' = [process EXCEPT ![c] = ProcessOn(process[c], "EXIT")]
    /\ processes' = Exited(c)
    /\ UNCHANGED <<onePid, cpu, kernel, actors>>

\* It has stepped it to a fault, or to the step limit.
faults(c) ==
    /\ phase[c] = "running"
    /\ phase' = [phase EXCEPT ![c] = "threw"]
    /\ process' = [process EXCEPT ![c] = ProcessOn(process[c], "FAULT")]
    /\ kernel' = KernelOn(kernel, "FAULT")
    /\ UNCHANGED <<onePid, cpu, result, processes, actors>>

\* signal finds the actor by process id; only a blocked one changes its state.
signal(c) ==
    /\ c \in actors
    /\ process' = [process EXCEPT ![c] = ProcessOn(process[c], "SIGNAL")]
    /\ UNCHANGED <<onePid, phase, cpu, result, kernel, processes, actors>>

\* Mutant: a reset leaves the processes where they are.
commandKeeps(e) ==
    /\ kernel' = KernelOn(kernel, e)
    /\ UNCHANGED <<onePid, phase, cpu, result, processes, actors, process>>

\* The owner of the kernel sends its actor an event.
command(e) ==
    /\ kernel' = KernelOn(kernel, e)
    /\ processes' = IF kernel = "faulted" /\ e = "RESET" THEN {} ELSE processes
    /\ UNCHANGED <<onePid, phase, cpu, result, actors, process>>

KernelNext ==
    \/ \E c \in Call : load(c) \/ loadFails(c) \/ start(c) \/ exits(c) \/ faults(c) \/ signal(c)
    \/ \E e \in {"BOOT", "RESET", "SHUTDOWN"} : command(e)

KernelSpec == KernelInit /\ [][KernelNext]_kernelVars

-----------------------------------------------------------------------------
\* A call returns the exit of its own program.  It does not when another call is
\* made while it is under way (known deviation).
OwnResults == \A c \in Call : phase[c] = "returned" => result[c] = c

\* When a call is over its process actor has ended in the way the call did.
OverMeansEnded ==
    \A c \in Call : /\ phase[c] = "returned" => process[c] = "exited"
                    /\ phase[c] = "threw" => process[c] = "faulted"

\* Nobody who has ended is in the process table of a running kernel, although
\* calls overlap, share a process id, and end while the kernel is faulted and
\* drops their EXIT.
TableHoldsNoDead == kernel = "running" => \A c \in processes : process[c] = "running"

\* Process creation is told to the kernel: a process that runs is in its table.
\* It is not once the kernel has faulted (known deviation).
RunningIsListed == \A c \in Call : process[c] = "running" => c \in processes
=============================================================================
