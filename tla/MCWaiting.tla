------------------------------ MODULE MCWaiting ------------------------------
(***************************************************************************)
(* What guests and pages are suspended on, three parts that share no       *)
(* state: futexes, byte queues and the requests of the service worker.     *)
(* The initial state chooses one and leaves the others at rest, so that    *)
(* their states add up instead of multiplying.                             *)
(***************************************************************************)
EXTENDS FutexTable, ByteQueue, RequestBridge, TLC

CONSTANTS g1, g2, g3, a1, a2

VARIABLE part

allVars == <<part, vars, queueVars, bridgeVars>>

\* A part at rest stays in one of its initial states.
FutexRest  == Init /\ waitsAt = [g \in Guest |-> a1]
BridgeRest == BridgeInit /\ windows = {}

WaitInit ==
    \/ part = "futex" /\ Init /\ QueueInit /\ BridgeRest
    \/ part = "queue" /\ FutexRest /\ QueueInit /\ BridgeRest
    \/ part = "bridge" /\ FutexRest /\ QueueInit /\ BridgeInit

InFutex  == part = "futex" /\ UNCHANGED <<part, queueVars, bridgeVars>>
InQueue  == part = "queue" /\ UNCHANGED <<part, vars, bridgeVars>>
InBridge == part = "bridge" /\ UNCHANGED <<part, vars, queueVars>>

WaitNext == (InFutex /\ Next) \/ (InQueue /\ QueueNext) \/ (InBridge /\ BridgeNext)

\* Host timers fire and continuations run.
WaitSpec ==
    /\ WaitInit /\ [][WaitNext]_allVars
    /\ \A g \in Guest : WF_allVars(InFutex /\ timeout(g)) /\ WF_allVars(InFutex /\ resume(g))
    /\ \A f \in Fetch : WF_allVars(InBridge /\ WorkerStep(f))

\* Runtimes with one options.futex, and two processes of a process manager.
OneTable  == g1 :> 1 @@ g2 :> 1 @@ g3 :> 1
OwnTables == g1 :> 1 @@ g2 :> 2
==============================================================================
