------------------------------ MODULE MCRunning ------------------------------
(***************************************************************************)
(* What a program runs on, three parts that share no state: the calls of   *)
(* the kernel that run it, the cache of its code, and its sockets.  The    *)
(* initial state chooses one and leaves the others at rest.                *)
(*                                                                         *)
(* The name server's numbers run out of the byte an answer has for them,   *)
(* and the stream socket is connected repeatedly.                          *)
(***************************************************************************)
EXTENDS KernelActors, BlockCacheJIT, Sockets, TLC

CONSTANTS h1, h2, h3

VARIABLE part

runningVars == <<part, kernelVars, vars, sockVars>>

\* A part at rest stays in one of its initial states.
KernelRest == KernelInit /\ onePid = FALSE
CacheRest  == Init /\ mem = [a \in Cell |-> "nop"] /\ eip = 0
SockRest   == SockInit /\ net = "tcp" /\ dns.hostToIp = <<>>

RunningInit ==
    \/ part = "kernel" /\ KernelInit /\ CacheRest /\ SockRest
    \/ part = "cache" /\ KernelRest /\ Init /\ SockRest
    \/ part = "sockets" /\ KernelRest /\ CacheRest /\ SockInit

RunningNext ==
    \/ part = "kernel" /\ KernelNext /\ UNCHANGED <<part, vars, sockVars>>
    \/ part = "cache" /\ Next /\ UNCHANGED <<part, kernelVars, sockVars>>
    \/ part = "sockets" /\ SockNext /\ UNCHANGED <<part, kernelVars, vars>>

RunningSpec == RunningInit /\ [][RunningNext]_runningVars

\* Programs that execve loads: one in all cells but the stack, and one that
\* leaves a cell unmapped.
MCPrograms ==
    {[memory |-> 0 :> "push" @@ 1 :> "sys" @@ 2 :> "jmp" @@ 3 :> "nop", image |-> {0, 1, 2}],
     [memory |-> 0 :> "nop" @@ 1 :> "store" @@ 2 :> Unmapped @@ 3 :> "nop", image |-> {0, 1}]}

\* No configured hosts, or one below the numbers that are given out.
MCPreset == {<<>>, h1 :> 0}
==============================================================================
