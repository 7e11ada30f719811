-------------------------- MODULE ProcessLifecycle --------------------------
(***************************************************************************)
(* What a caller of the process manager relies on: a process id is used    *)
(* for one process, the process ends once, its outcome is final, and once  *)
(* reaped it never comes back.                                             *)
(***************************************************************************)
CONSTANTS Pid, Outcome, NoOutcome

VARIABLES life,       \* the stage of each process id
          outcome     \* how the process ended

vars == <<life, outcome>>

Stage == {"unused", "created", "running", "ended", "reaped"}

Init == /\ life = [p \in Pid |-> "unused"]
        /\ outcome = [p \in Pid |-> NoOutcome]

Create(p) == /\ life[p] = "unused"
             /\ life' = [life EXCEPT ![p] = "created"]
             /\ UNCHANGED outcome

Begin(p) == /\ life[p] = "created"
            /\ life' = [life EXCEPT ![p] = "running"]
            /\ UNCHANGED outcome

\* A process may end without having run: it can be killed before it starts.
End(p, o) == /\ life[p] \in {"created", "running"}
             /\ life' = [life EXCEPT ![p] = "ended"]
             /\ outcome' = [outcome EXCEPT ![p] = o]

Reap(p) == /\ life[p] = "ended"
           /\ life' = [life EXCEPT ![p] = "reaped"]
           /\ UNCHANGED outcome

Next == \E p \in Pid : \/ Create(p) \/ Begin(p) \/ Reap(p)
                       \/ \E o \in Outcome : End(p, o)

Spec == Init /\ [][Next]_vars
=============================================================================
