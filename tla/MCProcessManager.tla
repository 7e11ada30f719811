-------------------------- MODULE MCProcessManager --------------------------
(* Small instances of ProcessManager. *)
EXTENDS ProcessManager, TLC

CONSTANTS w1, w2

Callers == Permutations({w1, w2})
=============================================================================
