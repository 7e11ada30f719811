--------------------------- MODULE MCProcessTree ---------------------------
(* Small instances of ProcessTree. *)
EXTENDS ProcessTree, TLC

\* The runtimes other than the first are interchangeable.
Others == Permutations(Runtime \ {Root})
=============================================================================
