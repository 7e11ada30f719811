----------------------------- MODULE MCVFSTree -----------------------------
(* Small instances of VFSTree. *)
EXTENDS VFSTree, TLC

\* Nodes are interchangeable; names are not used symmetrically by TLC's
\* checking of the refinement, so only nodes are permuted.
Nodes == Permutations(Node)
=============================================================================
