---------------------------- MODULE MCPagedMemory ----------------------------
(* Small instances of PagedMemory. *)
EXTENDS PagedMemory, TLC

CONSTANTS s1, s2, s3

OnlyReadWrite == {{"R", "W"}}
Processes     == Permutations({s1, s2, s3})

\* States that differ only in Page objects nothing refers to are the same, and
\* so are those that differ in who took the last step.
Reachable ==
    <<pages, alive, forked,
      [p \in PageNo |-> [id \in PageId |->
          IF Holders(p, id) = {} THEN NewPage({}) ELSE heap[p][id]]]>>
==============================================================================
