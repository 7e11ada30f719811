------------------------------ MODULE PathTree ------------------------------
(***************************************************************************)
(* What a POSIX-like file system promises about names.  A path leads to a  *)
(* node, or to nothing, and an operation changes only where the paths it   *)
(* was given, and the paths below them, lead to.  Whatever is not a        *)
(* directory (file, symbolic link, device) is a "file".                    *)
(***************************************************************************)
EXTENDS Integers, Sequences, SequencesExt

CONSTANTS Name,       \* names of directory entries
          Node,       \* nodes other than the root directory
          Depth       \* bound: the longest path

VARIABLE names        \* names[p]: the node and type that the path p leads to

Path == UNION {[1 .. n -> Name] : n \in 1 .. Depth}

Target(n, t) == [node |-> n, type |-> t]
Up(p)        == SubSeq(p, 1, Len(p) - 1)
Exists(p)    == p \in DOMAIN names
IsDir(p)     == p = <<>> \/ (Exists(p) /\ names[p].type = "dir")
Below(p)     == {q \in DOMAIN names : IsPrefix(p, q)}
Used         == {names[q].node : q \in DOMAIN names}

\* The paths in P lead to what f says, the paths in Gone nowhere.
Set(f, P, Gone) ==
    names' = [q \in (DOMAIN names \ Gone) \cup P |-> IF q \in P THEN f[q] ELSE names[q]]

Init == names = <<>>

\* A node is made at a free path in a directory.
Create(p, t) ==
    /\ ~Exists(p) /\ IsDir(Up(p))
    /\ \E n \in Node \ Used : Set([q \in {p} |-> Target(n, t)], {p}, {})

\* A node is made at a path, with all directories that are missing on the way.
\* What was at the path before, and below it, is gone.
CreateAll(p, t) ==
    LET way == {q \in Path : IsPrefix(q, p) /\ (q = p \/ ~Exists(q))}
    IN  /\ \A q \in Path : IsPrefix(q, p) /\ q # p /\ Exists(q) => IsDir(q)
        /\ \E f \in [way -> Node \ Used] :
              /\ \A q, r \in way : f[q] = f[r] => q = r
              /\ Set([q \in way |-> Target(f[q], IF q = p THEN t ELSE "dir")], way, Below(p))

\* A file, or a directory with nothing in it, is removed.
Delete(p) == Below(p) = {p} /\ Set(names, {}, {p})

\* What is at p, and below it, is moved to q.  A file may replace a file, and a
\* directory a directory that is empty.  (Where p and q are links to one file
\* POSIX keeps both; here p goes.)
Move(p, q) ==
    /\ Exists(p) /\ IsDir(Up(q)) /\ p # q /\ ~IsPrefix(p, q)
    /\ Exists(q) => IsDir(q) = IsDir(p) /\ Below(q) = {q}
    /\ LET new == {q \o SubSeq(r, Len(p) + 1, Len(r)) : r \in Below(p)}
       IN  Set([r \in new |-> names[p \o SubSeq(r, Len(q) + 1, Len(r))]], new, Below(p) \cup Below(q))

\* A second path to a file.
Link(p, q) ==
    /\ Exists(p) /\ ~IsDir(p) /\ ~Exists(q) /\ IsDir(Up(q))
    /\ Set([r \in {q} |-> names[p]], {q}, {})

Next ==
    \E p \in Path :
        \/ \E t \in {"dir", "file"} : Create(p, t) \/ CreateAll(p, t)
        \/ Delete(p)
        \/ \E q \in Path : Move(p, q) \/ Link(p, q)

Spec == Init /\ [][Next]_names
=============================================================================
