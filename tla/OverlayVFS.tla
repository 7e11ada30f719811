----------------------------- MODULE OverlayVFS -----------------------------
(***************************************************************************)
(* The writable overlay of src/src/overlay-vfs.js: a base tree, an upper   *)
(* tree that takes the changes, and whiteouts, the paths whose base entry  *)
(* is deleted; and a file that a guest has opened through it, with the     *)
(* system calls that act on the open file (src/src/syscalls.js).           *)
(*                                                                         *)
(* Either tree is a function from the paths it has to entries.  Times are  *)
(* left out, and of modes and owners there is only which entries of the    *)
(* base got others; symbolic links and devices are special entries that    *)
(* are not followed and not opened, and hard links are not made (VFSTree   *)
(* has them).  The VFS operations that upper is asked for are those of     *)
(* src/src/vfs.js; one that throws has done what it did before.            *)
(***************************************************************************)
EXTENDS Integers, Sequences, SequencesExt

CONSTANTS Name,
          Depth,        \* bound: the longest path
          Data,         \* contents that are written
          Empty, Old,
          BaseTree      \* the base tree at the start

Path    == UNION {[1 .. n -> Name] : n \in 1 .. Depth}
Dir     == [type |-> "dir", data |-> Empty]
Special == [type |-> "special", data |-> Empty]
File(d) == [type |-> "file", data |-> d]
Entry   == {Dir, Special} \cup {File(d) : d \in Data \cup {Empty, Old}}
IsTree(t) == DOMAIN t \subseteq Path /\ \A p \in DOMAIN t : t[p] \in Entry

ASSUME BaseAssumption == Depth \in Nat /\ IsTree(BaseTree)

VARIABLES base, upper,   \* the two trees
          touched,       \* base entries that got another mode or owner
          white,         \* whiteouts
          fd             \* the open file: the layer and path its node has

vars == <<base, upper, touched, white, fd>>

NoFile == [layer |-> "none", path |-> <<>>, writable |-> FALSE]
Gone   == [NoFile EXCEPT !.layer = "gone"]     \* open, but no longer in a tree

\* The trees hold entries, the whiteouts paths, and an open file in a tree has
\* a path that leads to a file there.
TypeOK ==
    /\ IsTree(base) /\ IsTree(upper) /\ white \subseteq Path /\ touched \subseteq DOMAIN base
    /\ fd \in [layer : {"none", "gone", "upper", "base"}, path : Path \cup {<<>>}, writable : BOOLEAN]
    /\ fd.layer = "upper" => fd.path \in DOMAIN upper
    /\ fd.layer = "base" => fd.path \in DOMAIN base

Init == base = BaseTree /\ upper = <<>> /\ touched = {} /\ white = {} /\ fd = NoFile

-----------------------------------------------------------------------------
(* Trees. *)

Up(p)       == SubSeq(p, 1, Len(p) - 1)
Has(t, p)   == p \in DOMAIN t
DirAt(t, p) == p = <<>> \/ (Has(t, p) /\ t[p].type = "dir")
FileAt(t, p) == Has(t, p) /\ t[p].type = "file"
Below(t, p) == {q \in DOMAIN t : IsPrefix(p, q)}

\* _resolve throws ENOTDIR: something on the way to p is not a directory.
Blocked(t, p) == \E q \in DOMAIN t : IsStrictPrefix(q, p) /\ t[q].type # "dir"

Drop(t, P) == [q \in DOMAIN t \ P |-> t[q]]

\* mkdirp of the directories on the way to p, and entry e there.
Put(t, p, e) ==
    [q \in DOMAIN t \cup {r \in Path : IsPrefix(r, p)} |->
        IF q = p THEN e ELSE IF q \in DOMAIN t THEN t[q] ELSE Dir]

\* VFS.rename: what is below p goes below q, or out of the tree if q is below p.
Moved(t, p, q) ==
    LET from(r) == p \o SubSeq(r, Len(q) + 1, Len(r))
        to      == {q \o SubSeq(r, Len(p) + 1, Len(r)) : r \in Below(t, p)}
    IN  IF p = q THEN t
        ELSE IF IsPrefix(p, q) THEN Drop(t, Below(t, p))
        ELSE [r \in to \cup (DOMAIN t \ (Below(t, p) \cup Below(t, q))) |->
                 IF r \in to THEN t[from(r)] ELSE t[r]]

-----------------------------------------------------------------------------
(* What the overlay shows. *)

\* _lookup finds p.
Visible(p) == p \notin white /\ (Has(upper, p) \/ Has(base, p))

\* The entry it finds.
Shown(p) == IF Has(upper, p) THEN upper[p] ELSE base[p]

\* _copyUp makes a copy of p.
CopiesUp(p) == ~Has(upper, p) /\ Has(base, p) /\ ~Blocked(upper, p)
AfterCopy(p) == IF CopiesUp(p) THEN Put(upper, p, base[p]) ELSE upper
WhiteAfterCopy(p) == IF Has(upper, p) THEN white ELSE white \ {p}

\* The open file after the nodes at paths P of upper were taken out.
FdWithout(P) == IF fd.layer = "upper" /\ fd.path \in P THEN Gone ELSE fd

-----------------------------------------------------------------------------
(* Operations that create. *)

\* VFS.writeFile does not throw.
CanWrite(p) == ~Blocked(upper, p) /\ (Has(upper, p) => FileAt(upper, p))

\* Mutant: the whiteout stays.
writeFileHidden(p, d) ==
    /\ upper' = IF CanWrite(p) THEN Put(upper, p, File(d)) ELSE upper
    /\ UNCHANGED <<base, touched, white, fd>>

writeFile(p, d) ==
    /\ white' = white \ {p}
    /\ upper' = IF CanWrite(p) THEN Put(upper, p, File(d)) ELSE upper
    /\ UNCHANGED <<base, touched, fd>>

mkdirp(p) ==
    /\ white' = white \ {p}
    /\ upper' = IF ~Blocked(upper, p) /\ (Has(upper, p) => DirAt(upper, p)) THEN Put(upper, p, Dir) ELSE upper
    /\ UNCHANGED <<base, touched, fd>>

\* The parent has to be in upper.
CanMake(p) == ~Has(upper, p) /\ DirAt(upper, Up(p))

mkdir(p) ==
    /\ white' = white \ {p}
    /\ upper' = IF CanMake(p) THEN Put(upper, p, Dir) ELSE upper
    /\ UNCHANGED <<base, touched, fd>>

\* symlink and mknod, whatever is there.
mknod(p) ==
    /\ white' = white \ {p}
    /\ IF Blocked(upper, p) THEN UNCHANGED <<upper, fd>>
       ELSE /\ upper' = Put(Drop(upper, Below(upper, p)), p, Special)
            /\ fd' = FdWithout(Below(upper, p))
    /\ UNCHANGED <<base, touched>>

-----------------------------------------------------------------------------
(* Operations that change, move and delete. *)

\* chmod, chown and utimes, of which the copy remains.
chmod(p) ==
    /\ upper' = AfterCopy(p) /\ white' = WhiteAfterCopy(p)
    /\ UNCHANGED <<base, touched, fd>>

truncate(p) ==
    /\ white' = WhiteAfterCopy(p)
    /\ upper' = IF FileAt(AfterCopy(p), p) THEN [AfterCopy(p) EXCEPT ![p].data = Empty] ELSE AfterCopy(p)
    /\ UNCHANGED <<base, touched, fd>>

\* if (this._existsBase(p)) this.whiteouts.add(p)
Whiteout(p) == white \cup ({p} \cap DOMAIN base)

unlink(p) ==
    /\ ~DirAt(upper, p) /\ ~Blocked(upper, p)
    /\ upper' = Drop(upper, {p}) /\ white' = Whiteout(p)
    /\ fd' = FdWithout({p})
    /\ UNCHANGED <<base, touched>>

rmdir(p) ==
    /\ Has(upper, p) => DirAt(upper, p) /\ Below(upper, p) = {p}
    /\ ~Blocked(upper, p)
    /\ upper' = Drop(upper, {p}) /\ white' = Whiteout(p)
    /\ fd' = FdWithout({p})
    /\ UNCHANGED <<base, touched>>

\* Bound: no path gets longer than Depth.
Fits(p, q) == \A r \in Below(upper, p) : Len(q) + Len(r) - Len(p) <= Depth

\* upper.rename accepts q for the entry at p.
CanRename(t, p, q) ==
    /\ Has(t, q) \/ DirAt(t, Up(q))
    /\ DirAt(t, q) => DirAt(t, p)

\* The new path of the open file.
FdMoved(t, p, q) ==
    IF fd.layer # "upper" \/ p = q THEN fd
    ELSE IF IsPrefix(p, fd.path)
         THEN IF IsPrefix(p, q) THEN Gone
              ELSE [fd EXCEPT !.path = q \o SubSeq(fd.path, Len(p) + 1, Len(fd.path))]
    ELSE FdWithout(Below(t, q))

rename(p, q) ==
    LET t == AfterCopy(p)
    IN  /\ Fits(p, q)
        /\ IF ~Has(t, p)
           THEN white' = WhiteAfterCopy(p) /\ UNCHANGED <<upper, fd>>
           ELSE IF CanRename(t, p, q)
           THEN /\ upper' = Moved(t, p, q)
                /\ white' = (WhiteAfterCopy(p) \ {q}) \cup ({p} \cap DOMAIN base)
                /\ fd' = FdMoved(t, p, q)
           ELSE upper' = t /\ white' = WhiteAfterCopy(p) \ {q} /\ UNCHANGED fd
        /\ UNCHANGED <<base, touched>>

-----------------------------------------------------------------------------
(* Open files. *)

\* Mutant: the base file itself is opened for writing.
WritableAtInPlace(p) == [layer |-> IF FileAt(base, p) THEN "base" ELSE "upper", path |-> p, writable |-> TRUE]

\* upper.open
WritableAt(p) == [layer |-> "upper", path |-> p, writable |-> TRUE]

\* The open file, or an error and none.
Opened(t, p) == IF FileAt(t, p) THEN WritableAt(p) ELSE fd

\* open for writing, with O_CREAT and O_TRUNC or without.
openWrite(p, creat, trunc) ==
    LET t == IF creat /\ ~Has(AfterCopy(p), p) /\ DirAt(AfterCopy(p), Up(p))
             THEN Put(AfterCopy(p), p, File(Empty)) ELSE AfterCopy(p)
    IN  /\ fd = NoFile
        /\ white' = white \ {p}
        /\ upper' = IF trunc /\ FileAt(t, p) THEN [t EXCEPT ![p].data = Empty] ELSE t
        /\ fd' = Opened(t, p)
        /\ UNCHANGED <<base, touched>>

\* open for reading gives the node of either tree.
openRead(p) ==
    /\ fd = NoFile
    /\ p \notin white => ~DirAt(base, p)
    /\ \/ FileAt(upper, p) /\ fd' = [layer |-> "upper", path |-> p, writable |-> FALSE]
       \/ /\ ~Has(upper, p) /\ p \notin white /\ FileAt(base, p)
          /\ fd' = [layer |-> "base", path |-> p, writable |-> FALSE]
    /\ UNCHANGED <<base, upper, touched, white>>

\* The node of the open file gets content d.
NodeBecomes(d) ==
    /\ upper' = IF fd.layer = "upper" THEN [upper EXCEPT ![fd.path].data = d] ELSE upper
    /\ base' = IF fd.layer = "base" THEN [base EXCEPT ![fd.path].data = d] ELSE base
    /\ UNCHANGED <<touched, white, fd>>

write(d) == fd.writable /\ NodeBecomes(d)

\* Neither ftruncate nor fchmod and fchown ask how the file was opened.
ftruncate == fd # NoFile /\ NodeBecomes(Empty)

fchmod ==
    /\ fd # NoFile
    /\ touched' = IF fd.layer = "base" THEN touched \cup {fd.path} ELSE touched
    /\ UNCHANGED <<base, upper, white, fd>>

close == fd # NoFile /\ fd' = NoFile /\ UNCHANGED <<base, upper, touched, white>>

Next ==
    \/ \E p \in Path :
          \/ \E d \in Data : writeFile(p, d)
          \/ mkdirp(p) \/ mkdir(p) \/ mknod(p)
          \/ chmod(p) \/ truncate(p)
          \/ unlink(p) \/ rmdir(p)
          \/ \E q \in Path : rename(p, q)
          \/ \E creat, trunc \in BOOLEAN : openWrite(p, creat, trunc)
          \/ openRead(p)
    \/ \E d \in Data : write(d)
    \/ ftruncate \/ fchmod
    \/ close

Spec == Init /\ [][Next]_vars

-----------------------------------------------------------------------------
\* Whatever copy-up, failing operations and renames do, the upper tree stays a
\* tree (every entry is in a directory that is there), and every whiteout hides
\* something of the base.
LayersFit ==
    /\ \A p \in DOMAIN upper : DirAt(upper, Up(p))
    /\ white \subseteq DOMAIN base

\* The base is read-only: no operation, on a path or on an open file, changes it.
\* Those on files that were opened for reading do.
BaseIsReadOnly == [][base' = base /\ touched' = touched]_vars

\* All that is written goes to upper.  No operation on a path changes the base,
\* whatever it copies, moves, deletes or fails at, and nothing that is done
\* through a file opened for writing does, whatever has become of its path since:
\* the base is reached only through its files that were opened for reading.
WritersLeaveBase ==
    [][base' # base \/ touched' # touched => fd.layer = "base" /\ ~fd.writable]_vars

\* Once written, a file is found, with what was written, even where the base
\* had an entry that was deleted; once unlinked, a path is not found, whichever
\* tree had it.
ChangesAreSeen ==
    [][\A p \in Path :
          /\ \A d \in Data : FileAt(upper', p) /\ writeFile(p, d) =>
                Visible(p)' /\ Shown(p)' = File(d)
          /\ unlink(p) => ~Visible(p)']_vars

\* What was deleted from the base is never shown again.
DeletedStaysDeleted ==
    [][\A p \in white : FileAt(base, p) /\ Visible(p)' => Shown(p)' # base[p]]_vars

\* In a directory that is shown a new entry can be made.  It cannot in one that
\* only the base has (known deviation).
NewEntriesCanBeMade ==
    \A p \in Path :
        LET up == Up(p)
            shownDir == up = <<>> \/ (Visible(up) /\ Shown(up).type = "dir")
        IN  shownDir /\ ~Has(upper, p) /\ ~Has(base, p) => CanMake(p)
=============================================================================
