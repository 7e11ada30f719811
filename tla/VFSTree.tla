------------------------------ MODULE VFSTree ------------------------------
(***************************************************************************)
(* The directory tree of src/src/vfs.js: nodes that know their children    *)
(* and, in the field parent, the directory they were put into.  Lookup     *)
(* goes down the children; the operations that take an entry out of a      *)
(* directory use the field.                                                *)
(*                                                                         *)
(* Contents, modes and times are left out, and symbolic links are nodes    *)
(* like files (paths through them are not followed).  Operations that      *)
(* throw change nothing unless an action says so.  Nodes that no path      *)
(* leads to are garbage, whose fields are reset.                           *)
(*                                                                         *)
(* FarLinks and FarMoves say what callers do: whether the hard links of a  *)
(* file may be in several directories, and whether directories are renamed *)
(* onto directories and below themselves, or only to paths that do not     *)
(* exist and are not below them.                                           *)
(***************************************************************************)
EXTENDS Integers, Sequences, SequencesExt

CONSTANTS Name, Node, Depth, Root, None, FarLinks, FarMoves

Path    == UNION {[1 .. n -> Name] : n \in 1 .. Depth}
AnyNode == Node \cup {Root}

ASSUME NodeAssumption == Root \notin Node /\ None \notin AnyNode
ASSUME DepthAssumption == Depth \in Nat
ASSUME UseAssumption  == FarLinks \in BOOLEAN /\ FarMoves \in BOOLEAN

VARIABLES type,       \* node.type, or "free"
          children,   \* node.children
          parent      \* node.parent

vars == <<type, children, parent>>

NoEntries == [x \in Name |-> None]

\* Nodes of a type, with entries that name nodes; the root is never an entry,
\* and only directories have entries.
TypeOK ==
    /\ type \in [AnyNode -> {"free", "dir", "file"}]
    /\ children \in [AnyNode -> [Name -> Node \cup {None}]]
    /\ parent \in [AnyNode -> AnyNode \cup {None}]
    /\ \A n \in AnyNode : type[n] # "dir" => children[n] = NoEntries

Init == /\ type = [n \in AnyNode |-> IF n = Root THEN "dir" ELSE "free"]
        /\ children = [n \in AnyNode |-> NoEntries]
        /\ parent = [n \in AnyNode |-> IF n = Root THEN Root ELSE None]

-----------------------------------------------------------------------------
\* _resolve: where path p leads to in a tree with these children and types.
Resolve(ch, ty, p) ==
    LET at[i \in 0 .. Len(p)] ==
            IF i = 0 THEN Root
            ELSE IF at[i - 1] = None \/ ty[at[i - 1]] # "dir" THEN None
            ELSE ch[at[i - 1]][p[i]]
    IN  at[Len(p)]

Lookup(p)   == Resolve(children, type, p)
Up(p)       == SubSeq(p, 1, Len(p) - 1)
Dirname(p)  == Lookup(Up(p))
IsNode(n)   == n # None

IsDir(n)    == IsNode(n) /\ type[n] = "dir"

\* The directory of a resolved path: the parent field of the node, or for a
\* path that does not exist (parentForCreate) the directory the walk ended in.
ParentOf(p) == IF IsNode(Lookup(p)) THEN parent[Lookup(p)] ELSE Dirname(p)

Fresh == {n \in Node : type[n] = "free"}

\* The new tree, without what no path leads to any more.
Becomes(ch, ty, par) ==
    LET live == {Root} \cup {Resolve(ch, ty, p) : p \in Path}
    IN  /\ children' = [n \in AnyNode |-> IF n \in live THEN ch[n] ELSE NoEntries]
        /\ type' = [n \in AnyNode |-> IF n \in live THEN ty[n] ELSE "free"]
        /\ parent' = [n \in AnyNode |-> IF n \in live THEN par[n] ELSE None]

\* mkdirp of the directories on the way to p, and a new node of type t there,
\* whatever there was before.
MakeAll(p, t) ==
    LET Pre(i)  == SubSeq(p, 1, i)
        new     == {i \in 1 .. Len(p) : i = Len(p) \/ ~IsNode(Lookup(Pre(i)))}
    IN  /\ \A i \in 1 .. Len(p) - 1 : IsNode(Lookup(Pre(i))) => IsDir(Lookup(Pre(i)))
        /\ \E f \in [new -> Fresh] :
              /\ \A i, j \in new : f[i] = f[j] => i = j
              /\ LET At(i) == IF i \in new THEN f[i] ELSE Lookup(Pre(i))
                 IN  Becomes([n \in AnyNode |-> [x \in Name |->
                                 IF \E i \in new : At(i - 1) = n /\ p[i] = x
                                 THEN f[CHOOSE i \in new : At(i - 1) = n /\ p[i] = x]
                                 ELSE children[n][x]]],
                             [n \in AnyNode |->
                                 IF n = f[Len(p)] THEN t
                                 ELSE IF \E i \in new : f[i] = n THEN "dir" ELSE type[n]],
                             [n \in AnyNode |->
                                 IF \E i \in new : f[i] = n
                                 THEN At((CHOOSE i \in new : f[i] = n) - 1) ELSE parent[n]])

\* A new node of type t in the directory the walk ended in.
Make(p, t) ==
    /\ ~IsNode(Lookup(p)) /\ IsDir(Dirname(p))
    /\ \E n \in Fresh :
          Becomes([children EXCEPT ![Dirname(p)][p[Len(p)]] = n],
                  [type EXCEPT ![n] = t], [parent EXCEPT ![n] = Dirname(p)])

mkdirp(p)    == ~IsNode(Lookup(p)) /\ MakeAll(p, "dir")
writeFile(p) == ~IsNode(Lookup(p)) /\ MakeAll(p, "file")
mkdir(p)     == Make(p, "dir")
open(p)      == Make(p, "file")       \* with O_CREAT

\* symlink and mknod do not look at what is there.
symlink(p)   == MakeAll(p, "file")

\* Mutant: the emptiness of a directory is not tested.
rmdirFull(p) ==
    /\ IsDir(Lookup(p))
    /\ Becomes([children EXCEPT ![ParentOf(p)][p[Len(p)]] = None], type, parent)

rmdir(p) ==
    /\ IsDir(Lookup(p)) /\ children[Lookup(p)] = NoEntries
    /\ Becomes([children EXCEPT ![ParentOf(p)][p[Len(p)]] = None], type, parent)

unlink(p) ==
    /\ IsNode(Lookup(p)) /\ ~IsDir(Lookup(p))
    /\ Becomes([children EXCEPT ![ParentOf(p)][p[Len(p)]] = None], type, parent)

\* The node at p has another path.
Linked(p) == \E q \in Path : q # p /\ Lookup(q) = Lookup(p)

\* What callers rename.
MayRename(p, q) ==
    \/ ~IsDir(Lookup(p)) /\ (FarLinks \/ ~Linked(p) \/ ParentOf(q) = ParentOf(p))
    \/ IsDir(Lookup(p)) /\ IF FarMoves THEN IsNode(Lookup(q)) => IsDir(Lookup(q))
                                       ELSE ~IsNode(Lookup(q)) /\ ~IsPrefix(p, q)

\* Bound: no path gets longer than Depth.
Fits(p, q) == \A r \in Path : IsPrefix(p, r) /\ IsNode(Lookup(r)) => Len(q) + Len(r) - Len(p) <= Depth

\* Mutant: the parent field of the node that is moved stays as it was.
NewParentOld(n, q) == parent

\* old.node.parent = target.parent
NewParent(n, q) == [parent EXCEPT ![n] = ParentOf(q)]

\* old.parent.children.delete(old.name)
Taken(p) == [children EXCEPT ![ParentOf(p)][p[Len(p)]] = None]

\* rename: taken out of the directory it is in, put into the other.
rename(p, q) ==
    LET n == Lookup(p)
    IN  /\ IsNode(n) /\ MayRename(p, q) /\ Fits(p, q)
        /\ IsNode(Lookup(q)) \/ IsDir(Dirname(q))
        /\ ~(IsDir(Lookup(q)) /\ ~IsDir(n))
        /\ Becomes([Taken(p) EXCEPT ![ParentOf(q)][q[Len(q)]] = n], type, NewParent(n, q))

\* link: the node gets a second entry; its parent field is that of the first.
link(p, q) ==
    /\ IsNode(Lookup(p)) /\ ~IsDir(Lookup(p))
    /\ FarLinks \/ Dirname(q) = ParentOf(p)
    /\ ~IsNode(Lookup(q)) /\ IsDir(Dirname(q))
    /\ Becomes([children EXCEPT ![Dirname(q)][q[Len(q)]] = Lookup(p)], type, parent)

Next ==
    \E p \in Path :
        \/ mkdirp(p) \/ writeFile(p) \/ mkdir(p) \/ open(p) \/ symlink(p)
        \/ rmdir(p) \/ unlink(p)
        \/ \E q \in Path : rename(p, q) \/ link(p, q)

Spec == Init /\ [][Next]_vars

-----------------------------------------------------------------------------
\* The parent field of every node that is in a directory is that directory, so
\* the operations that go by the field find the entry they mean; and no
\* directory is reached on two paths, so none is below itself.
NodesFormATree ==
    /\ \A d \in AnyNode, x \in Name :
          type[d] = "dir" /\ children[d][x] # None => parent[children[d][x]] = d
    /\ \A p, q \in Path : IsDir(Lookup(p)) /\ Lookup(p) = Lookup(q) => p = q

Found == {p \in Path : IsNode(Lookup(p))}

Tree == INSTANCE PathTree WITH
            names <- [p \in Found |-> [node |-> Lookup(p), type |-> type[Lookup(p)]]]

\* The nodes implement a tree of paths: an operation changes the meaning of the
\* paths it was given, and of no others.
KeepsPaths == Tree!Spec
=============================================================================
