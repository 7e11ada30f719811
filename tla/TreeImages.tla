----------------------------- MODULE TreeImages -----------------------------
(***************************************************************************)
(* Whole trees in and out of the VFS: snapshots (src/src/snapshot.js and   *)
(* the snapshot methods of src/src/vfs.js, kept by src/src/persistence.js) *)
(* and archives (src/src/tar.js).                                          *)
(*                                                                         *)
(* The VFS is the tree of paths that VFSTree is shown to implement: a path *)
(* leads to a node of a type, and two paths to one file lead to one node.  *)
(* Devices are nodes like symbolic links.  Modes, owners and times go the  *)
(* way of the data.  Saving and mounting run without an await, except that *)
(* a save waits for the database before it takes the snapshot.             *)
(***************************************************************************)
EXTENDS Integers, Sequences, SequencesExt, FiniteSets

CONSTANTS Trees,       \* trees the VFS may hold at first
          Archives,    \* contents of archives: sequences of headers
          MaxPaths,    \* bound: paths in a tree that is saved
          NameSize,    \* NameSize[x]: the length of the name x
          NoSnapshot   \* a snapshot that is not there

VARIABLES tree,        \* the VFS: path -> type, node, data
          saving,      \* a save is waiting for the database
          stored,      \* the saved snapshot: entries, and the tree it is of
          done         \* what has been done last: kind, what with, how it ended, and
                       \* whether the tree was empty

imageVars == <<tree, saving, stored, done>>

Doing(kind, of, how) == [kind |-> kind, of |-> of, how |-> how, fresh |-> DOMAIN tree = {}]

ImageInit == /\ tree \in Trees /\ saving = FALSE /\ stored = NoSnapshot
             /\ done = [kind |-> "init", of |-> NoSnapshot, how |-> "ok", fresh |-> FALSE]

-----------------------------------------------------------------------------
(* Trees.  An operation gives the set of its outcomes: the tree it makes, or *)
(* nothing if it throws.                                                     *)

NamePath    == Seq(DOMAIN NameSize) \ {<<>>}
UpTo(p)     == SubSeq(p, 1, Len(p) - 1)
Ways(p)     == {SubSeq(p, 1, i) : i \in 1 .. Len(p)}
DirsOf(t)   == {p \in DOMAIN t : t[p].type = "dir"}
Leads(type, node, data) == [type |-> type, node |-> node, data |-> data]
DirNode     == Leads("dir", 0, 0)
FreshIn(t)  == CHOOSE n \in 1 .. Cardinality(DOMAIN t) + 1 : \A p \in DOMAIN t : t[p].node # n

\* A tree of the VFS: what is on the way to a path is a directory.
WellFormed(t) ==
    \A p \in DOMAIN t : /\ p \in NamePath /\ Ways(UpTo(p)) \subseteq DirsOf(t)
                        /\ t[p].type = "dir" => t[p].data = 0

\* mkdirp: the directories of p that are missing.
makeWay(t, p) ==
    IF Ways(p) \cap DOMAIN t \subseteq DirsOf(t)
      THEN {[q \in DOMAIN t \cup Ways(p) |-> IF q \in DOMAIN t THEN t[q] ELSE DirNode]}
      ELSE {}

\* A new node at p: what was there, and below it, is gone.
putNode(t, p, type, data) ==
    {[q \in {r \in DOMAIN s : ~IsPrefix(p, r)} \cup {p} |->
        IF q = p THEN Leads(type, IF type = "dir" THEN 0 ELSE FreshIn(s), data) ELSE s[q]] :
     s \in makeWay(t, UpTo(p))}

\* writeFile: into the file that is there, whatever its paths, or a new one.
putFile(t, p, data) ==
    IF p \notin DOMAIN t THEN putNode(t, p, "file", data)
    ELSE IF t[p].type # "file" THEN {}
    ELSE {[q \in DOMAIN t |-> IF t[q] = t[p] THEN Leads("file", t[p].node, data) ELSE t[q]]}

\* link: the node of p at q as well.
linkNode(t, p, q) ==
    IF /\ p \in DOMAIN t \ DirsOf(t) /\ q \notin DOMAIN t
       /\ UpTo(q) \in DirsOf(t) \cup {<<>>}
      THEN {[r \in DOMAIN t \cup {q} |-> IF r = q THEN t[p] ELSE t[r]]}
      ELSE {}

-----------------------------------------------------------------------------
(* Snapshots. *)

\* A walk visits a directory before what is below it, and that at one go.
IsWalk(s) ==
    \A i, j, k \in DOMAIN s : /\ i < j => ~IsPrefix(s[j], s[i])
                              /\ i < j /\ j < k /\ IsPrefix(s[i], s[k]) => IsPrefix(s[i], s[j])

\* The ways to list a set, of n elements, in a sequence.
Listings(S, n) == {s \in [1 .. n -> S] : \A x \in S : \E i \in 1 .. n : s[i] = x}

\* collectVfsEntries and _vfsWalk: a record for every path, in the order of some
\* walk (names sorted, or in the order they were made).
collect(t) ==
    {[i \in DOMAIN s |-> [path |-> s[i], type |-> t[s[i]].type, data |-> t[s[i]].data]] :
        s \in {w \in UNION {Listings(DOMAIN t, n) : n \in 0 .. MaxPaths} : IsWalk(w)}}

PathSize(p) ==
    LET size[i \in 0 .. Len(p)] == IF i = 0 THEN 0 ELSE size[i - 1] + 1 + NameSize[p[i]]
    IN  size[Len(p)]

\* Mutant: the longest paths first.
inOrderLongest(entries) ==
    {[i \in DOMAIN entries |-> entries[f[i]]] :
        f \in {g \in Listings(DOMAIN entries, Len(entries)) :
                 \A i, j \in DOMAIN entries : i < j =>
                     PathSize(entries[g[i]].path) >= PathSize(entries[g[j]].path)}}

\* The order in which entries are installed: by the length of the path, and
\* entries of one length as they were.
inOrder(entries) ==
    {[i \in DOMAIN entries |-> entries[f[i]]] :
        f \in {g \in Listings(DOMAIN entries, Len(entries)) :
                 \A i, j \in DOMAIN entries : i < j =>
                     \/ PathSize(entries[g[i]].path) < PathSize(entries[g[j]].path)
                     \/ PathSize(entries[g[i]].path) = PathSize(entries[g[j]].path) /\ g[i] < g[j]}}

\* An entry by installNode, or by the operation of the VFS for its type.
install(t, e, installed) ==
    CASE installed \/ e.type \notin {"dir", "file"} -> putNode(t, e.path, e.type, e.data)
      [] ~installed /\ e.type = "dir"  -> makeWay(t, e.path)
      [] ~installed /\ e.type = "file" -> putFile(t, e.path, e.data)

\* One entry after the other into an empty tree.
build(entries, installed) ==
    LET trees[i \in 0 .. Len(entries)] ==
            IF i = 0 THEN {<<>>} ELSE UNION {install(t, entries[i], installed) : t \in trees[i - 1]}
    IN  trees[Len(entries)]

restoreVfsBinary(entries) == {build(s, TRUE) : s \in inOrder(entries)}

\* VFS.fromSnapshot: the operations of the VFS, in the order of the entries.
fromSnapshot(entries) == {build(entries, FALSE)}

\* save: the database is opened; then the snapshot is taken and put there.
\* Bound: one save.
saveBegins == /\ ~saving /\ stored = NoSnapshot /\ saving' = TRUE
              /\ UNCHANGED <<tree, stored, done>>

save == /\ saving /\ saving' = FALSE
        /\ \E entries \in collect(tree) : stored' = [entries |-> entries, of |-> tree]
        /\ done' = Doing("save", NoSnapshot, "ok")
        /\ UNCHANGED tree

\* load and loadSnapshot, or restoreVfsBinary and restoreVfsJson (installed).
load(installed) ==
    /\ stored # NoSnapshot
    /\ \E trees \in IF installed THEN restoreVfsBinary(stored.entries) ELSE fromSnapshot(stored.entries) :
          /\ tree' \in IF trees = {} THEN {tree} ELSE trees
          /\ done' = Doing("load", stored, IF trees = {} THEN "threw" ELSE "ok")
    /\ UNCHANGED <<saving, stored>>

-----------------------------------------------------------------------------
(* Archives. *)

\* parseTarEntries: headers up to an empty one.  L and K headers give the path
\* and the link of the header that follows them.
parseTarEntries(headers) ==
    LET Step1(acc, h) ==
            CASE acc.end          -> acc
              [] h.flag = "empty" -> [acc EXCEPT !.end = TRUE]
              [] h.flag = "L"     -> [acc EXCEPT !.name = h.path]
              [] h.flag = "K"     -> [acc EXCEPT !.link = h.path]
              [] OTHER -> [acc EXCEPT !.name = <<>>, !.link = <<>>,
                              !.out = Append(@, [h EXCEPT
                                  !.path = IF acc.name # <<>> THEN acc.name ELSE @,
                                  !.link = IF acc.link # <<>> THEN acc.link ELSE @])]
    IN  FoldLeft(Step1, [name |-> <<>>, link |-> <<>>, end |-> FALSE, out |-> <<>>], headers).out

\* The entries that mountTar does anything for: those of another type, such as
\* the extended headers of pax, it passes over, with what L and K gave them.
supported(headers) ==
    SelectSeq(parseTarEntries(headers), LAMBDA e : e.flag \in {"dir", "symlink", "file", "hard"})

\* What one entry does to the tree; a hard link does nothing yet.
mountEntry(t, e) ==
    CASE e.flag = "dir"     -> makeWay(t, e.path)
      [] e.flag = "symlink" -> putNode(t, e.path, "symlink", e.data)
      [] e.flag = "file"    -> putFile(t, e.path, e.data)
      [] e.flag = "hard"    -> {t}

\* Then the node of the entry is looked up, to set its owner and times: a hard
\* link, whose turn comes later, is not there.
lookedUp(trees, e) == {t \in trees : e.path \in DOMAIN t}

Run(t, how) == [tree |-> t, how |-> how]

\* A step that throws ends the mount where it is, or is passed over.
attempt(run, trees, ignoreErrors) ==
    CASE run.how = "threw"                 -> run
      [] run.how # "threw" /\ trees # {}   -> Run(CHOOSE t \in trees : TRUE, "ok")
      [] run.how # "threw" /\ trees = {}   -> Run(run.tree, IF ignoreErrors THEN "ok" ELSE "threw")

\* Mutant: hard links are made where they are found.
mountTarAtOnce(t0, headers, ignoreErrors) ==
    FoldLeft(LAMBDA run, e :
                attempt(run, lookedUp(IF e.flag = "hard" THEN linkNode(run.tree, e.link, e.path)
                                      ELSE mountEntry(run.tree, e), e), ignoreErrors),
             Run(t0, "ok"), supported(headers))

\* An entry in the first loop of mountTar, and in the second, of the hard links.
mountOne(run, e, links, ignoreErrors) ==
    CASE ~links -> attempt(run, lookedUp(mountEntry(run.tree, e), e), ignoreErrors)
      [] links /\ e.flag = "hard" -> attempt(run, linkNode(run.tree, e.link, e.path), ignoreErrors)
      [] links /\ e.flag # "hard" -> run

mountAll(first, entries, links, ignoreErrors) ==
    LET run[i \in 0 .. Len(entries)] ==
            IF i = 0 THEN first ELSE mountOne(run[i - 1], entries[i], links, ignoreErrors)
    IN  run[Len(entries)]

\* mountTar: the entries in order, then the hard links.
mountTar(t0, headers, ignoreErrors) ==
    LET entries == supported(headers)
    IN  mountAll(mountAll(Run(t0, "ok"), entries, FALSE, ignoreErrors), entries, TRUE, ignoreErrors)

Header(flag, path, link, data) == [flag |-> flag, path |-> path, link |-> link, data |-> data]

\* createTar: a header for every file and directory it is given, and the end.
createTar(files) == Append(files, Header("empty", <<>>, <<>>, 0))

mount(headers, ignoreErrors) ==
    LET run == mountTar(tree, headers, ignoreErrors)
    IN  /\ tree' = run.tree
        /\ done' = Doing(IF ignoreErrors THEN "mountAnyway" ELSE "mount", headers, run.how)
        /\ UNCHANGED <<saving, stored>>

\* A guest removes a file.  Bound: while a save waits for the database.
remove(p) ==
    /\ saving /\ p \in DOMAIN tree /\ tree[p].type # "dir"
    /\ tree' = [q \in DOMAIN tree \ {p} |-> tree[q]]
    /\ done' = Doing("remove", NoSnapshot, "ok")
    /\ UNCHANGED <<saving, stored>>

ImageNext == \/ saveBegins \/ save
             \/ \E installed \in BOOLEAN : load(installed)
             \/ \E headers \in Archives, ignoreErrors \in BOOLEAN : mount(headers, ignoreErrors)
             \/ \E p \in DOMAIN tree : remove(p)

ImageSpec == ImageInit /\ [][ImageNext]_imageVars

\* The VFS holds a tree at first, and no entry of an archive is the root.
TarEntry == [flag : {"dir", "symlink", "file", "hard"}, path : NamePath,
             link : Seq(DOMAIN NameSize), data : Nat]

ASSUME ImageAssumption ==
    /\ MaxPaths \in Nat /\ NameSize \in [DOMAIN NameSize -> Nat]
    /\ \A t \in Trees : WellFormed(t)
    /\ \A headers \in Archives : supported(headers) \in Seq(TarEntry)

-----------------------------------------------------------------------------
\* A tree without its node numbers.
Plain(t) == [p \in DOMAIN t |-> <<t[p].type, t[p].data>>]

\* Either way of restoring a snapshot gives the tree that was there when the
\* snapshot was taken: every path with its type and data, whatever the lengths
\* of the names, and nothing else.
SnapshotRestores ==
    done.kind = "load" => done.how = "ok" /\ Plain(tree) = Plain(done.of.of)

\* An archive has every path once, nothing below what is not a directory, and
\* hard links to files that it has itself, in directories that it makes.
Sane(entries) ==
    \A i \in DOMAIN entries :
        /\ \A j \in DOMAIN entries :
              i # j => /\ entries[i].path # entries[j].path
                       /\ IsPrefix(entries[i].path, entries[j].path) => entries[i].flag = "dir"
        /\ entries[i].flag = "hard" =>
              /\ \E k \in DOMAIN entries : entries[k].path = entries[i].link /\ entries[k].flag = "file"
              /\ \E k \in DOMAIN entries : IsPrefix(UpTo(entries[i].path), entries[k].path) /\ entries[k].flag # "hard"

\* What e describes is in the tree.
InTree(t, e) == /\ e.path \in DOMAIN t
                /\ e.flag # "hard" => t[e.path].type = e.flag
                /\ e.flag = "hard" => e.link \in DOMAIN t /\ t[e.path] = t[e.link]

\* A sane archive that was mounted without an error, or into an empty tree with
\* errors passed over, is all there, hard links that come before their file
\* included.  Files in an empty tree have the data of their entries; elsewhere
\* two of them may be one file already.
ArchiveMounts ==
    LET entries == supported(done.of)
    IN  done.kind \in {"mount", "mountAnyway"} =>
           (Sane(entries) /\ done.how = "ok" /\ (done.kind = "mount" \/ done.fresh)
              => \A i \in DOMAIN entries :
                    /\ InTree(tree, entries[i])
                    /\ done.fresh /\ entries[i].flag \in {"file", "symlink"}
                          => tree[entries[i].path].data = entries[i].data)

\* A sane archive with hard links can be mounted into an empty tree.  The lookup
\* that follows every entry does not find the link and throws.
HardLinksMount ==
    LET entries == supported(done.of)
    IN  done.kind = "mount" => (Sane(entries) /\ done.fresh => done.how = "ok")
=============================================================================
