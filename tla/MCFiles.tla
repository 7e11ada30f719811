------------------------------ MODULE MCFiles ------------------------------
(***************************************************************************)
(* Two parts that share no state: the descriptors of guest programs, and   *)
(* the snapshots and archives of whole trees.  The initial state chooses   *)
(* one and leaves the other at rest.                                       *)
(***************************************************************************)
EXTENDS Descriptors, TreeImages, TLC

\* A program that works with a pipe and the standard streams, one that only moves
\* their descriptors, two that write a file and one that waits for events.
MCPipe    == {"pipe", "stream", "read", "write", "pread", "pwrite", "dup", "fork"}
MCProgram == { MCPipe,
               {"pipe", "dup", "dup2", "close", "fork"},
               {"open", "write", "dup", "fork"},
               {"open", "read", "write", "pread", "pwrite", "lseek", "ftruncate"},
               {"event", "epoll", "poll", "read", "write", "dup2", "fork"} }
MCInput == <<1, 2>>

-----------------------------------------------------------------------------
VARIABLE part

allVars == <<part, descVars, imageVars>>

FilesInit == /\ DescInit /\ ImageInit
             /\ \/ part = "calls" /\ tree = <<>>
                \/ part = "image" /\ calls = MCPipe

FilesNext == /\ UNCHANGED part
             /\ \/ part = "calls" /\ DescNext /\ UNCHANGED imageVars
                \/ part = "image" /\ ImageNext /\ UNCHANGED descVars

FilesSpec == FilesInit /\ [][FilesNext]_allVars

-----------------------------------------------------------------------------
MCNameSize == "a" :> 1 @@ "long" :> 4

A == <<"a">>
L == <<"long">>

\* Trees: empty; a file below a name that is longer than two others; two names
\* of one file and a symbolic link.
MCTrees == { <<>>,
             (L :> DirNode) @@ (<<"long", "long">> :> Leads("file", 1, 7)) @@ (A :> DirNode) @@ (<<"a", "a">> :> Leads("symlink", 2, 8)),
             (A :> DirNode) @@ (<<"a", "a">> :> Leads("file", 1, 7)) @@ (<<"a", "long">> :> Leads("file", 1, 7)) @@ (L :> Leads("symlink", 2, 8)) }

\* Archives: one that createTar made; one that has a hard link before its file,
\* with long names, an entry of a type that is not mounted and something after
\* its end.
MCArchives == { createTar(<<Header("dir", L, <<>>, 0), Header("file", <<"long", "a">>, <<>>, 5), Header("file", A, <<>>, 6)>>),
                <<Header("pax", A, <<>>, 2), Header("K", <<"long", "long">>, <<>>, 0), Header("hard", A, A, 0), Header("L", <<"long", "long">>, <<>>, 0),
                  Header("file", A, <<>>, 9), Header("symlink", <<"long", "a">>, <<>>, 3), Header("empty", <<>>, <<>>, 0),
                  Header("file", L, <<>>, 4)>> }
=============================================================================
