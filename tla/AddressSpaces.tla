---------------------------- MODULE AddressSpaces ----------------------------
(***************************************************************************)
(* What copy-on-write page cloning promises: every process has an address  *)
(* space of its own.  A space maps page numbers to page contents, an       *)
(* operation touches only the space it is called on, and fork hands the    *)
(* child a private copy of everything the parent had.  There are no shared *)
(* page objects here, and no reference counts.                             *)
(*                                                                         *)
(* One operation promises less: a program loaded over a space that has     *)
(* forked may show in a relative, where that still reads what the loaded   *)
(* space read.                                                             *)
(*                                                                         *)
(* PagedMemory (src/src/memory.js) is shown to implement this module.      *)
(* Permissions are not part of the promise: see the README.                *)
(***************************************************************************)
CONSTANTS Space,      \* identities of address spaces
          PageNo,     \* page numbers
          Offset,     \* byte offsets inside a page
          Byte,       \* byte values
          ZeroByte,   \* the content of a page that was just mapped
          Unmapped    \* stands for "no page here"

VARIABLES mem,        \* mem[s][p]: the content of page p of space s, or Unmapped
          alive,      \* the spaces that belong to some process
          forked,     \* the spaces with relatives: parents and children of forks
          by          \* who took the last step: "guest" or "loader"

vars == <<mem, alive, forked, by>>

Content == [Offset -> Byte]
Zeroed  == [o \in Offset |-> ZeroByte]
Empty   == [p \in PageNo |-> Unmapped]

Init == /\ mem = [s \in Space |-> Empty]
        /\ alive = {} /\ forked = {} /\ by = "guest"

\* A new space without pages, for a program that is about to be loaded; an
\* exec gives a live process such a space in place of the one it had.
Fresh(s) == /\ mem' = [mem EXCEPT ![s] = Empty]
            /\ alive' = alive \cup {s} /\ forked' = forked \ {s}

\* The process ends.
Discard(s) == /\ mem' = [mem EXCEPT ![s] = Empty]
              /\ alive' = alive \ {s} /\ forked' = forked \ {s}

\* The child starts as a copy of the parent; a plain copy makes no relatives.
Fork(s, c) == /\ c \notin alive
              /\ mem' = [mem EXCEPT ![c] = mem[s]]
              /\ alive' = alive \cup {c}
              /\ forked' = forked \cup {s, c} \/ forked' = forked

\* One byte of one page of one space changes.
Store(s, p, o, b) ==
    /\ mem[s][p] # Unmapped
    /\ mem' = [mem EXCEPT ![s] = [mem[s] EXCEPT ![p] = [mem[s][p] EXCEPT ![o] = b]]]
    /\ UNCHANGED <<alive, forked>>

\* Pages of R that were not mapped appear, zeroed; mapped ones keep their bytes.
MapPages(s, R) ==
    /\ mem' = [mem EXCEPT ![s] = [p \in PageNo |->
                  IF p \in R /\ mem[s][p] = Unmapped THEN Zeroed ELSE mem[s][p]]]
    /\ UNCHANGED <<alive, forked>>

UnmapPages(s, R) ==
    /\ mem' = [mem EXCEPT ![s] = [p \in PageNo |->
                  IF p \in R THEN Unmapped ELSE mem[s][p]]]
    /\ UNCHANGED <<alive, forked>>

\* Pages of R all get the content c, mapped before or not.
FillPages(s, R, c) ==
    /\ mem' = [mem EXCEPT ![s] = [p \in PageNo |->
                  IF p \in R THEN c ELSE mem[s][p]]]
    /\ UNCHANGED <<alive, forked>>

\* A loader puts c on the pages of R.  Between relatives it may show on a page
\* that both read alike.
MayShow(s, t, p) == {s, t} \subseteq forked /\ mem[s][p] # Unmapped /\ mem[t][p] = mem[s][p]

Load(s, R, c) ==
    /\ mem' = [t \in Space |-> [p \in PageNo |-> mem'[t][p]]]
    /\ \A t \in Space, p \in PageNo :
          \/ mem'[t][p] = mem[t][p] /\ ~(t = s /\ p \in R)
          \/ mem'[t][p] = c /\ p \in R /\ (t = s \/ MayShow(s, t, p))
    /\ UNCHANGED <<alive, forked>>

GuestNext ==
    \/ \E s \in Space : Fresh(s)
    \/ \E s \in alive : Discard(s)
    \/ \E s \in alive, c \in Space : Fork(s, c)
    \/ \E s \in alive, p \in PageNo, o \in Offset, b \in Byte : Store(s, p, o, b)
    \/ \E s \in alive, R \in SUBSET PageNo : MapPages(s, R) \/ UnmapPages(s, R)
    \/ \E s \in alive, R \in SUBSET PageNo, c \in Content : FillPages(s, R, c)

LoaderNext == \E s \in alive, R \in SUBSET PageNo, c \in Content : Load(s, R, c)

Next == \/ by' = "guest" /\ GuestNext
        \/ by' = "loader" /\ LoaderNext

Spec == Init /\ [][Next]_vars
==============================================================================
