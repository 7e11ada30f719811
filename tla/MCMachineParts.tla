--------------------------- MODULE MCMachineParts ---------------------------
(***************************************************************************)
(* Four parts of the emulated machine that share no state: the integer     *)
(* unit, the string instructions, the program loader, and the page table   *)
(* of one process with ranges of several pages.  The initial state chooses *)
(* one and leaves the others at rest, so that the states of the four add   *)
(* up instead of multiplying.                                              *)
(***************************************************************************)
EXTENDS IntegerUnit, StringOps, ElfLoader, SequencesExt

CONSTANTS RangeSize, NoPage     \* pages of the address space of the page table

VARIABLES part, rPages, rHeap, rAlive, rForked, rBy

ReadOrWrite == {{"R"}, {"R", "W"}}

R == INSTANCE PagedMemory WITH
        Space <- {"process"}, NPages <- RangeSize, MmapMin <- 0, MmapMax <- RangeSize,
        PageId <- {1, 2}, Offset <- {0}, Byte <- {0}, ZeroByte <- 0,
        PermSets <- ReadOrWrite, MaxRefs <- 1,
        pages <- rPages, heap <- rHeap, alive <- rAlive, forked <- rForked, by <- rBy

rangeVars == <<rPages, rHeap, rAlive, rForked, rBy>>
allVars   == <<part, unitVars, stringVars, elfVars, rangeVars>>

StringRest == /\ cells = <<>> /\ esi = 0 /\ edi = 0 /\ ecx = 0 /\ al = 0
              /\ df = FALSE /\ zf = FALSE /\ trap = FALSE

ElfRest == /\ files = [path \in Path |-> NoFile] /\ lenient = FALSE /\ memory = Blank
           /\ esp = 0 /\ proc = <<>> /\ given = <<>> /\ live = "none"

Init == /\ UnitInit /\ R!Init
        /\ \/ part \in {"unit", "ranges"} /\ StringRest /\ ElfRest
           \/ part = "string" /\ StringInit /\ ElfRest
           \/ part = "elf" /\ StringRest /\ ElfInit

Next == /\ UNCHANGED part
        /\ \/ part = "unit" /\ UnitNext /\ UNCHANGED <<stringVars, elfVars, rangeVars>>
           \/ part = "string" /\ StringNext /\ UNCHANGED <<unitVars, elfVars, rangeVars>>
           \/ part = "elf" /\ ElfNext /\ UNCHANGED <<unitVars, stringVars, rangeVars>>
           \/ part = "ranges" /\ R!Next /\ UNCHANGED <<unitVars, stringVars, elfVars>>

Spec == Init /\ [][Next]_allVars

\* The mmap system call without MAP_FIXED never takes over a page the caller
\* already had: the region findFreeRegion picks and the range map visits agree
\* (see PagedMemory).
MmapKeepsMappedPages == R!MmapKeepsMappedPages

-----------------------------------------------------------------------------
Seg(vaddr, file, memsz, flags) ==
    [vaddr |-> vaddr, file |-> file, filesz |-> Len(file), memsz |-> memsz, flags |-> flags]

Rel(offset, type, sym) == [offset |-> offset, type |-> type, sym |-> sym]

\* A static program whose text and data share a page, with bss to its end.
Static == [type |-> "EXEC", loads |-> <<Seg(4, <<7, 8, 9>>, 3, {"R", "X"}), Seg(7, <<5>>, 4, {"R", "W"})>>,
           dynamic |-> FALSE, relAt |-> 0, rel |-> <<>>, jmpAt |-> 0, jmprel |-> <<>>,
           interp |-> FALSE, entry |-> 4, phdr |-> 0]

\* A position-independent program that names an interpreter.
Pie == [Static EXCEPT !.type = "DYN", !.loads = <<Seg(1, <<3, 2, 6>>, 3, {"R", "X"}), Seg(4, <<2, 3>>, 4, {"R", "W"})>>,
          !.dynamic = TRUE, !.relAt = 1, !.rel = <<Rel(4, "RELATIVE", 0), Rel(5, "GLOB_DAT", 1)>>,
          !.jmpAt = 2, !.jmprel = <<Rel(6, "JMP_SLOT", 1), Rel(2, "PC32", 0), Rel(7, "RELATIVE", 0)>>,
          !.interp = TRUE, !.entry = 1]

\* The interpreter; a broken one relocates a page nobody may read.
Ldso   == [Pie EXCEPT !.interp = FALSE, !.loads = <<Seg(0, <<1, 1>>, 2, {}), Seg(4, <<4>>, 1, {"R", "W"})>>,
             !.rel = <<Rel(4, "RELATIVE", 0), Rel(0, "32", 0)>>, !.jmpAt = 6]
Broken == [Ldso EXCEPT !.loads[2].flags = {"W"}]
Core   == [Static EXCEPT !.type = "CORE"]

MCFile == {Static, Pie, Ldso, Broken, Core}
MCArgv == {<<>>, <<90, 91>>}
MCEnv  == {<<95>>}
=============================================================================
