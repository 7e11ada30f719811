----------------------------- MODULE ElfLoader -----------------------------
(***************************************************************************)
(* The program loader of src/src/elf.js with the calls src/src/runtime.js  *)
(* makes of it: loadELF into the memory the runtime has, execve into a     *)
(* fresh one.  Loading is synchronous, so each call is one step; a thrown  *)
(* error leaves the memory as far as it was filled.                        *)
(*                                                                         *)
(* One cell stands for one 32-bit word, a string or a random block takes   *)
(* one cell, addresses and words are taken modulo Size.  A file is what    *)
(* parseELF32 and parseELF32DynamicInfo read from it; its segments are as  *)
(* a linker makes them, filesz <= memsz.                                   *)
(***************************************************************************)
EXTENDS Integers, Sequences, FiniteSetsExt

CONSTANTS Size,        \* number of addresses, and of words
          PageCells,   \* cells of a page
          Align,       \* alignment of the stack before the vectors are pushed
          StackTop, StackCells,   \* the stack is large enough for the initial frame
          MainBias, InterpBias,
          File,        \* ELF files: [type, loads, dynamic, relAt, rel, jmpAt, jmprel, interp, entry, phdr]
          BadFile, NoFile,
          Path, InterpPath,
          Argv, Env,   \* argument and environment vectors a caller may pass
          GuestStore   \* bound: cells the guest writes

Addr == 0 .. Size - 1
RWX  == {"R", "W", "X"}

Segment == [vaddr : Nat, file : Seq(Addr), filesz : Nat, memsz : Nat, flags : SUBSET RWX]
Reloc   == [offset : Nat, type : STRING, sym : Nat]
Program == [type : STRING, loads : Seq(Segment), dynamic : BOOLEAN, relAt : Nat, rel : Seq(Reloc),
            jmpAt : Nat, jmprel : Seq(Reloc), interp : BOOLEAN, entry : Nat, phdr : Nat]

ASSUME LoaderAssumption ==
    /\ Size \in Nat \ {0} /\ PageCells \in Nat \ {0} /\ Align \in Nat \ {0}
    /\ StackTop \in 0 .. Size /\ StackCells \in 0 .. StackTop
    /\ MainBias \in Nat /\ InterpBias \in Nat
    /\ File \subseteq Program /\ BadFile \notin File /\ NoFile \notin File
    /\ InterpPath \in Path /\ GuestStore \subseteq Addr

\* Strings, padding and vectors of a frame, which the stack has room for.
ASSUME FrameAssumption ==
    /\ Argv \subseteq Seq(Nat) /\ Env \subseteq Seq(Nat)
    /\ \A argv \in Argv, env \in Env : 2 * Len(argv) + 2 * Len(env) + Align + 19 <= StackCells

VARIABLES files,       \* vfs: path -> file, BadFile (no ELF file) or NoFile
          lenient,     \* options.ignoreMissingInterp
          memory,      \* [perm : mapped page -> permissions, cell : address -> word]
          esp,
          proc,        \* what the last successful load returned
          given,       \* history: what it was given, [argv, env, own]
          live         \* "none" | "begun" (nothing was written since) | "run" | "over"

elfVars == <<files, lenient, memory, esp, proc, given, live>>

Blank == [perm |-> <<>>, cell |-> [a \in Addr |-> 0], ok |-> TRUE]

ElfInit == /\ files \in [Path -> File \cup {BadFile, NoFile}]
           /\ lenient \in BOOLEAN
           /\ memory = Blank
           /\ esp = 0 /\ proc = <<>> /\ given = <<>> /\ live = "none"

-----------------------------------------------------------------------------
\* Whole pages from the page of the first cell to that of the last.
PagesOf(start, length) == start \div PageCells .. (start + length + PageCells - 1) \div PageCells - 1

\* What a file covers when it is loaded at an address.
Covered(f, bias) == UNION {bias + f.loads[k].vaddr .. bias + f.loads[k].vaddr + f.loads[k].memsz - 1 : k \in DOMAIN f.loads}
ImagePages(f, bias) == UNION {PagesOf(bias + f.loads[k].vaddr, f.loads[k].memsz) : k \in DOMAIN f.loads}
StackPages == PagesOf(StackTop - StackCells, StackCells)

\* Where a program is put; a shared object is moved.
biasOf(f) == IF f \in {BadFile, NoFile} THEN 0 ELSE IF f.type = "DYN" THEN MainBias ELSE 0

setPerm(mem, range, p) ==
    [mem EXCEPT !.perm = [q \in DOMAIN mem.perm \cup range |-> IF q \in range THEN p ELSE mem.perm[q]]]

\* Mutant: mapping clears a page that is there already.
mapFresh(mem, range, p) ==
    [setPerm(mem, range, p) EXCEPT
        !.cell = [a \in Addr |-> IF a \div PageCells \in range THEN 0 ELSE mem.cell[a]]]

\* PagedMemory.map gives a page that is there the new permissions and keeps
\* its cells; those of a new page are 0, as all cells not mapped are.
map(mem, range, p) == setPerm(mem, range, p)

\* A segment without flags is readable.
flagsToPerm(flags) == IF flags = {} THEN {"R"} ELSE flags

\* One PT_LOAD header: map, copy the file's part, clear the rest, protect.
loadSegment(mem, bias, p) ==
    LET lo     == bias + p.vaddr
        range  == PagesOf(lo, p.memsz)
        mapped == map(mem, range, RWX)
        filled == [mapped EXCEPT !.cell = [a \in Addr |->
                      IF a \in lo .. lo + p.filesz - 1 THEN p.file[a - lo + 1]
                      ELSE IF a \in lo + p.filesz .. lo + p.memsz - 1 THEN 0
                      ELSE mapped.cell[a]]]
    IN  setPerm(filled, range, flagsToPerm(p.flags))

\* The headers in their order.
loadSegments(mem, f, bias) ==
    LET after[k \in 0 .. Len(f.loads)] ==
            IF k = 0 THEN mem ELSE loadSegment(after[k - 1], bias, f.loads[k])
    IN  after[Len(f.loads)]

\* A table of the dynamic section is found only in the file part of a segment.
vaddrToOffset(f, vaddr) ==
    \E i \in DOMAIN f.loads : vaddr \in f.loads[i].vaddr .. f.loads[i].vaddr + f.loads[i].filesz - 1

parseELF32DynamicInfo(f) ==
    [rel    |-> IF f.relAt # 0 /\ vaddrToOffset(f, f.relAt) THEN f.rel ELSE <<>>,
     jmprel |-> IF f.jmpAt # 0 /\ vaddrToOffset(f, f.jmpAt) THEN f.jmprel ELSE <<>>]

\* All entries, in the order in which they are applied.
relocations(f) == parseELF32DynamicInfo(f).rel \o parseELF32DynamicInfo(f).jmprel

\* Files are as a linker makes them: relocations are of cells of the file's own
\* segments; and the addresses chosen for programs, interpreter and stack keep
\* their pages apart.
ASSUME LayoutAssumption ==
    /\ \A f \in File :
          /\ Len(f.loads) > 0
          /\ \A k \in DOMAIN f.loads : /\ f.loads[k].filesz = Len(f.loads[k].file)
                                       /\ f.loads[k].filesz <= f.loads[k].memsz
          /\ \A k \in DOMAIN relocations(f) : relocations(f)[k].offset \in Covered(f, 0)
    /\ \A f \in File, bias \in {0, MainBias, InterpBias} :
          /\ Covered(f, bias) \subseteq Addr
          /\ ImagePages(f, bias) \cap StackPages = {}
    /\ \A f, g \in File : ImagePages(f, biasOf(f)) \cap ImagePages(g, InterpBias) = {}

Readable(mem, a) == a \div PageCells \in DOMAIN mem.perm /\ "R" \in mem.perm[a \div PageCells]

\* The loader passes no resolver, so every symbol is 0: GLOB_DAT and JMP_SLOT
\* are skipped, 32 and PC32 are applied when they name no symbol.
applyOne(mem, base, r) ==
    LET addr == (base + r.offset) % Size
        old  == mem.cell[addr]
        new  == CASE r.type = "RELATIVE"          -> base + old
                  [] r.type = "32" /\ r.sym = 0   -> old
                  [] r.type = "PC32" /\ r.sym = 0 -> old - addr
                  [] OTHER                        -> old
    IN  IF ~mem.ok THEN mem
        ELSE IF ~Readable(mem, addr) THEN [mem EXCEPT !.ok = FALSE]
        ELSE [mem EXCEPT !.cell[addr] = new % Size]

applyELF32Relocations(mem, f, base) ==
    LET all == relocations(f)
        after[k \in 0 .. Len(all)] == IF k = 0 THEN mem ELSE applyOne(after[k - 1], base, all[k])
    IN  after[Len(all)]

Max0(S) == Max(S \cup {0})

\* ok is FALSE when a relocation faults; a file that does not parse, or is
\* neither an executable nor a shared object, throws before memory is touched.
loadELF32Image(mem, f, bias) ==
    IF f \in {BadFile, NoFile} THEN [mem EXCEPT !.ok = FALSE]
    ELSE IF f.type \notin {"EXEC", "DYN"} THEN [mem EXCEPT !.ok = FALSE]
    ELSE LET laid == loadSegments(mem, f, bias)
         IN  IF f.dynamic THEN applyELF32Relocations(laid, f, bias) ELSE laid

brkOf(f, bias) ==
    LET end == bias + Max0({f.loads[i].vaddr + f.loads[i].memsz : i \in DOMAIN f.loads})
    IN  ((end + PageCells - 1) \div PageCells) * PageCells

mapStack(mem) == map(mem, StackPages, {"R", "W"})

\* The program, its interpreter when it names one, and the stack.  An error of
\* the interpreter's load is an error of the whole load, or is ignored.
loadELF32Process(mem, f) ==
    LET main   == loadELF32Image(mem, f, biasOf(f))
        wants  == main.ok /\ f.interp
        second == loadELF32Image(main, files[InterpPath], InterpBias)
        ip     == wants /\ second.ok
        all    == IF wants THEN second ELSE main
    IN  IF ~main.ok \/ (wants /\ ~second.ok /\ ~lenient) THEN [mem |-> all, ok |-> FALSE]
        ELSE [mem |-> mapStack([all EXCEPT !.ok = TRUE]), ok |-> TRUE,
              main |-> f, bias |-> biasOf(f),
              interp |-> IF ip THEN files[InterpPath] ELSE NoFile,
              entry |-> IF ip THEN InterpBias + files[InterpPath].entry ELSE biasOf(f) + f.entry,
              base |-> IF ip THEN InterpBias ELSE 0,
              brk |-> brkOf(f, biasOf(f))]

\* Raw code at a fixed address, here the text of an executable, and the stack.
loadFlatBinary(mem, f) ==
    LET code == [f.loads[1] EXCEPT !.memsz = f.loads[1].filesz, !.flags = {"R", "X"}]
        flat == [f EXCEPT !.loads = <<code>>, !.dynamic = FALSE, !.phdr = 0]
    IN  [mem |-> mapStack(loadSegment(mem, 0, code)), ok |-> TRUE,
         main |-> flat, bias |-> 0, interp |-> NoFile, entry |-> f.entry, base |-> 0,
         brk |-> brkOf(flat, 0)]

-----------------------------------------------------------------------------
push(st, v) == [sp |-> st.sp - 1, cell |-> [st.cell EXCEPT ![st.sp - 1] = v]]

\* Mutant: the vectors are pushed first element first.
pushAllForward(st, s) ==
    LET after[k \in 0 .. Len(s)] == IF k = 0 THEN st ELSE push(after[k - 1], s[k])
    IN  after[Len(s)]

\* Elements are pushed from the last to the first.
pushAll(st, s) ==
    LET after[k \in 0 .. Len(s)] == IF k = 0 THEN st ELSE push(after[k - 1], s[Len(s) - k + 1])
    IN  after[Len(s)]

\* Where the strings went: the last pushed one is the lowest.
Pointers(st, s) == [i \in DOMAIN s |-> st.sp - Len(s) + i - 1]

\* Strings are words beyond the addresses.
RandomBlock == Size + 1
Platform    == Size + 2
ExecName    == Size + 3

\* Strings first, then down to the alignment, then auxv, envp, argv and argc.
setupInitialStack(cell, p, argv, env) ==
    LET top     == [sp |-> StackTop, cell |-> cell]
        named   == pushAll(top, <<ExecName, Platform, RandomBlock>>)
        args    == pushAll(named, argv)
        envs    == pushAll(args, env)
        aligned == [envs EXCEPT !.sp = @ - (@ % Align)]
        auxv    == << 3, p.bias + p.main.phdr, 7, p.base, 9, p.bias + p.main.entry,
                      25, StackTop - 1, 15, StackTop - 2, 31, StackTop - 3, 0, 0 >>
        vector  == <<Len(argv)>> \o Pointers(named, argv) \o <<0>> \o Pointers(args, env) \o <<0>> \o auxv
    IN  pushAll(aligned, vector)

-----------------------------------------------------------------------------
\* The stack of the program is set up and its cpu made ready, in a memory of
\* its own or in the one that was there.
Start(loaded, argv, env, own) ==
    LET st == setupInitialStack(loaded.mem.cell, loaded, argv, env)
    IN  /\ memory' = [loaded.mem EXCEPT !.cell = st.cell]
        /\ esp' = st.sp
        /\ proc' = [loaded EXCEPT !.mem = {}]
        /\ given' = [argv |-> argv, env |-> env, own |-> own]
        /\ live' = "begun"

\* A program that was begun is no longer as it was loaded.
Disturbed == live' = IF live = "begun" THEN "run" ELSE live

\* Loading into the memory the runtime has, whatever has been loaded and has run
\* in it; an error is the caller's, who may load again.
loadELF(path, argv, env) ==
    LET loaded == loadELF32Process(memory, files[path])
    IN  /\ files[path] # NoFile
        /\ IF loaded.ok
           THEN Start(loaded, argv, env, FALSE)
           ELSE memory' = [loaded.mem EXCEPT !.ok = TRUE] /\ Disturbed /\ UNCHANGED <<esp, proc, given>>
        /\ UNCHANGED <<files, lenient>>

loadFlat(path, argv, env) ==
    /\ files[path] \in File
    /\ Start(loadFlatBinary(memory, files[path]), argv, env, FALSE)
    /\ UNCHANGED <<files, lenient>>

\* A missing file is an errno of the system call; any other error comes when
\* the runtime has its new memory and ends the run: the cpu keeps the old one,
\* which is not followed further.
execve(path, argv, env) ==
    LET loaded == loadELF32Process(Blank, files[path])
    IN  /\ live # "none"
        /\ IF files[path] = NoFile THEN UNCHANGED <<memory, esp, proc, given, live>>
           ELSE IF loaded.ok THEN Start(loaded, argv, env, TRUE)
           ELSE /\ memory' = [loaded.mem EXCEPT !.ok = TRUE]
                /\ live' = "over"
                /\ UNCHANGED <<esp, proc, given>>
        /\ UNCHANGED <<files, lenient>>

\* The program stores into its data.
guestStore(a) ==
    /\ live \in {"begun", "run"}
    /\ a \div PageCells \in DOMAIN memory.perm /\ "W" \in memory.perm[a \div PageCells]
    /\ memory' = [memory EXCEPT !.cell[a] = Size - 1]
    /\ Disturbed
    /\ UNCHANGED <<files, lenient, esp, proc, given>>

ElfNext == \/ \E path \in Path, argv \in Argv, env \in Env : loadELF(path, argv, env) \/ loadFlat(path, argv, env) \/ execve(path, argv, env)
           \/ \E a \in GuestStore : guestStore(a)

ElfSpec == ElfInit /\ [][ElfNext]_elfVars

-----------------------------------------------------------------------------
Images(p) == {<<p.main, p.bias>>} \cup (IF p.interp = NoFile THEN {} ELSE {<<p.interp, InterpBias>>})

\* What cell c of an image must hold: the word of the last segment over it,
\* 0 past the file's part, moved by each relocation that names the cell.
WordOf(f, bias, c) ==
    LET i    == Max({k \in DOMAIN f.loads : c - bias \in f.loads[k].vaddr .. f.loads[k].vaddr + f.loads[k].memsz - 1})
        off  == c - bias - f.loads[i].vaddr
        all  == IF f.dynamic THEN relocations(f) ELSE <<>>
        of(t) == Cardinality({k \in DOMAIN all : /\ all[k].offset = c - bias /\ all[k].type = t
                                                 /\ t = "PC32" => all[k].sym = 0})
    IN  ((IF off < f.loads[i].filesz THEN f.loads[i].file[off + 1] ELSE 0)
            + bias * of("RELATIVE") - c * of("PC32")) % Size

PageFlags(f, bias, q) ==
    LET over == {k \in DOMAIN f.loads : q \in PagesOf(bias + f.loads[k].vaddr, f.loads[k].memsz)}
    IN  flagsToPerm(f.loads[Max(over)].flags)

\* A program that a load has just begun, over whatever was in memory before:
\* every cell of it and of its interpreter holds what the file says, relocated
\* once, with zeros past the file's part (elf.js loadELF32Image); pages have the
\* permissions of the last segment on them; after execve nothing else is mapped.
ImageIsLaidOut ==
    live = "begun" =>
        /\ \A im \in Images(proc) : \A c \in Covered(im[1], im[2]) :
              /\ memory.cell[c] = WordOf(im[1], im[2], c)
              /\ memory.perm[c \div PageCells] = PageFlags(im[1], im[2], c \div PageCells)
        /\ given.own /\ ~lenient =>
              \A q \in DOMAIN memory.perm :
                 \/ q \in StackPages
                 \/ \E im \in Images(proc) : q \in ImagePages(im[1], im[2])

\* Reading the stack of a program that has begun the way its startup code does,
\* from argc up, gives the arguments, the environment and the auxiliary entries
\* the caller passed: no string is overwritten by the vectors below it and every
\* pointer finds its own (elf.js setupInitialStack).
FrameParses ==
    live = "begun" =>
        LET argv  == given.argv
            env   == given.env
            at(i) == memory.cell[esp + i]
            n     == Len(argv)
            e     == n + 2 + Len(env)
            aux(tag) == at(e + 2 + 2 * Min({k \in 0 .. 7 : at(e + 1 + 2 * k) = tag}))
        IN  /\ at(0) = n
            /\ \A i \in 1 .. n : memory.cell[at(i)] = argv[i]
            /\ at(n + 1) = 0
            /\ \A i \in DOMAIN env : memory.cell[at(n + 1 + i)] = env[i]
            /\ at(e) = 0
            /\ aux(9) = proc.bias + proc.main.entry
            /\ aux(7) = proc.base
            /\ memory.cell[aux(25)] = RandomBlock /\ memory.cell[aux(31)] = ExecName
=============================================================================
