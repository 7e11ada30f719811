--------------------------- MODULE BlockCacheJIT ---------------------------
(***************************************************************************)
(* The translation cache of src/src/jit.js.  Hot straight-line code is     *)
(* compiled into a block, a list of closures that were decoded once, and   *)
(* run from the cache; everything else is interpreted one instruction at a *)
(* time.  Writes of the guest invalidate the blocks they hit, through the  *)
(* onWrite callback of the memory (src/src/memory.js); changes of the      *)
(* mapping do not call it.                                                 *)
(*                                                                         *)
(* An instruction occupies one cell.  A block that runs is one step per    *)
(* instruction, since each may write memory; eip is where that instruction *)
(* was decoded (the code stores its eip only when the block ends).  A      *)
(* fault ends the run, so it is the absence of a step.                     *)
(***************************************************************************)
EXTENDS Integers, Sequences

CONSTANTS Size, Exec, Stack, Unmapped,
          Programs,       \* what execve may load: the new memory, the cells it writes
          RemapsCached,   \* do guests change the mapping of code that is in the cache?
          HotThreshold,   \* options.hotThreshold
          MaxBlock,       \* options.maxBlockInsns
          NoBlock         \* no block is being run

VARIABLES mem,        \* the guest's memory
          eip,        \* where the next instruction is
          hits,       \* this.hits
          blocks,     \* this.blocks: the decoded instructions, by start
          current     \* the block being run and the index of the next closure

vars == <<mem, eip, hits, blocks, current>>

Cell  == 0 .. Size - 1
Instr == {"nop", "push", "store", "jmp", "ret", "sys"}

ASSUME SizeAssumption == /\ Size \in Nat \ {0} /\ MaxBlock \in Nat \ {0}
                         /\ HotThreshold \in Nat \ {0}
ASSUME CellAssumption == /\ Exec \subseteq Cell /\ Stack \subseteq Cell
                         /\ Unmapped \notin Instr /\ RemapsCached \in BOOLEAN
ASSUME ProgramAssumption ==
    Programs \subseteq [memory : [Cell -> Instr \cup {Unmapped}], image : SUBSET Cell]

Code     == UNION {[1 .. n -> Instr] : n \in 1 .. MaxBlock}
Terminal == {"jmp", "ret", "sys"}
Simple   == {"nop", "push"}

\* A block being run: where it starts, its closures, the next one.
Running  == [start : Cell, code : Code, next : 1 .. MaxBlock]

ASSUME NoBlockAssumption == NoBlock \notin Running

\* Memory, program counter, blocks and hit counters.
TypeOK ==
    /\ mem \in [Cell -> Instr \cup {Unmapped}]
    /\ eip \in Exec
    /\ hits \in [Cell -> 0 .. HotThreshold]
    /\ DOMAIN blocks \subseteq Cell /\ \A s \in DOMAIN blocks : blocks[s] \in Code
    /\ current \in {NoBlock} \cup Running
    /\ current # NoBlock => current.next <= Len(current.code)

Interp == INSTANCE Interpreter

Init == /\ Interp!Init
        /\ hits = [a \in Cell |-> 0]
        /\ blocks = <<>>
        /\ current = NoBlock

-----------------------------------------------------------------------------
Min2(m, n) == IF m < n THEN m ELSE n

\* The n cells from s on, as compile decodes them.
CellsFrom(s, n) == [i \in 1 .. n |-> mem[s + i - 1]]

\* How many instructions a block may have.
BlockLengths == 1 .. MaxBlock

\* Mutant: an instruction that ends a block does not stop the loop of compile.
CompilesThroughJumps(s, n) ==
    /\ s + n <= Size /\ n = MaxBlock
    /\ \A i \in 1 .. n : mem[s + i - 1] \in Simple \cup Terminal

\* compile succeeds with n instructions: all can be translated, none but the
\* last ends a block, and the last does or the block is full.
Compiles(s, n) ==
    /\ s + n <= Size
    /\ \A i \in 1 .. n - 1 : mem[s + i - 1] \in Simple
    /\ \/ mem[s + n - 1] \in Terminal
       \/ n = MaxBlock /\ mem[s + n - 1] \in Simple

\* invalidate: the write to cell a falls into the block at s.
Hits(s, code, a) == s <= a /\ a < s + Len(code)

\* The blocks that are left after a write to cell a.
Invalidated(a) ==
    [s \in {t \in DOMAIN blocks : ~Hits(t, blocks[t], a)} |-> blocks[s]]

\* The memory effect of an instruction together with the onWrite callbacks:
\* blocks are dropped for writes, not for changes of the mapping.
EffectAndInvalidate(op) ==
    \/ /\ op \in {"nop", "jmp", "ret"}
       /\ UNCHANGED <<mem, blocks>>
    \/ /\ op = "push"
       /\ \E a \in Stack, v \in Instr : Interp!Write(a, v) /\ blocks' = Invalidated(a)
    \/ /\ op = "store"
       /\ \E a \in Cell, v \in Instr : Interp!Write(a, v) /\ blocks' = Invalidated(a)
    \/ /\ op = "sys"
       /\ \/ UNCHANGED <<mem, blocks>>
          \/ \E a \in Cell, v \in Instr : Interp!Write(a, v) /\ blocks' = Invalidated(a)
          \/ /\ \E a \in Cell, v \in {"nop", Unmapped} :
                    /\ RemapsCached \/ \A s \in DOMAIN blocks : ~Hits(s, blocks[s], a)
                    /\ Interp!Remap(a, v)
             /\ UNCHANGED blocks

\* execve: the program gets a new memory and starts anywhere in it.  Writing the
\* image drops the blocks it hits; blocks of other cells stay in the cache.
execve ==
    \E program \in Programs :
        /\ mem' = program.memory
        /\ blocks' = [s \in {t \in DOMAIN blocks :
                               \A a \in program.image : ~Hits(t, blocks[t], a)} |-> blocks[s]]
        /\ RemapsCached \/ DOMAIN blocks' = {}
        /\ eip' \in Exec

\* One instruction, from a block or from memory.
Execute(op) ==
    \/ EffectAndInvalidate(op) /\ eip' \in Interp!Successor(op, eip)
    \/ op = "sys" /\ execve

\* The counter of the current address; it only matters up to the threshold.
Hotter == Min2(hits[eip] + 1, HotThreshold)

\* run: the block at eip is compiled now that the address is hot, and started.
compile ==
    /\ current = NoBlock /\ eip \notin DOMAIN blocks
    /\ Hotter = HotThreshold
    /\ \E n \in BlockLengths :
          /\ Compiles(eip, n)
          /\ blocks' = [s \in DOMAIN blocks \cup {eip} |->
                           IF s = eip THEN CellsFrom(eip, n) ELSE blocks[s]]
          /\ current' = [start |-> eip, code |-> CellsFrom(eip, n), next |-> 1]
    /\ hits' = [hits EXCEPT ![eip] = Hotter]
    /\ UNCHANGED <<mem, eip>>

\* run: a block for eip is in the cache.
enter ==
    /\ current = NoBlock /\ eip \in DOMAIN blocks
    /\ current' = [start |-> eip, code |-> blocks[eip], next |-> 1]
    /\ UNCHANGED <<mem, eip, hits, blocks>>

\* block.run: the next closure.  A write it makes may drop the block from the
\* cache, but the loop over its closures goes on.
runOp ==
    /\ current # NoBlock
    /\ Execute(current.code[current.next])
    /\ current' = IF current.next = Len(current.code) THEN NoBlock
                  ELSE [current EXCEPT !.next = current.next + 1]
    /\ UNCHANGED hits

\* run: no block, so one instruction is interpreted.
interpret ==
    /\ current = NoBlock /\ eip \notin DOMAIN blocks
    /\ Hotter < HotThreshold \/ \A n \in BlockLengths : ~Compiles(eip, n)
    /\ mem[eip] # Unmapped
    /\ Execute(mem[eip])
    /\ hits' = [hits EXCEPT ![eip] = Hotter]
    /\ UNCHANGED current

Next == compile \/ enter \/ runOp \/ interpret

Spec == Init /\ [][Next]_vars

-----------------------------------------------------------------------------
\* A cached block is what its cells hold now.
IsCurrent(s) == /\ s + Len(blocks[s]) <= Size
                /\ blocks[s] = CellsFrom(s, Len(blocks[s]))

CachedCodeIsCurrent == \A s \in DOMAIN blocks : IsCurrent(s)

\* A block ends where control may go elsewhere or anything may be written.
BlocksAreStraight ==
    \A s \in DOMAIN blocks : \A i \in 1 .. Len(blocks[s]) - 1 : blocks[s][i] \in Simple

\* eip follows the closures of the block being run, and those that are left are
\* what the cells of the program hold; all but the last are simple, so that no
\* store and no system call comes before the end.
CurrentFollowsEip ==
    current # NoBlock =>
        /\ eip = current.start + current.next - 1
        /\ \A i \in current.next .. Len(current.code) :
              current.start + i - 1 \in Exec => current.code[i] = mem[current.start + i - 1]
        /\ \A i \in 1 .. Len(current.code) - 1 : current.code[i] \in Simple

\* Running with the cache is running the program: every instruction that is
\* executed is the one in memory at that moment.
RunsTheProgram == Interp!Spec
=============================================================================
