---------------------------- MODULE Interpreter ----------------------------
(***************************************************************************)
(* What running a guest program means: every step fetches the instruction  *)
(* that is in memory at the instruction pointer now and executes it.       *)
(* Memory is a row of cells with one instruction each; registers, flags    *)
(* and data are left out, so an operand is any value it could have.        *)
(***************************************************************************)
EXTENDS Integers

CONSTANTS Size,       \* number of cells
          Exec,       \* cells the program runs code in
          Stack,      \* cells the stack pointer may point to
          Unmapped    \* content of a cell that is not mapped

VARIABLES mem, eip

vars == <<mem, eip>>

Cell == 0 .. Size - 1

\* nop, push, jmp (to cell 0), ret and sys stand for the instructions the
\* translator handles (register arithmetic is nop), store for all others.
Instr == {"nop", "push", "store", "jmp", "ret", "sys"}

Init == /\ mem \in [Cell -> Instr]
        /\ eip \in Exec

\* A write to a mapped cell; a write elsewhere is a fault, which ends the run.
Write(a, v) == mem[a] # Unmapped /\ mem' = [mem EXCEPT ![a] = v]

\* A cell is unmapped, or mapped anew.
Remap(a, v) == mem' = [mem EXCEPT ![a] = v]

\* Memory effects of one instruction.
Effect(op) ==
    \/ op \in {"nop", "jmp", "ret"} /\ UNCHANGED mem
    \/ op = "push" /\ \E a \in Stack, v \in Instr : Write(a, v)
    \/ op = "store" /\ \E a \in Cell, v \in Instr : Write(a, v)
    \/ /\ op = "sys"
       /\ \/ UNCHANGED mem
          \/ \E a \in Cell, v \in Instr : Write(a, v)
          \/ \E a \in Cell, v \in {"nop", Unmapped} : Remap(a, v)

\* Where control goes after the instruction at cell a.
Successor(op, a) ==
    CASE op = "jmp" -> {0} \cap Exec
      [] op = "ret" -> Exec
      [] OTHER      -> {a + 1} \cap Exec

\* execve: another program takes the place of this one and is started.
Replaced == mem' \in [Cell -> Instr \cup {Unmapped}] /\ eip' \in Exec

\* One instruction; control that would leave the cells of the program is a fault.
Execute(op) ==
    \/ Effect(op) /\ eip' \in Successor(op, eip)
    \/ op = "sys" /\ Replaced

Step == mem[eip] # Unmapped /\ Execute(mem[eip])

Spec == Init /\ [][Step]_vars
=============================================================================
