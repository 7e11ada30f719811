----------------------------- MODULE StringOps -----------------------------
(***************************************************************************)
(* The string instructions of src/src/cpu.js (handleStringOp) with their   *)
(* repeat prefixes.  An instruction runs all its iterations in one step;   *)
(* an access to a cell that is not mapped throws out of the loop, with the *)
(* pointers and the memory of the iterations before it changed and the     *)
(* count not.  One cell holds one element; pointers wrap at Cells.         *)
(***************************************************************************)
EXTENDS Integers, FiniteSetsExt

CONSTANTS Cells,     \* size of the address space, in elements
          Mapped,    \* addresses that are mapped
          Element,   \* values of an element
          MaxRep     \* bound: largest repeat count

\* No repetition comes round to where it began: with bytes, ecx cannot count
\* further than the address space reaches.
ASSUME StringAssumption == /\ Cells \in Nat \ {0} /\ MaxRep \in Nat /\ MaxRep <= Cells
                           /\ Mapped \subseteq 0 .. Cells - 1

VARIABLES cells, esi, edi, ecx, al, df, zf,
          trap       \* the access of an iteration was refused

stringVars == <<cells, esi, edi, ecx, al, df, zf, trap>>

Op     == {"movs", "cmps", "stos", "lods", "scas"}
Prefix == {"none", "rep", "repne"}

StringInit == /\ cells \in [Mapped -> Element]
              /\ esi \in 0 .. Cells - 1 /\ edi \in 0 .. Cells - 1
              /\ ecx \in 0 .. MaxRep
              /\ al \in Element
              /\ df \in BOOLEAN /\ zf \in BOOLEAN
              /\ trap = FALSE

Moved(p, n) == (IF df THEN p - n ELSE p + n) % Cells

\* Mutant: a repeated comparison goes on until its count is used up.
stopsNever(op, rep, equal) == FALSE

\* A repeated comparison ends after the element that decides it.
stops(op, rep, equal) ==
    op \in {"cmps", "scas"} /\ ((rep = "rep" /\ ~equal) \/ (rep = "repne" /\ equal))

\* One iteration of the loop; s.stop says why no further one follows.
iterate(op, rep, s) ==
    LET reads  == IF op \in {"movs", "cmps", "lods"} THEN {s.esi} ELSE {}
        uses   == reads \cup (IF op = "lods" THEN {} ELSE {s.edi})
        equal  == IF op = "cmps" THEN s.cells[s.esi] = s.cells[s.edi] ELSE s.al = s.cells[s.edi]
    IN  IF s.stop # "no" THEN s
        ELSE IF ~(uses \subseteq Mapped) THEN [s EXCEPT !.stop = "fault"]
        ELSE [s EXCEPT
                !.cells = CASE op = "movs" -> [@ EXCEPT ![s.edi] = s.cells[s.esi]]
                            [] op = "stos" -> [@ EXCEPT ![s.edi] = s.al]
                            [] OTHER       -> @,
                !.al = IF op = "lods" THEN s.cells[s.esi] ELSE @,
                !.esi = IF reads = {} THEN @ ELSE Moved(@, 1),
                !.edi = IF op = "lods" THEN @ ELSE Moved(@, 1),
                !.zf = IF op \in {"cmps", "scas"} THEN equal ELSE @,
                !.count = @ + 1,
                !.stop = IF op \in {"cmps", "scas"} /\ stops(op, rep, equal) THEN "decided" ELSE @]

\* The registers and the memory after n rounds of the loop.
rounds(op, rep, n) ==
    LET start == [cells |-> cells, esi |-> esi, edi |-> edi, al |-> al, zf |-> zf,
                  count |-> 0, stop |-> "no"]
        after[k \in 0 .. n] == IF k = 0 THEN start ELSE iterate(op, rep, after[k - 1])
    IN  after[n]

handleStringOp(op, rep) ==
    LET repeat == IF rep = "none" THEN 1 ELSE ecx
        end    == rounds(op, rep, repeat)
    IN  /\ ~trap
        /\ cells' = end.cells /\ esi' = end.esi /\ edi' = end.edi
        /\ al' = end.al /\ zf' = end.zf
        /\ ecx' = IF rep = "none" \/ end.stop = "fault" THEN ecx
                  ELSE IF end.stop = "decided" THEN repeat - end.count ELSE 0
        /\ trap' = (end.stop = "fault")
        /\ UNCHANGED df

StringNext == \E op \in Op, rep \in Prefix : handleStringOp(op, rep)

StringSpec == StringInit /\ [][StringNext]_stringVars

-----------------------------------------------------------------------------
\* Elements a repeated instruction has to process: all, or up to and with the
\* first that decides a comparison.
Due(op, rep) ==
    LET equal(i) == cells[Moved(edi, i)] = (IF op = "cmps" THEN cells[Moved(esi, i)] ELSE al)
        readable(i) == Moved(edi, i) \in Mapped /\ (op = "cmps" => Moved(esi, i) \in Mapped)
        decisive == {i \in 0 .. ecx - 1 : readable(i) /\ equal(i) = (rep = "repne")}
    IN  IF rep = "none" THEN 1
        ELSE IF op \notin {"cmps", "scas"} \/ decisive = {} THEN ecx
        ELSE Min(decisive) + 1

\* What the i-th copied element is: the source element as it was, unless the
\* copy has overwritten it, when the elements between the pointers repeat.
CopyOf(i, n) ==
    LET gap == (IF df THEN esi - edi ELSE edi - esi) % Cells
    IN  cells[Moved(esi, IF gap > 0 /\ gap < n THEN i % gap ELSE i)]

\* A string instruction of cpu.js that ends without a fault has processed the
\* elements its count and the compared data call for: pointers, count, the
\* zero flag of the last pair and a copy onto itself agree on how many.
RepAccounts ==
    [][stringVars' # stringVars => \A op \in Op, rep \in Prefix :
          handleStringOp(op, rep) /\ ~trap' =>
             LET n == Due(op, rep)
             IN  /\ ecx' = IF rep = "none" THEN ecx ELSE ecx - n
                 /\ op # "lods" => edi' = Moved(edi, n)
                 /\ op \notin {"stos", "scas"} => esi' = Moved(esi, n)
                 /\ op = "movs" => \A i \in 0 .. n - 1 : cells'[Moved(edi, i)] = CopyOf(i, n)
                 /\ op = "stos" => \A i \in 0 .. n - 1 : cells'[Moved(edi, i)] = al
                 /\ op = "lods" /\ n > 0 => al' = cells[Moved(esi, n - 1)]
                 /\ op = "scas" /\ n > 0 => zf' = (cells[Moved(edi, n - 1)] = al)
                 /\ op = "cmps" /\ n > 0 =>
                       zf' = (cells[Moved(edi, n - 1)] = cells[Moved(esi, n - 1)])]_stringVars
=============================================================================
