---------------------------- MODULE IntegerUnit ----------------------------
(***************************************************************************)
(* The integer instructions of src/src/cpu.js: results and flags of the    *)
(* arithmetic unit, shifts and rotates, multiplication and division, bit   *)
(* and exchange instructions, and the conditions of jcc, setcc and cmovcc. *)
(*                                                                         *)
(* The code computes with a width of 8, 16 or 32 bits; the operators here  *)
(* take the width from the constant Width.  Registers hold words; m is     *)
(* the r/m operand, in a register or in memory.  Decoding and the fetch of *)
(* operands are left out: loadOperand gives m any word.                    *)
(***************************************************************************)
EXTENDS Integers, FiniteSets, FiniteSetsExt

CONSTANTS Width,       \* operand width in bits
          AdjustBit,   \* the bit AF looks at (4 in the code)
          MaxCount     \* bound: largest shift count and bit index (31 in the code)

ASSUME WidthAssumption == /\ Width \in Nat \ {0} /\ AdjustBit \in Nat /\ MaxCount \in Nat

VARIABLES eax, edx,    \* accumulator and its upper half
          m,           \* the r/m operand
          eflags,      \* the arithmetic flags
          fault        \* a CPUError was thrown: the run is over

unitVars == <<eax, edx, m, eflags, fault>>

\* The powers of two.
Pow2[i \in Nat] == IF i = 0 THEN 1 ELSE 2 * Pow2[i - 1]

Modulus == Pow2[Width]
Word    == 0 .. Modulus - 1
Flags   == [CF : BOOLEAN, OF : BOOLEAN, ZF : BOOLEAN, SF : BOOLEAN, PF : BOOLEAN, AF : BOOLEAN]

\* Registers hold words, flags are Booleans.
UnitTypeOK == /\ eax \in Word /\ edx \in Word /\ m \in Word
              /\ eflags \in Flags /\ fault \in BOOLEAN

UnitInit == /\ eax = 0 /\ edx = 0 /\ m = 0
            /\ eflags = [CF |-> FALSE, OF |-> FALSE, ZF |-> FALSE,
                         SF |-> FALSE, PF |-> FALSE, AF |-> FALSE]
            /\ fault = FALSE

-----------------------------------------------------------------------------
truncate(v)   == v % Modulus

\* Mutant: the smallest negative number counts as positive.
negativeLate(v) == v > Modulus \div 2

negative(v)   == v >= Modulus \div 2
signExtend(v) == IF negative(v) THEN v - Modulus ELSE v

Bit(v, i)    == (v \div Pow2[i]) % 2
Bits         == [v \in Word |-> {i \in 0 .. Width - 1 : Bit(v, i) = 1}]
FromBits(S)  == CHOOSE v \in Word : Bits[v] = S
Even(n)      == n % 2 = 0
parity8(v)   == Even(Cardinality({i \in 0 .. 7 : Bit(v, i) = 1}))

setZS(f, r) == [f EXCEPT !.ZF = (r = 0), !.SF = negative(r), !.PF = parity8(r)]

\* The adjust flag: one bit of a xor b xor r; b has the carry added to it.
adjust(a, b, r) == ~Even(Bit(a, AdjustBit) + Bit(b, AdjustBit) + Bit(r, AdjustBit))

\* Sum and flags of a + b + carry.
add(f, a, b, carry) ==
    LET R == a + b + carry
        r == truncate(R)
    IN  [r |-> r,
         f |-> [setZS(f, r) EXCEPT !.CF = R > Modulus - 1,
                                   !.OF = (negative(a) = negative(b)) /\ (negative(a) # negative(r)),
                                   !.AF = adjust(a, b + carry, r)]]

\* Difference and flags of a - b - borrow.  The borrow is added to b before the
\* flags are derived; b + borrow may be the modulus, whose sign bit is clear.
sub(f, a, b, borrow) ==
    LET B == b + borrow
        r == truncate(a - B)
        negB == B < Modulus /\ negative(B)
    IN  [r |-> r,
         f |-> [setZS(f, r) EXCEPT !.CF = a < B,
                                   !.OF = (negative(a) # negB) /\ (negative(a) # negative(r)),
                                   !.AF = adjust(a, B, r)]]

logic(f, r) == [r |-> r, f |-> [setZS(f, r) EXCEPT !.CF = FALSE, !.OF = FALSE, !.AF = FALSE]]

or(a, b)  == FromBits(Bits[a] \cup Bits[b])
and(a, b) == FromBits(Bits[a] \cap Bits[b])
xor(a, b) == FromBits((Bits[a] \cup Bits[b]) \ (Bits[a] \cap Bits[b]))

Kind == {"add", "or", "adc", "sbb", "and", "sub", "xor", "cmp"}

\* Mutant: adc and sbb ignore the carry.
carryInNone(f) == 0

carryIn(f) == IF f.CF THEN 1 ELSE 0

alu(kind, f, a, b) ==
    CASE kind = "add"            -> add(f, a, b, 0)
      [] kind = "or"             -> logic(f, or(a, b))
      [] kind = "adc"            -> add(f, a, b, carryIn(f))
      [] kind = "sbb"            -> sub(f, a, b, carryIn(f))
      [] kind = "and"            -> logic(f, and(a, b))
      [] kind \in {"sub", "cmp"} -> sub(f, a, b, 0)
      [] kind = "xor"            -> logic(f, xor(a, b))

\* The even condition codes; the odd ones are their negations.
Condition == {"o", "b", "z", "be", "s", "p", "l", "le"}

cond(f, code) ==
    CASE code = "o"  -> f.OF
      [] code = "b"  -> f.CF
      [] code = "z"  -> f.ZF
      [] code = "be" -> f.CF \/ f.ZF
      [] code = "s"  -> f.SF
      [] code = "p"  -> f.PF
      [] code = "l"  -> f.SF # f.OF
      [] code = "le" -> f.ZF \/ f.SF # f.OF

-----------------------------------------------------------------------------
\* Shifts and rotates; the count is already masked.  rcl and rcr are shl and
\* shr in the code ("approximate").
Shift == {"rol", "ror", "rcl", "rcr", "shl", "shr", "sar"}

rotate(f, r, one, carry, overflow) ==
    [r |-> r, f |-> [f EXCEPT !.CF = carry, !.OF = IF one THEN overflow ELSE @]]

shift(f, r, one, carry, overflow) ==
    [r |-> r, f |-> setZS([f EXCEPT !.CF = carry, !.OF = IF one THEN overflow ELSE @], r)]


\* Mutant: the carry is the bit below the last one shifted out.
lastOutBelow(v, count) == Bit(v, count) = 1

\* The last bit that shr and sar shift out.
lastOut(v, count) == Bit(v, count - 1) = 1

shiftRotate(f, group, v, count) ==
    LET c   == count % Width
        rol == truncate(v * Pow2[c]) + v \div Pow2[Width - c]
        ror == v \div Pow2[c] + truncate(v * Pow2[Width - c])
        shl == truncate(v * Pow2[count])
        out == negative(truncate(v * Pow2[count - 1]))
    IN  IF count = 0 THEN [r |-> v, f |-> f] ELSE
        CASE group = "rol" ->
                rotate(f, rol, c = 1, Bit(rol, 0) = 1, negative(rol) # (Bit(rol, 0) = 1))
          [] group = "ror" ->
                rotate(f, ror, c = 1, negative(ror), Bit(ror, Width - 1) # Bit(ror, Width - 2))
          [] group \in {"shl", "rcl"} ->
                shift(f, shl, count = 1, out, negative(shl) # out)
          [] group \in {"shr", "rcr"} ->
                shift(f, v \div Pow2[count], count = 1, lastOut(v, count), negative(v))
          [] group = "sar" ->
                shift(f, truncate(signExtend(v) \div Pow2[count]), count = 1, lastOut(v, count), FALSE)

-----------------------------------------------------------------------------
\* One step executes one instruction.
Set(reg, result) == reg' = result.r /\ eflags' = result.f

\* An ALU instruction with the accumulator as its destination.
aluStep(kind) ==
    LET result == alu(kind, eflags, eax, m)
    IN  /\ eflags' = result.f
        /\ eax' = IF kind = "cmp" THEN eax ELSE result.r
        /\ UNCHANGED <<edx, m, fault>>

\* test: the flags of and, without the result.
test == /\ eflags' = logic(eflags, and(eax, m)).f
        /\ UNCHANGED <<eax, edx, m, fault>>

\* inc and dec keep the carry.
inc == /\ LET s == add(eflags, m, 1, 0)
          IN  m' = s.r /\ eflags' = [s.f EXCEPT !.CF = eflags.CF]
       /\ UNCHANGED <<eax, edx, fault>>

dec == /\ LET s == sub(eflags, m, 1, 0)
          IN  m' = s.r /\ eflags' = [s.f EXCEPT !.CF = eflags.CF]
       /\ UNCHANGED <<eax, edx, fault>>

not == m' = Modulus - 1 - m /\ UNCHANGED <<eax, edx, eflags, fault>>
neg == Set(m, sub(eflags, 0, m, 0)) /\ UNCHANGED <<eax, edx, fault>>

shiftStep(group, count) == /\ Set(m, shiftRotate(eflags, group, m, count))
                           /\ UNCHANGED <<eax, edx, fault>>

Both(f, overflow) == [f EXCEPT !.CF = overflow, !.OF = overflow]

\* The accumulator times m, in edx:eax; CF and OF tell whether edx is needed.
mul == /\ LET p == eax * m
          IN  /\ eax' = p % Modulus
              /\ edx' = p \div Modulus
              /\ eflags' = Both(eflags, p \div Modulus # 0)
       /\ UNCHANGED <<m, fault>>

imul == /\ LET p == signExtend(eax) * signExtend(m)
           IN  /\ eax' = truncate(p)
               /\ edx' = truncate(p \div Modulus)
               /\ eflags' = Both(eflags, signExtend(truncate(p)) # p)
        /\ UNCHANGED <<m, fault>>

\* The two-operand form keeps the lower half only.
imulReg == /\ LET p == signExtend(eax) * signExtend(m)
              IN  /\ eax' = truncate(p)
                  /\ eflags' = Both(eflags, signExtend(truncate(p)) # p)
           /\ UNCHANGED <<edx, m, fault>>

\* Mutant: the quotient of a signed division is rounded down.
QuotFloor(n, d) == IF d < 0 THEN (-n) \div (-d) ELSE n \div d

\* Quotient rounded towards zero, and the remainder that goes with it.
Abs(n)     == IF n < 0 THEN -n ELSE n
Quot(n, d) == IF (n < 0) = (d < 0) THEN Abs(n) \div Abs(d) ELSE -(Abs(n) \div Abs(d))
Rem(n, d)  == n - d * Quot(n, d)

\* edx:eax divided by m; a zero divisor or a quotient that does not fit throws.
Divide(dividend, divisor, lowest, highest) ==
    /\ UNCHANGED <<m, eflags>>
    /\ IF divisor = 0 \/ (divisor # 0 /\ Quot(dividend, divisor) \notin lowest .. highest)
       THEN fault' = TRUE /\ UNCHANGED <<eax, edx>>
       ELSE /\ eax' = truncate(Quot(dividend, divisor))
            /\ edx' = truncate(Rem(dividend, divisor))
            /\ UNCHANGED fault

div  == Divide(edx * Modulus + eax, m, 0, Modulus - 1)
idiv == Divide(signExtend(edx) * Modulus + eax, signExtend(m), -(Modulus \div 2), Modulus \div 2 - 1)

\* Compare with the accumulator and exchange; edx is the source.
cmpxchg == /\ eflags' = sub(eflags, eax, m, 0).f
           /\ IF eax = m THEN m' = edx /\ UNCHANGED eax ELSE eax' = m /\ UNCHANGED m
           /\ UNCHANGED <<edx, fault>>

xadd == Set(m, add(eflags, m, edx, 0)) /\ edx' = m /\ UNCHANGED <<eax, fault>>

\* bsf and bsr leave the destination alone when there is no bit to find.
bitScan(forward) ==
    /\ eflags' = [eflags EXCEPT !.ZF = (m = 0)]
    /\ eax' = IF m = 0 THEN eax ELSE IF forward THEN Min(Bits[m]) ELSE Max(Bits[m])
    /\ UNCHANGED <<edx, m, fault>>

\* bt, bts, btr, btc: the old bit goes to the carry.  The index is cut to five
\* bits whatever the width, and names no bit of a shorter word beyond its end.
bitTest(op, i) ==
    LET bit == {i} \cap (0 .. Width - 1)
    IN  /\ eflags' = [eflags EXCEPT !.CF = i \in Bits[m]]
        /\ m' = FromBits(CASE op = "bt"  -> Bits[m]
                           [] op = "bts" -> Bits[m] \cup bit
                           [] op = "btr" -> Bits[m] \ bit
                           [] op = "btc" -> IF i \in Bits[m] THEN Bits[m] \ bit ELSE Bits[m] \cup bit)
        /\ UNCHANGED <<eax, edx, fault>>

\* cmovcc, and setcc for the byte 0 or 1.
cmov(code) == /\ eax' = IF cond(eflags, code) THEN m ELSE eax
              /\ UNCHANGED <<edx, m, eflags, fault>>

setcc(code) == /\ m' = IF cond(eflags, code) THEN 1 ELSE 0
               /\ UNCHANGED <<eax, edx, eflags, fault>>

\* A mov or a decoded operand: m may be any word, edx the old accumulator.
loadOperand == m' \in Word /\ edx' \in {edx, eax} /\ UNCHANGED <<eax, eflags, fault>>

UnitNext ==
    /\ ~fault
    /\ \/ \E kind \in Kind : aluStep(kind)
       \/ \E group \in Shift, count \in 0 .. MaxCount : shiftStep(group, count)
       \/ \E op \in {"bt", "bts", "btr", "btc"}, i \in 0 .. MaxCount : bitTest(op, i)
       \/ \E code \in Condition : cmov(code) \/ setcc(code)
       \/ \E forward \in BOOLEAN : bitScan(forward)
       \/ test \/ inc \/ dec \/ not \/ neg
       \/ mul \/ imul \/ imulReg \/ div \/ idiv
       \/ cmpxchg \/ xadd \/ loadOperand

UnitSpec == UnitInit /\ [][UnitNext]_unitVars

-----------------------------------------------------------------------------
\* The number a word stands for in two's complement.
Signed(v) == IF 2 * v >= Modulus THEN v - Modulus ELSE v

Numbers(a, b, f) ==
    /\ cond(f, "z") <=> (a = b)
    /\ cond(f, "b") <=> (a < b)
    /\ cond(f, "be") <=> (a <= b)
    /\ cond(f, "l") <=> (Signed(a) < Signed(b))
    /\ cond(f, "le") <=> (Signed(a) <= Signed(b))

\* The conditional jumps after a comparison decide as the numbers do, unsigned
\* and signed, and those after an addition tell when its result does not fit:
\* flags set by one instruction of cpu.js, read by cond() of the next.
BranchesDecide ==
    LET f == sub(eflags, eax, m, 0).f
        s == add(eflags, eax, m, carryIn(eflags))
        c == IF eflags.CF THEN 1 ELSE 0
    IN  /\ Numbers(eax, m, f)
        /\ cond(s.f, "b") <=> (s.r # eax + m + c)
        /\ cond(s.f, "o") <=> (Signed(s.r) # Signed(eax) + Signed(m) + c)

\* Numbers of two words: add and adc, sub and sbb give the sum and the
\* difference of edx:eax and b:m, and the last carry tells whether they fit.
WideArithmetic ==
    \A b \in Word :
        LET x    == edx * Modulus + eax
            y    == b * Modulus + m
            low  == alu("add", eflags, eax, m)
            high == alu("adc", low.f, edx, b)
            lowd == alu("sub", eflags, eax, m)
            highd == alu("sbb", lowd.f, edx, b)
        IN  /\ high.r * Modulus + low.r + (IF high.f.CF THEN Modulus * Modulus ELSE 0) = x + y
            /\ highd.r * Modulus + lowd.r - (IF highd.f.CF THEN Modulus * Modulus ELSE 0) = x - y

\* A shift or rotate by n is n shifts by one: same result, same carry.  sar by
\* more than the width is left out (known deviation).
ShiftsCompose ==
    \A group \in Shift, n \in 1 .. MaxCount :
        (group = "sar" => n <= Width) =>
            LET once  == shiftRotate(eflags, group, m, n)
                first == shiftRotate(eflags, group, m, n - 1)
                step  == shiftRotate(first.f, group, first.r, 1)
            IN  once.r = step.r /\ once.f.CF = step.f.CF

\* A product divided by one of its factors gives the other; a quotient and a
\* remainder give the dividend back, and the remainder has its sign.
DividesBack ==
    [][unitVars' # unitVars =>
       /\ mul => edx' * Modulus + eax' = eax * m
       /\ imul => Signed(edx') * Modulus + eax' = Signed(eax) * Signed(m)
       /\ div /\ ~fault' => eax' * m + edx' = edx * Modulus + eax /\ edx' < m
       /\ idiv /\ ~fault' =>
             LET n == Signed(edx) * Modulus + eax
             IN  /\ Signed(eax') * Signed(m) + Signed(edx') = n
                 /\ Abs(Signed(edx')) < Abs(Signed(m))
                 /\ Signed(edx') # 0 => (Signed(edx') < 0) = (n < 0)]_unitVars
=============================================================================
