------------------------------ MODULE Machine -------------------------------
(***************************************************************************)
(* The processor the compiler writes for, as far as its instructions use   *)
(* it: sixteen (or thirty-two) registers of eight bytes, flags, and a      *)
(* small memory.  A byte has ByteBits bits: eight in the hardware, fewer   *)
(* in a check, so that words are small enough to enumerate.                *)
(* Both instruction sets are sets of the same three-operand instructions;  *)
(* what differs is which of them each backend can write.                   *)
(***************************************************************************)
EXTENDS Integers, Sequences

CONSTANTS ByteBits,               \* bits of a byte
          Memory                  \* addresses 0 .. Memory - 1

ASSUME MachineAssumption == ByteBits \in Nat \ {0} /\ Memory \in Nat

\* Powers of two, as far as the places in an object go.
TwoTo ==
  LET power[k \in 0 .. 15 * ByteBits] == IF k = 0 THEN 1 ELSE 2 * power[k - 1]
  IN  [k \in 0 .. 15 * ByteBits |-> power[k]]
Base == TwoTo[ByteBits]           \* values of a byte
Values(n) == TwoTo[n * ByteBits]  \* values of n bytes
Unsigned(v, n) == v % Values(n)
Signed(v, n) ==
  LET from(u, all) == IF 2 * u >= all THEN u - all ELSE u
  IN  from(Unsigned(v, n), Values(n))
FitsSigned(v, n) == v = Signed(v, n)

Zero == 99                        \* the register that is always zero (aarch64)

\* Operands: an immediate, a register (its low n bytes, extended, times a
\* power of two), an address, and what memory holds at an address.
Imm(v) == [k |-> "imm", v |-> v]
Scaled(r, n, sign, times) == [k |-> "reg", r |-> r, n |-> n, sign |-> sign, times |-> times]
Low(r, n) == Scaled(r, n, FALSE, 1)
Extended(r, n, sign) == Scaled(r, n, sign, 1)
NoIndex == Imm(0)
Address(base, index, disp) == [k |-> "addr", base |-> base, index |-> index, disp |-> disp]
Loaded(address, n, sign) == [k |-> "mem", at |-> address, n |-> n, sign |-> sign]
If(cond) == [k |-> "cond", cond |-> cond]
\* The low n bytes of an operand, to be put at byte `from' of another value.
Piece(o, n, from) == [k |-> "piece", o |-> o, n |-> n, from |-> from]

\* Instructions: `n' is the size they work at, `clobbers' whether they leave
\* the flags undefined; Bad is a line the assembler does not take.
Ins(op, d, n, a, b, clobbers) ==
  [op |-> op, d |-> d, n |-> n, a |-> a, b |-> b, clobbers |-> clobbers]
Bad == Ins("bad", Zero, 8, Imm(0), Imm(0), FALSE)
\* A conditional branch out of the code at hand.
Leave(cond) == Ins("leave", Zero, 8, If(cond), Imm(0), FALSE)

\* What is compared, at which size; or nothing defined.
NoFlags == [valid |-> FALSE, x |-> 0, y |-> 0, n |-> 8]

RegValue(m, r) == IF r = Zero THEN 0 ELSE m.reg[r]

\* The n bytes at `at', the last one most significant.
Bytes(m, at, n) ==
  LET last[k \in 0 .. n] == IF k = 0 THEN 0 ELSE m.mem[at + n - k] + Base * last[k - 1]
  IN  last[n]

Extend(v, n, sign) == IF sign THEN Signed(v, n) ELSE Unsigned(v, n)

Simple(m, o) == IF o.k = "imm" THEN o.v ELSE Extend(RegValue(m, o.r), o.n, o.sign) * o.times
At(m, a) == Unsigned(RegValue(m, a.base) + Simple(m, a.index) + a.disp, 8)
Mapped(at, n) == at + n <= Memory
Content(m, at, n, sign) == IF Mapped(at, n) THEN Extend(Bytes(m, at, n), n, sign) ELSE 0

\* Conditions, read from the flags a comparison leaves (cond_t).
Ordered(cond, x, y, sx, sy) ==
  CASE cond = "EQ" -> x = y    [] cond = "NE" -> x # y
    [] cond = "HS" -> x >= y   [] cond = "LO" -> x < y
    [] cond = "HI" -> x > y    [] cond = "LS" -> x <= y
    [] cond = "GE" -> sx >= sy [] cond = "LT" -> sx < sy
    [] cond = "GT" -> sx > sy  [] cond = "LE" -> sx <= sy
Holds(cond, f) ==
  Ordered(cond, Unsigned(f.x, f.n), Unsigned(f.y, f.n), Signed(f.x, f.n), Signed(f.y, f.n))

Operand(m, o) ==
  CASE o.k = "addr" -> At(m, o)
    [] o.k = "mem"  -> Content(m, At(m, o.at), o.n, o.sign)
    [] o.k = "cond" -> IF Holds(o.cond, m.flags) THEN 1 ELSE 0
    [] o.k = "piece" -> Unsigned(Simple(m, o.o), o.n) * Values(o.from)
    [] OTHER        -> Simple(m, o)

\* Reading where nothing is mapped, or flags that no comparison has set.
Defined(m, o) ==
  CASE o.k = "mem" -> Mapped(At(m, o.at), o.n) [] o.k = "cond" -> m.flags.valid
    [] OTHER -> TRUE

\* Eight bytes replace a register, four clear its upper half, fewer keep it.
Put(reg, d, n, v) ==
  IF d = Zero THEN reg
  ELSE [reg EXCEPT ![d] = CASE n = 8 -> Unsigned(v, 8)
                            [] n = 4 -> Unsigned(v, 4)
                            [] OTHER -> @ - Unsigned(@, n) + Unsigned(v, n)]

\* Bit by bit, on eight bytes.
Bit(v, k) == (v \div TwoTo[k]) % 2
Or(x, y) ==
  LET below[k \in 0 .. 8 * ByteBits] ==
        IF k = 0 THEN 0
        ELSE below[k - 1] + (IF Bit(x, k - 1) + Bit(y, k - 1) = 0 THEN 0 ELSE TwoTo[k - 1])
  IN  below[8 * ByteBits]

\* The value of an instruction with operands x and y.
Result(i, x, y) ==
  CASE i.op = "mov" -> x
    [] i.op = "add" -> x + y
    [] i.op = "sub" -> x - y
    [] i.op = "mul" -> x * y
    [] i.op = "shl" -> x * TwoTo[y]
    [] i.op = "shr" -> Unsigned(x, i.n) \div TwoTo[y]
    [] i.op = "or"  -> Or(Unsigned(x, 8), Unsigned(y, 8))
    [] i.op = "insert" -> x - (Unsigned(x, i.b.from + i.b.n) - Unsigned(x, i.b.from)) + y

\* n bytes of v at `at'.
Written(mem, at, n, v) ==
  [p \in DOMAIN mem |-> IF p \in at .. at + n - 1 THEN (v \div Values(p - at)) % Base ELSE mem[p]]
Keep(m, at, n, v) == IF Mapped(at, n) THEN [m EXCEPT !.mem = Written(@, at, n, v)] ELSE [m EXCEPT !.ok = FALSE]
Effect(m, i, x, y) ==
  CASE i.op = "bad" -> [m EXCEPT !.ok = FALSE]
    [] i.op = "cmp" -> [m EXCEPT !.flags = [valid |-> TRUE, x |-> x, y |-> y, n |-> i.n]]
    [] i.op = "leave" -> [m EXCEPT !.ok = @ /\ Defined(m, i.a), !.left = x = 1]
    [] i.op = "store" -> Keep(m, y, i.n, x)
    [] OTHER -> [m EXCEPT !.ok = @ /\ Defined(m, i.a),
                          !.reg = Put(@, i.d, i.n, Result(i, x, y)),
                          !.flags = IF i.clobbers THEN NoFlags ELSE @]
Exec(m, i) == Effect(m, i, Operand(m, i.a), Operand(m, i.b))

\* Pieces of code, one after the other; and the code for each element of a sequence.
Joined(pieces) ==
  LET upto[k \in 0 .. Len(pieces)] == IF k = 0 THEN << >> ELSE upto[k - 1] \o pieces[k]
  IN  upto[Len(pieces)]
Each(s, code(_)) == Joined([i \in DOMAIN s |-> code(s[i])])

\* Instruction after instruction, until one of them leaves.
Run(m, code) ==
  LET after[k \in 0 .. Len(code)] ==
        IF k = 0 THEN m
        ELSE LET so_far == after[k - 1] IN IF so_far.left THEN so_far ELSE Exec(so_far, code[k])
  IN  after[Len(code)]
=============================================================================
