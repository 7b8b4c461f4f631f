----------------------------- MODULE DecodeX86 ------------------------------
(***************************************************************************)
(* How the processor reads the bytes bin-x86_64.c writes: prefixes, opcode, *)
(* ModRM, SIB, displacement and immediate give back instructions.  What is *)
(* no instruction, or one that no line of the assembler backend stands for, *)
(* is Bad.  Opcodes are real bytes; the bytes of immediates and             *)
(* displacements are digits of Base.                                       *)
(***************************************************************************)
EXTENDS Machine

Number(digits) ==
  LET last[k \in 0 .. Len(digits)] == IF k = 0 THEN 0 ELSE digits[Len(digits) + 1 - k] + Base * last[k - 1]
  IN  last[Len(digits)]
SignedNumber(digits) == Signed(Number(digits), Len(digits))

Take(s, n) == SubSeq(s, 1, n)
Drop(s, n) == SubSeq(s, n + 1, Len(s))

\* The prefixes: p.n is the size they select, p.r, p.x, p.b extend registers.
PrefixesOf(s) ==
  LET small == Head(s) = 102
      t     == IF small THEN Tail(s) ELSE s
      rex   == IF Head(t) \in 64 .. 79 THEN Head(t) - 64 ELSE 0
  IN  [n |-> CASE rex >= 8 -> 8 [] small -> 2 [] OTHER -> 4,
       r |-> 8 * ((rex \div 4) % 2), x |-> 8 * ((rex \div 2) % 2), b |-> 8 * (rex % 2),
       rex |-> Head(t) \in 64 .. 79,
       rest |-> IF Head(t) \in 64 .. 79 THEN Tail(t) ELSE t]

\* ModRM and what follows it: the register field, and a register or an address.
ModRM(p, s) ==
  LET mod == Head(s) \div 64   reg == (Head(s) \div 8) % 8   rm == Head(s) % 8
      sib  == mod # 3 /\ rm = 4
      base == (IF sib THEN s[2] % 8 ELSE rm)
      index == p.x + ((s[2] \div 8) % 8)
      noBase == mod = 0 /\ base = 5            \* relative to rip, or absolute
      dlen == CASE mod = 1 -> 1 [] mod = 2 \/ noBase -> 4 [] OTHER -> 0
      after == Drop(s, IF sib THEN 2 ELSE 1)
  IN  [reg |-> p.r + reg, field |-> reg, isReg |-> mod = 3, r |-> p.b + rm,
       bad  |-> mod # 3 /\ noBase,
       at   |-> Address(p.b + base,
                        IF sib /\ index # 4 THEN Scaled(index, 8, FALSE, 2 ^ (s[2] \div 64)) ELSE NoIndex,
                        IF dlen = 0 THEN 0 ELSE SignedNumber(Take(after, dlen))),
       rest |-> Drop(after, IF mod = 3 THEN 0 ELSE dlen)]

\* Without a REX prefix the bytes of registers 4 to 7 are those of others.
Named(p, n, r) == ~(n = 1 /\ r \in 4 .. 7 /\ ~p.rex)

AluOf == [c \in {0, 8, 40, 48, 56} |->
            CASE c = 0 -> "add" [] c = 8 -> "or" [] c = 40 -> "sub" [] c = 48 -> "xor" [] c = 56 -> "cmp"]
DigitOf == [d \in {0, 1, 5, 7} |->
            CASE d = 0 -> "add" [] d = 1 -> "or" [] d = 5 -> "sub" [] d = 7 -> "cmp"]

Two(op, d, n, x, y) ==
  CASE op = "cmp" -> Ins("cmp", Zero, n, x, y, FALSE)
    [] op = "xor" -> IF x = y THEN Ins("mov", d, n, Imm(0), Imm(0), TRUE) ELSE Bad
    [] OTHER      -> Ins(op, d, n, x, y, TRUE)
MovTo(d, n, x) == Ins("mov", d, n, x, Imm(0), FALSE)
ConditionOf(cc) ==
  CASE cc = 4 -> "EQ" [] cc = 5 -> "NE" [] cc = 3 -> "HS" [] cc = 2 -> "LO" [] cc = 7 -> "HI"
    [] cc = 6 -> "LS" [] cc = 13 -> "GE" [] cc = 12 -> "LT" [] cc = 15 -> "GT" [] cc = 14 -> "LE"

One(ins, rest) == [ins |-> <<ins>>, rest |-> rest]

\* Opcodes with a second byte.
DecodeTwoByte(p, c, s, m) ==
  LET from == IF c \in {182, 190} THEN 1 ELSE 2
  IN  CASE c \in 128 .. 143 -> One(Leave(ConditionOf(c - 128)), Drop(s, 4))
        [] c \in 144 .. 159 -> One(IF Named(p, 1, m.r)
                                   THEN MovTo(m.r, 1, If(ConditionOf(c - 144))) ELSE Bad, m.rest)
        [] c \in {182, 183, 190, 191} ->
             One(IF Named(p, from, m.r) THEN MovTo(m.reg, p.n, Extended(m.r, from, c >= 190)) ELSE Bad, m.rest)
        [] OTHER -> One(Bad, << >>)

\* Opcodes with a ModRM byte, read as m at n bytes.
DecodeModRM(p, c, n, m) ==
  LET digit == c \in {128, 129, 131, 192, 193, 198, 199, 246, 247}     \* the field is no register
      fine == ~m.bad /\ (m.isReg => Named(p, n, m.r)) /\ (digit \/ Named(p, n, m.reg))
      imm(len) == SignedNumber(Take(m.rest, len))
      full == IF n > 4 THEN 4 ELSE n
      Rm == Low(m.r, n)   R == Low(m.reg, n)
      even == c - (c % 2)
      \* The instruction and the number of bytes its immediate has.
      Ok(read) == One(IF fine THEN read[1] ELSE Bad, Drop(m.rest, read[2]))
  IN  Ok(CASE even \in DOMAIN AluOf /\ m.isReg -> <<Two(AluOf[even], m.r, n, Rm, R), 0>>
           [] even = 136 /\ m.isReg  -> <<MovTo(m.r, n, R), 0>>
           [] even = 136 /\ ~m.isReg -> <<Ins("store", Zero, n, R, m.at, FALSE), 0>>
           [] even = 138 /\ ~m.isReg -> <<MovTo(m.reg, n, Loaded(m.at, n, FALSE)), 0>>
           [] c = 141 /\ ~m.isReg    -> <<MovTo(m.reg, n, m.at), 0>>
           [] c = 99                 -> <<MovTo(m.reg, 8, Extended(m.r, 4, TRUE)), 0>>
           [] even = 198 /\ m.isReg  -> <<MovTo(m.r, n, Imm(imm(full))), full>>
           [] even = 198 /\ ~m.isReg -> <<Ins("store", Zero, n, Imm(imm(full)), m.at, FALSE), full>>
           [] c = 131                -> <<Two(DigitOf[m.field], m.r, n, Rm, Imm(imm(1))), 1>>
           [] c \in {128, 129}       -> <<Two(DigitOf[m.field], m.r, n, Rm, Imm(imm(full))), full>>
           [] even = 192             -> <<Ins(IF m.field = 4 THEN "shl" ELSE "shr", m.r, n, Rm,
                                             Imm(m.rest[1]), TRUE), 1>>
           [] even = 246             -> <<Ins("sub", m.r, n, Imm(0), Rm, TRUE), 0>>
           [] c = 107                -> <<Ins("mul", m.reg, n, Rm, Imm(imm(1)), TRUE), 1>>
           [] c = 105                -> <<Ins("mul", m.reg, n, Rm, Imm(imm(4)), TRUE), 4>>
           [] OTHER                  -> <<Bad, Len(m.rest)>>)

Push(r) == <<Ins("sub", 4, 8, Low(4, 8), Imm(8), FALSE),
             Ins("store", Zero, 8, Low(r, 8), Address(4, NoIndex, 0), FALSE)>>
Pop(r) == <<MovTo(r, 8, Loaded(Address(4, NoIndex, 0), 8, FALSE)),
            Ins("add", 4, 8, Low(4, 8), Imm(8), FALSE)>>

DecodeOpcode(p, c, t) ==
  LET r == p.b + (c % 8)
  IN  CASE c \in 184 .. 191 -> One(MovTo(r, p.n, Imm(SignedNumber(Take(t, p.n)))), Drop(t, p.n))
        [] c \in 176 .. 183 -> One(IF Named(p, 1, r) THEN MovTo(r, 1, Imm(SignedNumber(Take(t, 1)))) ELSE Bad,
                                   Drop(t, 1))
        [] c \in 80 .. 87   -> [ins |-> Push(r), rest |-> t]
        [] c \in 88 .. 95   -> [ins |-> Pop(r), rest |-> t]
        [] c = 15           -> DecodeTwoByte(p, Head(t), Tail(t), ModRM(p, Tail(t)))
        [] OTHER            -> DecodeModRM(p, c, IF c % 2 = 0 THEN 1 ELSE p.n, ModRM(p, t))
DecodeOne(p) == DecodeOpcode(p, Head(p.rest), Tail(p.rest))

\* The next instruction, once `s.code' has been read and `s.rest' is left.
DecodeNext(s) ==
  LET with(one) == [rest |-> one.rest, code |-> s.code \o one.ins]
  IN  IF s.rest = << >> THEN s ELSE with(DecodeOne(PrefixesOf(s.rest)))
DecodeFrom(s, code) ==
  LET after[k \in 0 .. Len(s)] ==
        IF k = 0 THEN [rest |-> s, code |-> code] ELSE DecodeNext(after[k - 1])
  IN  after[Len(s)].code
Decode(s) == DecodeFrom(s, << >>)
=============================================================================
