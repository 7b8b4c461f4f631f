----------------------------- MODULE DecodeArm ------------------------------
(***************************************************************************)
(* How the processor reads the words bin-aarch64.c writes.  Register 31 is *)
(* the stack pointer where an address is or an immediate is added, and     *)
(* always zero elsewhere.                                                  *)
(***************************************************************************)
EXTENDS Machine

Data(r) == IF r = 31 THEN Zero ELSE r
SignedField(v, bits) == IF v >= 2 ^ (bits - 1) THEN v - 2 ^ bits ELSE v

\* ubfm and bfm: the low imms + 1 bits of a register go up to bit
\* width - immr, or the bits from immr on come down.
BitField(w, n) ==
  LET width == n * ByteBits
      lsb   == width - w.imm
      src   == Low(Data(w.rn), n)
      part  == Piece(src, (w.opt + 1) \div ByteBits, lsb \div ByteBits)
  IN  CASE w.op = "ubfm" /\ w.opt = width - 1 -> Ins("shr", w.rd, n, src, Imm(w.imm), FALSE)
        [] w.op = "ubfm" /\ w.opt + 1 = w.imm -> Ins("shl", w.rd, n, src, Imm(lsb), FALSE)
        [] w.op = "ubfm" /\ w.opt + 1 < w.imm -> Ins("mov", w.rd, n, part, Imm(0), FALSE)
        [] w.op = "bfm" /\ w.opt < w.imm      -> Ins("insert", w.rd, n, Low(w.rd, n), part, FALSE)
        [] OTHER -> Bad

Arithmetic(op, w, n, x, y) ==
  IF op \in {"subs imm", "subs", "subs ext"} THEN Ins("cmp", Zero, n, x, y, FALSE)
  ELSE Ins(IF op \in {"add imm", "add", "add ext"} THEN "add" ELSE "sub",
           IF op \in {"add", "sub"} THEN Data(w.rd) ELSE w.rd, n, x, y, FALSE)

DecodeAccess(w) ==
  LET at == IF w.rm # 31
            THEN Address(w.rn, Scaled(w.rm, 8, FALSE, IF w.shift THEN w.sf ELSE 1), 0)
            ELSE Address(w.rn, NoIndex, IF w.opt THEN w.imm * w.sf ELSE SignedField(w.imm, 9))
  IN  CASE w.op = "str"  -> <<Ins("store", Zero, w.sf, Low(Data(w.rd), w.sf), at, FALSE)>>
        [] w.op = "ldr"  -> <<Ins("mov", w.rd, IF w.sf = 8 THEN 8 ELSE 4, Loaded(at, w.sf, FALSE), Imm(0), FALSE)>>
        [] w.op = "ldrs" -> <<Ins("mov", w.rd, 8, Loaded(at, w.sf, TRUE), Imm(0), FALSE)>>

DecodeOne(w) ==
  LET n == IF w.sf = TRUE THEN 8 ELSE 4
      chunk == Piece(Imm(w.imm), 2, 2 * w.shift)
      amount == (IF w.shift = TRUE THEN 4096 ELSE 1) * w.imm
      Mov(x) == <<Ins("mov", w.rd, n, x, Imm(0), FALSE)>>
  IN  CASE w.op = "movz" -> Mov(chunk)
        [] w.op = "movn" -> Mov(Imm(0 - 1 - w.imm * Values(2 * w.shift)))
        [] w.op = "movk" -> <<Ins("insert", w.rd, n, Low(w.rd, n), chunk, FALSE)>>
        [] w.op = "and"  -> Mov(Extended(w.rn, w.imm, FALSE))
        [] w.op = "sbfm" -> Mov(Extended(w.rn, w.imm, TRUE))
        [] w.op = "orr" /\ w.rn = 31 -> Mov(Low(Data(w.rm), n))
        [] w.op = "orr" /\ w.rn # 31 -> <<Ins("or", w.rd, n, Low(w.rn, n), Low(Data(w.rm), n), FALSE)>>
        [] w.op \in {"ubfm", "bfm"} -> <<BitField(w, n)>>
        [] w.op = "cset" -> Mov(If(w.imm))
        [] w.op = "b.cond" -> <<Leave(w.imm)>>
        [] w.op \in {"add imm", "sub imm", "subs imm"} ->
             <<Arithmetic(w.op, w, n, Low(w.rn, n), Imm(IF w.rm THEN 0 - amount ELSE amount))>>
        [] w.op \in {"add", "sub", "subs"} ->
             <<Arithmetic(w.op, w, n, Low(Data(w.rn), n), Scaled(Data(w.rm), n, FALSE, 2 ^ w.shift))>>
        [] w.op \in {"add ext", "sub ext", "subs ext"} ->
             <<Arithmetic(w.op, w, n, Low(w.rn, n),
                          Scaled(Data(w.rm), w.opt[1].size, w.opt[1].sign, 2 ^ w.shift))>>
        [] w.op = "smull" -> <<Ins("mul", w.rd, 8, Extended(w.rn, 4, TRUE), Extended(Data(w.rm), 4, TRUE), FALSE)>>
        [] w.op = "stp" ->
             LET at == SignedField(w.imm, 7) * 8
             IN  <<Ins("store", Zero, 8, Low(Data(w.rd), 8), Address(w.rn, NoIndex, at), FALSE),
                   Ins("store", Zero, 8, Low(Data(w.rm), 8), Address(w.rn, NoIndex, at + 8), FALSE)>>
        [] OTHER -> DecodeAccess(w)

Decode(words) == Each(words, DecodeOne)
=============================================================================
