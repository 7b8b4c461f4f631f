------------------------------- MODULE AsmX86 -------------------------------
(***************************************************************************)
(* What asm-x86_64.c writes: for every function of emit.h, the             *)
(* instructions it puts into the listing.                                  *)
(***************************************************************************)
EXTENDS Machine, Types

CONSTANTS Scratch, Callee, Param, Ret     \* registers of each class, by number

\* reg_t's of the backend.
ScratchReg(i, n) == Reg("SCRATCH", i, n, Plain(NoBase))
Frame == Reg("FRAME", 0, 8, Plain(NoBase))

buf_putreg(r) ==
  CASE r.reg_type = "SCRATCH" -> Scratch[r.offset + 1]
    [] r.reg_type = "NREG"    -> Callee[r.offset + 1]
    [] r.reg_type = "PARAM"   -> Param[r.offset + 1]
    [] r.reg_type = "RET"     -> Ret[r.offset + 1]
    [] r.reg_type = "FRAME"   -> 5
    [] r.reg_type = "STACK"   -> 4
Size(r) == IF r.rsize = 0 THEN 4 ELSE r.rsize
Use(r) == Low(buf_putreg(r), Size(r))
Wide(r) == Low(buf_putreg(r), 8)

\* An instruction on two registers has to name both at one size.
emit_rr(op, dst, src, clobbers) ==
  IF Size(dst) # Size(src) THEN <<Bad>>
  ELSE <<Ins(op, buf_putreg(dst), Size(dst),
             IF op = "mov" THEN Use(src) ELSE Use(dst), Use(src), clobbers)>>
Mov(dst, src) == emit_rr("mov", dst, src, FALSE)
Alu(op, dst, src) == emit_rr(op, dst, src, TRUE)
FitsImmediate(v, n) == FitsSigned(v, 4) \/ (n <= 4 /\ v \in 0 .. Values(4) - 1)
emit_ri(op, dst, v) ==
  IF FitsImmediate(v, Size(dst)) THEN <<Ins(op, buf_putreg(dst), Size(dst), Use(dst), Imm(v), TRUE)>> ELSE <<Bad>>

emit_zero_out(dst) == <<Ins("mov", buf_putreg(dst), Size(dst), Imm(0), Imm(0), TRUE)>>

emit_mov(dst, value) ==
  IF value = 0 THEN emit_zero_out(dst)
  ELSE <<Ins("mov", buf_putreg(dst), Size(dst), Imm(value), Imm(0), FALSE)>>

emit_mov_reg(dst, src) ==
  LET extends == dst.rsize # 0 /\ src.rsize # 0 /\ dst.rsize > src.rsize
      signed  == src.dtype.base.sign
      clears  == ~signed /\ dst.rsize = 8 /\ src.rsize = 4     \* a plain mov will do
      Extending(n) == <<Ins("mov", buf_putreg(dst), n,
                            Extended(buf_putreg(src), src.rsize, signed), Imm(0), FALSE)>>
  IN  CASE extends /\ clears      -> Extending(4)
        [] extends /\ ~clears     -> Extending(dst.rsize)
        [] dst.rsize < src.rsize  -> Mov(Sized(dst, src.rsize), src)
        [] OTHER                  -> Mov(dst, src)

\* lea, which has no form for bytes.
Lea(dst, base, index, disp) ==
  IF Size(dst) = 1 \/ ~FitsSigned(disp, 4) THEN <<Bad>>
  ELSE <<Ins("mov", buf_putreg(dst), Size(dst), Address(base, index, disp), Imm(0), FALSE)>>

emit_add(dst, lhs, v) == Lea(dst, buf_putreg(lhs), NoIndex, v)
emit_sub(dst, lhs, v) == Lea(dst, buf_putreg(lhs), NoIndex, 0 - v)

emit_add_reg(dst, lhs, rhs) ==
  LET wide   == IF lhs.rsize > rhs.rsize THEN lhs ELSE rhs
      narrow == IF lhs.rsize > rhs.rsize THEN rhs ELSE lhs
  IN  IF lhs.rsize # rhs.rsize
      THEN emit_mov_reg(dst, narrow) \o Alu("add", dst, Sized(wide, dst.rsize))
      ELSE Lea(dst, buf_putreg(lhs), Wide(rhs), 0)

\* mutant: a narrower operand is taken from, not away
emit_sub_reg_backwards(dst, lhs, rhs) ==
  LET whole(r) == Sized(r, dst.rsize)
  IN  CASE lhs.rsize = rhs.rsize -> Mov(dst, lhs) \o Alu("sub", dst, rhs)
        [] rhs.rsize < lhs.rsize -> emit_mov_reg(dst, rhs) \o Alu("sub", dst, whole(lhs))
        [] OTHER                 -> emit_mov_reg(dst, lhs) \o Alu("sub", dst, whole(rhs))
\* mutant: the difference is formed in the first operand
emit_sub_reg_in_place(dst, lhs, rhs) == Alu("sub", lhs, rhs) \o Mov(dst, lhs)
emit_sub_reg(dst, lhs, rhs) ==
  LET whole(r) == Sized(r, dst.rsize)
      neg == <<Ins("sub", buf_putreg(dst), Size(dst), Imm(0), Use(dst), TRUE)>>
  IN  CASE lhs.rsize = rhs.rsize -> Mov(dst, lhs) \o Alu("sub", dst, rhs)
        [] rhs.rsize < lhs.rsize -> emit_mov_reg(dst, rhs) \o Alu("sub", dst, whole(lhs)) \o neg
        [] OTHER                 -> emit_mov_reg(dst, lhs) \o Alu("sub", dst, whole(rhs))

Compare(x, n, y) == <<Ins("cmp", Zero, n, x, y, FALSE)>>
emit_cmp(lhs, v) ==
  IF FitsImmediate(v, Size(lhs)) THEN Compare(Use(lhs), Size(lhs), Imm(v)) ELSE <<Bad>>

\* mutant: a narrower operand is widened in the second scratch register
emit_cmp_reg_second(lhs, rhs, cond) ==
  LET n   == IF lhs.rsize > rhs.rsize THEN lhs.rsize ELSE rhs.rsize
      tmp == ScratchReg(1, n)
  IN  CASE lhs.rsize = rhs.rsize -> Compare(Use(lhs), Size(lhs), Use(rhs))
        [] rhs.rsize < lhs.rsize -> emit_mov_reg(tmp, rhs) \o Compare(Use(lhs), n, Use(tmp))
        [] lhs.rsize < rhs.rsize -> emit_mov_reg(tmp, lhs) \o Compare(Use(tmp), n, Use(rhs))
emit_cmp_reg(lhs, rhs, cond) ==
  LET n   == IF lhs.rsize > rhs.rsize THEN lhs.rsize ELSE rhs.rsize
      tmp == ScratchReg(0, n)
      both(x, y) == IF Size(x) = Size(y) THEN Compare(Use(x), Size(x), Use(y)) ELSE <<Bad>>
  IN  CASE lhs.rsize = rhs.rsize -> both(lhs, rhs)
        [] rhs.rsize < lhs.rsize -> emit_mov_reg(tmp, rhs) \o both(Sized(lhs, n), tmp)
        [] lhs.rsize < rhs.rsize /\ cond \in {"EQ", "NE"} -> both(Sized(lhs, n), Sized(rhs, n))
        [] OTHER                 -> emit_mov_reg(tmp, lhs) \o both(tmp, Sized(rhs, n))

emit_lsl(dst, lhs, v) ==
  CASE v >= 4 -> Mov(dst, lhs) \o emit_ri("shl", dst, v)
    [] v = 0  -> emit_mov_reg(dst, lhs)
    [] v = 1  -> emit_add_reg(dst, lhs, lhs)
    [] OTHER  ->                    \* lea dst, [lhs*2^v]
       IF Size(dst) = 1 THEN <<Bad>>
       ELSE <<Ins("mov", buf_putreg(dst), Size(dst),
                  Scaled(buf_putreg(lhs), 8, FALSE, 2 ^ v), Imm(0), FALSE)>>

emit_cond_set(dst, cond) ==
  LET byte == Low(buf_putreg(dst), 1)
      wide == IF dst.rsize <= 1 THEN 4 ELSE dst.rsize
  IN  <<Ins("mov", buf_putreg(dst), 1, If(cond), Imm(0), FALSE),
        Ins("mov", buf_putreg(dst), wide, byte, Imm(0), FALSE)>>
emit_branch_cond(cond) == <<Leave(cond)>>

-----------------------------------------------------------------------------
(* Loads and stores.  dst (of a store) and src (of a load) hold an address. *)

Store(value, n, at) == <<Ins("store", Zero, n, value, at, FALSE)>>
Load(dst, at) ==
  <<Ins("mov", buf_putreg(dst), Size(dst), Loaded(at, Size(dst), FALSE), Imm(0), FALSE)>>

emit_str_reg(dst, src, offset) ==
  Store(Use(src), Size(src), Address(buf_putreg(dst), NoIndex, offset))
emit_mem_imm(n, dst, offset, v) ==
  Store(Imm(v), n, Address(buf_putreg(dst), NoIndex, offset))
\* A 64-bit immediate has no direct form in memory and goes as two halves.
emit_str_imm(dst, v, offset) ==
  IF dst.dtype.base.size = 8 /\ ~FitsSigned(v, 4)
  THEN emit_mem_imm(4, dst, offset, Signed(v, 4))
         \o emit_mem_imm(4, dst, offset + 4, Signed(v \div Values(4), 4))
  ELSE emit_mem_imm(dst.dtype.base.size, dst, offset, v)
emit_ldr(dst, src, offset) == Load(dst, Address(buf_putreg(src), NoIndex, offset))

\* The sum of a base and an index, in a register of its own.
Sum(dst, base, index) == Lea(Sized(dst, 8), buf_putreg(base), Wide(index), 0)

emit_str_regoff(dst, src, offset) ==
  LET taken == src.reg_type = "SCRATCH" /\ src.offset = 0
      addr  == ScratchReg(IF taken THEN 1 ELSE 0, 8)   \* must not overwrite the value
  IN  Sum(addr, dst, offset) \o emit_str_reg(addr, src, 0)
emit_str_imm_regoff(dst, v, offset) ==
  LET addr == Reg("SCRATCH", 0, 8, dst.dtype)
  IN  Sum(addr, dst, offset) \o emit_str_imm(addr, v, 0)
emit_ldr_reg(dst, src, offset) == Sum(dst, src, offset) \o emit_ldr(dst, dst, 0)

-----------------------------------------------------------------------------
(* Aggregates and arrays.                                                  *)

\* mutant: a register is shifted where it is, a constant or-ed as it is
emit_member_in_place(dst, tmp, memb, arg, written) ==
  LET place == memb.offset % 8
      n   == IF memb.size > 4 THEN 8 ELSE memb.size
      reg == Sized(arg.reg, 8)
  IN  IF arg.tag = "VALUE"
      THEN IF written THEN emit_ri("or", dst, Signed(arg.value * Values(place), 8))
           ELSE emit_mov(dst, Signed(arg.value * Values(place), 8))
      ELSE emit_mov_reg(reg, Sized(arg.reg, n)) \o emit_ri("shl", reg, place * ByteBits)
           \o (IF written THEN Alu("or", dst, reg) ELSE Mov(dst, reg))
\* One member of a struct literal goes to its place in the eight bytes of dst.
emit_member_value(dst, tmp, shifted, written) ==
  CASE ~written -> emit_mov(dst, shifted)
    [] written /\ shifted = 0 -> << >>
    [] written /\ shifted # 0 ->
         IF FitsSigned(shifted, 4) THEN emit_ri("or", dst, shifted)
         ELSE emit_mov(tmp, shifted) \o Alu("or", dst, tmp)
\* `source' is where the member is once its address, if it is one, is there.
emit_member_reg(dst, tmp, source, place, written) ==
  LET join(src) == IF written THEN Alu("or", dst, src) ELSE Mov(dst, src)
  IN  IF place = 0 /\ source.rsize = dst.rsize THEN join(source)
      ELSE (IF source.rsize < 8 THEN emit_mov_reg(tmp, source) ELSE Mov(tmp, source))
           \o (IF place = 0 THEN << >> ELSE emit_ri("shl", tmp, place * ByteBits))
           \o join(tmp)
emit_member(dst, tmp, memb, arg, written) ==
  LET place == memb.offset % 8
      n     == CASE memb.size < 4 -> memb.size [] memb.size = 4 -> 4 [] OTHER -> 8
      from(onStack) ==
        (IF onStack THEN emit_sub(tmp, Frame, arg.reg.offset) ELSE << >>)
          \o emit_member_reg(dst, tmp, Sized(IF onStack THEN tmp ELSE arg.reg, n), place, written)
  IN  CASE arg.tag = "VALUE" ->
             emit_member_value(dst, tmp, Signed(arg.value * Values(place), 8), written)
        [] arg.tag = "REG" -> from(arg.reg.reg_type = "STACK")
        [] arg.tag = "AGGREGATE" -> << >>

\* As many members after s.index as the sizes of up to eight bytes allow.
eightbyte_next(dst, tmp, members, args, s) ==
  LET i == s.index + 1
  IN  IF i > Len(args) \/ s.size + members[i].size > 8 THEN s
      ELSE [code |-> s.code \o emit_member(dst, tmp, members[i], args[i], s.written),
            written |-> s.written \/ args[i].tag # "AGGREGATE",
            size |-> s.size + members[i].size, index |-> i]
eightbyte_from(dst, tmp, members, args, s) ==
  LET after[k \in 0 .. Len(args)] ==
        IF k = 0 THEN s ELSE eightbyte_next(dst, tmp, members, args, after[k - 1])
  IN  after[Len(args)]
emit_eightbyte_struct(dst0, dtype, args, index, limit) ==
  LET remaining == (Len(args) - index) * dtype.base.size
      span == IF remaining > 8 THEN 8 ELSE remaining
      dst  == IF is_array(dtype)
              THEN Sized(dst0, CASE span > 4 -> 8 [] span \in {3, 4} -> 4 [] span = 2 -> 2 [] OTHER -> 1)
              ELSE dst0
      tmp  == ScratchReg(IF dst.reg_type = "SCRATCH" /\ dst.offset >= 1 THEN dst.offset + 1 ELSE 1, 8)
  IN  eightbyte_from(dst, tmp, LayoutOf(dtype, Len(args)), args,
                     [code |-> << >>, written |-> FALSE, size |-> 0, index |-> index])

emit_store_eightbytes(base, offset, lo, lo_written, hi, hi_written, has_hi) ==
  LET whole(r) == IF has_hi THEN Sized(r, 8) ELSE r
      put(r, written, at) ==
        (IF written THEN << >> ELSE emit_zero_out(r)) \o emit_str_reg(base, r, at)
  IN  put(whole(lo), lo_written, offset)
        \o (IF has_hi THEN put(whole(hi), hi_written, offset + 8) ELSE << >>)

emit_store_packed(base, offset, src, nbytes) ==
  Each(ChunksOf(nbytes),
       LAMBDA c : emit_str_reg(base, Sized(src, c.n), offset + c.at)
                    \o (IF c.at + c.n = nbytes THEN << >>
                        ELSE <<Ins("shr", buf_putreg(src), 8, Wide(src), Imm(c.n * ByteBits), TRUE)>>))

emit_zerofill(base, offset, dtype) ==
  LET zero == ScratchReg(1, 8)
  IN  emit_zero_out(zero)
        \o Each(ChunksOf(dtype_size(dtype)), LAMBDA c : emit_str_reg(base, Sized(zero, c.n), offset + c.at))

\* An index of one or two bytes is widened where it is.
Widened(index) ==
  IF index.rsize \in {1, 2} THEN emit_mov_reg(Sized(index, 8), index) ELSE << >>
Multiply(idx, index, size) ==
  emit_mov_reg(idx, Sized(index, 8))
    \o <<Ins("mul", buf_putreg(idx), 8, Wide(idx), Imm(size), TRUE)>>

\* The element `index' of the array at `mem', where an array on the stack is
\* named by its distance from the frame.
emit_array_access(dst, src, index, is_store) ==
  LET mem0  == IF is_store THEN dst ELSE src
      value == IF is_store THEN src ELSE dst
      size  == mem0.dtype.base.size
      onStack == mem0.reg_type = "STACK" /\ mem0.offset # 0
      mem == Sized(IF onStack THEN [mem0 EXCEPT !.reg_type = "SCRATCH", !.offset = 2] ELSE mem0, 8)
      idx == ScratchReg(1, 8)
      at  == Address(buf_putreg(mem), Scaled(buf_putreg(index), 8, FALSE, size), 0)
  IN  (IF onStack THEN emit_sub(mem, Frame, mem0.offset) ELSE << >>)
      \o Widened(index)
      \o (CASE size = 1 -> IF is_store THEN emit_str_regoff(mem, value, index)
                                      ELSE emit_ldr_reg(value, mem, index)
            [] size \in {2, 4, 8} -> IF is_store THEN Store(Use(value), Size(value), at)
                                     ELSE Load(value, at)
            [] OTHER -> Multiply(idx, index, size) \o emit_add_reg(idx, mem, idx)
                        \o (IF is_store THEN emit_str_reg(idx, value, 0) ELSE emit_ldr(value, idx, 0)))

emit_elem_addr(dst, object, index) ==
  LET base == ScratchReg(0, 8)
      size == object.dtype.base.size
      idx  == ScratchReg(1, 8)
  IN  (IF object.reg_type = "STACK" THEN emit_sub(base, Frame, object.offset)
       ELSE emit_mov_reg(base, object))
      \o Widened(index)
      \o (IF size \in {1, 2, 4, 8}
          THEN Lea(dst, buf_putreg(base), Scaled(buf_putreg(index), 8, FALSE, size), 0)
          ELSE Multiply(idx, index, size) \o emit_add_reg(dst, base, idx))
=============================================================================
