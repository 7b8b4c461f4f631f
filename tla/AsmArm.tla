------------------------------- MODULE AsmArm -------------------------------
(***************************************************************************)
(* What asm-aarch64.c writes: for every function of emit.h, the            *)
(* instructions it puts into the listing.  A register is used at four or   *)
(* at eight bytes; a narrow value is kept extended to four.                *)
(***************************************************************************)
EXTENDS Machine, Types

Frame == Reg("FRAME", 0, 8, Plain(NoBase))
ScratchReg(i, n, dtype) == Reg("SCRATCH", i, n, dtype)
xzr == Reg("NONE", 0, 8, Plain(NoBase))
wzr == Reg("NONE", 0, 4, Plain(NoBase))

get_regoff(r) ==
  CASE r.reg_type = "SCRATCH" -> r.offset + 8
    [] r.reg_type = "NREG"    -> r.offset + 19
    [] r.reg_type = "FRAME"   -> 29
    [] r.reg_type = "STACK"   -> 31
    [] r.reg_type = "NONE"    -> Zero
    [] OTHER                  -> r.offset
get_wx(n) == IF n <= 4 THEN 4 ELSE 8
Width(r) == get_wx(r.rsize)
Use(r) == Low(get_regoff(r), Width(r))

Op(op, dst, a, b) == <<Ins(op, get_regoff(dst), Width(dst), a, b, FALSE)>>
\* The registers of an instruction are all of one width.
OneWidth(regs, code) == IF \E x, y \in regs : Width(x) # Width(y) THEN <<Bad>> ELSE code
emit_rrr(op, dst, lhs, rhs) == OneWidth({dst, lhs, rhs}, Op(op, dst, Use(lhs), Use(rhs)))

\* Twelve bits, as they are or times 4096, of either sign.
AddImmediate(v) == LET u == IF v < 0 THEN 0 - v ELSE v
                   IN  u < 4096 \/ (u % 4096 = 0 /\ u < 4096 * 4096)
emit_rri(op, dst, lhs, v) ==
  IF AddImmediate(v) THEN OneWidth({dst, lhs}, Op(op, dst, Use(lhs), Imm(v))) ELSE <<Bad>>

\* One lane of two bytes that differs from all zeros or from all ones; the
\* patterns of logical immediates are left out.
Lane(v, k) == (v \div Values(2 * k)) % Values(2)
MovImmediate(v, n) ==
  /\ v >= 0 - (Values(n) \div 2) /\ v < Values(n)
  /\ \E c \in {0, Values(2) - 1}, k \in 0 .. (n \div 2) - 1 :
       \A j \in 0 .. (n \div 2) - 1 : j # k => Lane(v, j) = c
MovAlias(dst, v) ==
  IF MovImmediate(v, Width(dst)) THEN Op("mov", dst, Imm(v), Imm(0)) ELSE <<Bad>>

\* movz and movk: sixteen bits at their place, the others cleared or kept.
emit_mov_lane(dst, chunk, at, written) ==
  IF chunk \notin 0 .. Values(2) - 1 THEN <<Bad>>
  ELSE IF written THEN Op("insert", dst, Use(dst), Piece(Imm(chunk), 2, at))
  ELSE Op("mov", dst, Piece(Imm(chunk), 2, at), Imm(0))

emit_mov_wide(dst0, v) ==
  LET dst   == IF v > Values(4) - 1 THEN Sized(dst0, 8) ELSE dst0
      used  == {k \in 0 .. Width(dst) \div 2 - 1 : Lane(v, k) # 0}
      lane(k) == IF k \in used THEN emit_mov_lane(dst, Lane(v, k), 2 * k, \E j \in used : j < k) ELSE << >>
  IN  IF used = {} THEN emit_mov_lane(dst, 0, 0, FALSE)
      ELSE Joined([k \in 1 .. Width(dst) \div 2 |-> lane(k - 1)])
emit_mov(dst, v) ==
  CASE dst.dtype.base = Comptime /\ v <= Values(2) - 1 -> MovAlias(dst, Signed(v, 4))
    [] dst.dtype.base = Comptime /\ v > Values(2) - 1  -> emit_mov_wide(dst, v)
    [] OTHER -> MovAlias(dst, v)
emit_zero_out(dst) == emit_mov(dst, 0)

\* sxtb, sxth, sxtw or their unsigned forms, by the type of the source.
type_conv(dst, src) ==
  IF src.dtype.base.size \notin {1, 2, 4} THEN << >>
  ELSE Op("mov", dst, Extended(get_regoff(src), src.dtype.base.size, src.dtype.base.sign), Imm(0))
emit_mov_reg(dst0, src) ==
  LET dst == IF is_addr(dst0.dtype) THEN Sized(dst0, 8) ELSE dst0
  IN  CASE dst0 = src -> << >>
        [] dst0 # src /\ dst.rsize > src.rsize  -> type_conv(dst, src)
        [] dst0 # src /\ dst.rsize <= src.rsize ->
             Op("mov", dst, Low(get_regoff(src), Width(dst)), Imm(0))

emit_add(dst, lhs, v) == IF v = 0 THEN emit_mov_reg(dst, lhs) ELSE emit_rri("add", dst, lhs, v)
emit_sub(dst, lhs, v) == IF v = 0 THEN emit_mov_reg(dst, lhs) ELSE emit_rri("sub", dst, lhs, v)

\* The narrower operand comes second and is extended by its type.
Narrow(r) == LET t == r.dtype.base
             IN  Extended(get_regoff(r), IF t.tag # "NULL" /\ t.size \in {1, 2} THEN t.size ELSE 4, t.sign)
Longer(l, r) == IF l.rsize > r.rsize THEN l ELSE r
Shorter(l, r) == IF l.rsize > r.rsize THEN r ELSE l
emit_add_reg(dst, lhs, rhs) ==
  LET wide == Longer(lhs, rhs)
  IN  IF lhs.rsize = rhs.rsize THEN emit_rrr("add", dst, lhs, rhs)
      ELSE OneWidth({dst, wide}, Op("add", dst, Use(wide), Narrow(Shorter(lhs, rhs))))
emit_sub_reg(dst, lhs, rhs) ==
  LET tmp == ScratchReg(8, dst.rsize, lhs.dtype)
  IN  CASE lhs.rsize = rhs.rsize -> emit_rrr("sub", dst, lhs, rhs)
        [] rhs.rsize < lhs.rsize -> OneWidth({dst, lhs}, Op("sub", dst, Use(lhs), Narrow(rhs)))
        [] lhs.rsize < rhs.rsize -> emit_mov_reg(tmp, lhs) \o emit_rrr("sub", dst, tmp, rhs)

Compare(lhs, y) == <<Ins("cmp", Zero, Width(lhs), Use(lhs), y, FALSE)>>
emit_cmp(lhs, v) == IF AddImmediate(v) THEN Compare(lhs, Imm(v)) ELSE <<Bad>>
emit_cmp_reg(lhs, rhs, cond) ==
  LET tmp == ScratchReg(8, rhs.rsize, lhs.dtype)
  IN  CASE lhs.rsize = rhs.rsize -> Compare(lhs, Use(rhs))
        [] rhs.rsize < lhs.rsize -> Compare(lhs, Narrow(rhs))
        [] lhs.rsize < rhs.rsize /\ cond \in {"EQ", "NE"} -> Compare(Sized(lhs, rhs.rsize), Use(rhs))
        [] lhs.rsize < rhs.rsize /\ cond \notin {"EQ", "NE"} -> emit_mov_reg(tmp, lhs) \o Compare(tmp, Use(rhs))

emit_lsl(dst, lhs, v) ==
  IF v \in 0 .. Width(dst) * ByteBits - 1 THEN OneWidth({dst, lhs}, Op("shl", dst, Use(lhs), Imm(v))) ELSE <<Bad>>
emit_cond_set(dst, cond) == Op("mov", dst, If(cond), Imm(0))
emit_branch_cond(cond) == <<Leave(cond)>>

-----------------------------------------------------------------------------
(* Loads and stores.  dst (of a store) and src (of a load) hold an address. *)

\* How many bytes move, and whether a load extends their sign.
AccessSize(r) == IF is_addr(r.dtype) \/ r.rsize >= 8 THEN 8 ELSE IF r.rsize > 2 THEN 4 ELSE r.rsize
Store(src, at) == <<Ins("store", Zero, AccessSize(src), Low(get_regoff(src), Width(src)), at, FALSE)>>
Load(dst, at) ==
  LET n == AccessSize(dst) IN Op("mov", dst, Loaded(at, n, n <= 2 /\ dst.dtype.base.sign), Imm(0))
\* Twelve bits of whole elements, or nine of bytes with a sign.
Displacement(n, disp) == disp \in 0 - 256 .. 255 \/ (disp >= 0 /\ disp % n = 0 /\ disp \div n < 4096)
At_(base, disp) == Address(get_regoff(base), NoIndex, disp)
emit_str_reg(dst, src, offset) ==
  IF Displacement(AccessSize(src), offset) THEN Store(src, At_(dst, offset)) ELSE <<Bad>>
emit_ldr(dst, src, offset) ==
  IF Displacement(AccessSize(dst), offset) THEN Load(dst, At_(src, offset)) ELSE <<Bad>>

Indexed(base, index, shift) ==
  Address(get_regoff(base), Scaled(get_regoff(index), 8, FALSE, TwoTo[shift]), 0)
emit_str_regoff(dst, src, offset) == Store(src, Indexed(dst, offset, 0))
emit_ldr_reg(dst, src, offset) == Load(dst, Indexed(src, offset, 0))

imm_to_reg(dst) == ScratchReg(8, dst.dtype.base.size, Plain(dst.dtype.base))
emit_str_imm(dst, v, offset) == emit_mov(imm_to_reg(dst), v) \o emit_str_reg(dst, imm_to_reg(dst), offset)
emit_str_imm_regoff(dst, v, offset) ==
  emit_mov(imm_to_reg(dst), v) \o emit_str_regoff(dst, imm_to_reg(dst), offset)

ShiftOf(size) == CASE size = 2 -> 1 [] size = 4 -> 2 [] size = 8 -> 3 [] OTHER -> 0
\* Elements of other sizes multiply whatever SCRATCH 2 holds and leave the
\* index as it is.
emit_array_access(dst, src, index, is_store) ==
  LET mem0  == IF is_store THEN dst ELSE src
      value == IF is_store THEN src ELSE dst
      size  == mem0.dtype.base.size
      onStack == mem0.reg_type = "STACK" /\ mem0.offset # 0
      mem == IF onStack THEN ScratchReg(3, 8, dtype_wrap(mem0.dtype, Declarator("ADDR", 1))) ELSE mem0
      total == ScratchReg(1, 0, Plain(NoBase))
      idx == ScratchReg(2, 8, Plain(NoBase))
      access(shift) == IF is_store THEN Store(value, Indexed(mem, index, shift))
                                   ELSE Load(value, Indexed(mem, index, shift))
  IN  (IF onStack THEN emit_sub(mem, Frame, mem0.offset) ELSE << >>)
      \o (IF size \in {1, 2, 4, 8} THEN access(ShiftOf(size))
          ELSE emit_mov(total, dtype_size(mem0.dtype))
               \o Op("mul", idx, Extended(10, 4, TRUE), Extended(9, 4, TRUE)) \o access(0))

\* The shift is that of the lowest bit of the size.
LowestBit(size) == CHOOSE s \in 0 .. 6 : size % TwoTo[s] = 0 /\ size % TwoTo[s + 1] # 0
emit_elem_addr(dst, object, index) ==
  LET base == IF object.reg_type = "STACK" THEN ScratchReg(0, 8, Plain(NoBase)) ELSE object
      t == index.dtype.base
      times == TwoTo[LowestBit(object.dtype.base.size)]
  IN  (IF object.reg_type = "STACK" THEN emit_sub(base, Frame, object.offset) ELSE << >>)
      \o OneWidth({dst, base}, Op("add", dst, Use(base),
           IF t.size >= 8 THEN Scaled(get_regoff(index), 8, FALSE, times)
           ELSE Scaled(get_regoff(index), t.size, t.sign, times)))

-----------------------------------------------------------------------------
(* Aggregates.                                                             *)

emit_stp(src1, src2, base, offset) ==
  IF offset % 8 # 0 \/ offset \notin 0 - 512 .. 504 THEN <<Bad>>
  ELSE <<Ins("store", Zero, 8, Low(get_regoff(src1), 8), At_(base, offset), FALSE),
         Ins("store", Zero, 8, Low(get_regoff(src2), 8), At_(base, offset + 8), FALSE)>>

emit_zerofill(base, offset, dtype) ==
  LET size == dtype_size(dtype)
      pairs == size \div 16
  IN  Each([k \in 1 .. pairs |-> 16 * (k - 1)], LAMBDA at : emit_stp(xzr, xzr, base, offset + at))
        \o Each(ChunksOf(size % 16), LAMBDA c : emit_str_reg(base, Sized(wzr, c.n), offset + 16 * pairs + c.at))

emit_store_eightbytes(base, offset, lo, lo_written, hi, hi_written, has_hi) ==
  IF has_hi THEN emit_stp(IF lo_written THEN lo ELSE xzr, IF hi_written THEN hi ELSE xzr, base, offset)
  ELSE emit_str_reg(base, IF lo_written THEN lo ELSE [lo EXCEPT !.reg_type = "NONE"], offset)

emit_store_packed(base, offset, src, nbytes) ==
  Each(ChunksOf(nbytes),
       LAMBDA c : emit_str_reg(base, Sized(src, c.n), offset + c.at)
                    \o (IF c.at + c.n = nbytes THEN << >>
                        ELSE Op("shr", Sized(src, 8), Low(get_regoff(src), 8), Imm(c.n * ByteBits))))

\* A second literal of one byte joins the first in a lane of two.
pack_small_values(members, args, i) ==
  LET joined == /\ members[i].size = 1 /\ i < Len(args)
                /\ args[i + 1].tag = "VALUE" /\ members[i + 1].size = 1
      first == args[i].value
  IN  IF ~joined THEN [value |-> first, size |-> members[i].size, last |-> i]
      ELSE [value |-> Signed(Or(Unsigned(first, 8), Unsigned(Values(1) * args[i + 1].value, 8)), 8),
            size |-> 2, last |-> i + 1]

\* A run of ones, the simplest of the patterns that `orr' takes.
Logical(v) == \E a, b \in 0 .. 8 * ByteBits : v = TwoTo[a] * (TwoTo[b] - 1)
\* A literal at byte `at' of dst; one of an odd place has no lane.
emit_member_value(dst0, at, value, written) ==
  LET dst == IF at >= 4 /\ dst0.rsize < 8 THEN Sized(dst0, 8) ELSE dst0
  IN  CASE value = 0 -> << >>
        [] value # 0 /\ at % 2 = 0 -> emit_mov_lane(dst, value, at, written)
        [] value # 0 /\ at % 2 = 1 ->
             IF ~written \/ ~Logical(value) THEN <<Bad>>
             ELSE Op("or", dst, Use(dst), Piece(Imm(Unsigned(value, 8)), 8, at))

emit_member_reg(dst, reg0, size, at, written) ==
  LET reg == IF reg0.rsize < dst.rsize THEN Sized(reg0, dst.rsize) ELSE reg0
      part == Piece(Use(reg), size, at)
      same(code) == OneWidth({dst, reg}, code)
  IN  CASE reg0.reg_type = "STACK" -> emit_sub(dst, Frame, reg0.offset)
        [] reg0.reg_type # "STACK" /\ at = 0 /\ size < 4 ->
             same(Op("mov", dst, Extended(get_regoff(reg), size, FALSE), Imm(0)))
        [] reg0.reg_type # "STACK" /\ at = 0 /\ size >= 4 ->
             OneWidth({Sized(dst, size), reg0}, Op("mov", Sized(dst, size), Use(reg0), Imm(0)))
        [] OTHER ->
             IF at + size > Width(dst) THEN <<Bad>>
             ELSE same(IF written THEN Op("insert", dst, Use(dst), part) ELSE Op("mov", dst, part, Imm(0)))

lane_literal(members, args, i, at) ==
  IF at % 2 = 0 THEN pack_small_values(members, args, i)
  ELSE [value |-> args[i].value, size |-> members[i].size, last |-> i]
\* The members after s.index, as many as `limit' bytes hold; s.first is where
\* the eight bytes begin.
eightbyte_next(dst, members, args, limit, s) ==
  LET i     == s.index + 1
      first == IF s.size = 0 THEN members[i].offset ELSE s.first
      at    == members[i].offset - first
      valued(lit) ==
        [code |-> s.code \o emit_member_value(dst, at, lit.value, s.written),
         written |-> s.written \/ lit.value # 0, size |-> s.size + lit.size, index |-> lit.last, first |-> first]
      copied ==
        [code |-> s.code \o emit_member_reg(dst, args[i].reg, members[i].size, at, s.written),
         written |-> TRUE, size |-> s.size + members[i].size, index |-> i, first |-> first]
  IN  IF i > Len(args) \/ s.size + members[i].size > limit THEN s
      ELSE IF args[i].tag = "VALUE" THEN valued(lane_literal(members, args, i, at)) ELSE copied
eightbyte_from(dst, members, args, limit, s) ==
  LET after[k \in 0 .. Len(args)] ==
        IF k = 0 THEN s ELSE eightbyte_next(dst, members, args, limit, after[k - 1])
  IN  after[Len(args)]
emit_eightbyte_struct(dst, dtype, args, index, limit) ==
  eightbyte_from(Sized(dst, IF dtype.base.size > 8 THEN 8 ELSE dtype.base.size),
                 LayoutOf(dtype, Len(args)), args, limit,
                 [code |-> << >>, written |-> FALSE, size |-> 0, index |-> index, first |-> 0])
=============================================================================
