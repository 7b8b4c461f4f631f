------------------------------- MODULE BinArm -------------------------------
(***************************************************************************)
(* What bin-aarch64.c writes: for every function of emit.h, the words of   *)
(* its instructions.  A word is the operation its fixed bits stand for and *)
(* the fields filled in, each cut to its width.                            *)
(***************************************************************************)
EXTENDS Machine, Types

Frame == Reg("FRAME", 0, 8, Plain(NoBase))
ScratchReg(i, n, dtype) == Reg("SCRATCH", i, n, dtype)
XZR == Reg("NONE", 0, 8, Plain(NoBase))
WZR == Reg("NONE", 0, 4, Plain(NoBase))

reg_no(r) ==
  CASE r.reg_type = "SCRATCH" -> r.offset + 8
    [] r.reg_type = "NREG"    -> r.offset + 19
    [] r.reg_type = "FRAME"   -> 29
    [] r.reg_type \in {"STACK", "NONE"} -> 31
    [] OTHER                  -> r.offset
is64(r) == is_addr(r.dtype) \/ r.rsize > 4

\* put_word: a word with the fields rd, rn, rm, an immediate and options.
Word(op, sf, rd, rn, rm, imm, opt, shift) ==
  <<[op |-> op, sf |-> sf, rd |-> rd, rn |-> rn, rm |-> rm, imm |-> imm, opt |-> opt, shift |-> shift]>>
Field(v, bits) == v % (2 ^ bits)

\* Sixteen-bit lanes, from zeros or from ones, whichever leaves fewer to write.
Lane(v, k) == (v \div Values(2 * k)) % Values(2)
Ones == Values(2) - 1
Wide(op, sf, rd, chunk, k) == Word(op, sf, rd, 0, 0, chunk, 0, k)
emit_mov(dst, v) ==
  LET write(sf, rd) ==
        LET lanes == [k \in 1 .. (IF sf THEN 4 ELSE 2) |-> k - 1]
            other(c) == SelectSeq(lanes, LAMBDA k : Lane(v, k) # c)
            word(fromOnes, k, first) ==
              Wide(IF ~first THEN "movk" ELSE IF fromOnes THEN "movn" ELSE "movz", sf, rd,
                   IF first /\ fromOnes THEN Ones - Lane(v, k) ELSE Lane(v, k), k)
            words(fromOnes, places) ==
              IF places = << >> THEN Wide("movn", sf, rd, 0, 0)
              ELSE Each(places, LAMBDA k : word(fromOnes, k, k = places[1]))
            \* the first lane is always written with movz
            from(ones) ==
              words(ones, IF ones THEN other(Ones) ELSE SelectSeq(lanes, LAMBDA k : k = 0 \/ Lane(v, k) # 0))
        IN  from(Len(other(Ones)) < Len(other(0)))
  IN  write(is64(dst) \/ v > Values(4) - 1 \/ v < 0, reg_no(dst))
emit_zero_out(dst) == emit_mov(dst, 0)

emit_and_lowbits(dst, src, nbytes) == Word("and", is64(dst), reg_no(dst), reg_no(src), 0, nbytes, 0, 0)
orr(sf, rd, rn, rm) == Word("orr", sf, rd, rn, rm, 0, 0, 0)
emit_orr_reg(dst, lhs, rhs) == orr(is64(dst), reg_no(dst), reg_no(lhs), reg_no(rhs))

\* Only what becomes an eight-byte value is extended.
emit_mov_reg(dst, src) ==
  LET long == is64(dst)
      t == src.dtype.base
      extends == long /\ src.rsize <= 4 /\ t.tag # "NULL"
  IN  CASE dst = src -> << >>
        [] dst # src /\ extends /\ t.sign -> Word("sbfm", TRUE, reg_no(dst), reg_no(src), 0, t.size, 0, 0)
        [] dst # src /\ extends /\ ~t.sign /\ t.size < 4 -> emit_and_lowbits(dst, src, t.size)
        [] dst # src /\ extends /\ ~t.sign /\ t.size >= 4 -> orr(FALSE, reg_no(dst), 31, reg_no(src))
        [] dst # src /\ ~extends -> orr(long, reg_no(dst), 31, reg_no(src))

\* Twelve bits of the immediate, or the twelve above them; a negative one
\* turns the operation around.
addsub_imm(op, dst, lhs, v) ==
  LET u  == IF v < 0 THEN 0 - v ELSE v
      sh == u > 4095
  IN  Word(op, is64(dst), reg_no(dst), reg_no(lhs), v < 0,
           Field(IF sh THEN u \div 4096 ELSE u, 12), 0, sh)
emit_add(dst, lhs, v) == IF v = 0 THEN emit_mov_reg(dst, lhs) ELSE addsub_imm("add imm", dst, lhs, v)
emit_sub(dst, lhs, v) == IF v = 0 THEN emit_mov_reg(dst, lhs) ELSE addsub_imm("sub imm", dst, lhs, v)
emit_cmp(lhs, v) == addsub_imm("subs imm", Sized(WZR, lhs.rsize), lhs, v)

addsub_reg(op, dst, lhs, rhs) == Word(op, is64(dst), reg_no(dst), reg_no(lhs), reg_no(rhs), 0, 0, 0)
\* The size and sign by which the narrower operand is extended.
ext_option(narrow) ==
  LET t == narrow.dtype.base
      size == IF t.tag # "NULL" THEN t.size ELSE narrow.rsize
  IN  [size |-> CASE size >= 8 -> 8 [] size \in 4 .. 7 -> 4 [] size \in 2 .. 3 -> 2 [] OTHER -> 1,
       sign |-> t.sign]
addsub_ext(op, dst, wide, narrow, shift) ==
  Word(op, is64(wide), reg_no(dst), reg_no(wide), reg_no(narrow), 0, <<ext_option(narrow)>>, Field(shift, 3))

Longer(l, r) == IF l.rsize > r.rsize THEN l ELSE r
Shorter(l, r) == IF l.rsize > r.rsize THEN r ELSE l
emit_add_reg(dst, lhs, rhs) ==
  IF lhs.rsize = rhs.rsize THEN addsub_reg("add", dst, lhs, rhs)
  ELSE addsub_ext("add ext", dst, Longer(lhs, rhs), Shorter(lhs, rhs), 0)
emit_sub_reg(dst, lhs, rhs) ==
  LET tmp == ScratchReg(8, dst.rsize, lhs.dtype)
  IN  CASE lhs.rsize = rhs.rsize -> addsub_reg("sub", dst, lhs, rhs)
        [] rhs.rsize < lhs.rsize -> addsub_ext("sub ext", dst, lhs, rhs, 0)
        [] lhs.rsize < rhs.rsize -> emit_mov_reg(tmp, lhs) \o addsub_reg("sub", dst, tmp, rhs)
emit_cmp_reg(lhs, rhs, cond) ==
  LET tmp == ScratchReg(8, rhs.rsize, lhs.dtype)
  IN  CASE lhs.rsize = rhs.rsize -> addsub_reg("subs", Sized(WZR, lhs.rsize), lhs, rhs)
        [] rhs.rsize < lhs.rsize -> addsub_ext("subs ext", Sized(WZR, lhs.rsize), lhs, rhs, 0)
        [] lhs.rsize < rhs.rsize ->
             emit_mov_reg(tmp, lhs) \o addsub_reg("subs", Sized(WZR, rhs.rsize), tmp, rhs)

\* A bit field of `count' bits moved up by `lsb', or down: ubfm and bfm.
Bits(long) == (IF long THEN 8 ELSE 4) * ByteBits
bitfield(op, dst, src, immr, imms) ==
  Word(op, is64(dst), reg_no(dst), reg_no(src), 0, immr % Bits(is64(dst)), imms, 0)
emit_lsl(dst, lhs, v) ==
  LET shift == v % Bits(is64(dst))
  IN  bitfield("ubfm", dst, lhs, Bits(is64(dst)) - shift, Bits(is64(dst)) - 1 - shift)
emit_lsr_imm(dst, src, v) == bitfield("ubfm", dst, src, v, Bits(is64(dst)) - 1)
emit_bitfield(op, dst, src, lsb, width) == bitfield(op, dst, src, Bits(is64(dst)) - lsb, width - 1)

emit_cond_set(dst, cond) == Word("cset", FALSE, reg_no(dst), 31, 31, cond, 0, 0)
emit_branch_cond(cond) == Word("b.cond", FALSE, 0, 0, 0, cond, 0, 0)

-----------------------------------------------------------------------------
(* Loads and stores.  dst (of a store) and src (of a load) hold an address. *)

AccessSize(r) ==
  LET n == IF is_addr(r.dtype) THEN 8 ELSE r.rsize
  IN  CASE n >= 8 -> 8 [] n \in 4 .. 7 -> 4 [] n \in 2 .. 3 -> 2 [] OTHER -> 1
\* Loads of signed values extend them to eight bytes.
ldst_load_opc(is_load, value) ==
  CASE ~is_load -> "str" [] is_load /\ value.dtype.base.sign /\ AccessSize(value) < 8 -> "ldrs" [] OTHER -> "ldr"
mem_op(is_load, value, base, offset) ==
  LET n == AccessSize(value)
      scaled == offset >= 0 /\ offset % n = 0 /\ offset \div n <= 4095
  IN  Word(ldst_load_opc(is_load, value), n, reg_no(value), reg_no(base), 31,
           IF scaled THEN offset \div n ELSE Field(offset, 9), scaled, 0)
ldst_regoff(is_load, value, base, off, scaled) ==
  Word(ldst_load_opc(is_load, value), AccessSize(value), reg_no(value), reg_no(base), reg_no(off), 0, TRUE, scaled)

emit_str_reg(dst, src, offset) == mem_op(FALSE, src, dst, offset)
emit_ldr(dst, src, offset) == mem_op(TRUE, dst, src, offset)
Immediate(i, dst) ==
  ScratchReg(i, IF dst.dtype.base.tag # "NULL" THEN dst.dtype.base.size ELSE 8, Plain(dst.dtype.base))
emit_str_imm(dst, v, offset) ==
  IF v = 0 THEN emit_str_reg(dst, XZR, offset)
  ELSE emit_mov(Immediate(0, dst), v) \o emit_str_reg(dst, Immediate(0, dst), offset)
emit_str_regoff(dst, src, offset) == ldst_regoff(FALSE, src, dst, offset, FALSE)
emit_ldr_reg(dst, src, offset) == ldst_regoff(TRUE, dst, src, offset, FALSE)
emit_str_imm_regoff(dst, v, offset) ==
  emit_mov(Immediate(8, dst), v) \o emit_str_regoff(dst, Immediate(8, dst), offset)

\* Elements of other sizes multiply whatever SCRATCH 2 holds and leave the
\* index as it is.
emit_array_access(dst, src, index, is_store) ==
  LET mem0  == IF is_store THEN dst ELSE src
      value == IF is_store THEN src ELSE dst
      size  == mem0.dtype.base.size
      onStack == mem0.reg_type = "STACK" /\ mem0.offset # 0
      mem == IF onStack THEN ScratchReg(3, 8, dtype_wrap(mem0.dtype, Declarator("ADDR", 1))) ELSE mem0
      access(scaled) == ldst_regoff(~is_store, value, mem, index, scaled)
  IN  (IF onStack THEN emit_sub(mem, Frame, mem0.offset) ELSE << >>)
      \o (IF size \in {1, 2, 4, 8} THEN access(size # 1)
          ELSE emit_mov(ScratchReg(1, 0, Plain(NoBase)), dtype_size(mem0.dtype))
               \o Word("smull", TRUE, 10, 10, 9, 0, 0, 0) \o access(FALSE))

\* The shift is that of the lowest bit of the size.
LowestBit(size) == CHOOSE s \in 0 .. 6 : size % (2 ^ s) = 0 /\ size % (2 ^ (s + 1)) # 0
emit_elem_addr(dst, object, index) ==
  LET base == IF object.reg_type = "STACK" THEN ScratchReg(0, 8, Plain(NoBase)) ELSE object
      shift == LowestBit(object.dtype.base.size)
  IN  (IF object.reg_type = "STACK" THEN emit_sub(base, Frame, object.offset) ELSE << >>)
      \o (IF index.dtype.base.size >= 8
          THEN Word("add", is64(dst), reg_no(dst), reg_no(base), reg_no(index), 0, 0, shift)
          ELSE addsub_ext("add ext", dst, base, Sized(index, 4), shift))

-----------------------------------------------------------------------------
(* Aggregates.                                                             *)

\* Seven bits of eight-byte units.
emit_stp(src1, src2, base, offset) ==
  LET units == IF offset < 0 THEN 0 - ((0 - offset) \div 8) ELSE offset \div 8     \* as C divides
  IN  Word("stp", 8, reg_no(src1), reg_no(base), reg_no(src2), Field(units, 7), 0, 0)

emit_zerofill(base, offset, dtype) ==
  LET size == dtype_size(dtype)
      pairs == size \div 16
  IN  Each([k \in 1 .. pairs |-> 16 * (k - 1)], LAMBDA at : emit_stp(XZR, XZR, base, offset + at))
        \o Each(ChunksOf(size % 16), LAMBDA c : emit_str_reg(base, Sized(WZR, c.n), offset + 16 * pairs + c.at))

emit_store_eightbytes(base, offset, lo, lo_written, hi, hi_written, has_hi) ==
  IF has_hi THEN emit_stp(IF lo_written THEN lo ELSE XZR, IF hi_written THEN hi ELSE XZR, base, offset)
  ELSE emit_str_reg(base, IF lo_written THEN lo ELSE [lo EXCEPT !.reg_type = "NONE"], offset)

emit_store_packed(base, offset, src, nbytes) ==
  Each(ChunksOf(nbytes),
       LAMBDA c : emit_str_reg(base, Sized(src, c.n), offset + c.at)
                    \o (IF c.at + c.n = nbytes THEN << >>
                        ELSE emit_lsr_imm(Sized(src, 8), Sized(src, 8), c.n * ByteBits)))

\* A second literal of one byte joins the first in a lane of two.
pack_small_values(members, args, i) ==
  LET joined == /\ members[i].size = 1 /\ i < Len(args)
                /\ args[i + 1].tag = "VALUE" /\ members[i + 1].size = 1
      first == args[i].value
  IN  IF ~joined THEN [value |-> first, size |-> members[i].size, last |-> i]
      ELSE [value |-> Signed(Or(Unsigned(first, 8), Unsigned(Values(1) * args[i + 1].value, 8)), 8),
            size |-> 2, last |-> i + 1]

\* Sixteen bits of a chunk go to their lane, whatever else it has.
emit_mov_lane(dst, chunk, at, written) ==
  Wide(IF written THEN "movk" ELSE "movz", is64(dst), reg_no(dst), chunk % Values(2), at \div 2)
emit_member_value(dst0, at, value, written) ==
  LET dst == IF at >= 4 /\ dst0.rsize < 8 THEN Sized(dst0, 8) ELSE dst0
      tmp == ScratchReg(8, dst.rsize, Plain(NoBase))
  IN  CASE value = 0 -> << >>
        [] value # 0 /\ at % 2 = 0 -> emit_mov_lane(dst, value, at, written)
        [] value # 0 /\ at % 2 = 1 ->
             emit_mov(tmp, value * Values(at)) \o
             (IF written THEN emit_orr_reg(dst, dst, tmp) ELSE emit_mov_reg(dst, tmp))

emit_member_reg(dst, reg0, size, at, written) ==
  LET reg == IF reg0.rsize < dst.rsize THEN Sized(reg0, dst.rsize) ELSE reg0
  IN  CASE reg0.reg_type = "STACK" -> emit_sub(dst, Frame, reg0.offset)
        [] reg0.reg_type # "STACK" /\ at = 0 /\ size < 4 -> emit_and_lowbits(dst, reg, size)
        [] reg0.reg_type # "STACK" /\ at = 0 /\ size >= 4 -> emit_mov_reg(Sized(dst, size), reg0)
        [] OTHER -> emit_bitfield(IF written THEN "bfm" ELSE "ubfm", dst, reg, at * ByteBits, size * ByteBits)

lane_literal(members, args, i, at) ==
  IF at % 2 = 0 THEN pack_small_values(members, args, i)
  ELSE [value |-> args[i].value, size |-> members[i].size, last |-> i]
\* The members after s.index, as many as `limit' bytes hold; s.first is where
\* the eight bytes begin.
eightbyte_next(dst, members, args, limit, s) ==
  LET i     == s.index + 1
      first == IF s.size = 0 THEN members[i].offset ELSE s.first
      at    == members[i].offset - first
      valued(lit) ==
        [code |-> s.code \o emit_member_value(dst, at, lit.value, s.written),
         written |-> s.written \/ lit.value # 0, size |-> s.size + lit.size, index |-> lit.last, first |-> first]
      copied ==
        [code |-> s.code \o emit_member_reg(dst, args[i].reg, members[i].size, at, s.written),
         written |-> TRUE, size |-> s.size + members[i].size, index |-> i, first |-> first]
  IN  IF i > Len(args) \/ s.size + members[i].size > limit THEN s
      ELSE IF args[i].tag = "VALUE" THEN valued(lane_literal(members, args, i, at)) ELSE copied
eightbyte_from(dst, members, args, limit, s) ==
  LET after[k \in 0 .. Len(args)] ==
        IF k = 0 THEN s ELSE eightbyte_next(dst, members, args, limit, after[k - 1])
  IN  after[Len(args)]
emit_eightbyte_struct(dst, dtype, args, index, limit) ==
  eightbyte_from(Sized(dst, IF dtype.base.size > 8 THEN 8 ELSE dtype.base.size),
                 LayoutOf(dtype, Len(args)), args, limit,
                 [code |-> << >>, written |-> FALSE, size |-> 0, index |-> index, first |-> 0])
=============================================================================
