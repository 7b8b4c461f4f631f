------------------------------- MODULE BinX86 -------------------------------
(***************************************************************************)
(* What bin-x86_64.c writes: for every function of emit.h, the bytes of    *)
(* its instructions.  Opcodes and their fields are real bytes, the bytes   *)
(* of immediates and displacements are digits of Base.                     *)
(***************************************************************************)
EXTENDS Machine, Types

CONSTANTS Scratch, Callee, Param, Ret     \* registers of each class, by number

RAX == 0
RSP == 4
RBP == 5
ScratchReg(i, n) == Reg("SCRATCH", i, n, Plain(NoBase))
Frame == Reg("FRAME", 0, 8, Plain(NoBase))

reg_no(r) ==
  CASE r.reg_type = "SCRATCH" -> Scratch[r.offset + 1]
    [] r.reg_type = "NREG"    -> Callee[r.offset + 1]
    [] r.reg_type = "PARAM"   -> Param[r.offset + 1]
    [] r.reg_type = "RET"     -> Ret[r.offset + 1]
    [] r.reg_type = "FRAME"   -> RBP
    [] r.reg_type = "STACK"   -> RSP
    [] OTHER                  -> RAX
rsz(r) == IF r.rsize = 0 THEN 4 ELSE r.rsize

\* The low n bytes of a number, the least significant first (put8 .. put64).
put(v, n) == [i \in 1 .. n |-> (v \div Values(i - 1)) % Base]

\* Prefixes: the operand size, and the fourth bits of up to three registers.
prefixes(n, reg, index, base, force) ==
  LET bit(cond, b) == IF cond THEN b ELSE 0
      rex(bits) == IF bits # 0 \/ force THEN <<64 + bits>> ELSE << >>
  IN  (IF n = 2 THEN <<102>> ELSE << >>)
        \o rex(bit(n = 8, 8) + bit(reg >= 8, 4) + bit(index >= 8, 2) + bit(base >= 8, 1))
\* mutant: no register needs the prefix for its own sake
never_new(n, r) == FALSE
\* Bytes of these registers exist only behind a REX prefix.
is_new_byte(n, r) == n = 1 /\ r \in 4 .. 7
sized(opcode, n) == IF n = 1 THEN opcode - (opcode % 2) ELSE opcode
modrm(mod, reg, rm) == <<64 * mod + 8 * (reg % 8) + (rm % 8)>>

\* mutant: the two registers change places
encode_rr_swapped(opcode, n, reg, rm) ==
  prefixes(n, rm, 0, reg, is_new_byte(n, reg) \/ is_new_byte(n, rm))
    \o <<sized(opcode, n)>> \o modrm(3, rm, reg)
encode_rr(opcode, n, reg, rm) ==
  prefixes(n, reg, 0, rm, is_new_byte(n, reg) \/ is_new_byte(n, rm))
    \o <<sized(opcode, n)>> \o modrm(3, reg, rm)

choose_mod(disp, base) ==
  IF disp = 0 /\ base % 8 # 5 THEN 0 ELSE IF FitsSigned(disp, 1) THEN 1 ELSE 2
put_disp(disp, mod) == CASE mod = 1 -> put(disp, 1) [] mod = 2 -> put(disp, 4) [] OTHER -> << >>
\* What follows the opcode for [base + index * scale + disp].
memory(reg, base, has_index, index, scale, disp, mod) ==
  LET bits == CASE scale = 8 -> 3 [] scale = 4 -> 2 [] scale = 2 -> 1 [] OTHER -> 0
      sib  == has_index \/ base % 8 = 4
  IN  modrm(mod, reg, IF sib THEN 4 ELSE base)
        \o (IF sib THEN modrm(bits, IF has_index THEN index ELSE 4, base) ELSE << >>)
        \o put_disp(disp, mod)
encode_mem(opcode, n, reg, base, has_index, index, scale, disp) ==
  prefixes(n, reg, IF has_index THEN index ELSE 0, base, is_new_byte(n, reg))
    \o <<sized(opcode, n)>> \o memory(reg, base, has_index, index, scale, disp, choose_mod(disp, base))

\* Opcodes, and the digits that choose an operation in the ModRM byte.
OP == [ADD |-> 1, OR |-> 9, SUB |-> 41, XOR |-> 49, CMP |-> 57,
       MOV_RM_R |-> 137, MOV_R_RM |-> 139, LEA |-> 141]
ALU == [ADD |-> 0, OR |-> 1, SUB |-> 5, CMP |-> 7]
SH == [SHL |-> 4, SHR |-> 5]

alu_rr(opcode, dst, src) == encode_rr(opcode, rsz(dst), reg_no(src), reg_no(dst))

alu_ri(digit, dst, imm) ==
  LET short == FitsSigned(imm, 1)
      on(n, rm, opcode, len) ==
        prefixes(n, 0, 0, rm, is_new_byte(n, rm)) \o <<opcode>> \o modrm(3, digit, rm) \o put(imm, len)
      with(n, one) == on(n, reg_no(dst), IF n = 1 THEN 128 ELSE IF one THEN 131 ELSE 129,
                         IF n = 1 \/ one THEN 1 ELSE 4)
  IN  with(rsz(dst), short)

shift_ri(digit, dst, amount) ==
  prefixes(rsz(dst), 0, 0, reg_no(dst), FALSE) \o <<193>> \o modrm(3, digit, reg_no(dst)) \o <<amount>>

emit_neg(dst) ==
  prefixes(rsz(dst), 0, 0, reg_no(dst), FALSE) \o <<sized(247, rsz(dst))>> \o modrm(3, 3, reg_no(dst))

\* The size that selects the prefixes, the opcode, and how many bytes follow.
mov_form(n, r, value) ==
  LET low == <<184 + (r % 8)>>
  IN  CASE n = 1                               -> [n |-> 1, op |-> <<176 + (r % 8)>>, len |-> 1]
        [] n \in {2, 4}                        -> [n |-> n, op |-> low, len |-> n]
        [] n > 4 /\ FitsSigned(value, 4)       -> [n |-> 8, op |-> <<199>> \o modrm(3, 0, r), len |-> 4]
        [] n > 4 /\ value \in 0 .. Values(4) - 1 /\ ~FitsSigned(value, 4)
                                               -> [n |-> 4, op |-> low, len |-> 4]
        [] OTHER                               -> [n |-> 8, op |-> low, len |-> 8]
emit_mov(dst, value) ==
  LET write(r, form) == prefixes(form.n, 0, 0, r, is_new_byte(form.n, r)) \o form.op \o put(value, form.len)
      to(n, r) == IF value = 0 THEN encode_rr(OP.XOR, IF n > 4 THEN 4 ELSE n, r, r)
                  ELSE write(r, mov_form(n, r, value))
  IN  to(rsz(dst), reg_no(dst))
emit_zero_out(dst) == emit_mov(dst, 0)

emit_mov_reg(dst, src) ==
  LET extends == dst.rsize # 0 /\ src.rsize # 0 /\ dst.rsize > src.rsize
      signed  == src.dtype.base.sign
      bytes == src.rsize = 1
      n == IF dst.rsize < src.rsize THEN src.rsize ELSE dst.rsize
      words == dst.rsize = 8 /\ src.rsize = 4
      extend(d, s, op) == prefixes(dst.rsize, d, 0, s, is_new_byte(src.rsize, s)) \o op \o modrm(3, d, s)
      move(d, s, size) == encode_rr(OP.MOV_RM_R, IF size = 0 THEN 4 ELSE size, s, d)
  IN  IF extends /\ (signed \/ ~words)
      THEN extend(reg_no(dst), reg_no(src),
                  CASE signed /\ words -> <<99>>
                    [] signed /\ ~words -> <<15, IF bytes THEN 190 ELSE 191>>
                    [] ~signed -> <<15, IF bytes THEN 182 ELSE 183>>)
      ELSE move(reg_no(dst), reg_no(src), IF extends THEN 4 ELSE n)

lea(dst, base, disp) == encode_mem(OP.LEA, rsz(dst), reg_no(dst), reg_no(base), FALSE, 0, 1, disp)
lea_index(dst, base, index, scale) ==
  encode_mem(OP.LEA, rsz(dst), reg_no(dst), reg_no(base), TRUE, reg_no(index), scale, 0)

emit_add(dst, lhs, v) == lea(dst, lhs, v)
emit_sub(dst, lhs, v) == lea(dst, lhs, 0 - v)

emit_add_reg(dst, lhs, rhs) ==
  LET wide   == IF lhs.rsize > rhs.rsize THEN lhs ELSE rhs
      narrow == IF lhs.rsize > rhs.rsize THEN rhs ELSE lhs
  IN  IF lhs.rsize # rhs.rsize
      THEN emit_mov_reg(dst, narrow) \o alu_rr(OP.ADD, dst, Sized(wide, dst.rsize))
      ELSE lea_index(dst, lhs, rhs, 1)

emit_sub_reg(dst, lhs, rhs) ==
  LET whole(r) == Sized(r, dst.rsize)
  IN  CASE lhs.rsize = rhs.rsize ->
             encode_rr(OP.MOV_RM_R, rsz(dst), reg_no(lhs), reg_no(dst)) \o alu_rr(OP.SUB, dst, rhs)
        [] rhs.rsize < lhs.rsize ->
             emit_mov_reg(dst, rhs) \o alu_rr(OP.SUB, dst, whole(lhs)) \o emit_neg(dst)
        [] lhs.rsize < rhs.rsize -> emit_mov_reg(dst, lhs) \o alu_rr(OP.SUB, dst, whole(rhs))

emit_cmp(lhs, v) == alu_ri(ALU.CMP, lhs, v)

emit_cmp_reg(lhs, rhs, cond) ==
  LET n   == IF lhs.rsize > rhs.rsize THEN lhs.rsize ELSE rhs.rsize
      tmp == ScratchReg(0, n)
  IN  CASE lhs.rsize = rhs.rsize -> alu_rr(OP.CMP, lhs, rhs)
        [] rhs.rsize < lhs.rsize -> emit_mov_reg(tmp, rhs) \o alu_rr(OP.CMP, Sized(lhs, n), tmp)
        [] lhs.rsize < rhs.rsize /\ cond \in {"EQ", "NE"} -> alu_rr(OP.CMP, Sized(lhs, n), Sized(rhs, n))
        [] lhs.rsize < rhs.rsize /\ cond \notin {"EQ", "NE"} ->
             emit_mov_reg(tmp, lhs) \o alu_rr(OP.CMP, tmp, Sized(rhs, n))

\* The scaled index comes on top of the base.
emit_lsl(dst, lhs, v) ==
  CASE v >= 4 -> encode_rr(OP.MOV_RM_R, rsz(dst), reg_no(lhs), reg_no(dst)) \o shift_ri(SH.SHL, dst, v)
    [] v = 0  -> emit_mov_reg(dst, lhs)
    [] v = 1  -> emit_add_reg(dst, lhs, lhs)
    [] v \in {2, 3} -> lea_index(dst, lhs, lhs, 2 ^ v)

cond_cc == [EQ |-> 4, NE |-> 5, HS |-> 3, LO |-> 2, HI |-> 7, LS |-> 6,
            GE |-> 13, LT |-> 12, GT |-> 15, LE |-> 14]
emit_cond_set(dst, cond) ==
  LET r == reg_no(dst)
      wide == IF dst.rsize <= 1 THEN 4 ELSE dst.rsize
  IN  prefixes(1, 0, 0, r, is_new_byte(1, r)) \o <<15, 144 + cond_cc[cond]>> \o modrm(3, 0, r)
        \o emit_mov_reg(Sized(dst, wide), [dst EXCEPT !.rsize = 1, !.dtype = Plain(NoBase)])
\* A jump over a distance that is filled in later.
emit_branch_cond(cond) == <<15, 128 + cond_cc[cond]>> \o put(0, 4)

-----------------------------------------------------------------------------
(* Loads and stores.  dst (of a store) and src (of a load) hold an address. *)

emit_str_reg(dst, src, offset) ==
  encode_mem(OP.MOV_RM_R, rsz(src), reg_no(src), reg_no(dst), FALSE, 0, 1, offset)
emit_mem_imm(n, dst, offset, v) ==
  prefixes(n, 0, 0, reg_no(dst), FALSE) \o <<sized(199, n)>>
    \o memory(0, reg_no(dst), FALSE, 0, 1, offset, choose_mod(offset, reg_no(dst))) \o put(v, IF n > 4 THEN 4 ELSE n)
emit_str_imm(dst, v, offset) ==
  IF dst.dtype.base.size >= 8 /\ ~FitsSigned(v, 4)
  THEN emit_mem_imm(4, dst, offset, v) \o emit_mem_imm(4, dst, offset + 4, v \div Values(4))
  ELSE emit_mem_imm(dst.dtype.base.size, dst, offset, v)
emit_ldr(dst, src, offset) ==
  encode_mem(OP.MOV_R_RM, rsz(dst), reg_no(dst), reg_no(src), FALSE, 0, 1, offset)

emit_str_regoff(dst, src, offset) ==
  LET addr == ScratchReg(IF reg_no(src) = RAX THEN 1 ELSE 0, 8)   \* must not overwrite the value
  IN  lea_index(addr, dst, offset, 1) \o emit_str_reg(addr, src, 0)
emit_str_imm_regoff(dst, v, offset) ==
  LET addr == Reg("SCRATCH", 0, 8, dst.dtype)
  IN  lea_index(addr, dst, offset, 1) \o emit_str_imm(addr, v, 0)
emit_ldr_reg(dst, src, offset) ==
  lea_index(Sized(dst, 8), src, offset, 1) \o emit_ldr(dst, dst, 0)

-----------------------------------------------------------------------------
(* Aggregates and arrays.                                                  *)

\* One member of a struct literal goes to its place in the eight bytes of dst.
emit_member_value(dst, tmp, shifted, written) ==
  CASE ~written -> emit_mov(dst, shifted)
    [] written /\ shifted = 0 -> << >>
    [] written /\ shifted # 0 ->
         IF FitsSigned(shifted, 4) THEN alu_ri(ALU.OR, dst, shifted)
         ELSE emit_mov(tmp, shifted) \o alu_rr(OP.OR, dst, tmp)
\* `source' is where the member is once its address, if it is one, is there.
emit_member_reg(dst, tmp, source, place, written) ==
  LET join(src) == alu_rr(IF written THEN OP.OR ELSE OP.MOV_RM_R, dst, src)
  IN  IF place = 0 /\ source.rsize = dst.rsize THEN join(source)
      ELSE (IF source.rsize < 8 THEN emit_mov_reg(tmp, source) ELSE alu_rr(OP.MOV_RM_R, tmp, source))
           \o (IF place = 0 THEN << >> ELSE shift_ri(SH.SHL, tmp, place * ByteBits))
           \o join(tmp)
emit_member(dst, tmp, memb, arg, written) ==
  LET place == memb.offset % 8
      n     == CASE memb.size < 4 -> memb.size [] memb.size = 4 -> 4 [] OTHER -> 8
      from(onStack) ==
        (IF onStack THEN emit_sub(tmp, Frame, arg.reg.offset) ELSE << >>)
          \o emit_member_reg(dst, tmp, Sized(IF onStack THEN tmp ELSE arg.reg, n), place, written)
  IN  CASE arg.tag = "VALUE" ->
             emit_member_value(dst, tmp, Signed(arg.value * Values(place), 8), written)
        [] arg.tag = "REG" -> from(arg.reg.reg_type = "STACK")
        [] arg.tag = "AGGREGATE" -> << >>

\* As many members after s.index as the sizes of up to eight bytes allow.
eightbyte_next(dst, tmp, members, args, s) ==
  LET i == s.index + 1
  IN  IF i > Len(args) \/ s.size + members[i].size > 8 THEN s
      ELSE [code |-> s.code \o emit_member(dst, tmp, members[i], args[i], s.written),
            written |-> s.written \/ args[i].tag # "AGGREGATE",
            size |-> s.size + members[i].size, index |-> i]
eightbyte_from(dst, tmp, members, args, s) ==
  LET after[k \in 0 .. Len(args)] ==
        IF k = 0 THEN s ELSE eightbyte_next(dst, tmp, members, args, after[k - 1])
  IN  after[Len(args)]
emit_eightbyte_struct(dst0, dtype, args, index, limit) ==
  LET remaining == (Len(args) - index) * dtype.base.size
      span == IF remaining > 8 THEN 8 ELSE remaining
      dst  == IF is_array(dtype)
              THEN Sized(dst0, CASE span > 4 -> 8 [] span \in {3, 4} -> 4 [] span = 2 -> 2 [] OTHER -> 1)
              ELSE dst0
      tmp  == ScratchReg(IF dst.reg_type = "SCRATCH" /\ dst.offset >= 1 THEN dst.offset + 1 ELSE 1, 8)
  IN  eightbyte_from(dst, tmp, LayoutOf(dtype, Len(args)), args,
                     [code |-> << >>, written |-> FALSE, size |-> 0, index |-> index])

emit_store_eightbytes(base, offset, lo, lo_written, hi, hi_written, has_hi) ==
  LET whole(r) == IF has_hi THEN Sized(r, 8) ELSE r
      half(r, written, at) ==
        (IF written THEN << >> ELSE encode_rr(OP.XOR, rsz(r), reg_no(r), reg_no(r)))
          \o emit_str_reg(base, r, at)
  IN  half(whole(lo), lo_written, offset)
        \o (IF has_hi THEN half(whole(hi), hi_written, offset + 8) ELSE << >>)

\* mutant: every piece is the lowest one
emit_store_packed_low(base, offset, src, nbytes) ==
  Each(ChunksOf(nbytes), LAMBDA c : emit_str_reg(base, Sized(src, c.n), offset + c.at))
emit_store_packed(base, offset, src, nbytes) ==
  Each(ChunksOf(nbytes),
       LAMBDA c : emit_str_reg(base, Sized(src, c.n), offset + c.at)
                    \o (IF c.at + c.n = nbytes THEN << >> ELSE shift_ri(SH.SHR, Sized(src, 8), c.n * ByteBits)))

emit_zerofill(base, offset, dtype) ==
  LET zero == ScratchReg(1, 8)
  IN  encode_rr(OP.XOR, 4, reg_no(zero), reg_no(zero))
        \o Each(ChunksOf(dtype_size(dtype)), LAMBDA c : emit_str_reg(base, Sized(zero, c.n), offset + c.at))

\* An index of one or two bytes is widened where it is.
Widened(index) ==
  IF index.rsize \in {1, 2} THEN emit_mov_reg(Sized(index, 8), index) ELSE << >>
Multiply(idx, index, size) ==
  LET r == reg_no(idx)   short == FitsSigned(size, 1)
  IN  emit_mov_reg(idx, Sized(index, 8)) \o prefixes(8, r, 0, r, FALSE)
        \o <<IF short THEN 107 ELSE 105>> \o modrm(3, r, r) \o put(size, IF short THEN 1 ELSE 4)

\* The element `index' of the array at `mem', where an array on the stack is
\* named by its distance from the frame.
emit_array_access(dst, src, index, is_store) ==
  LET mem0  == IF is_store THEN dst ELSE src
      value == IF is_store THEN src ELSE dst
      size  == mem0.dtype.base.size
      onStack == mem0.reg_type = "STACK" /\ mem0.offset # 0
      mem == Sized(IF onStack THEN [mem0 EXCEPT !.reg_type = "SCRATCH", !.offset = 2] ELSE mem0, 8)
      idx == ScratchReg(1, 8)
      access(opcode) ==
        encode_mem(opcode, rsz(value), reg_no(value), reg_no(mem), TRUE, reg_no(index), size, 0)
  IN  (IF onStack THEN emit_sub(mem, Frame, mem0.offset) ELSE << >>)
      \o Widened(index)
      \o (CASE size = 1 -> IF is_store THEN emit_str_regoff(mem, value, index)
                                      ELSE emit_ldr_reg(value, mem, index)
            [] size \in {2, 4, 8} -> access(IF is_store THEN OP.MOV_RM_R ELSE OP.MOV_R_RM)
            [] OTHER -> Multiply(idx, index, size) \o emit_add_reg(idx, mem, idx)
                        \o (IF is_store THEN emit_str_reg(idx, value, 0) ELSE emit_ldr(value, idx, 0)))

emit_elem_addr(dst, object, index) ==
  LET base == ScratchReg(0, 8)
      size == object.dtype.base.size
      idx  == ScratchReg(1, 8)
  IN  (IF object.reg_type = "STACK" THEN emit_sub(base, Frame, object.offset)
       ELSE emit_mov_reg(base, object))
      \o Widened(index)
      \o (IF size \in {1, 2, 4, 8} THEN lea_index(dst, base, index, size)
          ELSE Multiply(idx, index, size) \o emit_add_reg(dst, base, idx))
=============================================================================
