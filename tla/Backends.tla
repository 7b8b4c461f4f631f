------------------------------ MODULE Backends ------------------------------
(***************************************************************************)
(* The interface between the parser and the code generators (emit.h) and   *)
(* its implementations, an assembler and a binary backend for x86-64 and   *)
(* for aarch64: each function is called with the operands the parser can   *)
(* give it, what the two backends of a target write is run on one machine, *)
(* and the outcome is compared with what the function is for.              *)
(***************************************************************************)
EXTENDS Conventions

CONSTANTS Samples,        \* values that a variable can have before the call
          Beyond          \* families of operands the code is known to get wrong

ASSUME BackendsAssumption == Samples \subseteq 0 .. Values(8) - 1

VARIABLES before,         \* the machine the call finds
          listed, coded,  \* the machine after the listing, after the binary
          meant           \* what the call is for
vars == <<conv, before, listed, coded, meant>>

B == INSTANCE BinX86 WITH Scratch <- Class.scratch, Callee <- Class.callee,
                          Param <- Class.param, Ret <- Class.ret
W == INSTANCE BinArm
D == INSTANCE DecodeX86
E == INSTANCE DecodeArm

-----------------------------------------------------------------------------
(* What the parser hands over: variables and destinations of every type.   *)

Scalars == {Fund(n, sign) : n \in {1, 2, 4, 8}, sign \in BOOLEAN}
Var(i, base) == Reg("NREG", i, base.size, Plain(base))
Acc(base) == Reg("SCRATCH", 0, base.size, Plain(base))       \* the value of a chain so far
Argument(base) == Reg("PARAM", 1, base.size, Plain(base))
FP == Reg("FRAME", 0, 8, Plain(NoBase))
\* Where a result goes and the operands it is computed from.
Triples(d, l, r) ==
  {<<Var(3, d), Var(0, l), Var(1, r)>>, <<Acc(d), Var(1, l), Var(2, r)>>,
   <<Argument(d), Var(2, l), Var(1, r)>>, <<Acc(d), Acc(l), Var(1, r)>>}

Bits(m, r) == Unsigned(m.reg[Place(r)], r.rsize)
Held(m, r) == Extend(m.reg[Place(r)], r.rsize, r.dtype.base.sign)
\* A register written at four bytes has a cleared upper half; on aarch64 a
\* value of fewer bytes is kept extended to four.
Loadable(r) ==
  LET whole == before.reg[Place(r)]
  IN  IF Arm THEN r.rsize <= 4 => whole = Unsigned(Extend(whole, r.rsize, r.dtype.base.sign), 4)
      ELSE r.rsize = 4 => whole < Values(4)
\* Numbers a program can write for a type; the parser holds them in an i64.
Literals(base) == IF base.sign \/ base.size = 8 THEN {Signed(v, base.size) : v \in Samples}
                  ELSE {Unsigned(v, base.size) : v \in Samples}
\* arithmetic_typecheck: signs agree, or the signed type is the larger one.
Mixed(l, r) == \/ l.sign = r.sign
               \/ (IF l.sign THEN l.size ELSE r.size) > (IF l.sign THEN r.size ELSE l.size)
Wider(l, r) == IF r.size > l.size THEN r ELSE l
Known(family) == family \in Beyond
KnownX86(family) == Arm \/ Known(family)

FrameAt == 24
Start(v, w) ==
  [reg |-> [r \in Class.all |->
              CASE r = Class.frame -> FrameAt [] r = Class.stack -> 16
                [] r \in {Class.callee[1], Class.callee[3], Class.scratch[1]} -> v
                [] r = Class.callee[2] -> w
                [] OTHER -> Unsigned(4369 * (r + 1), 8)],
   mem |-> [p \in 0 .. Memory - 1 |-> (3 * p + 1) % Base], flags |-> NoFlags, left |-> FALSE, ok |-> TRUE]

Nothing == [dst |-> {}, mem |-> << >>, truth |-> << >>, uses |-> {}, kept |-> {}, left |-> FALSE]
Init ==
  /\ conv \in {"linux", "windows", "aarch64"}
  /\ \E v, w \in Samples : before = Start(v, w)
  /\ listed = before /\ coded = before /\ meant = Nothing

\* One call, of a machine that holds two samples: what it is for, and what the
\* two backends of either target write.
Fresh == meant = Nothing /\ \E v, w \in Samples : before = Start(v, w)
Call(purpose, listing, image, armListing, words) ==
  /\ meant' = purpose
  /\ listed' = Run(listed, IF Arm THEN armListing ELSE listing)
  /\ coded' = Run(coded, IF Arm THEN E!Decode(words) ELSE D!Decode(image))
  /\ UNCHANGED <<conv, before>>
\* For a value in a register; the operands keep theirs at their own size.
Gives(dst, value, uses) ==
  [Nothing EXCEPT !.dst = {[reg |-> dst, value |-> Unsigned(value, dst.rsize)]}, !.mem = before.mem, !.uses = uses]
\* For what is in memory.
Puts(mem, uses) == [Nothing EXCEPT !.mem = mem, !.uses = uses]

-----------------------------------------------------------------------------
(* Data processing.                                                        *)

\* There is no lea for bytes, and no displacement of more than four; aarch64
\* adds twelve bits at a time.
Addable(v) == IF Arm THEN A!AddImmediate(v) ELSE FitsSigned(v, 4)
Displaced(t, v) ==
  /\ t.size = 1 => KnownX86("bytes")
  /\ ~Addable(v) => Known("wide")
\* A constant of a declared type has to fit the one mov of aarch64.
Movable(t, v) == Arm /\ ~A!MovImmediate(v, A!get_wx(t.size)) => Known("wide")

Mov ==
  /\ Fresh
  /\ \E t \in Scalars : \E triple \in Triples(t, t, t), v \in Literals(t), typed \in BOOLEAN :
       LET dst == IF typed THEN triple[1] ELSE [triple[1] EXCEPT !.dtype = Plain(Comptime)]
       IN  /\ typed \/ v < 0 => Movable(t, v)
           /\ Arm /\ ~typed /\ v < 0 /\ ~FitsSigned(v, 4) => Known("wide")
           /\ Call(Gives(dst, v, {}), L!emit_mov(dst, v), B!emit_mov(dst, v),
                   A!emit_mov(dst, v), W!emit_mov(dst, v))

ZeroOut ==
  /\ Fresh
  /\ \E t \in Scalars : Call(Gives(Acc(t), 0, {}), L!emit_zero_out(Acc(t)), B!emit_zero_out(Acc(t)),
                             A!emit_zero_out(Acc(t)), W!emit_zero_out(Acc(t)))

MovReg ==
  /\ Fresh
  /\ \E t, s \in Scalars : \E triple \in Triples(t, s, s) :
       LET dst == triple[1]   src == triple[2]
       IN  /\ t.size >= s.size /\ dst # src /\ Loadable(src)
           /\ Call(Gives(dst, Held(before, src), {}), L!emit_mov_reg(dst, src), B!emit_mov_reg(dst, src),
                   A!emit_mov_reg(dst, src), W!emit_mov_reg(dst, src))

Add ==
  /\ Fresh
  /\ \E t \in Scalars : \E triple \in Triples(t, t, t), v \in Literals(t) :
       LET dst == triple[1]   lhs == triple[2]
       IN  /\ Loadable(lhs) /\ Displaced(t, v)
           /\ Call(Gives(dst, Held(before, lhs) + v, {}), L!emit_add(dst, lhs, v), B!emit_add(dst, lhs, v),
                   A!emit_add(dst, lhs, v), W!emit_add(dst, lhs, v))

Sub ==
  /\ Fresh
  /\ \E t \in Scalars : \E triple \in Triples(t, t, t), v \in Literals(t) :
       LET dst == triple[1]   lhs == triple[2]
       IN  /\ Loadable(lhs) /\ Displaced(t, 0 - v)
           /\ Call(Gives(dst, Held(before, lhs) - v, {}), L!emit_sub(dst, lhs, v), B!emit_sub(dst, lhs, v),
                   A!emit_sub(dst, lhs, v), W!emit_sub(dst, lhs, v))

\* The second operand is widened into the destination, which in a chain holds the first.
Chained(lhs, l, r) == lhs.reg_type = "SCRATCH" /\ r.size < l.size => KnownX86("chain")

AddReg ==
  /\ Fresh
  /\ \E l, r \in Scalars : \E triple \in Triples(Wider(l, r), l, r) :
       LET dst == triple[1]   lhs == triple[2]   rhs == triple[3]
       IN  /\ Mixed(l, r) /\ Loadable(lhs) /\ Loadable(rhs) /\ Chained(lhs, l, r)
           /\ (l.size = 1 /\ r.size = 1) => KnownX86("bytes")
           /\ Call(Gives(dst, Held(before, lhs) + Held(before, rhs), {}),
                   L!emit_add_reg(dst, lhs, rhs), B!emit_add_reg(dst, lhs, rhs),
                   A!emit_add_reg(dst, lhs, rhs), W!emit_add_reg(dst, lhs, rhs))

SubReg ==
  /\ Fresh
  /\ \E l, r \in Scalars : \E triple \in Triples(Wider(l, r), l, r) :
       LET dst == triple[1]   lhs == triple[2]   rhs == triple[3]
       IN  /\ Mixed(l, r) /\ Loadable(lhs) /\ Loadable(rhs) /\ Chained(lhs, l, r)
           /\ Call(Gives(dst, Held(before, lhs) - Held(before, rhs), {}),
                   L!emit_sub_reg(dst, lhs, rhs), B!emit_sub_reg(dst, lhs, rhs),
                   A!emit_sub_reg(dst, lhs, rhs), W!emit_sub_reg(dst, lhs, rhs))

Lsl ==
  /\ Fresh
  /\ \E t \in Scalars : \E triple \in Triples(t, t, t), v \in 0 .. 5 :
       LET dst == triple[1]   lhs == triple[2]
       IN  /\ Loadable(lhs)
           /\ (t.size = 1 /\ v \in 1 .. 3) => KnownX86("bytes")
           /\ v \in {2, 3} => KnownX86("shift")
           /\ Call(Gives(dst, Held(before, lhs) * TwoTo[v], {}), L!emit_lsl(dst, lhs, v), B!emit_lsl(dst, lhs, v),
                   A!emit_lsl(dst, lhs, v), W!emit_lsl(dst, lhs, v))

Decides(conds, x, y) == [Puts(before.mem, {}) EXCEPT !.truth = [c \in conds |-> True(c, x, y)]]

\* Immediates that can be compared with, and types that can be compared.
ComparesTo(t, v) ==
  /\ (Arm \/ t.size = 8) => (~Addable(v) => Known("wide"))
  /\ ~FitsSigned(v, 1) /\ t.size = 2 => KnownX86("halfword")
Compares(cond, l, r) == IF cond \in Equalities THEN l.size < r.size => Known("equal")
                        ELSE ~l.sign /\ r.sign => Known("sign")

Cmp ==
  /\ Fresh
  /\ \E t \in Scalars : \E triple \in Triples(t, t, t), v \in Literals(t) :
       LET lhs == triple[2]
           y   == IF t.sign THEN v ELSE Unsigned(v, t.size)
       IN  /\ Loadable(lhs) /\ ComparesTo(t, v)
           /\ Call(Decides(Equalities \union Orders(t.sign), Held(before, lhs), y),
                   L!emit_cmp(lhs, v), B!emit_cmp(lhs, v),
                   A!emit_cmp(lhs, v), W!emit_cmp(lhs, v))

CmpReg ==
  /\ Fresh
  /\ \E l, r \in Scalars, conds \in {Equalities, Orders(TRUE), Orders(FALSE)} :
       \E triple \in Triples(l, l, r) :
       LET lhs == triple[2]   rhs == triple[3]
           cond == CHOOSE c \in conds : TRUE
       IN  /\ Mixed(l, r) /\ Loadable(lhs) /\ Loadable(rhs) /\ Chained(lhs, l, r)
           /\ conds \in {Equalities, Orders(l.sign)} /\ Compares(cond, l, r)
           /\ Call(Decides(conds, Held(before, lhs), Held(before, rhs)),
                   L!emit_cmp_reg(lhs, rhs, cond), B!emit_cmp_reg(lhs, rhs, cond),
                   A!emit_cmp_reg(lhs, rhs, cond), W!emit_cmp_reg(lhs, rhs, cond))

\* A comparison as an argument: its outcome follows directly.
CondSet ==
  /\ meant.truth # << >>
  /\ \E t \in {Fund(4, TRUE), Fund(8, FALSE), Fund(1, TRUE)}, cond \in DOMAIN meant.truth :
       LET dst == Argument(t)
       IN  Call(Gives(dst, IF meant.truth[cond] THEN 1 ELSE 0, {}),
                L!emit_cond_set(dst, cond), B!emit_cond_set(dst, cond),
                A!emit_cond_set(dst, cond), W!emit_cond_set(dst, cond))

-----------------------------------------------------------------------------
(* Memory: the frame, objects behind a pointer, arrays.                    *)

\* Where the parser's places are: the frame from its top, or behind a pointer.
Pointer(base) == [Var(1, Fund(8, FALSE)) EXCEPT !.dtype.base = base]
ObjectAt == 8
Pointing == before.reg[Class.callee[2]] = ObjectAt
Spots(base) == {<<[FP EXCEPT !.dtype.base = base], 0 - off>> : off \in {1, 4, 8, 12}}
               \union (IF Pointing THEN {<<Pointer(base), off>> : off \in {0, 4}} ELSE {})
Spot(place) == before.reg[Place(place[1])] + place[2]
From(base) == {Var(0, base), Acc(base)}
To(base) == {Var(3, base), Acc(base), Argument(base)}
Stored(at, n, v) == Written(before.mem, at, n, v)

StrReg ==
  /\ Fresh
  /\ \E t \in Scalars : \E place \in Spots(t), src \in From(t) :
       Call(Puts(Stored(Spot(place), t.size, Bits(before, src)), {}),
            L!emit_str_reg(place[1], src, place[2]), B!emit_str_reg(place[1], src, place[2]),
            A!emit_str_reg(place[1], src, place[2]), W!emit_str_reg(place[1], src, place[2]))

\* The binary backend of aarch64 stores the eight bytes of xzr for a zero.
StrImm ==
  /\ Fresh
  /\ \E t \in Scalars : \E place \in Spots(t), v \in Literals(t) :
       /\ Movable(t, v) /\ (Arm /\ v = 0 /\ t.size < 8 => Known("zero"))
       /\ Call(Puts(Stored(Spot(place), t.size, Unsigned(v, t.size)), {}),
            L!emit_str_imm(place[1], v, place[2]), B!emit_str_imm(place[1], v, place[2]),
            A!emit_str_imm(place[1], v, place[2]), W!emit_str_imm(place[1], v, place[2]))

Ldr ==
  /\ Fresh
  /\ \E t \in Scalars : \E place \in Spots(t), dst \in To(t) :
       Call(Gives(dst, Bytes(before, Spot(place), t.size), {}),
            L!emit_ldr(dst, place[1], place[2]), B!emit_ldr(dst, place[1], place[2]),
            A!emit_ldr(dst, place[1], place[2]), W!emit_ldr(dst, place[1], place[2]))

\* A register as an offset in bytes (these three see a whole register).
Offset == Var(0, Fund(8, FALSE))
ByOffset == Pointing /\ Held(before, Offset) \in 0 .. 8

StrRegoff ==
  /\ Fresh /\ ByOffset
  /\ \E t \in Scalars : \E src \in {Var(2, t), Acc(t)} :
       Call(Puts(Stored(ObjectAt + Held(before, Offset), t.size, Bits(before, src)), {}),
            L!emit_str_regoff(Pointer(t), src, Offset), B!emit_str_regoff(Pointer(t), src, Offset),
            A!emit_str_regoff(Pointer(t), src, Offset), W!emit_str_regoff(Pointer(t), src, Offset))

StrImmRegoff ==
  /\ Fresh /\ ByOffset
  /\ \E t \in Scalars : \E v \in Literals(t) :
       /\ Movable(t, v)
       /\ Call(Puts(Stored(ObjectAt + Held(before, Offset), t.size, Unsigned(v, t.size)), {}),
            L!emit_str_imm_regoff(Pointer(t), v, Offset), B!emit_str_imm_regoff(Pointer(t), v, Offset),
            A!emit_str_imm_regoff(Pointer(t), v, Offset), W!emit_str_imm_regoff(Pointer(t), v, Offset))

LdrReg ==
  /\ Fresh /\ ByOffset
  /\ \E t \in Scalars : \E dst \in To(t) :
       Call(Gives(dst, Bytes(before, ObjectAt + Held(before, Offset), t.size), {}),
            L!emit_ldr_reg(dst, Pointer(t), Offset), B!emit_ldr_reg(dst, Pointer(t), Offset),
            A!emit_ldr_reg(dst, Pointer(t), Offset), W!emit_ldr_reg(dst, Pointer(t), Offset))

\* An array, on the stack or behind the first register of a slice; its index
\* is a variable of any type, checked to lie within the array.
Elements(n) == {Plain(Fund(n, FALSE)), Plain(Fund(n, TRUE))}
ArrayOf(dtype) == dtype_wrap(dtype, Declarator("ARRAY", 2))
SliceOf(dtype) == dtype_wrap(dtype, Declarator("SLICE", 2))
Arrays(elem) ==
  {Reg("STACK", FrameAt - ObjectAt, elem.base.size, ArrayOf(elem))}
  \union (IF Pointing THEN {[Var(1, Fund(8, FALSE)) EXCEPT !.dtype = SliceOf(elem)]} ELSE {})
Element(index, n) == ObjectAt + Held(before, index) * n
Indexes(t) == {i \in {Var(0, t)} : Loadable(i) /\ Held(before, i) \in {0, 1}}

ArrayStore ==
  /\ Fresh
  /\ \E n \in {1, 2, 4, 8}, t \in Scalars : \E elem \in Elements(n), index \in Indexes(t) :
       \E array \in Arrays(elem), src \in {Acc(elem.base), Var(2, elem.base)} :
         Call(Puts(Stored(Element(index, n), n, Bits(before, src)), {index}),
              L!emit_array_access(array, src, index, TRUE), B!emit_array_access(array, src, index, TRUE),
              A!emit_array_access(array, src, index, TRUE), W!emit_array_access(array, src, index, TRUE))

ArrayLoad ==
  /\ Fresh
  /\ \E n \in {1, 2, 4, 8}, t \in Scalars : \E elem \in Elements(n), index \in Indexes(t) :
       \E array \in Arrays(elem), dst \in To(elem.base) :
         Call(Gives(dst, Bytes(before, Element(index, n), n), {index}),
              L!emit_array_access(dst, Sized(array, n), index, FALSE),
              B!emit_array_access(dst, Sized(array, n), index, FALSE),
              A!emit_array_access(dst, Sized(array, n), index, FALSE), W!emit_array_access(dst, Sized(array, n), index, FALSE))

\* The address of an element, which may be a struct (on aarch64 the index can
\* only be shifted).
Twelve == [NoBase EXCEPT !.tag = "STRUCT", !.size = 12, !.align = 4]
ElemAddr ==
  /\ Fresh
  /\ \E elem \in (UNION {Elements(n) : n \in {1, 4, 8}}) \union {Plain(Twelve)}, t \in Scalars :
       \E index \in Indexes(t), array \in Arrays(elem), dst \in To(Fund(8, FALSE)) :
         /\ Arm /\ elem.base = Twelve => Known("stride")
         /\ Call(Gives(dst, Element(index, elem.base.size), {index}),
              L!emit_elem_addr(dst, array, index), B!emit_elem_addr(dst, array, index),
              A!emit_elem_addr(dst, array, index), W!emit_elem_addr(dst, array, index))

\* Parts of struct literals on the stack, put together in SCRATCH 0 and 1.
Whole(i) == Reg("SCRATCH", i, 8, Plain(NoBase))
StorePacked ==
  /\ Fresh
  /\ \E n \in 1 .. 8 :
       Call(Puts(Stored(FrameAt - 16, n, Bits(before, Whole(0))), {}),
            L!emit_store_packed(FP, 0 - 16, Whole(0), n), B!emit_store_packed(FP, 0 - 16, Whole(0), n),
            A!emit_store_packed(FP, 0 - 16, Whole(0), n), W!emit_store_packed(FP, 0 - 16, Whole(0), n))

StoreEightbytes ==
  /\ Fresh
  /\ \E n \in {1, 2, 4, 8}, lo, hi, both \in BOOLEAN :
       LET part(i, written) == IF written THEN Bits(before, Whole(i)) ELSE 0
           size == IF both THEN 8 ELSE n
           mem  == Stored(FrameAt - 16, size, part(0, lo))
           Calls(s(_, _, _, _, _, _, _)) == s(FP, 0 - 16, Sized(Whole(0), n), lo, Sized(Whole(1), n), hi, both)
       IN  /\ ~both => ~hi
           /\ Call(Puts(IF both THEN Written(mem, FrameAt - 8, 8, part(1, hi)) ELSE mem, {}),
                   Calls(L!emit_store_eightbytes), Calls(B!emit_store_eightbytes),
                   Calls(A!emit_store_eightbytes), Calls(W!emit_store_eightbytes))

Zerofill ==
  /\ Fresh
  /\ \E n \in 1 .. 16 :
       LET object == Plain([NoBase EXCEPT !.tag = "STRUCT", !.size = n])
       IN  Call(Puts(Stored(FrameAt - 16, n, 0), {}),
                L!emit_zerofill(FP, 0 - 16, object), B!emit_zerofill(FP, 0 - 16, object),
                A!emit_zerofill(FP, 0 - 16, object), W!emit_zerofill(FP, 0 - 16, object))

-----------------------------------------------------------------------------
Next == \/ Mov \/ ZeroOut \/ MovReg \/ Add \/ Sub \/ AddReg \/ SubReg \/ Lsl
        \/ Cmp \/ CmpReg \/ CondSet
        \/ StrReg \/ StrImm \/ Ldr \/ StrRegoff \/ StrImmRegoff \/ LdrReg
        \/ ArrayStore \/ ArrayLoad \/ ElemAddr
        \/ StorePacked \/ StoreEightbytes \/ Zerofill
Spec == Init /\ [][Next]_vars

-----------------------------------------------------------------------------
(* Properties.                                                             *)

TypeOK ==
  /\ conv \in {"linux", "windows", "aarch64"}
  /\ \A m \in {before, listed, coded} :
       /\ \A r \in Class.all : m.reg[r] \in 0 .. Values(8) - 1
       /\ \A p \in 0 .. Memory - 1 : m.mem[p] \in 0 .. Base - 1
  /\ \A d \in meant.dst : Place(d.reg) \in Class.all

Called == meant # Nothing
Destinations == {d.reg : d \in meant.dst}

\* A call computes what it is for: the value in the low bytes of the
\* destination, the bytes in memory and no others, the outcome of a comparison.
DoesWhatItIsFor ==
  Called => /\ \A d \in meant.dst : Bits(listed, d.reg) = d.value
            /\ \A p \in DOMAIN meant.mem : listed.mem[p] = meant.mem[p]
            /\ \A c \in DOMAIN meant.truth :
                 listed.flags.valid /\ Holds(c, listed.flags) = meant.truth[c]

\* What else a call may change: the registers of intermediate results, the
\* upper part of an operand, never a variable or the frame.
Variables == {[Var(i, Fund(8, FALSE)) EXCEPT !.rsize = 8] : i \in 0 .. Len(Class.callee) - 1} \union
             {FP, Reg("STACK", 0, 8, Plain(NoBase))}
\* As the program sees a register after the call.
Seen(v, at) ==
  LET sized == {r \in Destinations \union meant.uses : Place(r) = at}
  IN  IF sized = {} THEN v ELSE CHOOSE r \in sized : TRUE
Same(m1, m2, r) == Bits(m1, r) = Bits(m2, r)
VariablesKept ==
  LET written == {Place(d) : d \in Destinations}
  IN  \A v \in Variables : Place(v) \notin written => Same(listed, before, Seen(v, Place(v)))

\* The binary does what the listing does.
SameEffect ==
  /\ coded.mem = listed.mem
  /\ \A r \in Variables \union Destinations : Same(coded, listed, Seen(r, Place(r)))
  /\ \A c \in DOMAIN meant.truth :
       coded.flags.valid /\ Holds(c, coded.flags) = Holds(c, listed.flags)

\* Every line is one the assembler takes, every byte sequence an instruction.
AllInstructions == listed.ok /\ coded.ok
=============================================================================
