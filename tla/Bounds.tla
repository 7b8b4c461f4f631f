------------------------------- MODULE Bounds --------------------------------
(***************************************************************************)
(* What the parser has the backends write around an access that can be out *)
(* of range (main.c: checkop, dyn_slice_access, expr_load, do_store), for  *)
(* a tag that is checked, and for a comparison with a branch: a value is   *)
(* put where the function returns it, the flags are set, control leaves,   *)
(* and what follows takes place only if it has not left.                   *)
(***************************************************************************)
EXTENDS Aggregates

CONSTANTS IndexValues,    \* what the registers of an index and of an end hold
          EndValues,
          SliceLengths    \* lengths of the slice

\* A machine with an index, an end, and a slice of `count' elements.
SliceStart(i, j, count) ==
  LET callee == Class.callee
  IN  [Start(0, 0) EXCEPT !.reg[callee[1]] = i, !.reg[callee[2]] = j,
                          !.reg[callee[3]] = ObjectAt, !.reg[callee[4]] = count]
HasSlice == before.reg[Class.callee[3]] = ObjectAt /\ before.reg[Class.callee[4]] \in SliceLengths
InitSlice ==
  /\ conv \in {"linux", "windows", "aarch64"}
  /\ \E i \in IndexValues, j \in EndValues, count \in SliceLengths : before = SliceStart(i, j, count)
  /\ listed = before /\ coded = before /\ meant = Nothing
FreshSlice == meant = Nothing /\ HasSlice

-----------------------------------------------------------------------------
(* The backend's functions, of the backend `be' the parser is linked with. *)

Moved(be, dst, v) ==
  Of(be, L!emit_mov(dst, v), B!emit_mov(dst, v), A!emit_mov(dst, v), W!emit_mov(dst, v))
MovedReg(be, dst, src) ==
  Of(be, L!emit_mov_reg(dst, src), B!emit_mov_reg(dst, src), A!emit_mov_reg(dst, src), W!emit_mov_reg(dst, src))
Subtracted(be, dst, lhs, v) ==
  Of(be, L!emit_sub(dst, lhs, v), B!emit_sub(dst, lhs, v), A!emit_sub(dst, lhs, v), W!emit_sub(dst, lhs, v))
SubtractedReg(be, dst, lhs, rhs) ==
  Of(be, L!emit_sub_reg(dst, lhs, rhs), B!emit_sub_reg(dst, lhs, rhs),
     A!emit_sub_reg(dst, lhs, rhs), W!emit_sub_reg(dst, lhs, rhs))
Compared(be, lhs, v) == Of(be, L!emit_cmp(lhs, v), B!emit_cmp(lhs, v), A!emit_cmp(lhs, v), W!emit_cmp(lhs, v))
ComparedReg(be, lhs, rhs, cond) ==
  Of(be, L!emit_cmp_reg(lhs, rhs, cond), B!emit_cmp_reg(lhs, rhs, cond),
     A!emit_cmp_reg(lhs, rhs, cond), W!emit_cmp_reg(lhs, rhs, cond))
Branched(be, cond) ==
  Of(be, L!emit_branch_cond(cond), B!emit_branch_cond(cond), A!emit_branch_cond(cond), W!emit_branch_cond(cond))
Accessed(be, dst, src, index, is_store) ==
  Of(be, L!emit_array_access(dst, src, index, is_store), B!emit_array_access(dst, src, index, is_store),
     A!emit_array_access(dst, src, index, is_store), W!emit_array_access(dst, src, index, is_store))
ElementAt(be, dst, object, index) ==
  Of(be, L!emit_elem_addr(dst, object, index), B!emit_elem_addr(dst, object, index),
     A!emit_elem_addr(dst, object, index), W!emit_elem_addr(dst, object, index))
StoredAt(be, dst, src, offset) ==
  Of(be, L!emit_str_reg(dst, src, offset), B!emit_str_reg(dst, src, offset),
     A!emit_str_reg(dst, src, offset), W!emit_str_reg(dst, src, offset))
LoadedFrom(be, dst, src, offset) ==
  Of(be, L!emit_ldr(dst, src, offset), B!emit_ldr(dst, src, offset),
     A!emit_ldr(dst, src, offset), W!emit_ldr(dst, src, offset))

-----------------------------------------------------------------------------
(* Checks.                                                                 *)

\* What is done about a failing check: control goes to a label or returns,
\* with nothing, with a constant, with a register or with a tag.
Action(kind, base, value, reg) == [kind |-> kind, base |-> base, value |-> value, reg |-> reg]
NoReg == Reg("NONE", 0, 0, Plain(NoBase))
Unchecked == Action("UNCHECKED", NoBase, 0, NoReg)
ToLabel == Action("->", NoBase, 0, NoReg)
Actions == {Unchecked, ToLabel, Action("ret", Fund(4, TRUE), 5, NoReg), Action("eret", Fund(4, TRUE), 3, NoReg),
            Action("ret reg", Fund(8, FALSE), 0, Var(1, Fund(8, FALSE)))}
\* The return register, as the caller sees it and as a constant goes there,
\* before its type is resolved.
Returned(base) == Reg("RET", 0, base.size, Plain(base))
Untyped(base) == Reg("RET", 0, 0, Plain(Comptime))

\* stmt_ret_pre, stmt_eret_cond: the value goes to the return register first.
ReturnValue(be, action) ==
  CASE action.kind = "ret"     -> Moved(be, Untyped(action.base), action.value)
    [] action.kind = "ret reg" -> MovedReg(be, Returned(action.base), action.reg)
    [] action.kind = "eret"    -> Moved(be, Returned(action.base), action.value)
    [] OTHER                   -> << >>
expr_cmp(be, lhs, rhs, cond) ==
  IF rhs.tag = "REG" THEN ComparedReg(be, lhs, rhs.reg, cond) ELSE Compared(be, lhs, rhs.value)
checkop(be, action, index, against, cond) ==
  IF action = Unchecked THEN << >>
  ELSE ReturnValue(be, action) \o expr_cmp(be, index, against, cond) \o Branched(be, cond)
\* mutant: the length itself passes for an index
checkop_bounds_late(be, action, index, against, inclusive) == checkop(be, action, index, against, "HI")
\* An index has to be below the length, an end may be the length.
checkop_bounds(be, action, index, against, inclusive) ==
  checkop(be, action, index, against, IF inclusive THEN "HS" ELSE "HI")

\* What a call is for if it is one that may leave: to return a value, or to
\* go on with the rest.
Gone(action) ==
  [Nothing EXCEPT !.mem = before.mem, !.left = TRUE,
     !.dst = CASE action.kind \in {"ret", "eret"} ->
                    {[reg |-> Returned(action.base), value |-> Unsigned(action.value, action.base.size)]}
               [] action.kind = "ret reg" ->
                    {[reg |-> Returned(action.base), value |-> Bits(before, action.reg)]}
               [] OTHER -> {}]
Checked(leaves, action, rest) == IF leaves THEN Gone(action) ELSE rest

\* Arguments of the same call that have been evaluated before this one.
Earlier(dst) == IF dst.reg_type = "PARAM" THEN {[dst EXCEPT !.offset = k, !.rsize = 8] : k \in 0 .. dst.offset - 1} ELSE {}
Keeping(purpose, dst) == [purpose EXCEPT !.kept = Earlier(dst)]

\* Known to go wrong: registers of the code in between that hold an argument,
Spares(dst, temporaries) == (\E r \in Earlier(dst) : Place(r) \in {Place(t) : t \in temporaries}) => Known("argument")
\* on x86, where the first scratch register is the return register, what one
\* of the two holds when the other is written,
Returning(action) == action.kind \in {"ret", "ret reg", "eret"}
Widens(index, against) == against.tag = "REG" /\ index.rsize < against.reg.rsize
ReturnKept(action, index, against) ==
  action # Unchecked /\ Returning(action) /\ Widens(index, against) => KnownX86("returned")
ValueKept(src, action, index, against) ==
  src.reg_type = "SCRATCH" /\ action # Unchecked /\ (Returning(action) \/ Widens(index, against)) => KnownX86("computed")
\* and a length that the type of the index does not reach.
Reaches(t, v) == IF t.sign THEN FitsSigned(v, t.size) ELSE v < Values(t.size)
Comparable(index, against) ==
  against.tag = "VALUE" =>
    /\ ComparesTo(index.dtype.base, against.value)
    /\ ~Reaches(index.dtype.base, against.value) => KnownX86("short")

-----------------------------------------------------------------------------
(* Arrays on the stack, and a slice in two registers.                      *)

SliceReg(elem) == Reg("NREG", 2, 8, dtype_wrap(elem, Declarator("SLICE", 1)))
StackArray(elem, n) == Reg("STACK", FrameAt - ObjectAt, elem.base.size, dtype_wrap(elem, Declarator("ARRAY", n)))
is_slice(object) == dtype_outer(object.dtype).tag = "SLICE"
\* The length: the register behind the slice's, or a constant.
LengthOf(object) == IF is_slice(object) THEN InReg(Sized([object EXCEPT !.offset = @ + 1], 8))
                    ELSE Value(dtype_outer(object.dtype).amount)
Length(object) == IF is_slice(object) THEN before.reg[Class.callee[4]] ELSE dtype_outer(object.dtype).amount
Objects(elem) == {SliceReg(elem)} \union {StackArray(elem, n) : n \in {2, 5} \intersect 1 .. (FrameAt - ObjectAt) \div elem.base.size}
Elems == {Plain(Fund(1, TRUE)), Plain(Fund(4, TRUE)), Plain(Fund(8, FALSE))}
IndexTypes == {Fund(1, FALSE), Fund(1, TRUE), Fund(2, FALSE), Fund(4, TRUE), Fund(8, FALSE)}
Index(t) == Var(0, t)
End(t) == Var(1, t)
Fits(object, index, most) == Held(before, index) \in 0 .. most
Results(elem) == {Acc(elem.base), Reg("NREG", 4, elem.base.size, elem)}
                 \union {[Argument(elem.base) EXCEPT !.offset = k] : k \in {1, 3}}
\* x86 puts the address of an array on the stack in the third scratch register.
Temporaries(object, action) ==
  {Reg("SCRATCH", 2, 8, Plain(NoBase)) : x \in {1} \intersect (IF is_slice(object) THEN {} ELSE {1})}
  \union {Returned(Fund(4, TRUE)) : x \in {1} \intersect (IF Returning(action) THEN {1} ELSE {})}

\* One access with an index: what all of them ask of it.
Guarded(object, index, action) ==
  /\ Loadable(index)
  /\ action = Unchecked => Fits(object, index, Length(object) - 1)
  /\ Comparable(index, LengthOf(object)) /\ ReturnKept(action, index, LengthOf(object))

\* expr_load, expr_load_elem: [Object * Index ! action]
expr_load_elem(be, dst, object, index, action) ==
  checkop_bounds(be, action, index, LengthOf(object), TRUE)
    \o Accessed(be, dst, Sized(object, object.dtype.base.size), index, FALSE)
LoadElement ==
  /\ FreshSlice
  /\ \E elem \in Elems, t \in IndexTypes, action \in Actions :
     \E object \in Objects(elem), dst \in Results(elem) :
       LET index == Index(t)   n == elem.base.size
           code == [be \in Kinds |-> expr_load_elem(be, dst, object, index, action)]
           leaves == ~Fits(object, index, Length(object) - 1)
       IN  /\ Guarded(object, index, action) /\ Spares(dst, Temporaries(object, action))
           /\ Compiled(Checked(leaves, action,
                     Keeping(Gives(dst, Bytes(before, Element(index, n), n), {index}), dst)), code)

\* do_store: src =[Object * Index ! action], where a constant goes to a
\* register after the check.
do_store(be, src, object, index, action) ==
  LET reg == IF src.tag = "REG" THEN src.reg
             ELSE Reg("SCRATCH", 0, object.dtype.base.size, Plain(object.dtype.base))
  IN  checkop_bounds(be, action, index, LengthOf(object), TRUE)
        \o (IF src.tag = "REG" THEN << >> ELSE Moved(be, reg, src.value))
        \o Accessed(be, object, reg, index, TRUE)
StoreElement ==
  /\ FreshSlice
  /\ \E elem \in Elems, t \in IndexTypes, action \in Actions :
     \E object \in Objects(elem), src \in {InReg(Acc(elem.base)), InReg(Var(5, elem.base)), Value(3)} :
       LET index == Index(t)   n == elem.base.size
           code == [be \in Kinds |-> do_store(be, src, object, index, action)]
           leaves == ~Fits(object, index, Length(object) - 1)
           value == IF src.tag = "REG" THEN Bits(before, src.reg) ELSE src.value
       IN  /\ Guarded(object, index, action)
           /\ src.tag = "REG" => ValueKept(src.reg, action, index, LengthOf(object))
           /\ Compiled(Checked(leaves, action, Puts(Stored(Element(index, n), n, value), {index})), code)

\* [Slice.1 ! action] and src =[Slice.1 ! action]: the length has to be more
\* than the constant, which is in the slice's type, its distance in the
\* register's displacement.
StaticElement ==
  /\ FreshSlice
  /\ \E elem \in Elems, action \in Actions \ {Unchecked}, is_store \in BOOLEAN :
     \E value \in IF is_store THEN {Var(5, elem.base)} ELSE Results(elem) :
       LET object == SliceReg(elem)   n == elem.base.size   at == ObjectAt + n
           access(be) == IF is_store THEN StoredAt(be, object, value, n)
                         ELSE LoadedFrom(be, value, Sized(object, n), n)
           code == [be \in Kinds |-> checkop(be, action, LengthOf(object).reg, Value(1), "LS") \o access(be)]
       IN  /\ ~is_store => Spares(value, Temporaries(object, action))
           /\ Compiled(Checked(Length(object) <= 1, action,
                     IF is_store THEN Puts(Stored(at, n, Bits(before, value)), {})
                     ELSE Keeping(Gives(value, Bytes(before, at, n), {}), value)), code)

-----------------------------------------------------------------------------
(* dyn_slice_access: Object * I, Object * I.., Object * ..J, Object * I..J *)

\* The address of the first element, and how many follow.
First(dst) == Sized(dst, 8)
Second(dst) == [Sized(dst, 8) EXCEPT !.offset = @ + 1]
Rest(dst) == [Second(dst) EXCEPT !.dtype = Plain(Comptime)]
RangeChecks(be, shape, object, i, j, action) ==
  LET element == shape \in {"I", "I.."}
  IN  checkop_bounds(be, action, IF element THEN i ELSE j, LengthOf(object), element)
        \o (IF shape # "I..J" \/ action = Unchecked THEN << >>
            ELSE ComparedReg(be, i, j, "HI") \o Branched(be, "HI"))
RangeCount(be, shape, object, i, j, rest) ==
  LET narrow == Sized(rest, i.rsize)
  IN  CASE shape = "I"    -> << >>
        [] shape = "I.."  ->
             (IF is_slice(object) THEN MovedReg(be, rest, LengthOf(object).reg)
              ELSE Moved(be, rest, LengthOf(object).value)) \o SubtractedReg(be, rest, rest, Sized(i, 8))
        [] shape = "..J"  -> MovedReg(be, rest, j)
        [] shape = "I..J" -> SubtractedReg(be, narrow, j, i) \o MovedReg(be, rest, [narrow EXCEPT !.dtype = i.dtype])
RangeParts(be, shape, object, i, j, dst) ==
  (IF shape = "..J" THEN Subtracted(be, First(dst), FP, object.offset) ELSE ElementAt(be, First(dst), object, i))
    \o RangeCount(be, shape, object, i, j, Rest(dst))
dyn_slice_access(be, shape, object, i, j, dst, action) ==
  RangeChecks(be, shape, object, i, j, action) \o RangeParts(be, shape, object, i, j, dst)

RangeFails(shape, object, i, j) ==
  LET last == Length(object) - (IF shape \in {"I", "I.."} THEN 1 ELSE 0)
  IN  CASE shape \in {"I", "I.."} -> ~Fits(object, i, last)
        [] shape = "..J"          -> ~Fits(object, j, last)
        [] shape = "I..J"         -> ~Fits(object, j, last) \/ ~Fits(object, i, Held(before, j))
RangeGives(shape, object, i, j, dst) ==
  LET first == IF shape = "..J" THEN 0 ELSE Held(before, i)
      last  == IF shape \in {"..J", "I..J"} THEN Held(before, j) ELSE Length(object)
      pair  == {[reg |-> First(dst), value |-> ObjectAt + first * object.dtype.base.size],
                [reg |-> Second(dst), value |-> last - first]}
      used  == {x \in {i} : shape # "..J"}
  IN  [Gives(dst, 0, used) EXCEPT !.dst = IF shape = "I" THEN {d \in pair : d.reg = First(dst)} ELSE pair]

DynamicRange ==
  /\ FreshSlice
  /\ \E elem \in Elems, t \in IndexTypes, action \in Actions, shape \in {"I", "I..", "..J", "I..J"} :
     \E object \in Objects(elem), dst \in Results(elem) :
       LET i == Index(t)   j == End(t)
           bounded == IF shape \in {"I", "I.."} THEN i ELSE j
           fails == RangeFails(shape, object, i, j)
           code == [be \in Kinds |-> dyn_slice_access(be, shape, object, i, j, dst, action)]
       IN  /\ Loadable(i) /\ Loadable(j) /\ (action = Unchecked => ~fails)
           /\ action.kind = "ret reg" => bounded # j /\ shape # "I..J"
           /\ Comparable(bounded, LengthOf(object)) /\ ReturnKept(action, bounded, LengthOf(object))
           /\ shape = "..J" /\ is_slice(object) => Known("end")
           /\ Spares(dst, Temporaries(SliceReg(elem), action))
           /\ Compiled(Checked(fails, action, Keeping(RangeGives(shape, object, i, j, dst), dst)), code)

-----------------------------------------------------------------------------
(* Tags, comparisons, and differences from a constant.                     *)

\* checkop_err: Value ! action, where the value's type has a tag.
CheckTag ==
  /\ FreshSlice
  /\ \E t \in Scalars, tag \in {1, 3}, action \in Actions \ {Unchecked} :
       LET value == Index(t)
           code == [be \in Kinds |-> checkop(be, action, value, Value(tag), "EQ")]
       IN  /\ Loadable(value) /\ ComparesTo(t, tag) /\ tag = Unsigned(tag, t.size)
           /\ (t.sign => FitsSigned(tag, t.size))
           /\ Compiled(Checked(Held(before, value) = tag, action, Puts(before.mem, {})), code)

Operators == {"is", "isnt", ">", ">=", "<", "<="}
\* binary_op: the condition of an operator, by the sign of its first operand.
condition(op, unsigned) ==
  CASE op = "is" -> "EQ" [] op = "isnt" -> "NE"
    [] op = ">"  -> IF unsigned THEN "HI" ELSE "GT"
    [] op = ">=" -> IF unsigned THEN "HS" ELSE "GE"
    [] op = "<"  -> IF unsigned THEN "LO" ELSE "LT"
    [] op = "<=" -> IF unsigned THEN "LS" ELSE "LE"
cond_flip(cond) ==
  LET pair == CHOOSE p \in {{"EQ", "NE"}, {"HS", "LO"}, {"HI", "LS"}, {"GE", "LT"}, {"GT", "LE"}} : cond \in p
  IN  CHOOSE c \in pair : c # cond
Says(op, x, y) == CASE op = "is" -> x = y [] op = "isnt" -> x # y [] op = ">" -> x > y
                    [] op = ">=" -> x >= y [] op = "<" -> x < y [] op = "<=" -> x <= y

\* compare_branch: `L op R label->' leaves if it holds, `L op R -> line' if not.
CompareBranch ==
  /\ FreshSlice
  /\ \E l \in Scalars, op \in Operators, named \in BOOLEAN :
     \E rhs \in {Value(2)} \union {InReg(Var(1, r)) : r \in Scalars} :
       LET lhs == Index(l)
           cond == condition(op, ~l.sign)
           says == Says(op, Held(before, lhs), IF rhs.tag = "REG" THEN Held(before, rhs.reg) ELSE rhs.value)
           code == [be \in Kinds |-> expr_cmp(be, lhs, rhs, cond) \o Branched(be, IF named THEN cond ELSE cond_flip(cond))]
       IN  /\ Loadable(lhs)
           /\ rhs.tag = "VALUE" => ComparesTo(l, rhs.value) /\ (l.size = 1 => ~l.sign)
           /\ rhs.tag = "REG" => LET r == rhs.reg.dtype.base
                                 IN  Loadable(rhs.reg) /\ Mixed(l, r) /\ Compares(cond, l, r)
           /\ Compiled(Checked(says = named, ToLabel, Puts(before.mem, {})), code)

\* cond_eval: a comparison of constants is decided while compiling.
FoldedArgument ==
  /\ FreshSlice
  /\ \E x, y \in {0 - 1, 0, 1}, op \in Operators :
       LET dst == [Argument(Comptime) EXCEPT !.rsize = 0]
           taken == True(condition(op, FALSE), x, y)
           code == [be \in Kinds |-> Moved(be, dst, IF taken THEN 1 ELSE 0)]
       IN  Compiled(Keeping(Gives(Sized(dst, 4), IF Says(op, x, y) THEN 1 ELSE 0, {}), dst), code)

\* binary_op: constant - Variable, by way of a scratch register.
ConstantMinus ==
  /\ FreshSlice
  /\ \E t \in Scalars, v \in {1, 5} : \E dst \in Results(Plain(t)) :
       LET tmp == Reg("SCRATCH", IF dst.reg_type = "SCRATCH" THEN dst.offset + 1 ELSE dst.offset, t.size, Plain(t))
           rhs == Var(0, t)
           code == [be \in Kinds |-> Moved(be, tmp, v) \o SubtractedReg(be, dst, tmp, rhs)]
       IN  /\ Loadable(rhs) /\ v < Values(t.size) /\ dst.offset < 4
           /\ Spares(dst, {tmp})
           /\ Compiled(Keeping(Gives(dst, v - Held(before, rhs), {}), dst), code)

BoundsNext ==
  \/ AggregatesNext
  \/ LoadElement \/ StoreElement \/ StaticElement \/ DynamicRange
  \/ CheckTag \/ CompareBranch \/ FoldedArgument \/ ConstantMinus
BoundsSpec == (InitSlice \/ Init) /\ [][BoundsNext]_vars

-----------------------------------------------------------------------------
(* Properties.                                                             *)

\* Control leaves if and only if the check is to fail: the index is outside
\* the object as a number of its own type, the tag is there, the comparison
\* says so; and both backends agree on it.
ChecksDecide == listed.left = meant.left /\ coded.left = meant.left

\* Arguments of a call stay in their registers while those after them are
\* computed and checked.
ArgumentsKept ==
  ~listed.left => \A r \in meant.kept : Bits(listed, r) = Bits(before, r) /\ Bits(coded, r) = Bits(before, r)
=============================================================================
