----------------------------- MODULE Aggregates -----------------------------
(***************************************************************************)
(* Struct and array literals (main.c, "Aggregates"): a declared type is    *)
(* laid out, a literal of it is read, and the parser has the backend put   *)
(* it together eight bytes at a time, into a stack object or into one or   *)
(* two registers.                                                          *)
(***************************************************************************)
EXTENDS Backends, SequencesExt

CONSTANT LiteralSamples   \* the values of Samples that literals are built from

-----------------------------------------------------------------------------
(* The parser's side, with `be' the kind of backend it is linked with.     *)

\* mutant: a member goes where the last one ended
AddMemberPacked(s, dtype) ==
  [s EXCEPT !.members = Append(@, [dtype |-> dtype, offset |-> s.size]),
            !.size = s.size + dtype.base.size,
            !.align = IF dtype.base.align > @ THEN dtype.base.align ELSE @]
\* A member goes to the next place its base type may have.
AddMember(s, dtype) ==
  LET offset == AlignTo(s.size, dtype.base.align)
  IN  [s EXCEPT !.members = Append(@, [dtype |-> dtype, offset |-> offset]),
                !.size = offset + dtype.base.size,
                !.align = IF dtype.base.align > @ THEN dtype.base.align ELSE @]
stmt_struct_decl(dtypes) ==
  LET s == FoldLeft(AddMember, [NoBase EXCEPT !.tag = "STRUCT"], dtypes)
  IN  [s EXCEPT !.size = AlignTo(@, s.align)]

\* What a literal does not name is zero, if it ends in `.. 0'.
read_aggregate(n, given) == [i \in 1 .. n |-> IF i \in DOMAIN given THEN given[i] ELSE Value(0)]

Eightbyte(be, dst, dtype, args, index, limit) ==
  CASE be = "asm" /\ ~Arm -> L!emit_eightbyte_struct(dst, dtype, args, index, limit)
    [] be = "bin" /\ ~Arm -> B!emit_eightbyte_struct(dst, dtype, args, index, limit)
    [] be = "asm" /\ Arm  -> A!emit_eightbyte_struct(dst, dtype, args, index, limit)
    [] be = "bin" /\ Arm  -> W!emit_eightbyte_struct(dst, dtype, args, index, limit)
\* What the parser has both kinds of backend write, for the target it compiles for.
Kinds == {"asm", "bin"}
Compiled(purpose, code) == Call(purpose, code["asm"], code["bin"], code["asm"], code["bin"])
\* The backend's version of one of four functions that write the same call.
Of(be, l, b, a, w) == CASE be = "asm" /\ ~Arm -> l [] be = "bin" /\ ~Arm -> b
                        [] be = "asm" /\ Arm -> a [] be = "bin" /\ Arm -> w
ZeroedOut(be, r) == Of(be, L!emit_zero_out(r), B!emit_zero_out(r), A!emit_zero_out(r), W!emit_zero_out(r))
Zeros(be, base, offset, dtype) ==
  Of(be, L!emit_zerofill(base, offset, dtype), B!emit_zerofill(base, offset, dtype),
     A!emit_zerofill(base, offset, dtype), W!emit_zerofill(base, offset, dtype))
Packed(be, base, offset, r, n) ==
  Of(be, L!emit_store_packed(base, offset, r, n), B!emit_store_packed(base, offset, r, n),
     A!emit_store_packed(base, offset, r, n), W!emit_store_packed(base, offset, r, n))
Eightbytes(be, base, offset, lo, lw, hi, hw, both) ==
  Of(be, L!emit_store_eightbytes(base, offset, lo, lw, hi, hw, both),
     B!emit_store_eightbytes(base, offset, lo, lw, hi, hw, both),
     A!emit_store_eightbytes(base, offset, lo, lw, hi, hw, both),
     W!emit_store_eightbytes(base, offset, lo, lw, hi, hw, both))

AtMost8(n) == IF n > 8 THEN 8 ELSE n

\* Into one register, or two.
FilledHalf(be, part, r) == part.code \o (IF part.written THEN << >> ELSE ZeroedOut(be, r))
make_halves(be, dst, dtype, args, lo) ==
  LET second == [dst EXCEPT !.offset = @ + 1]
  IN  FilledHalf(be, lo, dst)
        \o (IF dtype_size(dtype) - lo.size < 8 THEN << >>
            ELSE FilledHalf(be, Eightbyte(be, second, dtype, args, lo.index, 8), second))
make_sized(be, dst, dtype, args) == make_halves(be, dst, dtype, args, Eightbyte(be, dst, dtype, args, 0, 8))
make_struct(be, dst, dtype, args) == make_sized(be, Sized(dst, AtMost8(dtype.base.size)), dtype, args)

\* Into memory: members up to `index' are stored, `size' bytes of them.
RECURSIVE StoreFrom(_, _, _, _, _, _, _)
store_struct(be, base, offset, dtype, args) == StoreFrom(be, base, offset, dtype, args, 0, 0)

\* A struct inside comes first, of its own type or the element's.
StoreInner(be, base, offset, dtype, args, index, size) ==
  LET memberType == IF is_array(dtype) THEN dtype ELSE dtype.base.members[index + 1].dtype
      inner == IF dtype.decl = << >> THEN memberType ELSE dtype_unwrap(dtype)
      arg == args[index + 1]
  IN  (IF arg.tag = "AGGREGATE" THEN store_struct(be, base, offset + size, inner, arg.agg)
       ELSE Zeros(be, base, offset + size, memberType))
      \o StoreFrom(be, base, offset, dtype, args, index + 1, size + dtype_size(memberType))

\* As many bytes as one store takes, into a scratch register and from there.
Lane(dtype, i) == Reg("SCRATCH", i, AtMost8(dtype.base.size), Plain(dtype.base))
StorePart(be, base, offset, dtype, args, size, part) ==
  FilledHalf(be, part, Sized(Lane(dtype, 0), 8))
    \o Packed(be, base, offset + size, Lane(dtype, 0), part.size)
    \o StoreFrom(be, base, offset, dtype, args, part.index, size + part.size)
StoreElements(be, base, offset, dtype, args, index, size) ==
  LET left  == AtMost8((Len(args) - index) * dtype.base.size)
      limit == CASE left >= 8 -> 8 [] left \in 4 .. 7 -> 4 [] left \in 2 .. 3 -> 2 [] OTHER -> 1
  IN  StorePart(be, base, offset, dtype, args, size, Eightbyte(be, Lane(dtype, 0), dtype, args, index, limit))

\* Eight bytes, or sixteen where a register pair can be stored.
StorePair(be, base, offset, dtype, args, size, lo, hi, both) ==
  lo.code \o hi.code
    \o Eightbytes(be, base, offset + size, Lane(dtype, 0), lo.written, Lane(dtype, 1), hi.written, both)
    \o StoreFrom(be, base, offset, dtype, args, hi.index, size + lo.size + hi.size)
StoreLow(be, base, offset, dtype, args, size, lo) ==
  LET both == /\ dtype_size(dtype) - (size + lo.size) >= 8
              /\ lo.index < Len(args) /\ args[lo.index + 1].tag # "AGGREGATE"
  IN  StorePair(be, base, offset, dtype, args, size, lo,
                IF both THEN Eightbyte(be, Lane(dtype, 1), dtype, args, lo.index, 8)
                ELSE [code |-> << >>, written |-> FALSE, size |-> 0, index |-> lo.index], both)
StoreMembers(be, base, offset, dtype, args, index, size) ==
  StoreLow(be, base, offset, dtype, args, size, Eightbyte(be, Lane(dtype, 0), dtype, args, index, 8))

StoreFrom(be, base, offset, dtype, args, index, size) ==
  IF index = Len(args) THEN << >>
  ELSE LET memberBase == IF is_array(dtype) THEN dtype.base ELSE dtype.base.members[index + 1].dtype.base
       IN  CASE memberBase.tag = "STRUCT" -> StoreInner(be, base, offset, dtype, args, index, size)
             [] memberBase.tag # "STRUCT" /\ is_array(dtype) ->
                  StoreElements(be, base, offset, dtype, args, index, size)
             [] OTHER -> StoreMembers(be, base, offset, dtype, args, index, size)

\* A new stack object lies below the others; its slot is a power of two.
NextPow2(n) == CHOOSE p \in {2 ^ k : k \in 0 .. 7} : p >= n /\ p < 2 * n
SlotSize(dtype) == NextPow2(dtype.base.size) * (IF is_array(dtype) THEN dtype_outer(dtype).amount ELSE 1)
resolve_stack_store_target(stack_size, dtype) ==
  LET size == SlotSize(dtype)
  IN  IF size > 8 THEN AlignTo(stack_size + size, 8) ELSE stack_size + size

-----------------------------------------------------------------------------
(* Types and literals of a program.                                        *)

I(n) == Plain(Fund(n, TRUE))
U(n) == Plain(Fund(n, FALSE))
Struct(dtypes) == Plain(stmt_struct_decl(dtypes))
ArrayType(n, dtype) == dtype_wrap(dtype, Declarator("ARRAY", n))
AddressOf(dtype) == dtype_wrap(dtype, Declarator("ADDR", 1))
Point == Struct(<<I(4), I(4)>>)
Declared ==
  {Point, Struct(<<U(1)>>), Struct(<<I(2), U(2)>>), Struct(<<U(1), U(1), U(2), U(4)>>),
   Struct(<<I(2), U(2), I(4)>>), Struct(<<U(1), U(4)>>), Struct(<<I(8), U(8)>>),
   Struct(<<U(8), U(4), U(4)>>), Struct(<<U(4), U(4), U(4)>>), Struct(<<U(1), U(4), U(2)>>),
   Struct(<<AddressOf(I(4)), U(8)>>), Struct(<<AddressOf(I(4)), U(4)>>),
   Struct(<<Point, U(4), U(4)>>), Struct(<<U(8), Point>>), Struct(<<U(4), Struct(<<U(4)>>)>>),
   ArrayType(3, U(1)), ArrayType(5, U(1)), ArrayType(3, U(2)), ArrayType(3, I(4)),
   ArrayType(2, U(8)), ArrayType(2, Point)}

Count(dtype) == IF is_array(dtype) THEN dtype_outer(dtype).amount ELSE Len(dtype.base.members)
Part(dtype, i) == IF is_array(dtype) THEN Plain(dtype.base) ELSE dtype.base.members[i].dtype

StackObject == Reg("STACK", 8, 8, ArrayOf(I(4)))
Aggregate(args) == [tag |-> "AGGREGATE", agg |-> args]
\* What can be written for a part; aarch64 takes two bytes of a constant.
Constants(t) == {0, 5 % Values(t.base.size)}
                \union {v \in {Values(t.base.size) \div 2 - 1} : Arm => v < Values(2)}
Given(t) ==
  CASE is_addr(t) -> {InReg(StackObject)}
    [] ~is_addr(t) /\ t.base.tag = "STRUCT" -> {Value(0), Aggregate([i \in DOMAIN t.base.members |-> Value(i)])}
    [] OTHER -> {Value(v) : v \in Constants(t)}
                \union {InReg(r) : r \in {x \in {Var(0, t.base), Var(1, t.base)} : Loadable(x)}}
\* Literals that name the first part, or all of them (few choices after three).
LiteralsOf(dtype) ==
  LET n == Count(dtype)
      choices(i) == IF i > 3 THEN {Value(0), InReg(Var(1, Part(dtype, i).base))} ELSE Given(Part(dtype, i))
      more(literals, i) == {Append(f, arg) : f \in literals, arg \in choices(i)}
      naming(k) == FoldLeft(more, {<< >>}, [i \in 1 .. k |-> i])
  IN  {read_aggregate(n, f) : f \in naming(1) \union naming(n)}

-----------------------------------------------------------------------------
(* What a literal stands for: "Padding and layout follow declaration       *)
(* order", every part at the next place its alignment allows.              *)

AlignOf(t) == IF is_addr(t) THEN PointerSize ELSE t.base.align
Offset_(dtype) ==
  LET place[i \in 1 .. Count(dtype)] ==
        LET end == IF i = 1 THEN 0 ELSE place[i - 1] + dtype_size(Part(dtype, i - 1))
        IN  CHOOSE o \in end .. end + 7 :
              /\ o % AlignOf(Part(dtype, i)) = 0
              /\ \A x \in end .. o - 1 : x % AlignOf(Part(dtype, i)) # 0
  IN  place

RECURSIVE Leaves(_, _, _)
Leaves(dtype, args, at) ==
  LET valueOf(arg) == CASE arg.tag = "VALUE" -> arg.value
                        [] arg.tag = "REG" /\ arg.reg = StackObject -> FrameAt - arg.reg.offset
                        [] OTHER -> Held(before, arg.reg)
      place(i) == at + Offset_(dtype)[i]
  IN  UNION {IF args[i].tag = "AGGREGATE" THEN Leaves(Part(dtype, i), args[i].agg, place(i))
             ELSE {[at |-> place(i), n |-> dtype_size(Part(dtype, i)), v |-> valueOf(args[i])]}
             : i \in DOMAIN args}
BytesOf(leaf) == leaf.at .. leaf.at + leaf.n - 1
Covered(leaves) == UNION {BytesOf(leaf) : leaf \in leaves}
ByteAt(leaves, p) ==
  LET leaf == CHOOSE x \in leaves : p \in BytesOf(x) IN (leaf.v \div Values(p - leaf.at)) % Base

\* Literals the code is known to get wrong.  What is between the members of a
\* struct of more than eight bytes:
Padded(dtype) ==
  /\ dtype_size(dtype) > 8
  /\ \E i \in 2 .. Count(dtype) :
       Offset_(dtype)[i] # Offset_(dtype)[i - 1] + dtype_size(Part(dtype, i - 1))
\* an address, which is laid out as if it were what it points to:
Pointed(dtype) == Struct(<<AddressOf(I(4)), U(4)>>) = dtype
\* a struct that shares its eight bytes with another member:
Shared(dtype, args) == \E i \in DOMAIN args : args[i].tag = "AGGREGATE" /\ Offset_(dtype)[i] % 8 # 0
\* a narrow signed register, whose sign reaches its neighbours:
Negative(dtype, args) ==
  \E i \in DOMAIN args : /\ args[i].tag = "REG" /\ args[i].reg # StackObject
                         /\ dtype_size(Part(dtype, i)) < 8 /\ Held(before, args[i].reg) < 0
\* registers put together in less than a whole register (x86) ...
HalfFull(dtype, args) ==
  /\ Count(dtype) > 1 /\ \E i \in DOMAIN args : args[i].tag = "REG"
  /\ IF is_array(dtype) THEN dtype.base.size < 4 /\ dtype_size(dtype) % 8 \in 1 .. 4
     ELSE dtype.base.size <= 4
\* ... or in the upper half of eight bytes of an array (aarch64).
Upper(dtype, args) ==
  /\ is_array(dtype) /\ dtype.base.size < 8
  /\ \E i \in DOMAIN args : args[i].tag = "REG" /\ (i * dtype.base.size - 1) % 8 >= 4
Handled(dtype, args) ==
  /\ Padded(dtype) => Known("padded")
  /\ Pointed(dtype) => Known("pointed")
  /\ is_array(dtype) /\ dtype.base.tag = "STRUCT" => Known("structs")
  /\ Negative(dtype, args) => KnownX86("negative")
  /\ HalfFull(dtype, args) => KnownX86("half")
  /\ Arm /\ Upper(dtype, args) => Known("upper")

-----------------------------------------------------------------------------
(* A declaration with a literal.                                           *)

FromSamples == {before.reg[Class.callee[1]], before.reg[Class.callee[2]]} \subseteq LiteralSamples

\* [Name] :: type{...} =[], below `used' bytes of other objects.
StoreLiteral ==
  /\ Fresh /\ FromSamples
  /\ \E dtype \in Declared, used \in {0, 4} : \E args \in LiteralsOf(dtype) :
       LET offset == resolve_stack_store_target(used, dtype)
           leaves == Leaves(dtype, args, FrameAt - offset)
           slot   == FrameAt - offset .. FrameAt - offset + SlotSize(dtype) - 1
           mem == [p \in (DOMAIN before.mem \ slot) \union Covered(leaves) |->
                     IF p \in Covered(leaves) THEN ByteAt(leaves, p) ELSE before.mem[p]]
       IN  /\ Handled(dtype, args)
           /\ Shared(dtype, args) => ~Arm /\ Known("shared")
           /\ Compiled(Puts(mem, {}), [be \in Kinds |-> store_struct(be, FP, 0 - offset, dtype, args)])

\* Name :: type{...}, into one register or two.
MakeLiteral ==
  /\ Fresh /\ FromSamples
  /\ \E dtype \in Declared, dst \in {Reg("NREG", 2, 8, Plain(NoBase)), Reg("SCRATCH", 0, 8, Plain(NoBase))} :
     \E args \in LiteralsOf(dtype) :
       LET leaves == Leaves(dtype, args, 0)
           image  == [p \in 0 .. 15 |-> IF p \in Covered(leaves) THEN ByteAt(leaves, p) ELSE 0]
           length(k) == AtMost8(dtype_size(dtype) - 8 * k)
           half(k) == [reg |-> [dst EXCEPT !.offset = @ + k, !.rsize = length(k)],
                       value |-> Bytes([mem |-> image], 8 * k, length(k))]
           halves == {half(k) : k \in {x \in {0, 1} : dtype_size(dtype) > 8 * x}}
       IN  /\ dtype_size(dtype) <= 16 /\ Handled(dtype, args)
           /\ dtype_size(dtype) \in 9 .. 15 => Known("twelve")
           /\ \A i \in DOMAIN args : args[i].tag # "AGGREGATE"
           /\ Compiled([Puts(before.mem, {}) EXCEPT !.dst = halves],
                       [be \in Kinds |-> make_struct(be, dst, dtype, args)])

AggregatesNext == Next \/ StoreLiteral \/ MakeLiteral
AggregatesSpec == Init /\ [][AggregatesNext]_vars
=============================================================================
