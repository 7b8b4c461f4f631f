------------------------------- MODULE Types --------------------------------
(***************************************************************************)
(* The types of values and the registers that hold them (typesys.h).  A    *)
(* type is a base type under declarators, the outermost one first; a       *)
(* register is a place in one of the classes of the backends together with *)
(* the size and the type it is used at.                                    *)
(***************************************************************************)
EXTENDS Naturals, Sequences

PointerSize == 8                  \* sizeof (void *)

\* Base types.  `size' is in bytes; a struct has members [dtype, offset].
NoBase   == [tag |-> "NULL",     size |-> 0, align |-> 0, sign |-> FALSE, members |-> << >>]
Comptime == [tag |-> "COMPTIME", size |-> 0, align |-> 0, sign |-> TRUE,  members |-> << >>]
Fund(size, sign) ==
  [tag |-> "FUND", size |-> size, align |-> size, sign |-> sign, members |-> << >>]

Declarator(tag, amount) == [tag |-> tag, amount |-> amount]
NoDeclarator == Declarator("NONE", 0)
Plain(base) == [base |-> base, decl |-> << >>]

dtype_wrap(dtype, d) == [dtype EXCEPT !.decl = <<d>> \o @]
dtype_unwrap(dtype) == IF dtype.decl = << >> THEN dtype ELSE [dtype EXCEPT !.decl = Tail(@)]
dtype_outer(dtype) == IF dtype.decl = << >> THEN NoDeclarator ELSE Head(dtype.decl)

\* A check in front of an address does not hide it.
is_addr(dtype) ==
  LET under == IF dtype_outer(dtype).tag = "CHECK" THEN dtype_unwrap(dtype) ELSE dtype
  IN  dtype_outer(under).tag = "ADDR"

dtype_size(dtype) ==
  LET under == IF dtype_outer(dtype).tag = "CHECK" THEN dtype_unwrap(dtype) ELSE dtype
      outer == dtype_outer(under)
  IN  CASE outer.tag = "NONE"  -> under.base.size
        [] outer.tag = "ADDR"  -> PointerSize
        [] outer.tag = "SLICE" -> 2 * PointerSize
        [] outer.tag = "ARRAY" -> under.base.size * outer.amount

dtype_reg_count(dtype) ==
  IF \E i \in DOMAIN dtype.decl : dtype.decl[i].tag = "SLICE" THEN 2 ELSE 1

is_array(dtype) == dtype_outer(dtype).tag = "ARRAY"

\* Sizes and places of the parts of a struct or of an array of n elements.
LayoutOf(dtype, n) ==
  IF is_array(dtype)
  THEN [i \in 1 .. n |-> [size |-> dtype.base.size, offset |-> (i - 1) * dtype.base.size]]
  ELSE [i \in 1 .. n |-> [size |-> dtype_size(dtype.base.members[i].dtype),
                          offset |-> dtype.base.members[i].offset]]

Reg(reg_type, offset, rsize, dtype) ==
  [reg_type |-> reg_type, offset |-> offset, rsize |-> rsize, dtype |-> dtype]

\* The same place, seen at another size.
Sized(reg, rsize) == [reg EXCEPT !.rsize = rsize]

\* Operands of the parser: a value known while compiling, or a register.
Value(v)  == [tag |-> "VALUE", value |-> v]
InReg(reg) == [tag |-> "REG", reg |-> reg]

\* Rounding up to a multiple (ALIGN_TO).
AlignTo(n, m) == ((n + m - 1) \div m) * m

\* n bytes as pieces of eight, then at most one each of four, two and one.
ChunksOf(n) ==
  LET eights == [k \in 1 .. n \div 8 |-> [n |-> 8, at |-> 8 * (k - 1)]]
      piece(size) ==
        IF (n % (2 * size)) >= size THEN <<[n |-> size, at |-> n - (n % (2 * size))]>> ELSE << >>
  IN  eights \o piece(4) \o piece(2) \o piece(1)
=============================================================================
