------------------------ MODULE BackendsProofs ------------------------
(***************************************************************************)
(* Every call of the code generators does what it is for, and keeps the    *)
(* variables it was not given.  The two are invariants of a sequence of    *)
(* calls with what a comparison leaves for the call after it (Decided):    *)
(* emit_cond_set reads flags that an earlier call set.                     *)
(***************************************************************************)
EXTENDS Backends, ConventionsProofs

-----------------------------------------------------------------------------
(* What holds after a call.                                               *)

\* The registers a call has to keep.
Kept == {Place(v) : v \in Variables}

\* The registers are those of the calling convention.
LEMMA SamePlaces ==
  ASSUME conv' = conv
  PROVE  (\A r : Place(r)' = Place(r)) /\ Variables' = Variables /\ Kept' = Kept
<1>1. Class' = Class BY DEF Class
<1>2. \A r : Place(r)' = Place(r) BY <1>1 DEF Place, Arm, L!buf_putreg
<1>3. Variables' = Variables BY <1>1 DEF Variables
<1>. QED BY <1>2, <1>3 DEF Kept

\* The registers to be kept hold what they held, except some.
Spared(m, places) == \A r \in Kept \ places : m.reg[r] = before.reg[r]
AllOf(regs) == {Place(r) : r \in regs}

\* Registers that may differ can be more than do.
LEMMA SparedMore ==
  ASSUME NEW m, NEW V, NEW U, V \subseteq U, Spared(m, V) PROVE Spared(m, U)
BY DEF Spared

\* A call that spares the other variables keeps them.
LEMMA KeptSpared ==
  ASSUME conv' = conv, before' = before, NEW m, listed' = m, NEW dsts, NEW uses,
         {d.reg : d \in meant'.dst} = dsts, meant'.uses = uses,
         Spared(m, AllOf(dsts \union uses)),
         \A u \in uses : Agree(m.reg[Place(u)], before.reg[Place(u)], u.rsize)
  PROVE  VariablesKept'
<1>1. /\ \A r : Place(r)' = Place(r)
      /\ Variables' = Variables
  BY SamePlaces
<1>2. Destinations' = dsts BY DEF Destinations
<1>3. \A v, at : Seen(v, at)' = LET sized == {r \in dsts \union uses : Place(r) = at}
                                IN  IF sized = {} THEN v ELSE CHOOSE r \in sized : TRUE
  <2> SUFFICES ASSUME NEW v, NEW at
      PROVE  Seen(v, at)' = LET sized == {r \in dsts \union uses : Place(r) = at}
                            IN  IF sized = {} THEN v ELSE CHOOSE r \in sized : TRUE
    OBVIOUS
  <2>1. {r \in Destinations' \union meant'.uses : Place(r)' = at} = {r \in dsts \union uses : Place(r) = at}
    BY <1>1, <1>2
  <2> DEFINE sized == {r \in dsts \union uses : Place(r) = at}
  <2>2. Seen(v, at)' = LET s == {r \in Destinations' \union meant'.uses : Place(r)' = at}
                       IN  IF s = {} THEN v ELSE CHOOSE r \in s : TRUE
    BY DEF Seen
  <2>3. Seen(v, at)' = IF sized = {} THEN v ELSE CHOOSE r \in sized : TRUE BY <2>1, <2>2
  <2>. QED BY <2>3
<1>4. \A r : Bits(before, r)' = Unsigned(before.reg[Place(r)], r.rsize) /\ Bits(listed, r)' = Unsigned(m.reg[Place(r)], r.rsize)
  BY <1>1 DEF Bits
<1>5. VariablesKept' = \A v \in Variables : Place(v) \notin {Place(d) : d \in dsts} =>
                          Same(listed, before, Seen(v, Place(v)))'
  BY <1>1, <1>2 DEF VariablesKept
<1>6. ASSUME NEW v \in Variables, Place(v) \notin {Place(d) : d \in dsts}
      PROVE  Same(listed, before, Seen(v, Place(v)))'
  <2> DEFINE sized == {r \in dsts \union uses : Place(r) = Place(v)}
             s == IF sized = {} THEN v ELSE CHOOSE r \in sized : TRUE
  <2>1. Seen(v, Place(v))' = s BY <1>1, <1>3
  <2>2. Unsigned(m.reg[Place(s)], s.rsize) = Unsigned(before.reg[Place(s)], s.rsize)
    <3>1. CASE sized = {}
      <4>1. Place(v) \notin AllOf(dsts \union uses) BY <3>1 DEF AllOf
      <4>2. Place(v) \in Kept BY DEF Kept
      <4>. QED BY <3>1, <4>1, <4>2 DEF Spared
    <3>2. CASE sized # {}
      <4>1. s \in sized BY <3>2
      <4>2. s \in uses BY <1>6, <4>1
      <4>. QED BY <4>2 DEF Agree
    <3>. QED BY <3>1, <3>2
  <2>. QED BY <1>4, <2>1, <2>2 DEF Same
<1>. QED BY <1>5, <1>6

\* What a comparison leaves for the call that follows it.
Decided(m) ==
  /\ m \in Machines(R) /\ ~m.left /\ m.mem = before.mem /\ m.flags.valid
  /\ \A r \in Kept : m.reg[r] = before.reg[r]
\* What holds after a call, besides the calling convention and the start.
Closed ==
  /\ meant = Nothing => listed = before
  /\ meant.truth # << >> => Decided(listed) /\ meant.dst = {}
  /\ DoesWhatItIsFor /\ VariablesKept

\* The registers are those of the calling convention.
LEMMA SameR == ASSUME conv' = conv PROVE R' = R
BY DEF R, Class

\* A call that gives its value and spares the rest did what it is for.
LEMMA GivesDone ==
  ASSUME conv' = conv, before' = before, NEW m, listed' = m, NEW dst, NEW value, NEW uses,
         meant' = Gives(dst, value, uses), m.mem = before.mem, Agree(m.reg[Place(dst)], value, dst.rsize),
         Spared(m, AllOf({dst} \union uses)),
         \A u \in uses : Agree(m.reg[Place(u)], before.reg[Place(u)], u.rsize)
  PROVE  Closed'
<1> DEFINE d0 == [reg |-> dst, value |-> Unsigned(value, dst.rsize)]
<1>1. /\ meant'.dst = {d0} /\ meant'.mem = before.mem /\ meant'.truth = << >> /\ meant'.uses = uses
  BY DEF Gives, Nothing
<1>2. meant' # Nothing
  <2>1. d0 \in meant'.dst BY <1>1
  <2> HIDE DEF d0
  <2>2. Nothing.dst = {} BY DEF Nothing
  <2>. QED BY <2>1, <2>2
<1>3. {d.reg : d \in meant'.dst} = {dst} BY <1>1
<1>4. VariablesKept' BY <1>1, <1>3, KeptSpared
<1>5. DoesWhatItIsFor'
  <2>1. Place(dst)' = Place(dst) BY SamePlaces
  <2>2. Bits(listed, dst)' = Unsigned(value, dst.rsize) BY <2>1 DEF Bits, Agree
  <2>3. \A d \in meant'.dst : Bits(listed, d.reg)' = d.value BY <1>1, <2>2
  <2>4. \A c \in DOMAIN meant'.truth : FALSE BY <1>1
  <2>5. \A p \in DOMAIN meant'.mem : listed'.mem[p] = meant'.mem[p] BY <1>1
  <2>. QED BY <2>3, <2>4, <2>5 DEF DoesWhatItIsFor
<1>. QED BY <1>1, <1>2, <1>4, <1>5 DEF Closed

\* A memory is not empty.
LEMMA SomeMemory == ASSUME NEW mem \in Mem PROVE mem # << >>
<1>1. DOMAIN mem = 0 .. Memory - 1 BY MemDomain
<1>2. 0 \in DOMAIN mem BY <1>1, ConventionsAssumption, MachineAssumption
<1>3. 0 \notin DOMAIN << >> OBVIOUS
<1>. QED BY <1>2, <1>3

\* A call that puts its bytes and spares the rest did what it is for.
LEMMA PutsDone ==
  ASSUME conv' = conv, before' = before, NEW m, listed' = m, NEW mem \in Mem, NEW uses,
         meant' = Puts(mem, uses), m.mem = mem, Spared(m, AllOf(uses)),
         \A u \in uses : Agree(m.reg[Place(u)], before.reg[Place(u)], u.rsize)
  PROVE  Closed'
<1>1. /\ meant'.dst = {} /\ meant'.mem = mem /\ meant'.truth = << >> /\ meant'.uses = uses
  BY DEF Puts, Nothing
<1>2. meant' # Nothing BY <1>1, SomeMemory DEF Nothing
<1>3. {d.reg : d \in meant'.dst} = {} BY <1>1
<1>4. VariablesKept'
  <2>1. {} \union uses = uses OBVIOUS
  <2>2. Spared(m, AllOf({} \union uses)) BY <2>1
  <2>. QED BY <1>1, <1>3, <2>2, KeptSpared
<1>5. DoesWhatItIsFor'
  <2>1. \A d \in meant'.dst : Bits(listed, d.reg)' = d.value BY <1>1
  <2>2. \A c \in DOMAIN meant'.truth : FALSE BY <1>1
  <2>3. \A p \in DOMAIN meant'.mem : listed'.mem[p] = meant'.mem[p] BY <1>1
  <2>. QED BY <2>1, <2>2, <2>3 DEF DoesWhatItIsFor
<1>. QED BY <1>1, <1>2, <1>4, <1>5 DEF Closed

\* A comparison whose flags answer the conditions did what it is for.
LEMMA DecidesDone ==
  ASSUME conv' = conv, before' = before, NEW m \in Machines(R), listed' = m, before.mem \in Mem, NEW conds, NEW x, NEW y,
         meant' = Decides(conds, x, y), m.mem = before.mem, ~m.left, Spared(m, {}),
         m.flags.valid, \A c \in conds : Holds(c, m.flags) = True(c, x, y)
  PROVE  Closed'
<1>1. /\ meant'.dst = {} /\ meant'.mem = before.mem /\ meant'.truth = [c \in conds |-> True(c, x, y)] /\ meant'.uses = {}
  BY DEF Decides, Puts, Nothing
<1>2. meant' # Nothing BY <1>1, SomeMemory DEF Nothing
<1>3. {d.reg : d \in meant'.dst} = {} BY <1>1
<1>4. VariablesKept'
  <2>1. AllOf({} \union {}) = {} BY DEF AllOf
  <2>2. Spared(m, AllOf({} \union {})) BY <2>1
  <2>. QED BY <1>1, <1>3, <2>2, KeptSpared
<1>5. DoesWhatItIsFor'
  <2>1. \A d \in meant'.dst : Bits(listed, d.reg)' = d.value BY <1>1
  <2>2. \A c \in DOMAIN meant'.truth : listed'.flags.valid /\ Holds(c, listed'.flags) = meant'.truth[c] BY <1>1
  <2>3. \A p \in DOMAIN meant'.mem : listed'.mem[p] = meant'.mem[p] BY <1>1
  <2>. QED BY <2>1, <2>2, <2>3 DEF DoesWhatItIsFor
<1>6. Decided(listed)' 
  <2>1. R' = R /\ Kept' = Kept BY SameR, SamePlaces
  <2>2. Machines(R)' = Machines(R) BY <2>1 DEF Machines
  <2>. QED BY <2>1, <2>2 DEF Decided, Spared
<1>. QED BY <1>1, <1>2, <1>4, <1>5, <1>6 DEF Closed

Started == \E v, w \in Samples : before = Start(v, w)

\* What the calling conventions have in common.
LEMMA ClassFacts ==
  ASSUME conv \in Convs
  PROVE  /\ Class.frame \in Class.all /\ Class.stack \in Class.all /\ Class.frame # Class.stack
         /\ \A i \in 1 .. 3 : Class.callee[i] \notin {Class.frame, Class.stack}
         /\ Class.scratch[1] \notin {Class.frame, Class.stack, Class.callee[2]}
         /\ Class.callee[2] \notin {Class.callee[1], Class.callee[3]}
         /\ \A r \in Class.all : r \in Nat
BY DEF Convs, Class, RegistersOf, Linux

\* The machine a call finds.
LEMMA StartFacts ==
  ASSUME conv \in Convs, Started
  PROVE  /\ before \in Machines(R) /\ ~before.left /\ before.mem \in Mem
         /\ before.reg[Class.frame] = 24 /\ Zero \notin R
<1> PICK v \in Samples, w \in Samples : before = Start(v, w) BY DEF Started
<1>1. v \in Word /\ w \in Word BY BackendsAssumption DEF Word
<1>2. 24 \in Word /\ 16 \in Word
  <2>1. Values(8) \in Nat /\ 256 <= Values(8) BY SmallAddress
  <2>. QED BY <2>1 DEF Word
<1> DEFINE f == Class.frame   s == Class.stack
           mid == {Class.callee[1], Class.callee[3], Class.scratch[1]}   two == Class.callee[2]
<1>3. f \in R /\ s \in R /\ f # s /\ f \notin mid /\ s \notin mid /\ f # two /\ s # two /\ two \notin mid
  <2>1. 1 \in 1 .. 3 /\ 2 \in 1 .. 3 /\ 3 \in 1 .. 3 OBVIOUS
  <2>. QED BY <2>1, ClassFacts DEF R
<1>4. \A r \in R : r \in Nat BY ClassFacts DEF R
<1> DEFINE reg == [r \in R |-> CASE r = f -> 24 [] r = s -> 16 [] r \in mid -> v [] r = two -> w
                                 [] OTHER -> Unsigned(4369 * (r + 1), 8)]
           mem == [p \in 0 .. Memory - 1 |-> (3 * p + 1) % Base]
<1>5. before = [reg |-> reg, mem |-> mem, flags |-> NoFlags, left |-> FALSE, ok |-> TRUE]
  BY DEF Start, FrameAt, R
<1> HIDE DEF f, s, mid, two
<1>6. reg \in [R -> Word]
  <2> SUFFICES ASSUME NEW r \in R PROVE reg[r] \in Word OBVIOUS
  <2>1. Unsigned(4369 * (r + 1), 8) \in Word
    <3>1. 8 \in 0 .. 15 /\ 4369 * (r + 1) \in Int BY <1>4
    <3>. QED BY <3>1, UnsignedRange DEF Word
  <2> DEFINE x == Unsigned(4369 * (r + 1), 8)
  <2> HIDE DEF x
  <2>2. reg[r] = CASE r = f -> 24 [] r = s -> 16 [] r \in mid -> v [] r = two -> w [] OTHER -> x BY DEF x
  <2>3. x \in Word BY <2>1 DEF x
  <2>4. CASE r = f BY <2>2, <2>4, <1>2, <1>3
  <2>5. CASE r = s BY <2>2, <2>5, <1>2, <1>3
  <2>6. CASE r \in mid BY <2>2, <2>6, <1>1, <1>3
  <2>7. CASE r = two BY <2>2, <2>7, <1>1, <1>3
  <2>8. CASE r # f /\ r # s /\ r \notin mid /\ r # two BY <2>2, <2>8, <2>3
  <2>. QED BY <2>4, <2>5, <2>6, <2>7, <2>8
<1>7. mem \in Mem
  <2>1. Base \in Nat \ {0} BY BaseTwo
  <2>2. \A p \in 0 .. Memory - 1 : (3 * p + 1) % Base \in 0 .. Base - 1
    <3> SUFFICES ASSUME NEW p \in 0 .. Memory - 1 PROVE (3 * p + 1) % Base \in 0 .. Base - 1 OBVIOUS
    <3> DEFINE y == 3 * p + 1   B0 == Base
    <3>1. y \in Int /\ B0 \in Nat \ {0} BY <2>1, MachineAssumption
    <3> HIDE DEF y, B0
    <3>2. y % B0 \in 0 .. B0 - 1 BY <3>1
    <3>. QED BY <3>2 DEF y, B0
  <2>. QED BY <2>2 DEF Mem
<1>8. NoFlags \in Flags
  BY DEF NoFlags, Flags, Sizes
<1>9. reg[f] = 24 BY <1>3
<1> HIDE DEF reg, mem
<1>10. before \in Machines(R) BY <1>5, <1>6, <1>7, <1>8 DEF Machines, Mem
<1>. QED BY <1>5, <1>7, <1>9, <1>10, NoZero DEF f, Convs

-----------------------------------------------------------------------------
(* The calls on x86-64: values.                                           *)

\* The register of each kind on x86-64 (buf_putreg).
LEMMA Places86 ==
  ASSUME X86
  PROVE  /\ ~Arm /\ conv \in Convs /\ \A r : Place(r) = P86(r)
         /\ \A i \in 0 .. 6 : \A n, d : P86(Reg("NREG", i, n, d)) = Class.callee[i + 1]
         /\ \A n, d : P86(Reg("SCRATCH", 0, n, d)) = Class.scratch[1]
         /\ \A n, d : P86(Reg("SCRATCH", 1, n, d)) = Class.scratch[2]
         /\ \A n, d : P86(Reg("PARAM", 1, n, d)) = Class.param[2]
         /\ \A i, n, d : P86(Reg("FRAME", i, n, d)) = 5
         /\ \A i, n, d : P86(Reg("STACK", i, n, d)) = 4
<1>1. ~Arm /\ conv \in Convs BY DEF Arm, X86, Convs
<1>2. \A r : Place(r) = P86(r) BY <1>1 DEF Place, P86
<1>3. 0 + 1 = 1 /\ 1 + 1 = 2 OBVIOUS
<1>. QED BY <1>1, <1>2, <1>3, ZenonT(40) DEF P86, L!buf_putreg, Reg

\* The registers of x86-64 are apart from each other.
LEMMA Registers86 ==
  ASSUME X86
  PROVE  /\ Class.frame = 5 /\ 5 \in R /\ 4 \in R
         /\ \A i \in 0 .. 6 : Class.callee[i + 1] \in R \ {4, 5} /\ Class.callee[i + 1] \notin T86 \union {Class.param[2]}
         /\ \A i, j \in 0 .. 3 : i # j => Class.callee[i + 1] # Class.callee[j + 1]
         /\ Class.scratch[1] \in R /\ Class.scratch[2] \in R /\ Class.scratch[3] \in R /\ Class.param[2] \in R
         /\ Class.scratch[1] # Class.scratch[2] /\ Class.scratch[1] # Class.scratch[3] /\ Class.scratch[2] # Class.scratch[3]
         /\ Class.param[2] \notin {4, 5} \union {Class.scratch[1]} /\ 4 \notin T86 /\ 5 \notin T86
         /\ Len(Class.callee) = 7
<1> DEFINE callee == Class.callee
<1>1. \/ Class.all = 0 .. 15 /\ Class.frame = 5 /\ Class.callee = <<3, 12, 13, 14, 15, 10, 11>>
         /\ Class.scratch[1] = 0 /\ Class.scratch[2] = 1 /\ Class.scratch[3] = 2 /\ Class.param[2] = 6
      \/ Class.all = 0 .. 15 /\ Class.frame = 5 /\ Class.callee = <<3, 6, 7, 12, 13, 14, 15>>
         /\ Class.scratch[1] = 0 /\ Class.scratch[2] = 1 /\ Class.scratch[3] = 2 /\ Class.param[2] = 2
  <2>1. CASE conv = "linux" BY <2>1 DEF Class, RegistersOf, Linux
  <2>2. CASE conv = "windows" BY <2>2 DEF Class, RegistersOf
  <2>. QED BY <2>1, <2>2 DEF X86
<1>2. \A i \in 0 .. 6 : i = 0 \/ i = 1 \/ i = 2 \/ i = 3 \/ i = 4 \/ i = 5 \/ i = 6 OBVIOUS
<1>3. CASE Class.callee = <<3, 12, 13, 14, 15, 10, 11>> /\ Class.param[2] = 6
  <2>1. /\ callee[0 + 1] = 3 /\ callee[1 + 1] = 12 /\ callee[2 + 1] = 13 /\ callee[3 + 1] = 14
        /\ callee[4 + 1] = 15 /\ callee[5 + 1] = 10 /\ callee[6 + 1] = 11 /\ Len(callee) = 7
    BY <1>3
  <2> HIDE DEF callee
  <2>2. \A i \in 0 .. 6 : callee[i + 1] \in 3 .. 15 /\ callee[i + 1] \notin {4, 5, 6} BY <1>2, <2>1
  <2>3. \A i, j \in 0 .. 3 : i # j => callee[i + 1] # callee[j + 1] BY <2>1
  <2>. QED BY <1>1, <1>3, <2>1, <2>2, <2>3 DEF R, T86, callee
<1>4. CASE Class.callee = <<3, 6, 7, 12, 13, 14, 15>> /\ Class.param[2] = 2
  <2>1. /\ callee[0 + 1] = 3 /\ callee[1 + 1] = 6 /\ callee[2 + 1] = 7 /\ callee[3 + 1] = 12
        /\ callee[4 + 1] = 13 /\ callee[5 + 1] = 14 /\ callee[6 + 1] = 15 /\ Len(callee) = 7
    BY <1>4
  <2> HIDE DEF callee
  <2>2. \A i \in 0 .. 6 : callee[i + 1] \in 3 .. 15 /\ callee[i + 1] \notin {4, 5} BY <1>2, <2>1
  <2>3. \A i, j \in 0 .. 3 : i # j => callee[i + 1] # callee[j + 1] BY <2>1
  <2>. QED BY <1>1, <1>4, <2>1, <2>2, <2>3 DEF R, T86, callee
<1>. QED BY <1>1, <1>3, <1>4

\* The variables of x86-64 are no scratch or argument registers.
LEMMA Kept86 ==
  ASSUME X86
  PROVE  /\ Kept \subseteq R /\ Kept \intersect (T86 \union {Class.param[2]}) = {}
         /\ \A i \in 0 .. 3 : Class.callee[i + 1] \in Kept
<1>1. Kept = {Class.callee[i + 1] : i \in 0 .. 6} \union {4, 5}
  <2> DEFINE V1 == {[Var(i, Fund(8, FALSE)) EXCEPT !.rsize = 8] : i \in 0 .. Len(Class.callee) - 1}
  <2>1. \A i \in 0 .. 6 : Place([Var(i, Fund(8, FALSE)) EXCEPT !.rsize = 8]) = Class.callee[i + 1]
    <3> SUFFICES ASSUME NEW i \in 0 .. 6 PROVE Place([Var(i, Fund(8, FALSE)) EXCEPT !.rsize = 8]) = Class.callee[i + 1] OBVIOUS
    <3> DEFINE dtype == Plain(Fund(8, FALSE))   n == Fund(8, FALSE).size
    <3>1. Var(i, Fund(8, FALSE)) = Reg("NREG", i, n, dtype) BY DEF Var
    <3> HIDE DEF dtype, n
    <3>2. [Reg("NREG", i, n, dtype) EXCEPT !.rsize = 8] = Reg("NREG", i, 8, dtype) BY DEF Reg
    <3> DEFINE r == Reg("NREG", i, 8, dtype)
    <3>3. [Var(i, Fund(8, FALSE)) EXCEPT !.rsize = 8] = r BY <3>1, <3>2
    <3>4. Place(r) = P86(r) /\ P86(r) = Class.callee[i + 1] BY Places86
    <3>. QED BY <3>3, <3>4
  <2>2. 0 .. Len(Class.callee) - 1 = 0 .. 6
    <3>1. Len(Class.callee) = 7 BY Registers86
    <3>. QED BY <3>1
  <2>3. Place(FP) = 5 /\ Place(Reg("STACK", 0, 8, Plain(NoBase))) = 4 BY Places86 DEF FP
  <2>4. Variables = V1 \union {FP, Reg("STACK", 0, 8, Plain(NoBase))} BY DEF Variables
  <2>5. Kept = {Place(v) : v \in V1} \union {Place(FP), Place(Reg("STACK", 0, 8, Plain(NoBase)))} BY <2>4 DEF Kept
  <2>6. {Place(v) : v \in V1} = {Class.callee[i + 1] : i \in 0 .. 6} BY <2>1, <2>2
  <2>. QED BY <2>3, <2>5, <2>6
<1>2. \A i \in 0 .. 3 : i \in 0 .. 6 OBVIOUS
<1>. QED BY <1>1, <1>2, Registers86

\* What the code leaves where nothing has to be kept.
LEMMA GivesClosed ==
  ASSUME conv \in Convs, Started, Kept \subseteq R, conv' = conv, before' = before, NEW code, listed' = Run(before, code), NEW dst,
         NEW value, NEW uses, meant' = Gives(dst, value, uses), NEW V,
         Yields(R, before, code, V, Place(dst), dst.rsize, value), V \intersect Kept \subseteq AllOf(uses),
         \A u \in uses : Agree(Run(before, code).reg[Place(u)], before.reg[Place(u)], u.rsize)
  PROVE  Closed'
<1> DEFINE m == Run(before, code)   d == Place(dst)
<1>1. before \in Machines(R) /\ ~before.left BY StartFacts
<1>2. Prepares(R, before, code, V \union {d}) /\ Agree(m.reg[d], value, dst.rsize) BY DEF Yields
<1> HIDE DEF d
<1>3. m.mem = before.mem /\ \A r \in R \ (V \union {d}) : m.reg[r] = before.reg[r] BY <1>1, <1>2, After
<1>4. Spared(m, AllOf({dst} \union uses))
  <2>1. d \in AllOf({dst} \union uses) /\ AllOf(uses) \subseteq AllOf({dst} \union uses) BY DEF AllOf, d
  <2>. QED BY <1>3, <2>1 DEF Spared
<1>. QED BY <1>2, <1>3, <1>4, GivesDone DEF d

\* Code that leaves a memory closes a call that puts it.
LEMMA PutsClosed ==
  ASSUME conv \in Convs, Started, Kept \subseteq R, conv' = conv, before' = before, NEW code, listed' = Run(before, code),
         NEW mem \in Mem, NEW uses, meant' = Puts(mem, uses), NEW V,
         Leaves(R, before, code, V, mem), V \intersect Kept \subseteq AllOf(uses),
         \A u \in uses : Agree(Run(before, code).reg[Place(u)], before.reg[Place(u)], u.rsize)
  PROVE  Closed'
<1> DEFINE m == Run(before, code)
<1>3. m.mem = mem /\ \A r \in R \ V : m.reg[r] = before.reg[r] BY DEF Leaves
<1>4. Spared(m, AllOf(uses)) BY <1>3 DEF Spared
<1>. QED BY <1>3, <1>4, PutsDone

\* Code that compares closes a comparison.
LEMMA DecidesClosed ==
  ASSUME conv \in Convs, Started, Kept \subseteq R, conv' = conv, before' = before, NEW code, listed' = Run(before, code),
         NEW conds, NEW x, NEW y, meant' = Decides(conds, x, y), NEW V,
         Compared(R, before, code, V, conds, x, y), V \intersect Kept = {}
  PROVE  Closed'
<1> DEFINE m == Run(before, code)
<1>1. before \in Machines(R) /\ ~before.left /\ before.mem \in Mem BY StartFacts
<1>2. Prepares(R, before, code, V) /\ m.flags.valid /\ \A c \in conds : Holds(c, m.flags) = True(c, x, y) BY DEF Compared
<1>3. m \in Machines(R) /\ ~m.left /\ m.mem = before.mem /\ \A r \in R \ V : m.reg[r] = before.reg[r] BY <1>1, <1>2, After
<1>4. Spared(m, {}) BY <1>3 DEF Spared
<1>. QED BY <1>1, <1>2, <1>3, <1>4, DecidesDone

\* A register of a type and the place it has.
Is86(r, b, place) ==
  /\ Usable86(r) /\ r.rsize = b.size /\ r.dtype.base = b /\ P86(r) = place /\ Place(r) = place
IsBase(b) == b.size \in Sizes /\ b.sign \in BOOLEAN

\* The scalars have a size and a sign.
LEMMA ScalarBase == ASSUME NEW t \in Scalars PROVE IsBase(t)
BY DEF Scalars, IsBase, Fund, Sizes

\* Variables, intermediate results and arguments have their register and
\* type.
LEMMA Kinds86 ==
  ASSUME X86, NEW b, b.size \in Sizes
  PROVE  /\ \A i \in 0 .. 3 : Is86(Var(i, b), b, Class.callee[i + 1]) /\ Var(i, b).reg_type = "NREG"
         /\ Is86(Acc(b), b, Class.scratch[1]) /\ Acc(b).reg_type = "SCRATCH" /\ Acc(b).offset = 0
         /\ Is86(Argument(b), b, Class.param[2]) /\ Argument(b).reg_type = "PARAM"
<1>1. \A i \in 0 .. 3 : i \in 0 .. 6 OBVIOUS
<1> DEFINE n == b.size   dtype == Plain(b)
<1>2. dtype.base = b BY DEF Plain
<1> HIDE DEF n, dtype
<1>3. n \in Sizes BY DEF n
<1>4. \A k, o : /\ IsReg(Reg(k, o, n, dtype)) /\ Reg(k, o, n, dtype).rsize = n /\ Reg(k, o, n, dtype).dtype = dtype
                /\ Reg(k, o, n, dtype).reg_type = k /\ Reg(k, o, n, dtype).offset = o
  BY DEF IsReg, Reg
<1>5. \A i \in 0 .. 3 : Is86(Reg("NREG", i, n, dtype), b, Class.callee[i + 1])
  <2> SUFFICES ASSUME NEW i \in 0 .. 3 PROVE Is86(Reg("NREG", i, n, dtype), b, Class.callee[i + 1]) OBVIOUS
  <2> DEFINE r == Reg("NREG", i, n, dtype)
  <2>1. Place(r) = P86(r) /\ P86(r) = Class.callee[i + 1] /\ Class.callee[i + 1] \in R BY <1>1, Places86, Registers86
  <2>. QED BY <1>2, <1>3, <1>4, <2>1 DEF Is86, Usable86, n
<1>6. Is86(Reg("SCRATCH", 0, n, dtype), b, Class.scratch[1])
  <2> DEFINE r == Reg("SCRATCH", 0, n, dtype)
  <2>1. Place(r) = P86(r) /\ P86(r) = Class.scratch[1] /\ Class.scratch[1] \in R BY Places86, Registers86
  <2>. QED BY <1>2, <1>3, <1>4, <2>1 DEF Is86, Usable86, n
<1>7. Is86(Reg("PARAM", 1, n, dtype), b, Class.param[2])
  <2> DEFINE r == Reg("PARAM", 1, n, dtype)
  <2>1. Place(r) = P86(r) /\ P86(r) = Class.param[2] /\ Class.param[2] \in R BY Places86, Registers86
  <2>. QED BY <1>2, <1>3, <1>4, <2>1 DEF Is86, Usable86, n
<1>. QED BY <1>4, <1>5, <1>6, <1>7 DEF Var, Acc, Argument, n, dtype

\* Where a result goes and its operands are registers of their types, and the
\* result goes into none of the operands but the one that a chain has so far.
Triple86(triple, d, l, r) ==
  /\ Is86(triple[1], d, P86(triple[1])) /\ Is86(triple[2], l, P86(triple[2])) /\ Is86(triple[3], r, P86(triple[3]))
  /\ P86(triple[1]) # P86(triple[3]) /\ P86(triple[3]) \notin T86
  /\ triple[2].reg_type # "SCRATCH" => P86(triple[1]) # P86(triple[2]) /\ P86(triple[2]) \notin T86

\* A destination and two operands of the parser on x86-64.
LEMMA Triples86 ==
  ASSUME X86, NEW d, NEW l, NEW r, d.size \in Sizes, l.size \in Sizes, r.size \in Sizes, NEW triple \in Triples(d, l, r)
  PROVE  Triple86(triple, d, l, r)
<1> DEFINE callee(i) == Class.callee[i + 1]
<1>1. /\ 0 \in 0 .. 6 /\ 1 \in 0 .. 6 /\ 2 \in 0 .. 6 /\ 3 \in 0 .. 6
      /\ 0 \in 0 .. 3 /\ 1 \in 0 .. 3 /\ 2 \in 0 .. 3 /\ 3 \in 0 .. 3
  OBVIOUS
<1>2. /\ callee(0) \notin T86 /\ callee(1) \notin T86 /\ callee(2) \notin T86 /\ callee(3) \notin T86
      /\ callee(0) # callee(3) /\ callee(1) # callee(3) /\ callee(2) # callee(3)
      /\ Class.param[2] # callee(1) /\ Class.param[2] # callee(2)
  BY <1>1, Registers86
<1>3. Class.scratch[1] \in T86 BY DEF T86
<1>4. /\ Is86(Var(3, d), d, callee(3)) /\ Is86(Acc(d), d, Class.scratch[1]) /\ Is86(Argument(d), d, Class.param[2])
      /\ Is86(Var(0, l), l, callee(0)) /\ Is86(Var(1, l), l, callee(1)) /\ Is86(Var(2, l), l, callee(2))
      /\ Is86(Acc(l), l, Class.scratch[1]) /\ Acc(l).reg_type = "SCRATCH"
      /\ Is86(Var(1, r), r, callee(1)) /\ Is86(Var(2, r), r, callee(2))
  BY <1>1, Kinds86
<1> HIDE DEF callee
<1>5. CASE triple = <<Var(3, d), Var(0, l), Var(1, r)>>
  <2>1. callee(1) # callee(3) /\ callee(0) # callee(3) BY <1>2
  <2>. QED BY <1>2, <1>4, <1>5, <2>1 DEF Triple86, Is86
<1>6. CASE triple = <<Acc(d), Var(1, l), Var(2, r)>>
  BY <1>2, <1>3, <1>4, <1>6 DEF Triple86, Is86
<1>7. CASE triple = <<Argument(d), Var(2, l), Var(1, r)>>
  BY <1>2, <1>4, <1>7 DEF Triple86, Is86
<1>8. CASE triple = <<Acc(d), Acc(l), Var(1, r)>>
  BY <1>2, <1>3, <1>4, <1>8 DEF Triple86, Is86
<1>. QED BY <1>5, <1>6, <1>7, <1>8 DEF Triples

\* A result in a register, computed without another one.
LEMMA Simple86 ==
  ASSUME X86, Started, conv' = conv, before' = before, NEW code, listed' = Run(before, code), NEW dst, Usable86(dst),
         NEW value \in Int, meant' = Gives(dst, value, {}),
         Computes(R, before, code, {}, P86(dst), dst.rsize, value)
  PROVE  Closed'
<1>1. conv \in Convs /\ Place(dst) = P86(dst) BY Places86
<1>2. Kept \subseteq R BY Kept86
<1>3. Yields(R, before, code, {}, P86(dst), dst.rsize, value) BY DEF Computes, Yields
<1>4. {} \intersect Kept \subseteq AllOf({}) OBVIOUS
<1>. QED BY <1>1, <1>2, <1>3, <1>4, GivesClosed

\* The literals of a type are encodable and in its range.
LEMMA LiteralInt ==
  ASSUME NEW t \in Scalars, NEW v \in Literals(t)
  PROVE  /\ v \in Int
         /\ t.size # 8 => FitsSigned(v, 4) \/ v \in 0 .. Values(4) - 1
         /\ (IF t.sign THEN v ELSE Unsigned(v, t.size)) = Extend(v, t.size, t.sign)
<1>1. t.size \in Sizes /\ t.sign \in BOOLEAN BY ScalarBase DEF IsBase
<1>2. t.size \in 0 .. 15 /\ t.size \in 0 .. 8 BY <1>1, SizesIn
<1>3. PICK x \in Samples : v = (IF t.sign \/ t.size = 8 THEN Signed(x, t.size) ELSE Unsigned(x, t.size))
  BY DEF Literals
<1>4. x \in Int BY BackendsAssumption, ValuesPositive
<1>5. v \in Int BY <1>2, <1>3, <1>4, SignedInt, UnsignedRange
<1>6. t.size # 8 => FitsSigned(v, 4) \/ v \in 0 .. Values(4) - 1
  <2> SUFFICES ASSUME t.size # 8 PROVE FitsSigned(v, 4) \/ v \in 0 .. Values(4) - 1 OBVIOUS
  <2>1. t.size \in 0 .. 4 /\ 4 \in 0 .. 15 BY <1>1 DEF Sizes
  <2>2. CASE t.sign
    <3>1. v = Signed(x, t.size) BY <1>3, <2>2
    <3>2. Signed(Signed(x, t.size), 4) = Signed(x, t.size) BY <1>4, <2>1, ExtendWider
    <3>. QED BY <3>1, <3>2 DEF FitsSigned
  <2>3. CASE ~t.sign
    <3>1. v = Unsigned(x, t.size) BY <1>3, <2>3
    <3>2. v \in 0 .. Values(t.size) - 1 BY <1>2, <1>4, <3>1, UnsignedRange
    <3>3. Values(t.size) <= Values(4) /\ Values(t.size) \in Nat /\ Values(4) \in Nat BY <1>2, <2>1, ValuesGrow, ValuesPositive
    <3>. QED BY <3>2, <3>3
  <2>. QED BY <2>2, <2>3
<1>7. t.sign => Signed(v, t.size) = v
  <2> SUFFICES ASSUME t.sign PROVE Signed(v, t.size) = v OBVIOUS
  <2>1. v = Signed(x, t.size) BY <1>3
  <2>2. t.size \in 0 .. t.size BY <1>2
  <2>. QED BY <1>2, <1>4, <2>1, <2>2, ExtendWider
<1>. QED BY <1>1, <1>5, <1>6, <1>7 DEF Extend

\* What an action starts from.
Rested == Started /\ listed = before

\* What a call from the start finds on x86-64.
LEMMA RestedFacts ==
  ASSUME X86, Rested
  PROVE  before \in Machines(R) /\ ~before.left /\ before.mem \in Mem /\ Started
         /\ before.reg[5] = 24
<1>1. conv \in Convs BY Places86
<1>2. Started BY DEF Rested
<1>3. Class.frame = 5 BY Registers86
<1>. QED BY <1>1, <1>2, <1>3, StartFacts

\* On x86-64 a call runs the x86 listing.
LEMMA CallX86 ==
  ASSUME X86, Rested, NEW purpose, NEW listing, NEW image, NEW armListing, NEW words, Call(purpose, listing, image, armListing, words)
  PROVE  meant' = purpose /\ listed' = Run(before, listing) /\ conv' = conv /\ before' = before
BY Places86 DEF Call, Rested

\* A call of emit_mov does what it is for.
LEMMA MovCloses86 == ASSUME X86, Rested, Mov PROVE Closed'
<1>1. PICK t \in Scalars : \E triple \in Triples(t, t, t), v \in Literals(t), typed \in BOOLEAN :
       LET dst == IF typed THEN triple[1] ELSE [triple[1] EXCEPT !.dtype = Plain(Comptime)]
       IN  Call(Gives(dst, v, {}), L!emit_mov(dst, v), B!emit_mov(dst, v), A!emit_mov(dst, v), W!emit_mov(dst, v))
  BY ZenonT(60) DEF Mov
<1>2. PICK triple \in Triples(t, t, t), v \in Literals(t), typed \in BOOLEAN :
       LET dst == IF typed THEN triple[1] ELSE [triple[1] EXCEPT !.dtype = Plain(Comptime)]
       IN  Call(Gives(dst, v, {}), L!emit_mov(dst, v), B!emit_mov(dst, v), A!emit_mov(dst, v), W!emit_mov(dst, v))
  BY <1>1
<1> DEFINE dst == IF typed THEN triple[1] ELSE [triple[1] EXCEPT !.dtype = Plain(Comptime)]
<1>3. meant' = Gives(dst, v, {}) /\ listed' = Run(before, L!emit_mov(dst, v)) /\ conv' = conv /\ before' = before
  BY <1>2, CallX86
<1>4. Usable86(triple[1])
  <2>1. Triple86(triple, t, t, t) BY ScalarBase, Triples86 DEF IsBase
  <2>. QED BY <2>1 DEF Triple86, Is86
<1>5. Usable86(dst)
  <2>1. IsReg([triple[1] EXCEPT !.dtype = Plain(Comptime)])
        /\ P86([triple[1] EXCEPT !.dtype = Plain(Comptime)]) = P86(triple[1])
    <3> DEFINE r == triple[1]   q == Plain(Comptime)
    <3>1. r = Reg(r.reg_type, r.offset, r.rsize, r.dtype) BY <1>4 DEF Usable86, IsReg
    <3> HIDE DEF r, q
    <3>2. [r EXCEPT !.dtype = q] = Reg(r.reg_type, r.offset, r.rsize, q) BY <3>1 DEF Reg
    <3>3. IsReg(Reg(r.reg_type, r.offset, r.rsize, q)) BY DEF IsReg, Reg
    <3>4. P86(Reg(r.reg_type, r.offset, r.rsize, q)) = P86(Reg(r.reg_type, r.offset, r.rsize, r.dtype))
      BY DEF P86, L!buf_putreg, Reg
    <3>. QED BY <3>1, <3>2, <3>3, <3>4 DEF r, q
  <2>2. [triple[1] EXCEPT !.dtype = Plain(Comptime)].rsize = triple[1].rsize
    <3>1. triple[1] = Reg(triple[1].reg_type, triple[1].offset, triple[1].rsize, triple[1].dtype) BY <1>4 DEF Usable86, IsReg
    <3>. QED BY <3>1 DEF Reg
  <2>. QED BY <1>4, <2>1, <2>2 DEF Usable86
<1> HIDE DEF dst
<1>6. v \in Int BY LiteralInt
<1>7. Computes(R, before, L!emit_mov(dst, v), {}, P86(dst), dst.rsize, v) BY <1>5, <1>6, RestedFacts, MovImm86
<1>. QED BY <1>3, <1>5, <1>6, <1>7, RestedFacts, Simple86

\* A call of emit_zero_out does what it is for.
LEMMA ZeroOutCloses86 == ASSUME X86, Rested, ZeroOut PROVE Closed'
<1>1. PICK t \in Scalars : Call(Gives(Acc(t), 0, {}), L!emit_zero_out(Acc(t)), B!emit_zero_out(Acc(t)),
                             A!emit_zero_out(Acc(t)), W!emit_zero_out(Acc(t)))
  BY DEF ZeroOut
<1> DEFINE dst == Acc(t)
<1>2. meant' = Gives(dst, 0, {}) /\ listed' = Run(before, L!emit_zero_out(dst)) /\ conv' = conv /\ before' = before
  BY <1>1, CallX86
<1>3. Usable86(dst) BY ScalarBase, Kinds86 DEF IsBase, Is86
<1> HIDE DEF dst
<1>4. Computes(R, before, L!emit_zero_out(dst), {}, P86(dst), dst.rsize, 0) BY <1>3, RestedFacts, ZeroOut86
<1>. QED BY <1>2, <1>3, <1>4, RestedFacts, Simple86

\* A call of emit_mov_reg does what it is for.
LEMMA MovRegCloses86 == ASSUME X86, Rested, MovReg PROVE Closed'
<1>1. PICK t \in Scalars, s \in Scalars : \E triple \in Triples(t, s, s) :
       LET dst == triple[1]   src == triple[2]
       IN  /\ t.size >= s.size
           /\ Call(Gives(dst, Held(before, src), {}), L!emit_mov_reg(dst, src), B!emit_mov_reg(dst, src),
                   A!emit_mov_reg(dst, src), W!emit_mov_reg(dst, src))
  BY DEF MovReg
<1>2. PICK triple \in Triples(t, s, s) :
       LET dst == triple[1]   src == triple[2]
       IN  /\ t.size >= s.size
           /\ Call(Gives(dst, Held(before, src), {}), L!emit_mov_reg(dst, src), B!emit_mov_reg(dst, src),
                   A!emit_mov_reg(dst, src), W!emit_mov_reg(dst, src))
  BY <1>1
<1> DEFINE dst == triple[1]   src == triple[2]   v == Held(before, src)
<1>3. meant' = Gives(dst, v, {}) /\ listed' = Run(before, L!emit_mov_reg(dst, src)) /\ conv' = conv /\ before' = before
  BY <1>2, CallX86
<1>4. t.size \in Sizes /\ s.size \in Sizes /\ s.sign \in BOOLEAN BY ScalarBase DEF IsBase
<1>5. Usable86(dst) /\ Usable86(src) /\ dst.rsize = t.size /\ src.rsize = s.size /\ src.dtype.base.sign \in BOOLEAN /\ Place(src) = P86(src)
  <2>1. Triple86(triple, t, s, s) BY <1>4, Triples86
  <2>. QED BY <1>4, <2>1 DEF Triple86, Is86
<1>6. src.rsize <= dst.rsize BY <1>2, <1>4, <1>5, SizesIn
<1>7. v = Extend(before.reg[P86(src)], src.rsize, src.dtype.base.sign) BY <1>5 DEF Held
<1> HIDE DEF dst, src, v
<1>8. v \in Int BY <1>5, <1>7, RestedFacts, Facts86
<1>9. Computes(R, before, L!emit_mov_reg(dst, src), {}, P86(dst), dst.rsize, v) BY <1>5, <1>6, <1>7, RestedFacts, MovReg86
<1>. QED BY <1>3, <1>5, <1>8, <1>9, RestedFacts, Simple86

\* With no known families no operands are set apart.
LEMMA NoneKnown == ASSUME Beyond = {}, X86 PROVE \A f : ~Known(f) /\ ~KnownX86(f)
BY Places86 DEF Known, KnownX86

\* A constant that can be added fits a displacement.
LEMMA Displaced86 ==
  ASSUME Beyond = {}, X86, NEW t, NEW v, Displaced(t, v) PROVE t.size # 1 /\ FitsSigned(v, 4)
BY NoneKnown, Places86 DEF Displaced, Addable

\* What a register of the parser holds.
LEMMA Held86 ==
  ASSUME X86, Rested, NEW r, NEW b, IsBase(b), Is86(r, b, P86(r))
  PROVE  /\ Usable86(r) /\ r.rsize = b.size /\ r.dtype.base.sign = b.sign /\ b.sign \in BOOLEAN /\ b.size \in Sizes
         /\ Held(before, r) = Extend(before.reg[P86(r)], r.rsize, b.sign) /\ Held(before, r) \in Int
         /\ Loadable(r) => (r.rsize = 4 => before.reg[P86(r)] < Values(4))
<1>1. Usable86(r) /\ r.rsize = b.size /\ r.dtype.base.sign = b.sign /\ b.sign \in BOOLEAN /\ b.size \in Sizes /\ Place(r) = P86(r)
  BY DEF Is86, IsBase
<1>2. Held(before, r) = Extend(before.reg[P86(r)], r.rsize, b.sign) BY <1>1 DEF Held
<1>3. Held(before, r) \in Int BY <1>1, <1>2, RestedFacts, Facts86
<1>4. Loadable(r) => (r.rsize = 4 => before.reg[P86(r)] < Values(4)) BY <1>1, Places86 DEF Loadable
<1>. QED BY <1>1, <1>2, <1>3, <1>4

\* A call of emit_add does what it is for.
LEMMA AddCloses86 == ASSUME Beyond = {}, X86, Rested, Add PROVE Closed'
<1>1. PICK t \in Scalars : \E triple \in Triples(t, t, t), v \in Literals(t) :
       LET dst == triple[1]   lhs == triple[2]
       IN  /\ Displaced(t, v)
           /\ Call(Gives(dst, Held(before, lhs) + v, {}), L!emit_add(dst, lhs, v), B!emit_add(dst, lhs, v),
                   A!emit_add(dst, lhs, v), W!emit_add(dst, lhs, v))
  BY DEF Add
<1>2. PICK triple \in Triples(t, t, t), v \in Literals(t) :
       LET dst == triple[1]   lhs == triple[2]
       IN  /\ Displaced(t, v)
           /\ Call(Gives(dst, Held(before, lhs) + v, {}), L!emit_add(dst, lhs, v), B!emit_add(dst, lhs, v),
                   A!emit_add(dst, lhs, v), W!emit_add(dst, lhs, v))
  BY <1>1
<1> DEFINE dst == triple[1]   lhs == triple[2]   x == Held(before, lhs) + v
<1>3. meant' = Gives(dst, x, {}) /\ listed' = Run(before, L!emit_add(dst, lhs, v)) /\ conv' = conv /\ before' = before
  BY <1>2, CallX86
<1>4. IsBase(t) /\ Triple86(triple, t, t, t) BY ScalarBase, Triples86 DEF IsBase
<1>5. Is86(dst, t, P86(dst)) /\ Is86(lhs, t, P86(lhs)) BY <1>4 DEF Triple86
<1>6. v \in Int BY LiteralInt
<1>7. t.size # 1 /\ FitsSigned(v, 4) BY <1>2, Displaced86
<1> HIDE DEF dst, lhs
<1>8. Usable86(dst) /\ dst.rsize = t.size BY <1>5 DEF Is86
<1>9. Usable86(lhs) /\ lhs.rsize = t.size /\ t.sign \in BOOLEAN /\ Held(before, lhs) = Extend(before.reg[P86(lhs)], lhs.rsize, t.sign)
      /\ Held(before, lhs) \in Int
  BY <1>4, <1>5, Held86
<1>10. Computes(R, before, L!emit_add(dst, lhs, v), {}, P86(dst), dst.rsize, x)
  BY <1>6, <1>7, <1>8, <1>9, RestedFacts, AddImm86
<1>11. x \in Int BY <1>6, <1>9
<1> HIDE DEF x
<1>. QED BY <1>3, <1>8, <1>10, <1>11, RestedFacts, Simple86

\* A call of emit_sub does what it is for.
LEMMA SubCloses86 == ASSUME Beyond = {}, X86, Rested, Sub PROVE Closed'
<1>1. PICK t \in Scalars : \E triple \in Triples(t, t, t), v \in Literals(t) :
       LET dst == triple[1]   lhs == triple[2]
       IN  /\ Displaced(t, 0 - v)
           /\ Call(Gives(dst, Held(before, lhs) - v, {}), L!emit_sub(dst, lhs, v), B!emit_sub(dst, lhs, v),
                   A!emit_sub(dst, lhs, v), W!emit_sub(dst, lhs, v))
  BY DEF Sub
<1>2. PICK triple \in Triples(t, t, t), v \in Literals(t) :
       LET dst == triple[1]   lhs == triple[2]
       IN  /\ Displaced(t, 0 - v)
           /\ Call(Gives(dst, Held(before, lhs) - v, {}), L!emit_sub(dst, lhs, v), B!emit_sub(dst, lhs, v),
                   A!emit_sub(dst, lhs, v), W!emit_sub(dst, lhs, v))
  BY <1>1
<1> DEFINE dst == triple[1]   lhs == triple[2]   x == Held(before, lhs) - v
<1>3. meant' = Gives(dst, x, {}) /\ listed' = Run(before, L!emit_sub(dst, lhs, v)) /\ conv' = conv /\ before' = before
  BY <1>2, CallX86
<1>4. IsBase(t) /\ Triple86(triple, t, t, t) BY ScalarBase, Triples86 DEF IsBase
<1>5. Is86(dst, t, P86(dst)) /\ Is86(lhs, t, P86(lhs)) BY <1>4 DEF Triple86
<1>6. v \in Int BY LiteralInt
<1>7. t.size # 1 /\ FitsSigned(0 - v, 4) BY <1>2, Displaced86
<1> HIDE DEF dst, lhs
<1>8. Usable86(dst) /\ dst.rsize = t.size BY <1>5 DEF Is86
<1>9. Usable86(lhs) /\ lhs.rsize = t.size /\ t.sign \in BOOLEAN /\ Held(before, lhs) = Extend(before.reg[P86(lhs)], lhs.rsize, t.sign)
      /\ Held(before, lhs) \in Int
  BY <1>4, <1>5, Held86
<1>10. Computes(R, before, L!emit_sub(dst, lhs, v), {}, P86(dst), dst.rsize, x)
  BY <1>6, <1>7, <1>8, <1>9, RestedFacts, SubImm86
<1>11. x \in Int BY <1>6, <1>9
<1> HIDE DEF x
<1>. QED BY <1>3, <1>8, <1>10, <1>11, RestedFacts, Simple86

\* The sizes and places of an operation on two registers.
Pair86(dst, lhs, rhs, l, r) ==
  /\ Usable86(dst) /\ Usable86(lhs) /\ Usable86(rhs) /\ lhs.dtype.base.sign \in BOOLEAN /\ rhs.dtype.base.sign \in BOOLEAN
  /\ lhs.rsize = l.size /\ rhs.rsize = r.size /\ lhs.dtype.base.sign = l.sign /\ rhs.dtype.base.sign = r.sign
  /\ dst.rsize = (IF lhs.rsize > rhs.rsize THEN lhs.rsize ELSE rhs.rsize)
  /\ P86(dst) # P86(rhs)
  /\ lhs.rsize > rhs.rsize => P86(dst) # P86(lhs) /\ P86(lhs) \notin T86
  /\ P86(rhs) \notin T86

\* Two operands and where their result goes.
LEMMA Pairs86 ==
  ASSUME Beyond = {}, X86, NEW l \in Scalars, NEW r \in Scalars, NEW triple \in Triples(Wider(l, r), l, r),
         Chained(triple[2], l, r)
  PROVE  /\ Pair86(triple[1], triple[2], triple[3], l, r) /\ IsBase(l) /\ IsBase(r)
         /\ Is86(triple[2], l, P86(triple[2])) /\ Is86(triple[3], r, P86(triple[3]))
<1>1. IsBase(l) /\ IsBase(r) BY ScalarBase
<1>2. l.size \in Sizes /\ r.size \in Sizes /\ Wider(l, r).size \in Sizes BY <1>1 DEF IsBase, Wider
<1>3. Triple86(triple, Wider(l, r), l, r) BY <1>2, Triples86
<1>4. r.size < l.size => triple[2].reg_type # "SCRATCH" BY NoneKnown DEF Chained
<1>5. Wider(l, r).size = (IF l.size > r.size THEN l.size ELSE r.size) BY <1>2, SizesIn DEF Wider
<1>. QED BY <1>1, <1>2, <1>3, <1>4, <1>5 DEF Triple86, Is86, Pair86, IsBase

\* A call of emit_add_reg does what it is for.
LEMMA AddRegCloses86 == ASSUME Beyond = {}, X86, Rested, AddReg PROVE Closed'
<1>1. PICK l \in Scalars, r \in Scalars : \E triple \in Triples(Wider(l, r), l, r) :
       LET dst == triple[1]   lhs == triple[2]   rhs == triple[3]
       IN  /\ Chained(lhs, l, r)
           /\ (l.size = 1 /\ r.size = 1) => KnownX86("bytes")
           /\ Call(Gives(dst, Held(before, lhs) + Held(before, rhs), {}),
                   L!emit_add_reg(dst, lhs, rhs), B!emit_add_reg(dst, lhs, rhs),
                   A!emit_add_reg(dst, lhs, rhs), W!emit_add_reg(dst, lhs, rhs))
  BY DEF AddReg
<1>2. PICK triple \in Triples(Wider(l, r), l, r) :
       LET dst == triple[1]   lhs == triple[2]   rhs == triple[3]
       IN  /\ Chained(lhs, l, r)
           /\ (l.size = 1 /\ r.size = 1) => KnownX86("bytes")
           /\ Call(Gives(dst, Held(before, lhs) + Held(before, rhs), {}),
                   L!emit_add_reg(dst, lhs, rhs), B!emit_add_reg(dst, lhs, rhs),
                   A!emit_add_reg(dst, lhs, rhs), W!emit_add_reg(dst, lhs, rhs))
  BY <1>1
<1> DEFINE dst == triple[1]   lhs == triple[2]   rhs == triple[3]   v == Held(before, lhs) + Held(before, rhs)
           code == L!emit_add_reg(dst, lhs, rhs)
<1>3. meant' = Gives(dst, v, {}) /\ listed' = Run(before, code) /\ conv' = conv /\ before' = before
  BY <1>2, CallX86
<1>4. Pair86(dst, lhs, rhs, l, r) /\ IsBase(l) /\ IsBase(r) /\ Is86(lhs, l, P86(lhs)) /\ Is86(rhs, r, P86(rhs))
  BY <1>2, Pairs86
<1>5. lhs.rsize = rhs.rsize => dst.rsize # 1
  BY <1>2, <1>4, NoneKnown DEF Pair86
<1> HIDE DEF dst, lhs, rhs
<1>6. /\ Held(before, lhs) = Extend(before.reg[P86(lhs)], lhs.rsize, lhs.dtype.base.sign) /\ Held(before, lhs) \in Int
      /\ Held(before, rhs) = Extend(before.reg[P86(rhs)], rhs.rsize, rhs.dtype.base.sign) /\ Held(before, rhs) \in Int
  <2>1. lhs.dtype.base.sign = l.sign /\ rhs.dtype.base.sign = r.sign BY <1>4 DEF Pair86
  <2>. QED BY <1>4, <2>1, Held86
<1>7. Computes(R, before, code, {}, P86(dst), dst.rsize, v)
  <2>1. Computes(R, before, code, {}, P86(dst), dst.rsize,
                 Extend(before.reg[P86(lhs)], lhs.rsize, lhs.dtype.base.sign)
                   + Extend(before.reg[P86(rhs)], rhs.rsize, rhs.dtype.base.sign))
    BY <1>4, <1>5, RestedFacts, AddReg86 DEF Pair86
  <2>. QED BY <1>6, <2>1
<1>8. v \in Int BY <1>6
<1>9. Usable86(dst) BY <1>4 DEF Pair86
<1> HIDE DEF v, code
<1>. QED BY <1>3, <1>7, <1>8, <1>9, RestedFacts, Simple86

\* A call of emit_sub_reg does what it is for.
LEMMA SubRegCloses86 == ASSUME Beyond = {}, X86, Rested, SubReg PROVE Closed'
<1>1. PICK l \in Scalars, r \in Scalars : \E triple \in Triples(Wider(l, r), l, r) :
       LET dst == triple[1]   lhs == triple[2]   rhs == triple[3]
       IN  /\ Chained(lhs, l, r)
           /\ Call(Gives(dst, Held(before, lhs) - Held(before, rhs), {}),
                   L!emit_sub_reg(dst, lhs, rhs), B!emit_sub_reg(dst, lhs, rhs),
                   A!emit_sub_reg(dst, lhs, rhs), W!emit_sub_reg(dst, lhs, rhs))
  BY DEF SubReg
<1>2. PICK triple \in Triples(Wider(l, r), l, r) :
       LET dst == triple[1]   lhs == triple[2]   rhs == triple[3]
       IN  /\ Chained(lhs, l, r)
           /\ Call(Gives(dst, Held(before, lhs) - Held(before, rhs), {}),
                   L!emit_sub_reg(dst, lhs, rhs), B!emit_sub_reg(dst, lhs, rhs),
                   A!emit_sub_reg(dst, lhs, rhs), W!emit_sub_reg(dst, lhs, rhs))
  BY <1>1
<1> DEFINE dst == triple[1]   lhs == triple[2]   rhs == triple[3]   v == Held(before, lhs) - Held(before, rhs)
           code == L!emit_sub_reg(dst, lhs, rhs)
<1>3. meant' = Gives(dst, v, {}) /\ listed' = Run(before, code) /\ conv' = conv /\ before' = before
  BY <1>2, CallX86
<1>4. Pair86(dst, lhs, rhs, l, r) /\ IsBase(l) /\ IsBase(r) /\ Is86(lhs, l, P86(lhs)) /\ Is86(rhs, r, P86(rhs))
  BY <1>2, Pairs86
<1> HIDE DEF dst, lhs, rhs
<1>6. /\ Held(before, lhs) = Extend(before.reg[P86(lhs)], lhs.rsize, lhs.dtype.base.sign) /\ Held(before, lhs) \in Int
      /\ Held(before, rhs) = Extend(before.reg[P86(rhs)], rhs.rsize, rhs.dtype.base.sign) /\ Held(before, rhs) \in Int
  <2>1. lhs.dtype.base.sign = l.sign /\ rhs.dtype.base.sign = r.sign BY <1>4 DEF Pair86
  <2>. QED BY <1>4, <2>1, Held86
<1>7. Computes(R, before, code, {}, P86(dst), dst.rsize, v)
  <2>1. Computes(R, before, code, {}, P86(dst), dst.rsize,
                 Extend(before.reg[P86(lhs)], lhs.rsize, lhs.dtype.base.sign)
                   - Extend(before.reg[P86(rhs)], rhs.rsize, rhs.dtype.base.sign))
    BY <1>4, RestedFacts, SubReg86 DEF Pair86
  <2>. QED BY <1>6, <2>1
<1>8. v \in Int BY <1>6
<1>9. Usable86(dst) BY <1>4 DEF Pair86
<1> HIDE DEF v, code
<1>. QED BY <1>3, <1>7, <1>8, <1>9, RestedFacts, Simple86

\* A call of emit_lsl does what it is for.
LEMMA LslCloses86 == ASSUME Beyond = {}, X86, Rested, Lsl PROVE Closed'
<1>1. PICK t \in Scalars : \E triple \in Triples(t, t, t), v \in 0 .. 5 :
       LET dst == triple[1]   lhs == triple[2]
       IN  /\ (t.size = 1 /\ v \in 1 .. 3) => KnownX86("bytes")
           /\ v \in {2, 3} => KnownX86("shift")
           /\ Call(Gives(dst, Held(before, lhs) * TwoTo[v], {}), L!emit_lsl(dst, lhs, v), B!emit_lsl(dst, lhs, v),
                   A!emit_lsl(dst, lhs, v), W!emit_lsl(dst, lhs, v))
  BY DEF Lsl
<1>2. PICK triple \in Triples(t, t, t), v \in 0 .. 5 :
       LET dst == triple[1]   lhs == triple[2]
       IN  /\ (t.size = 1 /\ v \in 1 .. 3) => KnownX86("bytes")
           /\ v \in {2, 3} => KnownX86("shift")
           /\ Call(Gives(dst, Held(before, lhs) * TwoTo[v], {}), L!emit_lsl(dst, lhs, v), B!emit_lsl(dst, lhs, v),
                   A!emit_lsl(dst, lhs, v), W!emit_lsl(dst, lhs, v))
  BY <1>1
<1> DEFINE dst == triple[1]   lhs == triple[2]   x == Held(before, lhs) * TwoTo[v]
<1>3. meant' = Gives(dst, x, {}) /\ listed' = Run(before, L!emit_lsl(dst, lhs, v)) /\ conv' = conv /\ before' = before
  BY <1>2, CallX86
<1>4. IsBase(t) /\ Triple86(triple, t, t, t) BY ScalarBase, Triples86 DEF IsBase
<1>5. Is86(dst, t, P86(dst)) /\ Is86(lhs, t, P86(lhs)) BY <1>4 DEF Triple86
<1>6. v \in {0, 1, 4, 5} /\ (v = 1 => t.size # 1) BY <1>2, NoneKnown
<1> HIDE DEF dst, lhs
<1>8. Usable86(dst) /\ dst.rsize = t.size BY <1>5 DEF Is86
<1>9. Usable86(lhs) /\ lhs.rsize = t.size /\ t.sign \in BOOLEAN /\ lhs.dtype.base.sign = t.sign
      /\ Held(before, lhs) = Extend(before.reg[P86(lhs)], lhs.rsize, t.sign)
      /\ Held(before, lhs) \in Int
  BY <1>4, <1>5, Held86
<1>10. Computes(R, before, L!emit_lsl(dst, lhs, v), {}, P86(dst), dst.rsize, x)
  <2>1. Computes(R, before, L!emit_lsl(dst, lhs, v), {}, P86(dst), dst.rsize,
                 Extend(before.reg[P86(lhs)], lhs.rsize, lhs.dtype.base.sign) * TwoTo[v])
    BY <1>6, <1>8, <1>9, RestedFacts, Lsl86
  <2>. QED BY <1>9, <2>1
<1>11. x \in Int
  <2>1. TwoTo[v] \in Int
    <3>1. v \in 0 .. 15 BY <1>6
    <3>. QED BY <3>1, TwoToSmall
  <2> DEFINE h == Held(before, lhs)   k == TwoTo[v]
  <2>2. h \in Int /\ k \in Int BY <1>9, <2>1
  <2> HIDE DEF h, k
  <2>3. h * k \in Int BY <2>2
  <2>. QED BY <2>3 DEF h, k
<1> HIDE DEF x
<1>. QED BY <1>3, <1>8, <1>10, <1>11, RestedFacts, Simple86

\* A call of emit_cmp does what it is for.
LEMMA CmpCloses86 == ASSUME Beyond = {}, X86, Rested, Cmp PROVE Closed'
<1>1. PICK t \in Scalars : \E triple \in Triples(t, t, t), v \in Literals(t) :
       LET lhs == triple[2]
           y   == IF t.sign THEN v ELSE Unsigned(v, t.size)
       IN  /\ ComparesTo(t, v)
           /\ Call(Decides(Equalities \union Orders(t.sign), Held(before, lhs), y),
                   L!emit_cmp(lhs, v), B!emit_cmp(lhs, v),
                   A!emit_cmp(lhs, v), W!emit_cmp(lhs, v))
  BY DEF Cmp
<1>2. PICK triple \in Triples(t, t, t), v \in Literals(t) :
       LET lhs == triple[2]
           y   == IF t.sign THEN v ELSE Unsigned(v, t.size)
       IN  /\ ComparesTo(t, v)
           /\ Call(Decides(Equalities \union Orders(t.sign), Held(before, lhs), y),
                   L!emit_cmp(lhs, v), B!emit_cmp(lhs, v),
                   A!emit_cmp(lhs, v), W!emit_cmp(lhs, v))
  BY <1>1
<1> DEFINE lhs == triple[2]   x == Held(before, lhs)   y == IF t.sign THEN v ELSE Unsigned(v, t.size)
           conds == Equalities \union Orders(t.sign)
<1>3. meant' = Decides(conds, x, y) /\ listed' = Run(before, L!emit_cmp(lhs, v)) /\ conv' = conv /\ before' = before
  BY <1>2, CallX86
<1>4. IsBase(t) /\ Triple86(triple, t, t, t) BY ScalarBase, Triples86 DEF IsBase
<1>5. Is86(lhs, t, P86(lhs)) BY <1>4 DEF Triple86
<1>6. v \in Int /\ y = Extend(v, t.size, t.sign) /\ (t.size # 8 => FitsSigned(v, 4) \/ v \in 0 .. Values(4) - 1) BY LiteralInt
<1>7. t.size = 8 => FitsSigned(v, 4) BY <1>2, NoneKnown, Places86 DEF ComparesTo, Addable
<1> HIDE DEF lhs, y
<1>9. Usable86(lhs) /\ lhs.rsize = t.size /\ t.sign \in BOOLEAN /\ t.size \in Sizes /\ x = Extend(before.reg[P86(lhs)], lhs.rsize, t.sign)
  BY <1>4, <1>5, Held86
<1>10. Compared(R, before, L!emit_cmp(lhs, v), {}, conds, x, y)
  <2>1. FitsSigned(v, 4) \/ (lhs.rsize <= 4 /\ v \in 0 .. Values(4) - 1) BY <1>6, <1>7, <1>9 DEF Sizes
  <2>2. y = Extend(v, lhs.rsize, t.sign) BY <1>6, <1>9
  <2> HIDE DEF x
  <2>. QED BY <1>6, <1>9, <2>1, <2>2, RestedFacts, Cmp86
<1>11. conv \in Convs /\ Kept \subseteq R /\ Started BY Places86, Kept86, RestedFacts
<1>12. {} \intersect Kept = {} OBVIOUS
<1> HIDE DEF x, conds
<1>. QED BY <1>3, <1>10, <1>11, <1>12, DecidesClosed

\* A call of emit_cmp_reg does what it is for.
LEMMA CmpRegCloses86 == ASSUME Beyond = {}, X86, Rested, CmpReg PROVE Closed'
<1>1. PICK l \in Scalars, r \in Scalars, conds \in {Equalities, Orders(TRUE), Orders(FALSE)} :
       \E triple \in Triples(l, l, r) :
       LET lhs == triple[2]   rhs == triple[3]
           cond == CHOOSE c \in conds : TRUE
       IN  /\ Mixed(l, r) /\ Loadable(lhs) /\ Loadable(rhs) /\ Chained(lhs, l, r)
           /\ conds \in {Equalities, Orders(l.sign)} /\ Compares(cond, l, r)
           /\ Call(Decides(conds, Held(before, lhs), Held(before, rhs)),
                   L!emit_cmp_reg(lhs, rhs, cond), B!emit_cmp_reg(lhs, rhs, cond),
                   A!emit_cmp_reg(lhs, rhs, cond), W!emit_cmp_reg(lhs, rhs, cond))
  BY Zenon DEF CmpReg
<1>2. PICK triple \in Triples(l, l, r) :
       LET lhs == triple[2]   rhs == triple[3]
           cond == CHOOSE c \in conds : TRUE
       IN  /\ Mixed(l, r) /\ Loadable(lhs) /\ Loadable(rhs) /\ Chained(lhs, l, r)
           /\ conds \in {Equalities, Orders(l.sign)} /\ Compares(cond, l, r)
           /\ Call(Decides(conds, Held(before, lhs), Held(before, rhs)),
                   L!emit_cmp_reg(lhs, rhs, cond), B!emit_cmp_reg(lhs, rhs, cond),
                   A!emit_cmp_reg(lhs, rhs, cond), W!emit_cmp_reg(lhs, rhs, cond))
  BY <1>1
<1> DEFINE lhs == triple[2]   rhs == triple[3]   cond == CHOOSE c \in conds : TRUE
           x == Held(before, lhs)   y == Held(before, rhs)   code == L!emit_cmp_reg(lhs, rhs, cond)
<1>3. meant' = Decides(conds, x, y) /\ listed' = Run(before, code) /\ conv' = conv /\ before' = before
  BY <1>2, CallX86
<1>4. IsBase(l) /\ IsBase(r) /\ Triple86(triple, l, l, r) BY ScalarBase, Triples86 DEF IsBase
<1>5. Is86(lhs, l, P86(lhs)) /\ Is86(rhs, r, P86(rhs)) /\ P86(rhs) \notin T86 /\ (lhs.reg_type # "SCRATCH" => P86(lhs) \notin T86)
  BY <1>4 DEF Triple86
<1>6. conds \subseteq Equalities \union Orders(l.sign) /\ cond \in conds
  <2>1. conds # {} BY <1>2 DEF Equalities, Orders
  <2>2. cond \in conds BY <2>1
  <2>. QED BY <1>2, <2>2
<1>7. /\ l.size = r.size => l.sign = r.sign
      /\ l.size > r.size => (l.sign = r.sign \/ l.sign) /\ lhs.reg_type # "SCRATCH"
      /\ l.size < r.size => cond \notin Equalities /\ l.sign = r.sign
  <2>1. l.size \in Int /\ r.size \in Int BY <1>4, SizesIn DEF IsBase
  <2>2. l.size > r.size => lhs.reg_type # "SCRATCH" BY <1>2, <2>1, NoneKnown DEF Chained
  <2>3. l.size < r.size => cond \notin Equalities BY <1>2, <2>1, NoneKnown DEF Compares
  <2>4. cond \notin Equalities => (l.sign \/ ~r.sign) BY <1>2, NoneKnown DEF Compares
  <2>5. l.sign = r.sign \/ (IF l.sign THEN l.size ELSE r.size) > (IF l.sign THEN r.size ELSE l.size) BY <1>2 DEF Mixed
  <2>6. l.sign \in BOOLEAN /\ r.sign \in BOOLEAN BY <1>4 DEF IsBase
  <2> HIDE DEF lhs, cond
  <2>7. CASE l.size = r.size BY <2>1, <2>5, <2>7
  <2>8. CASE l.size > r.size BY <2>1, <2>2, <2>5, <2>6, <2>8
  <2>9. CASE l.size < r.size BY <2>1, <2>3, <2>4, <2>5, <2>6, <2>9
  <2>. QED BY <2>1, <2>7, <2>8, <2>9
<1> HIDE DEF lhs, rhs, cond
<1>9. /\ Usable86(lhs) /\ lhs.rsize = l.size /\ l.sign \in BOOLEAN /\ x = Extend(before.reg[P86(lhs)], lhs.rsize, l.sign)
      /\ Usable86(rhs) /\ rhs.rsize = r.size /\ r.sign \in BOOLEAN /\ y = Extend(before.reg[P86(rhs)], rhs.rsize, r.sign)
      /\ lhs.dtype.base.sign = l.sign /\ rhs.dtype.base.sign = r.sign
  BY <1>4, <1>5, Held86
<1>10. Compared(R, before, code, {Class.scratch[1]}, conds, x, y)
  <2>1. lhs.rsize = rhs.rsize => l.sign = r.sign BY <1>7, <1>9
  <2>2. lhs.rsize > rhs.rsize => (l.sign = r.sign \/ l.sign) /\ P86(lhs) # Class.scratch[1] BY <1>5, <1>7, <1>9 DEF T86
  <2>3. lhs.rsize < rhs.rsize => l.sign = r.sign /\ P86(rhs) # Class.scratch[1] /\ cond \notin Equalities BY <1>5, <1>7, <1>9 DEF T86
  <2>4. Compared(R, before, code, {Class.scratch[1]}, conds,
                  Extend(before.reg[P86(lhs)], lhs.rsize, l.sign), Extend(before.reg[P86(rhs)], rhs.rsize, r.sign))
    BY <1>6, <1>9, <2>1, <2>2, <2>3, RestedFacts, CmpReg86
  <2>. QED BY <1>9, <2>4
<1>11. conv \in Convs /\ Kept \subseteq R /\ Started BY Places86, Kept86, RestedFacts
<1>12. {Class.scratch[1]} \intersect Kept = {} BY Kept86 DEF T86
<1> HIDE DEF x, y, code
<1>. QED BY <1>3, <1>10, <1>11, <1>12, DecidesClosed

-----------------------------------------------------------------------------
(* The calls on x86-64: memory.                                           *)

\* A call of emit_cond_set does what it is for: it reads what was decided.
LEMMA CondSetCloses86 == ASSUME X86, Started, Closed, CondSet PROVE Closed'
<1>1. meant.truth # << >> BY DEF CondSet
<1>2. PICK t \in {Fund(4, TRUE), Fund(8, FALSE), Fund(1, TRUE)}, cond \in DOMAIN meant.truth :
       LET dst == Argument(t)
       IN  Call(Gives(dst, IF meant.truth[cond] THEN 1 ELSE 0, {}),
                L!emit_cond_set(dst, cond), B!emit_cond_set(dst, cond),
                A!emit_cond_set(dst, cond), W!emit_cond_set(dst, cond))
  BY DEF CondSet
<1> DEFINE dst == Argument(t)   v == IF meant.truth[cond] THEN 1 ELSE 0   code == L!emit_cond_set(dst, cond)   m == Run(listed, code)
<1>3. meant' = Gives(dst, v, {}) /\ listed' = m /\ conv' = conv /\ before' = before
  BY <1>2, Places86 DEF Call
<1>4. Decided(listed) BY <1>1 DEF Closed
<1>5. v = IF Holds(cond, listed.flags) THEN 1 ELSE 0
  <2>1. Called BY <1>1 DEF Called, Nothing
  <2>. QED BY <2>1 DEF Closed, DoesWhatItIsFor
<1>6. Usable86(dst) /\ Place(dst) = P86(dst)
  <2>1. t.size \in Sizes BY DEF Fund, Sizes
  <2>. QED BY <2>1, Kinds86 DEF Is86
<1>7. listed \in Machines(R) /\ ~listed.left /\ listed.mem = before.mem /\ \A r \in Kept : listed.reg[r] = before.reg[r]
  BY <1>4 DEF Decided
<1> HIDE DEF v, dst
<1>8. Yields(R, listed, code, {}, P86(dst), dst.rsize, v) BY <1>5, <1>6, <1>7, CondSet86
<1> HIDE DEF code
<1>9. Prepares(R, listed, code, {P86(dst)}) /\ Agree(m.reg[P86(dst)], v, dst.rsize)
  <2>1. {} \union {P86(dst)} = {P86(dst)} OBVIOUS
  <2>. QED BY <1>8, <2>1 DEF Yields
<1>10. m.mem = listed.mem /\ \A r \in R \ {P86(dst)} : m.reg[r] = listed.reg[r] BY <1>7, <1>9, After
<1>11. Spared(m, AllOf({dst} \union {}))
  <2>1. Kept \subseteq R BY Kept86
  <2>2. P86(dst) \in AllOf({dst} \union {}) BY <1>6 DEF AllOf
  <2>. QED BY <1>7, <1>10, <2>1, <2>2 DEF Spared
<1> HIDE DEF m
<1>. QED BY <1>3, <1>6, <1>7, <1>9, <1>10, <1>11, GivesDone DEF m

\* Where the places of the parser are.
Placed86(base, r, place) == IsReg(r) /\ r.dtype.base = base /\ P86(r) \in R /\ before.reg[P86(r)] = place

\* The frame pointer as a place.
LEMMA Frame86 ==
  ASSUME X86, Rested, NEW base
  PROVE  Placed86(base, [FP EXCEPT !.dtype.base = base], 24) /\ Placed86(NoBase, FP, 24)
<1> DEFINE dtype == [Plain(NoBase) EXCEPT !.base = base]
<1>1. dtype.base = base /\ Plain(NoBase).base = NoBase BY DEF Plain
<1>2. [FP EXCEPT !.dtype.base = base] = Reg("FRAME", 0, 8, dtype) BY DEF FP, Reg
<1> HIDE DEF dtype
<1>3. \A d : IsReg(Reg("FRAME", 0, 8, d)) /\ Reg("FRAME", 0, 8, d).dtype = d BY DEF IsReg, Reg
<1>4. \A d : P86(Reg("FRAME", 0, 8, d)) = 5 BY Places86
<1>5. 5 \in R /\ before.reg[5] = 24 BY Registers86, RestedFacts
<1>. QED BY <1>1, <1>2, <1>3, <1>4, <1>5 DEF Placed86, FP

\* A pointer as a place.
LEMMA Pointer86 ==
  ASSUME X86, Rested, Pointing, NEW base
  PROVE  Placed86(base, Pointer(base), 8) /\ P86(Pointer(base)) = Class.callee[2]
<1> DEFINE dtype == [Plain(Fund(8, FALSE)) EXCEPT !.base = base]   n == Fund(8, FALSE).size
<1>1. dtype.base = base BY DEF Plain
<1>2. Pointer(base) = Reg("NREG", 1, n, dtype)
  <2> DEFINE old == Plain(Fund(8, FALSE))
  <2>1. Var(1, Fund(8, FALSE)) = Reg("NREG", 1, n, old) BY DEF Var
  <2>2. dtype = [old EXCEPT !.base = base] OBVIOUS
  <2> HIDE DEF old, n, dtype
  <2>3. [Reg("NREG", 1, n, old) EXCEPT !.dtype.base = base] = Reg("NREG", 1, n, dtype) BY <2>2 DEF Reg
  <2>. QED BY <2>1, <2>3 DEF Pointer
<1> HIDE DEF dtype, n
<1>3. IsReg(Reg("NREG", 1, n, dtype)) /\ Reg("NREG", 1, n, dtype).dtype = dtype BY DEF IsReg, Reg
<1>4. 1 \in 0 .. 6 /\ 1 + 1 = 2 OBVIOUS
<1>5. P86(Reg("NREG", 1, n, dtype)) = Class.callee[1 + 1] /\ Class.callee[1 + 1] \in R BY <1>4, Places86, Registers86
<1>6. before.reg[Class.callee[2]] = 8 BY DEF Pointing, ObjectAt
<1>. QED BY <1>1, <1>2, <1>3, <1>4, <1>5, <1>6 DEF Placed86

\* A spot of the parser: a register and a distance, which name a place in memory.
SpotIs86(place, t) ==
  /\ IsReg(place[1]) /\ place[1].dtype.base = t /\ P86(place[1]) \in R /\ P86(place[1]) \notin T86 /\ place[2] \in Int
  /\ Spot(place) \in Place8 /\ before.reg[P86(place[1])] + place[2] = Spot(place)
  /\ Spot(place) + 8 <= Memory /\ Spot(place) + 4 \in Place8

\* The places calls store at and load from.
LEMMA Spots86 ==
  ASSUME X86, Rested, NEW t, NEW place \in Spots(t) PROVE SpotIs86(place, t)
<1>1. 32 <= Memory /\ Memory \in Nat BY ConventionsAssumption, MachineAssumption
<1>2. \A r : Place(r) = P86(r) BY Places86
<1>3. CASE \E off \in {1, 4, 8, 12} : place = <<[FP EXCEPT !.dtype.base = t], 0 - off>>
  <2> PICK off \in {1, 4, 8, 12} : place = <<[FP EXCEPT !.dtype.base = t], 0 - off>> BY <1>3
  <2> DEFINE r == [FP EXCEPT !.dtype.base = t]   x == 0 - off
  <2>1. Placed86(t, r, 24) BY Frame86
  <2>2. P86(r) \notin T86
    <3>1. P86(Reg("FRAME", 0, 8, [Plain(NoBase) EXCEPT !.base = t])) = 5 BY Places86
    <3>2. r = Reg("FRAME", 0, 8, [Plain(NoBase) EXCEPT !.base = t]) BY DEF FP, Reg
    <3>. QED BY <3>1, <3>2, Registers86
  <2>3. place = <<r, x>> /\ x \in Int /\ x \in -12 .. -1 OBVIOUS
  <2> HIDE DEF r, x
  <2>4. place[1] = r /\ place[2] = x BY <2>3
  <2>5. Spot(place) = 24 + x BY <1>2, <2>1, <2>4 DEF Spot, Placed86
  <2>. QED BY <1>1, <2>1, <2>2, <2>3, <2>4, <2>5 DEF SpotIs86, Placed86, Place8
<1>4. CASE Pointing /\ \E off \in {0, 4} : place = <<Pointer(t), off>>
  <2> PICK off \in {0, 4} : place = <<Pointer(t), off>> BY <1>4
  <2> DEFINE r == Pointer(t)
  <2>1. Placed86(t, r, 8) BY <1>4, Pointer86
  <2>2. P86(r) \notin T86
    <3>1. 1 \in 0 .. 6 /\ 1 + 1 = 2 OBVIOUS
    <3>. QED BY <1>4, <3>1, Pointer86, Registers86
  <2> HIDE DEF r
  <2>4. place[1] = r /\ place[2] = off BY DEF r
  <2>5. Spot(place) = 8 + off BY <1>2, <2>1, <2>4 DEF Spot, Placed86
  <2>. QED BY <1>1, <2>1, <2>2, <2>4, <2>5 DEF SpotIs86, Placed86, Place8
<1>. QED BY <1>3, <1>4 DEF Spots

\* A call that leaves a memory and spares the variables is closed.
LEMMA Stores86 ==
  ASSUME X86, Rested, conv' = conv, before' = before, NEW code, listed' = Run(before, code), NEW V, V \intersect Kept = {},
         NEW mem \in Mem, Leaves(R, before, code, V, mem), meant' = Puts(mem, {})
  PROVE  Closed'
<1>1. conv \in Convs /\ Kept \subseteq R /\ Started BY Places86, Kept86, RestedFacts
<1>2. V \intersect Kept \subseteq AllOf({}) OBVIOUS
<1>. QED BY <1>1, <1>2, PutsClosed

\* A memory something is stored in is a memory.
LEMMA StoredMem ==
  ASSUME X86, Rested, NEW at \in Int, NEW n \in 0 .. 16, NEW v \in Int PROVE Stored(at, n, v) \in Mem
BY RestedFacts, WrittenMem DEF Stored

\* A call of emit_str_reg does what it is for.
LEMMA StrRegCloses86 == ASSUME X86, Rested, StrReg PROVE Closed'
<1>1. PICK t \in Scalars : \E place \in Spots(t), src \in From(t) :
       Call(Puts(Stored(Spot(place), t.size, Bits(before, src)), {}),
            L!emit_str_reg(place[1], src, place[2]), B!emit_str_reg(place[1], src, place[2]),
            A!emit_str_reg(place[1], src, place[2]), W!emit_str_reg(place[1], src, place[2]))
  BY Zenon DEF StrReg
<1>2. PICK place \in Spots(t), src \in From(t) :
       Call(Puts(Stored(Spot(place), t.size, Bits(before, src)), {}),
            L!emit_str_reg(place[1], src, place[2]), B!emit_str_reg(place[1], src, place[2]),
            A!emit_str_reg(place[1], src, place[2]), W!emit_str_reg(place[1], src, place[2]))
  BY <1>1
<1> DEFINE base == place[1]   off == place[2]   at == Spot(place)   v == Bits(before, src)   n == t.size
           code == L!emit_str_reg(base, src, off)
<1>3. meant' = Puts(Stored(at, n, v), {}) /\ listed' = Run(before, code) /\ conv' = conv /\ before' = before
  BY <1>2, CallX86
<1>4. P86(base) \in R /\ off \in Int /\ at \in Place8 /\ before.reg[P86(base)] + off = at /\ at + 8 <= Memory
  BY Spots86 DEF SpotIs86
<1>5. n \in Sizes BY ScalarBase DEF IsBase
<1>6. Usable86(src) /\ src.rsize = n /\ Place(src) = P86(src)
  <2>1. 0 \in 0 .. 3 OBVIOUS
  <2>. QED BY <1>5, <2>1, Kinds86 DEF From, Is86
<1>7. v = Unsigned(before.reg[P86(src)], n) BY <1>6 DEF Bits
<1>8. n \in 0 .. 16 /\ n \in 0 .. 15 /\ at \in Int /\ at + n <= Memory BY <1>4, <1>5, MachineAssumption DEF Sizes, Place8
<1>9. v \in Int
  <2>1. before.reg[P86(src)] \in Int BY <1>6, RestedFacts, Facts86
  <2>. QED BY <1>7, <1>8, <2>1, UnsignedRange
<1>10. Leaves(R, before, code, {}, Stored(at, n, v))
  <2> HIDE DEF base, off, at, n
  <2>. QED BY <1>4, <1>6, <1>7, <1>8, RestedFacts, StrReg86 DEF Stored
<1>11. Stored(at, n, v) \in Mem
  <2> HIDE DEF at, n, v
  <2>. QED BY <1>8, <1>9, StoredMem
<1>12. {} \intersect Kept = {} OBVIOUS
<1> HIDE DEF code, at, n, v
<1>. QED BY <1>3, <1>10, <1>11, <1>12, Stores86

\* A constant is stored as the bytes it has.
LEMMA StoredConstant ==
  ASSUME X86, Rested, NEW at \in Int, NEW n \in Sizes, NEW v \in Int
  PROVE  Written(before.mem, at, n, v) = Stored(at, n, Unsigned(v, n)) /\ Stored(at, n, Unsigned(v, n)) \in Mem
<1>1. n \in 0 .. 15 /\ n \in 0 .. 16 BY DEF Sizes
<1>2. Unsigned(v, n) \in Int /\ Agree(Unsigned(v, n), v, n) BY <1>1, UnsignedRange, AgreeUnsigned
<1>3. DOMAIN before.mem \subseteq Int BY RestedFacts, MemDomain
<1> DEFINE u == Unsigned(v, n)   mem == before.mem
<1>4. u \in Int /\ Agree(u, v, n) /\ DOMAIN mem \subseteq Int BY <1>2, <1>3
<1> HIDE DEF u, mem
<1>5. Written(mem, at, n, u) = Written(mem, at, n, v) BY <1>1, <1>4, WrittenAgree
<1>6. Stored(at, n, u) \in Mem BY <1>1, <1>4, StoredMem
<1>. QED BY <1>5, <1>6 DEF Stored, u, mem

\* A call of emit_str_imm does what it is for.
LEMMA StrImmCloses86 == ASSUME X86, Rested, StrImm PROVE Closed'
<1>1. PICK t \in Scalars : \E place \in Spots(t), v \in Literals(t) :
       Call(Puts(Stored(Spot(place), t.size, Unsigned(v, t.size)), {}),
            L!emit_str_imm(place[1], v, place[2]), B!emit_str_imm(place[1], v, place[2]),
            A!emit_str_imm(place[1], v, place[2]), W!emit_str_imm(place[1], v, place[2]))
  BY Zenon DEF StrImm
<1>2. PICK place \in Spots(t), v \in Literals(t) :
       Call(Puts(Stored(Spot(place), t.size, Unsigned(v, t.size)), {}),
            L!emit_str_imm(place[1], v, place[2]), B!emit_str_imm(place[1], v, place[2]),
            A!emit_str_imm(place[1], v, place[2]), W!emit_str_imm(place[1], v, place[2]))
  BY <1>1
<1> DEFINE base == place[1]   off == place[2]   at == Spot(place)   n == t.size   mem == Stored(at, n, Unsigned(v, n))
           code == L!emit_str_imm(base, v, off)
<1>3. meant' = Puts(mem, {}) /\ listed' = Run(before, code) /\ conv' = conv /\ before' = before
  BY <1>2, CallX86
<1>4. P86(base) \in R /\ off \in Int /\ at \in Place8 /\ before.reg[P86(base)] + off = at /\ at + 8 <= Memory
      /\ at + 4 \in Place8 /\ base.dtype.base = t
  BY Spots86 DEF SpotIs86
<1>5. n \in Sizes BY ScalarBase DEF IsBase
<1>6. v \in Int BY LiteralInt
<1>8. at \in Int /\ at + n <= Memory BY <1>4, <1>5, MachineAssumption DEF Sizes, Place8
<1>9. base.dtype.base.size \in Sizes /\ at + base.dtype.base.size <= Memory /\ base.dtype.base.size = n BY <1>4, <1>5, <1>8
<1>10. Leaves(R, before, code, {}, Written(before.mem, at, n, v))
  <2>1. Leaves(R, before, code, {}, Written(before.mem, at, base.dtype.base.size, v))
    <3> HIDE DEF base, off, at, n
    <3>. QED BY <1>4, <1>6, <1>9, RestedFacts, StrImm86
  <2>. QED BY <1>9, <2>1
<1>11. Written(before.mem, at, n, v) = mem /\ mem \in Mem
  <2> HIDE DEF at, n
  <2>. QED BY <1>5, <1>6, <1>8, StoredConstant
<1>12. {} \intersect Kept = {} OBVIOUS
<1> HIDE DEF code, mem, at
<1>. QED BY <1>3, <1>10, <1>11, <1>12, Stores86

\* What is loaded is a number.
LEMMA BytesValue ==
  ASSUME X86, Rested, NEW at \in Place8, NEW n \in Sizes, at + n <= Memory
  PROVE  Bytes(before, at, n) = BytesIn(before.mem, at, n) /\ Bytes(before, at, n) \in Int
<1>1. n \in Nat /\ at \in Nat BY DEF Sizes, Place8
<1>2. before.mem \in Mem BY RestedFacts
<1>. QED BY <1>1, <1>2, BytesOf, BytesInt DEF Mem

\* Where a load goes.
LEMMA ToUsable86 ==
  ASSUME X86, NEW b, b.size \in Sizes, NEW dst \in To(b)
  PROVE  Usable86(dst) /\ dst.rsize = b.size /\ Place(dst) = P86(dst) /\ dst.dtype.base = b
         /\ P86(dst) \in {Class.callee[4], Class.scratch[1], Class.param[2]}
<1>1. 3 \in 0 .. 3 /\ 3 + 1 = 4 OBVIOUS
<1>2. Is86(Var(3, b), b, Class.callee[3 + 1]) BY <1>1, Kinds86
<1>3. Is86(Acc(b), b, Class.scratch[1]) /\ Is86(Argument(b), b, Class.param[2]) BY Kinds86
<1>. QED BY <1>1, <1>2, <1>3 DEF To, Is86

\* A call of emit_ldr does what it is for.
LEMMA LdrCloses86 == ASSUME X86, Rested, Ldr PROVE Closed'
<1>1. PICK t \in Scalars : \E place \in Spots(t), dst \in To(t) :
       Call(Gives(dst, Bytes(before, Spot(place), t.size), {}),
            L!emit_ldr(dst, place[1], place[2]), B!emit_ldr(dst, place[1], place[2]),
            A!emit_ldr(dst, place[1], place[2]), W!emit_ldr(dst, place[1], place[2]))
  BY Zenon DEF Ldr
<1>2. PICK place \in Spots(t), dst \in To(t) :
       Call(Gives(dst, Bytes(before, Spot(place), t.size), {}),
            L!emit_ldr(dst, place[1], place[2]), B!emit_ldr(dst, place[1], place[2]),
            A!emit_ldr(dst, place[1], place[2]), W!emit_ldr(dst, place[1], place[2]))
  BY <1>1
<1> DEFINE base == place[1]   off == place[2]   at == Spot(place)   n == t.size   v == Bytes(before, at, n)
           code == L!emit_ldr(dst, base, off)
<1>3. meant' = Gives(dst, v, {}) /\ listed' = Run(before, code) /\ conv' = conv /\ before' = before
  BY <1>2, CallX86
<1>4. P86(base) \in R /\ off \in Int /\ at \in Place8 /\ before.reg[P86(base)] + off = at /\ at + 8 <= Memory
  BY Spots86 DEF SpotIs86
<1>5. n \in Sizes BY ScalarBase DEF IsBase
<1>6. Usable86(dst) /\ dst.rsize = n BY <1>5, ToUsable86
<1>8. at + n <= Memory BY <1>4, <1>5, MachineAssumption DEF Sizes, Place8
<1>9. v = BytesIn(before.mem, at, n) /\ v \in Int BY <1>4, <1>5, <1>8, BytesValue
<1>10. Computes(R, before, code, {}, P86(dst), dst.rsize, v)
  <2>1. at + dst.rsize <= Memory BY <1>6, <1>8
  <2>2. Computes(R, before, code, {}, P86(dst), dst.rsize, BytesIn(before.mem, at, dst.rsize))
    <3> HIDE DEF base, off, at, n
    <3>. QED BY <1>4, <1>6, <2>1, RestedFacts, Ldr86
  <2>. QED BY <1>6, <1>9, <2>2
<1> HIDE DEF code, v
<1>. QED BY <1>3, <1>6, <1>9, <1>10, RestedFacts, Simple86

\* A register as an offset, behind a pointer.
LEMMA Offset86 ==
  ASSUME X86, Rested, ByOffset, NEW t
  PROVE  /\ P86(Offset) \in R /\ before.reg[P86(Offset)] = Held(before, Offset)
         /\ P86(Pointer(t)) \in R /\ Pointer(t).dtype.base = t
         /\ before.reg[P86(Pointer(t))] + before.reg[P86(Offset)] = ObjectAt + Held(before, Offset)
         /\ ObjectAt + Held(before, Offset) \in Place8 /\ (ObjectAt + Held(before, Offset)) + 4 \in Place8
         /\ (ObjectAt + Held(before, Offset)) + 8 <= Memory
<1> DEFINE b == Fund(8, FALSE)   o == Offset   x == before.reg[P86(o)]
<1>1. b.size = 8 /\ b.sign = FALSE /\ 8 \in Sizes /\ 0 \in 0 .. 3 /\ 8 \in 0 .. 15 BY DEF Fund, Sizes
<1>2. Is86(o, b, P86(o)) /\ IsBase(b)
  <2>1. Is86(Var(0, b), b, Class.callee[0 + 1]) BY <1>1, Kinds86
  <2>. QED BY <1>1, <2>1 DEF Offset, Is86, IsBase
<1> HIDE DEF o, b
<1>3. Usable86(o) /\ Held(before, o) = Extend(x, o.rsize, b.sign) /\ o.rsize = 8
  BY <1>1, <1>2, Held86
<1>4. x \in 0 .. Values(8) - 1 /\ P86(o) \in R
  <2>1. before.reg[P86(o)] \in 0 .. Values(8) - 1 BY <1>3, RestedFacts, Facts86
  <2>. QED BY <1>3, <2>1 DEF Usable86
<1>5. Held(before, o) = x BY <1>1, <1>3, <1>4, UnsignedSmall DEF Extend
<1>6. x \in 0 .. 8 BY <1>5 DEF ByOffset, o
<1>7. Placed86(t, Pointer(t), 8) BY Pointer86 DEF ByOffset
<1>8. 32 <= Memory /\ Memory \in Nat BY ConventionsAssumption, MachineAssumption
<1> HIDE DEF x
<1>9. before.reg[P86(Pointer(t))] = 8 BY <1>7 DEF Placed86
<1>10. 8 + x \in Place8 /\ (8 + x) + 4 \in Place8 /\ (8 + x) + 8 <= Memory BY <1>6, <1>8 DEF Place8
<1>11. ObjectAt + Held(before, o) = 8 + x BY <1>5 DEF ObjectAt
<1>. QED BY <1>4, <1>5, <1>7, <1>9, <1>10, <1>11 DEF Placed86, o, x

\* The scratch registers hold no variables.
LEMMA TempsSpared86 == ASSUME X86 PROVE T86 \intersect Kept = {}
BY Kept86

\* A call of emit_str_regoff does what it is for.
LEMMA StrRegoffCloses86 == ASSUME X86, Rested, StrRegoff PROVE Closed'
<1>1. PICK t \in Scalars : \E src \in {Var(2, t), Acc(t)} :
       Call(Puts(Stored(ObjectAt + Held(before, Offset), t.size, Bits(before, src)), {}),
            L!emit_str_regoff(Pointer(t), src, Offset), B!emit_str_regoff(Pointer(t), src, Offset),
            A!emit_str_regoff(Pointer(t), src, Offset), W!emit_str_regoff(Pointer(t), src, Offset))
  BY Zenon DEF StrRegoff
<1>2. PICK src \in {Var(2, t), Acc(t)} :
       Call(Puts(Stored(ObjectAt + Held(before, Offset), t.size, Bits(before, src)), {}),
            L!emit_str_regoff(Pointer(t), src, Offset), B!emit_str_regoff(Pointer(t), src, Offset),
            A!emit_str_regoff(Pointer(t), src, Offset), W!emit_str_regoff(Pointer(t), src, Offset))
  BY <1>1
<1> DEFINE base == Pointer(t)   o == Offset   at == ObjectAt + Held(before, o)   v == Bits(before, src)   n == t.size
           code == L!emit_str_regoff(base, src, o)
<1>3. meant' = Puts(Stored(at, n, v), {}) /\ listed' = Run(before, code) /\ conv' = conv /\ before' = before
  BY <1>2, CallX86
<1>4. P86(base) \in R /\ P86(o) \in R /\ at \in Place8 /\ before.reg[P86(base)] + before.reg[P86(o)] = at /\ at + 8 <= Memory
  BY Offset86 DEF StrRegoff
<1>5. n \in Sizes BY ScalarBase DEF IsBase
<1>6. Usable86(src) /\ src.rsize = n /\ Place(src) = P86(src)
      /\ P86(src) # Class.scratch[IF src.reg_type = "SCRATCH" /\ src.offset = 0 THEN 2 ELSE 1]
  <2>1. 2 \in 0 .. 3 /\ 2 \in 0 .. 6 OBVIOUS
  <2>2. Is86(Var(2, t), t, Class.callee[2 + 1]) /\ Var(2, t).reg_type = "NREG" /\ Class.callee[2 + 1] \notin T86
    BY <1>5, <2>1, Kinds86, Registers86
  <2>3. Is86(Acc(t), t, Class.scratch[1]) /\ Acc(t).reg_type = "SCRATCH" /\ Acc(t).offset = 0 BY <1>5, Kinds86
  <2>4. Class.scratch[1] # Class.scratch[2] BY Registers86
  <2>5. CASE src = Var(2, t) BY <2>2, <2>5 DEF Is86, T86
  <2>6. CASE src = Acc(t) BY <2>3, <2>4, <2>6 DEF Is86
  <2>. QED BY <2>5, <2>6
<1>7. v = Unsigned(before.reg[P86(src)], n) BY <1>6 DEF Bits
<1>8. n \in 0 .. 16 /\ n \in 0 .. 15 /\ at \in Int /\ at + n <= Memory
  <2> HIDE DEF at
  <2>. QED BY <1>4, <1>5, MachineAssumption DEF Sizes, Place8
<1>9. v \in Int
  <2>1. before.reg[P86(src)] \in Int BY <1>6, RestedFacts, Facts86
  <2>. QED BY <1>7, <1>8, <2>1, UnsignedRange
<1>10. Leaves(R, before, code, T86, Stored(at, n, v))
  <2> HIDE DEF base, o, at, n
  <2>. QED BY <1>4, <1>6, <1>7, <1>8, RestedFacts, StrRegoff86 DEF Stored
<1>11. Stored(at, n, v) \in Mem
  <2> HIDE DEF at, n, v
  <2>. QED BY <1>8, <1>9, StoredMem
<1>12. T86 \intersect Kept = {} BY TempsSpared86
<1> HIDE DEF code, at, n, v
<1>. QED BY <1>3, <1>10, <1>11, <1>12, Stores86

\* A call of emit_str_imm_regoff does what it is for.
LEMMA StrImmRegoffCloses86 == ASSUME X86, Rested, StrImmRegoff PROVE Closed'
<1>1. PICK t \in Scalars : \E v \in Literals(t) :
       Call(Puts(Stored(ObjectAt + Held(before, Offset), t.size, Unsigned(v, t.size)), {}),
            L!emit_str_imm_regoff(Pointer(t), v, Offset), B!emit_str_imm_regoff(Pointer(t), v, Offset),
            A!emit_str_imm_regoff(Pointer(t), v, Offset), W!emit_str_imm_regoff(Pointer(t), v, Offset))
  BY Zenon DEF StrImmRegoff
<1>2. PICK v \in Literals(t) :
       Call(Puts(Stored(ObjectAt + Held(before, Offset), t.size, Unsigned(v, t.size)), {}),
            L!emit_str_imm_regoff(Pointer(t), v, Offset), B!emit_str_imm_regoff(Pointer(t), v, Offset),
            A!emit_str_imm_regoff(Pointer(t), v, Offset), W!emit_str_imm_regoff(Pointer(t), v, Offset))
  BY <1>1
<1> DEFINE base == Pointer(t)   o == Offset   at == ObjectAt + Held(before, o)   n == t.size   mem == Stored(at, n, Unsigned(v, n))
           code == L!emit_str_imm_regoff(base, v, o)
<1>3. meant' = Puts(mem, {}) /\ listed' = Run(before, code) /\ conv' = conv /\ before' = before
  BY <1>2, CallX86
<1>4. P86(base) \in R /\ P86(o) \in R /\ at \in Place8 /\ before.reg[P86(base)] + before.reg[P86(o)] = at /\ at + 8 <= Memory
      /\ at + 4 \in Place8 /\ base.dtype.base = t
  BY Offset86 DEF StrImmRegoff
<1>5. n \in Sizes BY ScalarBase DEF IsBase
<1>6. v \in Int BY LiteralInt
<1> HIDE DEF base, at, o
<1>8. at \in Int /\ at + n <= Memory
  BY <1>4, <1>5, MachineAssumption DEF Sizes, Place8
<1>9. base.dtype.base.size \in Sizes /\ at + base.dtype.base.size <= Memory /\ base.dtype.base.size = n BY <1>4, <1>5, <1>8
<1>10. Leaves(R, before, code, T86, Written(before.mem, at, n, v))
  <2>1. Leaves(R, before, code, T86, Written(before.mem, at, base.dtype.base.size, v))
    <3> HIDE DEF n
    <3>. QED BY <1>4, <1>6, <1>9, RestedFacts, StrImmRegoff86
  <2>. QED BY <1>9, <2>1
<1>11. Written(before.mem, at, n, v) = mem /\ mem \in Mem
  <2> HIDE DEF n
  <2>. QED BY <1>5, <1>6, <1>8, StoredConstant
<1>12. T86 \intersect Kept = {} BY TempsSpared86
<1> HIDE DEF code, mem
<1>. QED BY <1>3, <1>10, <1>11, <1>12, Stores86

\* A call of emit_ldr_reg does what it is for.
LEMMA LdrRegCloses86 == ASSUME X86, Rested, LdrReg PROVE Closed'
<1>1. PICK t \in Scalars : \E dst \in To(t) :
       Call(Gives(dst, Bytes(before, ObjectAt + Held(before, Offset), t.size), {}),
            L!emit_ldr_reg(dst, Pointer(t), Offset), B!emit_ldr_reg(dst, Pointer(t), Offset),
            A!emit_ldr_reg(dst, Pointer(t), Offset), W!emit_ldr_reg(dst, Pointer(t), Offset))
  BY Zenon DEF LdrReg
<1>2. PICK dst \in To(t) :
       Call(Gives(dst, Bytes(before, ObjectAt + Held(before, Offset), t.size), {}),
            L!emit_ldr_reg(dst, Pointer(t), Offset), B!emit_ldr_reg(dst, Pointer(t), Offset),
            A!emit_ldr_reg(dst, Pointer(t), Offset), W!emit_ldr_reg(dst, Pointer(t), Offset))
  BY <1>1
<1> DEFINE base == Pointer(t)   o == Offset   at == ObjectAt + Held(before, o)   n == t.size   v == Bytes(before, at, n)
           code == L!emit_ldr_reg(dst, base, o)
<1>3. meant' = Gives(dst, v, {}) /\ listed' = Run(before, code) /\ conv' = conv /\ before' = before
  BY <1>2, CallX86
<1>4. P86(base) \in R /\ P86(o) \in R /\ at \in Place8 /\ before.reg[P86(base)] + before.reg[P86(o)] = at /\ at + 8 <= Memory
  BY Offset86 DEF LdrReg
<1>5. n \in Sizes BY ScalarBase DEF IsBase
<1>6. Usable86(dst) /\ dst.rsize = n BY <1>5, ToUsable86
<1> HIDE DEF base, at, o
<1>8. at + n <= Memory BY <1>4, <1>5, MachineAssumption DEF Sizes, Place8
<1>9. v = BytesIn(before.mem, at, n) /\ v \in Int BY <1>4, <1>5, <1>8, BytesValue
<1>10. Computes(R, before, code, {}, P86(dst), dst.rsize, v)
  <2>1. at + dst.rsize <= Memory BY <1>6, <1>8
  <2>2. Computes(R, before, code, {}, P86(dst), dst.rsize, BytesIn(before.mem, at, dst.rsize))
    <3> HIDE DEF n
    <3>. QED BY <1>4, <1>6, <2>1, RestedFacts, LdrReg86
  <2>. QED BY <1>6, <1>9, <2>2
<1> HIDE DEF code, v
<1>. QED BY <1>3, <1>6, <1>9, <1>10, RestedFacts, Simple86

\* An array of the parser, whose elements begin at ObjectAt.
ArrayIs86(array, b) ==
  /\ Found86(before, array, ObjectAt) /\ array.dtype.base = b /\ P86(array) # Class.callee[1]
  /\ array.reg_type # "STACK" => array.rsize = 8

\* An array in the frame is found.
LEMMA FoundStack86 ==
  ASSUME X86, Rested, NEW n, NEW dtype
  PROVE  ArrayIs86(Reg("STACK", 16, n, dtype), dtype.base)
<1> DEFINE r == Reg("STACK", 16, n, dtype)
<1>1. r.reg_type = "STACK" /\ r.offset = 16 /\ r.dtype = dtype /\ IsReg(r) BY DEF Reg, IsReg
<1>2. P86(r) = 4 BY Places86
<1>3. Class.callee[1] # 4
  <2>1. 0 \in 0 .. 6 /\ 0 + 1 = 1 OBVIOUS
  <2>. QED BY <2>1, Registers86
<1>4. before.reg[5] = 24 BY RestedFacts
<1> HIDE DEF r
<1>5. Found86(before, r, ObjectAt) BY <1>1, <1>4 DEF Found86, ObjectAt
<1>. QED BY <1>1, <1>2, <1>3, <1>5 DEF ArrayIs86, r
PointerIs86(array, n, dtype) ==
  /\ Found86(before, array, ObjectAt) /\ array.dtype = dtype /\ P86(array) # Class.callee[1]
  /\ array.rsize = n /\ array.reg_type = "NREG"

\* An array behind a pointer is found.
LEMMA FoundPointer86 ==
  ASSUME X86, Rested, Pointing, NEW n, NEW dtype
  PROVE  PointerIs86(Reg("NREG", 1, n, dtype), n, dtype)
<1> DEFINE array == Reg("NREG", 1, n, dtype)
<1>1. array.reg_type = "NREG" /\ array.dtype = dtype /\ IsReg(array) /\ array.rsize = n BY DEF Reg, IsReg
<1>2. P86(array) = Class.callee[2] /\ Class.callee[2] \in R /\ Class.callee[2] # Class.callee[1]
  <2>1. 1 \in 0 .. 6 /\ 1 + 1 = 2 /\ 0 \in 0 .. 3 /\ 1 \in 0 .. 3 /\ 0 + 1 = 1 OBVIOUS
  <2>2. P86(Reg("NREG", 1, n, dtype)) = Class.callee[1 + 1] BY <2>1, Places86
  <2>3. Class.callee[1 + 1] \in R /\ Class.callee[0 + 1] # Class.callee[1 + 1] BY <2>1, Registers86
  <2>. QED BY <2>1, <2>2, <2>3
<1>3. before.reg[Class.callee[2]] = ObjectAt BY DEF Pointing
<1> HIDE DEF array
<1>4. PointerIs86(array, n, dtype) BY <1>1, <1>2, <1>3 DEF Found86, PointerIs86
<1>. QED BY <1>4 DEF array

\* The arrays of the parser are found.
LEMMA Arrays86 ==
  ASSUME X86, Rested, NEW b, NEW array \in Arrays(Plain(b)) PROVE ArrayIs86(array, b)
<1> DEFINE elem == Plain(b)
<1>1. ArrayOf(elem).base = b /\ SliceOf(elem).base = b BY DEF ArrayOf, SliceOf, dtype_wrap, Plain
<1>2. CASE array = Reg("STACK", FrameAt - ObjectAt, elem.base.size, ArrayOf(elem))
  <2> DEFINE n == elem.base.size   dtype == ArrayOf(elem)
  <2>1. FrameAt - ObjectAt = 16 BY DEF FrameAt, ObjectAt
  <2>2. array = Reg("STACK", 16, n, dtype) BY <1>2, <2>1
  <2>3. dtype.base = b BY <1>1
  <2> HIDE DEF n, dtype
  <2>. QED BY <2>2, <2>3, FoundStack86
<1>3. CASE Pointing /\ array = [Var(1, Fund(8, FALSE)) EXCEPT !.dtype = SliceOf(elem)]
  <2> DEFINE n == Fund(8, FALSE).size   dtype == SliceOf(elem)   old == Plain(Fund(8, FALSE))
  <2>1. Var(1, Fund(8, FALSE)) = Reg("NREG", 1, n, old) BY DEF Var
  <2>2. dtype.base = b BY <1>1
  <2>3. n = 8 BY DEF Fund
  <2> HIDE DEF n, dtype, old
  <2>4. [Reg("NREG", 1, n, old) EXCEPT !.dtype = dtype] = Reg("NREG", 1, n, dtype) BY DEF Reg
  <2>5. array = Reg("NREG", 1, n, dtype) BY <1>3, <2>1, <2>4 DEF dtype
  <2>6. PointerIs86(array, n, dtype)
    <3>1. Pointing BY <1>3
    <3>. QED BY <2>5, <3>1, FoundPointer86
  <2>. QED BY <2>2, <2>3, <2>6 DEF ArrayIs86, PointerIs86
<1>. QED BY <1>2, <1>3 DEF Arrays

\* An array of another register size is found where it was.
LEMMA SizedFound86 ==
  ASSUME NEW array, NEW b, ArrayIs86(array, b), NEW n
  PROVE  /\ Found86(before, Sized(array, n), ObjectAt) /\ Sized(array, n).dtype.base = b /\ P86(Sized(array, n)) # Class.callee[1]
<1>1. IsReg(array) BY DEF ArrayIs86, Found86
<1> DEFINE r == Sized(array, n)
<1>2. r.reg_type = array.reg_type /\ r.offset = array.offset /\ r.dtype = array.dtype /\ IsReg(r) BY <1>1, SizedReg
<1>3. P86(r) = P86(array) BY <1>2, Zenon DEF P86, L!buf_putreg
<1> HIDE DEF r
<1>. QED BY <1>2, <1>3 DEF ArrayIs86, Found86, r

\* The indexes of the parser are 0 or 1, in a variable.
LEMMA Indexes86 ==
  ASSUME X86, Rested, NEW t \in Scalars, NEW index \in Indexes(t)
  PROVE  /\ Index86(before, index, Held(before, index)) /\ P86(index) = Class.callee[1] /\ Class.callee[1] \notin T86
         /\ Place(index) = P86(index) /\ index.rsize \in Sizes
<1>1. index = Var(0, t) /\ Loadable(index) /\ Held(before, index) \in {0, 1} BY DEF Indexes
<1>2. IsBase(t) BY ScalarBase
<1>3. 0 \in 0 .. 3 /\ 0 + 1 = 1 /\ 0 \in 0 .. 6 OBVIOUS
<1>4. Is86(index, t, Class.callee[1]) BY <1>1, <1>2, <1>3, Kinds86 DEF IsBase
<1>5. Is86(index, t, P86(index)) BY <1>4 DEF Is86
<1>6. Class.callee[1] \notin T86 BY <1>3, Registers86
<1>7. /\ Usable86(index) /\ index.dtype.base.sign = t.sign /\ t.sign \in BOOLEAN
      /\ Held(before, index) = Extend(before.reg[P86(index)], index.rsize, t.sign)
      /\ index.rsize = 4 => before.reg[P86(index)] < Values(4)
  BY <1>1, <1>2, <1>5, Held86
<1>. QED BY <1>1, <1>4, <1>6, <1>7 DEF Index86, Is86, Usable86

\* An element lies within the memory there is.
LEMMA ElementPlace ==
  ASSUME NEW h \in {0, 1}, NEW n \in Nat, n <= 12
  PROVE  ObjectAt + h * n \in Place8 /\ (n <= 8 => (ObjectAt + h * n) + n <= Memory)
<1>1. 32 <= Memory /\ Memory \in Nat BY ConventionsAssumption, MachineAssumption
<1>2. h * n = 0 \/ h * n = n
  <2>1. CASE h = 0 BY <2>1
  <2>2. CASE h = 1 BY <2>2
  <2>. QED BY <2>1, <2>2
<1> DEFINE k == h * n
<1>3. k = 0 \/ k = n BY <1>2
<1> HIDE DEF k
<1>4. ObjectAt + k \in Place8 /\ (n <= 8 => (ObjectAt + k) + n <= Memory) BY <1>1, <1>3 DEF ObjectAt, Place8
<1>. QED BY <1>4 DEF k

\* A place a call stores from: the scratch register of a chain, or a variable.
Source86(src, b) ==
  /\ Usable86(src) /\ src.rsize = b.size /\ Place(src) = P86(src)
  /\ P86(src) # Class.callee[1] /\ P86(src) # Class.scratch[3]
  /\ P86(src) # Class.scratch[IF src.reg_type = "SCRATCH" /\ src.offset = 0 THEN 2 ELSE 1]

\* What a call stores an element from is apart from what it uses.
LEMMA Sources86 ==
  ASSUME X86, NEW b, b.size \in Sizes, NEW src \in {Acc(b), Var(2, b)} PROVE Source86(src, b)
<1>1. 0 \in 0 .. 3 /\ 2 \in 0 .. 3 /\ 0 \in 0 .. 6 /\ 2 \in 0 .. 6 /\ 0 + 1 = 1 /\ 2 + 1 = 3 OBVIOUS
<1>2. /\ Is86(Acc(b), b, Class.scratch[1]) /\ Acc(b).reg_type = "SCRATCH" /\ Acc(b).offset = 0
      /\ Is86(Var(2, b), b, Class.callee[2 + 1]) /\ Var(2, b).reg_type = "NREG"
  BY <1>1, Kinds86
<1>3. /\ Class.callee[0 + 1] \notin T86 /\ Class.callee[2 + 1] \notin T86 /\ Class.callee[2 + 1] # Class.callee[0 + 1]
      /\ Class.scratch[1] # Class.scratch[2] /\ Class.scratch[1] # Class.scratch[3]
  BY <1>1, Registers86
<1>4. CASE src = Acc(b) BY <1>1, <1>2, <1>3, <1>4 DEF Is86, Source86, T86
<1>5. CASE src = Var(2, b) BY <1>1, <1>2, <1>3, <1>5 DEF Is86, Source86, T86
<1>. QED BY <1>4, <1>5

\* The only variable that a call with an index writes is the index.
LEMMA IndexSpared86 ==
  ASSUME X86, NEW index, Place(index) = P86(index)
  PROVE  (T86 \union {P86(index)}) \intersect Kept \subseteq AllOf({index})
BY TempsSpared86 DEF AllOf

\* A call that stores an element is closed.
LEMMA StoresIndexed86 ==
  ASSUME X86, Rested, conv' = conv, before' = before, NEW code, listed' = Run(before, code), NEW index, Place(index) = P86(index),
         NEW mem \in Mem, StoresElement(before, code, index, mem), meant' = Puts(mem, {index})
  PROVE  Closed'
<1>1. conv \in Convs /\ Kept \subseteq R /\ Started BY Places86, Kept86, RestedFacts
<1> DEFINE V == T86 \union {P86(index)}
<1>2. V \intersect Kept \subseteq AllOf({index}) BY IndexSpared86
<1>3. Leaves(R, before, code, V, mem) BY DEF StoresElement
<1>4. \A u \in {index} : Agree(Run(before, code).reg[Place(u)], before.reg[Place(u)], u.rsize) BY DEF StoresElement, Spares
<1> HIDE DEF V
<1>. QED BY <1>1, <1>2, <1>3, <1>4, PutsClosed

\* A call that gives an element is closed.
LEMMA GivesIndexed86 ==
  ASSUME X86, Rested, conv' = conv, before' = before, NEW code, listed' = Run(before, code), NEW index, Place(index) = P86(index),
         NEW dst, Place(dst) = P86(dst), NEW v, GivesElement(before, code, index, P86(dst), dst.rsize, v),
         meant' = Gives(dst, v, {index})
  PROVE  Closed'
<1>1. conv \in Convs /\ Kept \subseteq R /\ Started BY Places86, Kept86, RestedFacts
<1> DEFINE V == T86 \union {P86(index)}
<1>2. V \intersect Kept \subseteq AllOf({index}) BY IndexSpared86
<1>3. Yields(R, before, code, V, Place(dst), dst.rsize, v) BY DEF GivesElement
<1>4. \A u \in {index} : Agree(Run(before, code).reg[Place(u)], before.reg[Place(u)], u.rsize) BY DEF GivesElement, Spares
<1> HIDE DEF V
<1>. QED BY <1>1, <1>2, <1>3, <1>4, GivesClosed

\* The element is inside the memory.
LEMMA Element86 ==
  ASSUME X86, Rested, NEW t \in Scalars, NEW index \in Indexes(t), NEW n \in Nat, n <= 12
  PROVE  /\ Element(index, n) \in Place8 /\ ObjectAt + Held(before, index) * n = Element(index, n)
         /\ n <= 8 => Element(index, n) + n <= Memory
<1>1. Held(before, index) \in {0, 1} BY DEF Indexes
<1>. QED BY <1>1, ElementPlace DEF Element

\* A store of emit_array_access does what it is for.
LEMMA ArrayStoreCloses86 == ASSUME X86, Rested, ArrayStore PROVE Closed'
<1>1. PICK n \in {1, 2, 4, 8}, t \in Scalars : \E elem \in Elements(n), index \in Indexes(t) :
       \E array \in Arrays(elem), src \in {Acc(elem.base), Var(2, elem.base)} :
         Call(Puts(Stored(Element(index, n), n, Bits(before, src)), {index}),
              L!emit_array_access(array, src, index, TRUE), B!emit_array_access(array, src, index, TRUE),
              A!emit_array_access(array, src, index, TRUE), W!emit_array_access(array, src, index, TRUE))
  BY Zenon DEF ArrayStore
<1>2. PICK elem \in Elements(n), index \in Indexes(t) :
       \E array \in Arrays(elem), src \in {Acc(elem.base), Var(2, elem.base)} :
         Call(Puts(Stored(Element(index, n), n, Bits(before, src)), {index}),
              L!emit_array_access(array, src, index, TRUE), B!emit_array_access(array, src, index, TRUE),
              A!emit_array_access(array, src, index, TRUE), W!emit_array_access(array, src, index, TRUE))
  BY <1>1
<1>3. PICK array \in Arrays(elem), src \in {Acc(elem.base), Var(2, elem.base)} :
         Call(Puts(Stored(Element(index, n), n, Bits(before, src)), {index}),
              L!emit_array_access(array, src, index, TRUE), B!emit_array_access(array, src, index, TRUE),
              A!emit_array_access(array, src, index, TRUE), W!emit_array_access(array, src, index, TRUE))
  BY <1>2
<1> DEFINE b == elem.base   at == Element(index, n)   v == Bits(before, src)   h == Held(before, index)
           code == L!emit_array_access(array, src, index, TRUE)
<1>4. meant' = Puts(Stored(at, n, v), {index}) /\ listed' = Run(before, code) /\ conv' = conv /\ before' = before
  BY <1>3, CallX86
<1>5. n \in Sizes /\ n \in Nat /\ n <= 8 /\ n <= 12 BY DEF Sizes
<1>6. elem = Plain(b) /\ b.size = n BY DEF Elements, Plain, Fund
<1>7. ArrayIs86(array, b)
  <2>1. array \in Arrays(Plain(b)) BY <1>6
  <2>. QED BY <2>1, Arrays86
<1>8. Source86(src, b) BY <1>5, <1>6, Sources86
<1>9. /\ Index86(before, index, h) /\ P86(index) = Class.callee[1] /\ P86(index) \notin T86 /\ Place(index) = P86(index)
  BY Indexes86
<1>10. at \in Place8 /\ ObjectAt + h * n = at /\ at + n <= Memory BY <1>5, Element86
<1>11. Found86(before, array, ObjectAt) /\ array.dtype.base.size = n /\ P86(array) # P86(index) BY <1>6, <1>7, <1>9 DEF ArrayIs86
<1>12. Usable86(src) /\ src.rsize = n /\ P86(src) # P86(index) /\ P86(src) # Class.scratch[3]
       /\ P86(src) # Class.scratch[IF src.reg_type = "SCRATCH" /\ src.offset = 0 THEN 2 ELSE 1]
       /\ v = Unsigned(before.reg[P86(src)], n)
  BY <1>6, <1>8, <1>9 DEF Source86, Bits
<1>13. ObjectAt \in Place8 BY MachineAssumption, ConventionsAssumption DEF ObjectAt, Place8
<1>14. v \in Int /\ n \in 0 .. 16 /\ at \in Int
  <2>1. before.reg[P86(src)] \in Int BY <1>12, RestedFacts, Facts86
  <2>2. n \in 0 .. 15 /\ n \in 0 .. 16 BY <1>5
  <2>3. Unsigned(before.reg[P86(src)], n) \in Int BY <2>1, <2>2, UnsignedRange
  <2>4. v \in Int BY <1>12, <2>3
  <2> HIDE DEF v, at
  <2>. QED BY <1>10, <2>4, <2>2 DEF Place8
<1> HIDE DEF b, at, h, code, v
<1>15. StoresElement(before, code, index, Stored(at, n, v))
  <2>1. StoresElement(before, code, index, Written(before.mem, at, n, Unsigned(before.reg[P86(src)], n)))
    BY <1>5, <1>9, <1>10, <1>11, <1>12, <1>13, RestedFacts, ArrayStore86 DEF code
  <2>. QED BY <1>12, <2>1 DEF Stored
<1>16. Stored(at, n, v) \in Mem BY <1>14, StoredMem
<1>. QED BY <1>4, <1>9, <1>15, <1>16, StoresIndexed86

\* A load of emit_array_access does what it is for.
LEMMA ArrayLoadCloses86 == ASSUME X86, Rested, ArrayLoad PROVE Closed'
<1>1. PICK n \in {1, 2, 4, 8}, t \in Scalars : \E elem \in Elements(n), index \in Indexes(t) :
       \E array \in Arrays(elem), dst \in To(elem.base) :
         Call(Gives(dst, Bytes(before, Element(index, n), n), {index}),
              L!emit_array_access(dst, Sized(array, n), index, FALSE),
              B!emit_array_access(dst, Sized(array, n), index, FALSE),
              A!emit_array_access(dst, Sized(array, n), index, FALSE), W!emit_array_access(dst, Sized(array, n), index, FALSE))
  BY Zenon DEF ArrayLoad
<1>2. PICK elem \in Elements(n), index \in Indexes(t) :
       \E array \in Arrays(elem), dst \in To(elem.base) :
         Call(Gives(dst, Bytes(before, Element(index, n), n), {index}),
              L!emit_array_access(dst, Sized(array, n), index, FALSE),
              B!emit_array_access(dst, Sized(array, n), index, FALSE),
              A!emit_array_access(dst, Sized(array, n), index, FALSE), W!emit_array_access(dst, Sized(array, n), index, FALSE))
  BY <1>1
<1>3. PICK array \in Arrays(elem), dst \in To(elem.base) :
         Call(Gives(dst, Bytes(before, Element(index, n), n), {index}),
              L!emit_array_access(dst, Sized(array, n), index, FALSE),
              B!emit_array_access(dst, Sized(array, n), index, FALSE),
              A!emit_array_access(dst, Sized(array, n), index, FALSE), W!emit_array_access(dst, Sized(array, n), index, FALSE))
  BY <1>2
<1> DEFINE b == elem.base   at == Element(index, n)   h == Held(before, index)   v == Bytes(before, at, n)   src == Sized(array, n)
           code == L!emit_array_access(dst, src, index, FALSE)
<1>4. meant' = Gives(dst, v, {index}) /\ listed' = Run(before, code) /\ conv' = conv /\ before' = before
  BY <1>3, CallX86
<1>5. n \in Sizes /\ n \in Nat /\ n <= 8 /\ n <= 12 BY DEF Sizes
<1>6. elem = Plain(b) /\ b.size = n BY DEF Elements, Plain, Fund
<1>7. ArrayIs86(array, b)
  <2>1. array \in Arrays(Plain(b)) BY <1>6
  <2>. QED BY <2>1, Arrays86
<1>8. /\ Usable86(dst) /\ dst.rsize = n /\ Place(dst) = P86(dst)
      /\ P86(dst) \in {Class.callee[4], Class.scratch[1], Class.param[2]}
  BY <1>5, <1>6, ToUsable86
<1>9. /\ Index86(before, index, h) /\ P86(index) = Class.callee[1] /\ P86(index) \notin T86 /\ Place(index) = P86(index)
  BY Indexes86
<1>10. at \in Place8 /\ ObjectAt + h * n = at /\ at + n <= Memory BY <1>5, Element86
<1>11. Found86(before, src, ObjectAt) /\ src.dtype.base.size = n /\ P86(src) # P86(index)
  BY <1>6, <1>7, <1>9, SizedFound86
<1>12. P86(dst) # P86(index)
  <2>1. 0 \in 0 .. 6 /\ 0 \in 0 .. 3 /\ 3 \in 0 .. 3 /\ 3 + 1 = 4 /\ 0 + 1 = 1 OBVIOUS
  <2>2. Class.callee[3 + 1] # Class.callee[0 + 1] /\ Class.callee[0 + 1] \notin T86 \union {Class.param[2]} BY <2>1, Registers86
  <2>. QED BY <1>8, <1>9, <2>1, <2>2 DEF T86
<1>13. ObjectAt \in Place8 BY MachineAssumption, ConventionsAssumption DEF ObjectAt, Place8
<1>14. v = BytesIn(before.mem, at, n) BY <1>5, <1>10, BytesValue
<1> HIDE DEF b, at, h, code, v, src
<1>15. GivesElement(before, code, index, P86(dst), n, BytesIn(before.mem, at, n))
    BY <1>5, <1>8, <1>9, <1>10, <1>11, <1>12, <1>13, RestedFacts, ArrayLoad86 DEF code
<1>16. GivesElement(before, code, index, P86(dst), dst.rsize, v) BY <1>8, <1>14, <1>15
<1>. QED BY <1>4, <1>8, <1>9, <1>16, GivesIndexed86

\* The types of elements, by their size.
LEMMA ElementTypes ==
  ASSUME NEW elem \in (UNION {Elements(n) : n \in {1, 4, 8}}) \union {Plain(Twelve)}
  PROVE  elem = Plain(Twelve) \/ \E k \in {1, 4, 8} : elem \in Elements(k)
<1> DEFINE big == Plain(Twelve)
<1> HIDE DEF big
<1>1. elem = big \/ elem \in UNION {Elements(n) : n \in {1, 4, 8}} BY DEF big
<1>. QED BY <1>1 DEF big

\* A call of emit_elem_addr does what it is for.
LEMMA ElemAddrCloses86 == ASSUME X86, Rested, ElemAddr PROVE Closed'
<1>1. PICK elem \in (UNION {Elements(n) : n \in {1, 4, 8}}) \union {Plain(Twelve)}, t \in Scalars :
       \E index \in Indexes(t), array \in Arrays(elem), dst \in To(Fund(8, FALSE)) :
         Call(Gives(dst, Element(index, elem.base.size), {index}),
              L!emit_elem_addr(dst, array, index), B!emit_elem_addr(dst, array, index),
              A!emit_elem_addr(dst, array, index), W!emit_elem_addr(dst, array, index))
  BY Zenon DEF ElemAddr
<1>2. PICK index \in Indexes(t), array \in Arrays(elem), dst \in To(Fund(8, FALSE)) :
         Call(Gives(dst, Element(index, elem.base.size), {index}),
              L!emit_elem_addr(dst, array, index), B!emit_elem_addr(dst, array, index),
              A!emit_elem_addr(dst, array, index), W!emit_elem_addr(dst, array, index))
  BY <1>1
<1> DEFINE b == elem.base   n == b.size   at == Element(index, n)   h == Held(before, index)
           code == L!emit_elem_addr(dst, array, index)
<1>4. meant' = Gives(dst, at, {index}) /\ listed' = Run(before, code) /\ conv' = conv /\ before' = before
  BY <1>2, CallX86
<1>e. /\ elem = Plain(b) /\ b.sign \in BOOLEAN /\ b.size \in {1, 4, 8, 12}
  <2>1. CASE elem = Plain(Twelve)
    <3>1. Twelve.sign = FALSE /\ Twelve.size = 12 BY DEF Twelve, NoBase
    <3>2. b = Twelve BY <2>1 DEF Plain
    <3>. QED BY <2>1, <3>1, <3>2
  <2>2. ASSUME NEW k \in {1, 4, 8}, elem \in Elements(k) PROVE elem = Plain(b) /\ b.sign \in BOOLEAN /\ b.size = k
    <3>1. \A sign \in BOOLEAN : Fund(k, sign).sign = sign /\ Fund(k, sign).size = k BY DEF Fund
    <3>2. PICK sign \in BOOLEAN : elem = Plain(Fund(k, sign)) BY <2>2 DEF Elements
    <3>3. b = Fund(k, sign) BY <3>2 DEF Plain
    <3>. QED BY <3>1, <3>2, <3>3
  <2>3. elem = Plain(Twelve) \/ \E k \in {1, 4, 8} : elem \in Elements(k) BY <1>1, ElementTypes
  <2>. QED BY <2>1, <2>2, <2>3
<1>6. elem = Plain(b) /\ n \in {1, 4, 8, 12} BY <1>e
<1>5. n \in Nat /\ n <= 12 BY <1>6
<1>7. ArrayIs86(array, b)
  <2>1. array \in Arrays(Plain(b)) BY <1>6
  <2>. QED BY <2>1, Arrays86
<1>8. /\ Usable86(dst) /\ dst.rsize = 8 /\ Place(dst) = P86(dst)
      /\ P86(dst) \in {Class.callee[4], Class.scratch[1], Class.param[2]}
  <2>1. Fund(8, FALSE).size \in Sizes /\ Fund(8, FALSE).size = 8 BY DEF Fund, Sizes
  <2>. QED BY <2>1, ToUsable86
<1>9. /\ Index86(before, index, h) /\ P86(index) = Class.callee[1] /\ P86(index) \notin T86 /\ Place(index) = P86(index)
  BY Indexes86
<1>10. at \in Place8 /\ ObjectAt + h * n = at BY <1>5, Element86
<1>11. Found86(before, array, ObjectAt) /\ array.dtype.base = b /\ (array.reg_type # "STACK" => array.rsize = 8)
  BY <1>7 DEF ArrayIs86
<1>s. b.sign \in BOOLEAN BY <1>e
<1>12. P86(dst) # P86(index)
  <2>1. 0 \in 0 .. 6 /\ 0 \in 0 .. 3 /\ 3 \in 0 .. 3 /\ 3 + 1 = 4 /\ 0 + 1 = 1 OBVIOUS
  <2>2. Class.callee[3 + 1] # Class.callee[0 + 1] /\ Class.callee[0 + 1] \notin T86 \union {Class.param[2]} BY <2>1, Registers86
  <2>. QED BY <1>8, <1>9, <2>1, <2>2 DEF T86
<1>13. ObjectAt \in Place8 BY MachineAssumption, ConventionsAssumption DEF ObjectAt, Place8
<1>14. array.dtype.base.size = n /\ (array.reg_type # "STACK" => array.rsize = 8 /\ array.dtype.base.sign \in BOOLEAN)
  BY <1>11, <1>s
<1> HIDE DEF b, n, at, h, code
<1>15. GivesElement(before, code, index, P86(dst), 8, at)
    BY <1>6, <1>8, <1>9, <1>10, <1>11, <1>12, <1>13, <1>14, RestedFacts, ElemAddr86 DEF code
<1>16. GivesElement(before, code, index, P86(dst), dst.rsize, at) BY <1>8, <1>15
<1>. QED BY <1>4, <1>8, <1>9, <1>16, GivesIndexed86

\* The registers in which parts of an object are put together.
LEMMA Wholes86 ==
  ASSUME X86, NEW i \in {0, 1}, NEW n \in Sizes
  PROVE  /\ Usable86(Sized(Whole(i), n)) /\ Sized(Whole(i), n).rsize = n
         /\ P86(Sized(Whole(i), n)) = Class.scratch[i + 1] /\ Place(Whole(i)) = Class.scratch[i + 1]
         /\ Class.scratch[i + 1] \in T86
<1>1. Sized(Whole(i), n) = Reg("SCRATCH", i, n, Plain(NoBase)) BY DEF Sized, Whole, Reg
<1>2. IsReg(Reg("SCRATCH", i, n, Plain(NoBase))) /\ Reg("SCRATCH", i, n, Plain(NoBase)).rsize = n BY DEF Reg, IsReg
<1>3. 0 + 1 = 1 /\ 1 + 1 = 2 OBVIOUS
<1>4. P86(Reg("SCRATCH", i, n, Plain(NoBase))) = Class.scratch[i + 1] /\ Place(Whole(i)) = Class.scratch[i + 1]
  BY <1>3, Places86 DEF Whole
<1>5. Class.scratch[i + 1] \in R /\ Class.scratch[i + 1] \in T86 BY <1>3, Registers86 DEF T86
<1>. QED BY <1>1, <1>2, <1>4, <1>5 DEF Usable86

\* The registers of the parts have eight bytes.
LEMMA WholeSize == ASSUME NEW i PROVE Sized(Whole(i), 8) = Whole(i) /\ Whole(i).rsize = 8
BY DEF Sized, Whole, Reg

\* Where the parts go.
LEMMA FrameSpot86 ==
  ASSUME X86, Rested
  PROVE  /\ P86(FP) \in R /\ P86(FP) \notin T86 /\ before.reg[P86(FP)] + (0 - 16) = 8 /\ 0 - 16 \in Int
         /\ FrameAt - 16 = 8 /\ 8 \in 0 .. 100 /\ 8 \in 0 .. 90 /\ 8 + 16 <= Memory
<1>1. P86(FP) = 5 BY Places86 DEF FP
<1>2. P86(FP) \in R /\ before.reg[P86(FP)] = 24 BY Frame86 DEF Placed86
<1>3. 5 \notin T86 BY Registers86
<1>4. 32 <= Memory /\ Memory \in Nat BY ConventionsAssumption, MachineAssumption
<1>. QED BY <1>1, <1>2, <1>3, <1>4 DEF FrameAt

\* A call of emit_store_packed does what it is for.
LEMMA StorePackedCloses86 == ASSUME X86, Rested, StorePacked PROVE Closed'
<1>1. PICK n \in 1 .. 8 :
       Call(Puts(Stored(FrameAt - 16, n, Bits(before, Whole(0))), {}),
            L!emit_store_packed(FP, 0 - 16, Whole(0), n), B!emit_store_packed(FP, 0 - 16, Whole(0), n),
            A!emit_store_packed(FP, 0 - 16, Whole(0), n), W!emit_store_packed(FP, 0 - 16, Whole(0), n))
  BY Zenon DEF StorePacked
<1> DEFINE off == 0 - 16   src == Whole(0)   v == Bits(before, src)   u == before.reg[P86(src)]
           code == L!emit_store_packed(FP, off, src, n)
<1>2. FrameAt - 16 = 8 BY DEF FrameAt
<1>3. meant' = Puts(Stored(8, n, v), {}) /\ listed' = Run(before, code) /\ conv' = conv /\ before' = before
  <2>1. meant' = Puts(Stored(FrameAt - 16, n, v), {}) /\ listed' = Run(before, code) /\ conv' = conv /\ before' = before
    BY <1>1, CallX86
  <2>. QED BY <1>2, <2>1
<1>4. /\ P86(FP) \in R /\ P86(FP) \notin T86 /\ before.reg[P86(FP)] + off = 8 /\ off \in Int
      /\ 8 \in 0 .. 100 /\ 8 + 16 <= Memory
  BY FrameSpot86
<1>5. Usable86(src) /\ src.rsize = 8 /\ P86(src) \in T86 /\ Place(src) = P86(src)
  <2>1. 0 \in {0, 1} /\ 8 \in Sizes BY DEF Sizes
  <2>. QED BY <2>1, Wholes86, WholeSize
<1>6. v = Unsigned(u, 8) /\ u \in Int
  <2>1. u \in Int BY <1>5, RestedFacts, Facts86
  <2>2. v = Unsigned(before.reg[Place(src)], src.rsize) BY DEF Bits
  <2>. QED BY <1>5, <2>1, <2>2
<1>7. v \in Int /\ u \in Int /\ Agree(v, u, 8)
  <2>1. 8 \in 0 .. 15 OBVIOUS
  <2>2. Unsigned(u, 8) \in Int /\ Agree(Unsigned(u, 8), u, 8) BY <1>6, <2>1, UnsignedRange, AgreeUnsigned
  <2>. QED BY <1>6, <2>2
<1>8. 8 + n <= Memory /\ P86(FP) # P86(src) BY <1>4, <1>5, MachineAssumption
<1> HIDE DEF off, src, v, u, code
<1>9. Leaves(R, before, code, {P86(src)}, Written(before.mem, 8, n, u))
  BY <1>4, <1>5, <1>8, RestedFacts, StorePacked86 DEF code, u
<1>10. Written(before.mem, 8, n, u) = Stored(8, n, v) /\ Stored(8, n, v) \in Mem
  <2>1. n \in 0 .. 15 /\ n \in 0 .. 16 /\ n \in 0 .. 8 OBVIOUS
  <2>2. Agree(v, u, n)
    <3>1. 8 \in 0 .. 15 OBVIOUS
    <3>. QED BY <1>7, <2>1, <3>1, AgreeFewer
  <2>3. DOMAIN before.mem \subseteq Int BY RestedFacts, MemDomain
  <2> DEFINE mem == before.mem
  <2>4. DOMAIN mem \subseteq Int BY <2>3
  <2> HIDE DEF mem
  <2>0. 8 \in Int /\ v \in Int /\ u \in Int BY <1>7
  <2>5. Written(mem, 8, n, v) = Written(mem, 8, n, u) BY Zenon, <2>0, <2>1, <2>2, <2>4, WrittenAgree
  <2>6. Stored(8, n, v) \in Mem BY <1>7, <2>1, StoredMem
  <2>. QED BY <2>5, <2>6 DEF mem, Stored
<1>11. {P86(src)} \intersect Kept = {} BY <1>5, TempsSpared86
<1>. QED BY <1>3, <1>9, <1>10, <1>11, Stores86

\* A call of emit_zerofill does what it is for.
LEMMA ZerofillCloses86 == ASSUME X86, Rested, Zerofill PROVE Closed'
<1>1. PICK n \in 1 .. 16 :
       LET object == Plain([NoBase EXCEPT !.tag = "STRUCT", !.size = n])
       IN  Call(Puts(Stored(FrameAt - 16, n, 0), {}),
                L!emit_zerofill(FP, 0 - 16, object), B!emit_zerofill(FP, 0 - 16, object),
                A!emit_zerofill(FP, 0 - 16, object), W!emit_zerofill(FP, 0 - 16, object))
  BY Zenon DEF Zerofill
<1> DEFINE off == 0 - 16   object == Plain([NoBase EXCEPT !.tag = "STRUCT", !.size = n])
           code == L!emit_zerofill(FP, off, object)
<1>2. FrameAt - 16 = 8 BY DEF FrameAt
<1>3. meant' = Puts(Stored(8, n, 0), {}) /\ listed' = Run(before, code) /\ conv' = conv /\ before' = before
  <2>1. meant' = Puts(Stored(FrameAt - 16, n, 0), {}) /\ listed' = Run(before, code) /\ conv' = conv /\ before' = before
    BY <1>1, CallX86
  <2>. QED BY <1>2, <2>1
<1>4. /\ P86(FP) \in R /\ P86(FP) \notin T86 /\ before.reg[P86(FP)] + off = 8 /\ off \in Int
      /\ 8 \in 0 .. 100 /\ 8 + 16 <= Memory
  BY FrameSpot86
<1>5. dtype_size(object) = n
  <2>1. object.decl = << >> /\ object.base.size = n BY DEF Plain, NoBase
  <2> HIDE DEF object
  <2>2. dtype_outer(object) = NoDeclarator /\ NoDeclarator.tag = "NONE" BY <2>1 DEF dtype_outer, NoDeclarator, Declarator
  <2>. QED BY <2>1, <2>2 DEF dtype_size
<1>8. 8 + n <= Memory /\ P86(FP) # Class.scratch[2] /\ n \in 0 .. 16 BY <1>4, MachineAssumption DEF T86
<1> HIDE DEF off, object, code
<1>9. Leaves(R, before, code, T86, Written(before.mem, 8, n, 0))
  BY <1>4, <1>5, <1>8, RestedFacts, Zerofill86 DEF code
<1>10. Written(before.mem, 8, n, 0) = Stored(8, n, 0) /\ Stored(8, n, 0) \in Mem
  <2>1. Stored(8, n, 0) \in Mem BY <1>8, StoredMem
  <2>. QED BY <2>1 DEF Stored
<1>11. T86 \intersect Kept = {} BY TempsSpared86
<1>. QED BY <1>3, <1>9, <1>10, <1>11, Stores86

EightbyteMem(n, lo, hi, both) ==
  LET part(i, written) == IF written THEN Bits(before, Whole(i)) ELSE 0
      mem == Stored(FrameAt - 16, IF both THEN 8 ELSE n, part(0, lo))
  IN  IF both THEN Written(mem, FrameAt - 8, 8, part(1, hi)) ELSE mem
EightbyteCall(n, lo, hi, both) ==
  Call(Puts(EightbyteMem(n, lo, hi, both), {}),
       L!emit_store_eightbytes(FP, 0 - 16, Sized(Whole(0), n), lo, Sized(Whole(1), n), hi, both),
       B!emit_store_eightbytes(FP, 0 - 16, Sized(Whole(0), n), lo, Sized(Whole(1), n), hi, both),
       A!emit_store_eightbytes(FP, 0 - 16, Sized(Whole(0), n), lo, Sized(Whole(1), n), hi, both),
       W!emit_store_eightbytes(FP, 0 - 16, Sized(Whole(0), n), lo, Sized(Whole(1), n), hi, both))

\* The calls of emit_store_eightbytes.
LEMMA EightbyteCalls ==
  ASSUME StoreEightbytes
  PROVE  \E n \in {1, 2, 4, 8}, lo, hi, both \in BOOLEAN : EightbyteCall(n, lo, hi, both)
<1>1. PICK n \in {1, 2, 4, 8}, lo, hi, both \in BOOLEAN :
       LET part(i, written) == IF written THEN Bits(before, Whole(i)) ELSE 0
           size == IF both THEN 8 ELSE n
           mem  == Stored(FrameAt - 16, size, part(0, lo))
           Calls(s(_, _, _, _, _, _, _)) == s(FP, 0 - 16, Sized(Whole(0), n), lo, Sized(Whole(1), n), hi, both)
       IN  Call(Puts(IF both THEN Written(mem, FrameAt - 8, 8, part(1, hi)) ELSE mem, {}),
                   Calls(L!emit_store_eightbytes), Calls(B!emit_store_eightbytes),
                   Calls(A!emit_store_eightbytes), Calls(W!emit_store_eightbytes))
  BY DEF StoreEightbytes
<1>2. EightbyteCall(n, lo, hi, both) BY <1>1, Zenon DEF EightbyteCall, EightbyteMem
<1>. QED BY <1>2

\* What is stored for a part is the register's bytes, or zeros.
PartIs86(lo, i, n, written) ==
  /\ Part(before, lo, 8, written) = (IF written THEN Bits(before, Whole(i)) ELSE 0)
  /\ Part(before, lo, n, written) \in Int /\ Part(before, lo, 8, written) \in Int
  /\ Agree(Part(before, lo, n, written), Part(before, lo, 8, written), n)

\* A part is stored alike from its low bytes and from the whole register.
LEMMA Parts86 ==
  ASSUME X86, Rested, NEW i \in {0, 1}, NEW n \in Sizes, NEW written \in BOOLEAN,
         NEW lo, lo = Sized(Whole(i), n)
  PROVE  PartIs86(lo, i, n, written)
<1>1. Usable86(lo) /\ P86(lo) = Place(Whole(i)) BY Wholes86
<1> DEFINE u == before.reg[P86(lo)]
<1>2. u \in Int BY <1>1, RestedFacts, Facts86
<1>3. Bits(before, Whole(i)) = Unsigned(u, 8) BY <1>1, WholeSize DEF Bits
<1>4. n \in 0 .. 15 /\ 8 \in 0 .. 15 /\ n \in 0 .. 8 BY DEF Sizes
<1> HIDE DEF u
<1>5. Unsigned(u, n) \in Int /\ Unsigned(u, 8) \in Int BY <1>2, <1>4, UnsignedRange
<1>6. Agree(Unsigned(u, 8), u, n)
  <2>1. Agree(Unsigned(u, 8), u, 8) BY <1>2, <1>4, AgreeUnsigned
  <2>. QED BY <1>2, <1>4, <1>5, <2>1, AgreeFewer
<1>7. Agree(Unsigned(u, n), u, n) BY <1>2, <1>4, AgreeUnsigned
<1>8. Agree(Unsigned(u, n), Unsigned(u, 8), n) BY <1>6, <1>7 DEF Agree
<1>9. Agree(0, 0, n) BY DEF Agree
<1>. QED BY <1>3, <1>5, <1>8, <1>9 DEF PartIs86, Part, u

\* A call of emit_store_eightbytes with one part does what it is for.
LEMMA EightbyteLow86 ==
  ASSUME X86, Rested, NEW n \in Sizes, NEW lo \in BOOLEAN, NEW hi \in BOOLEAN, EightbyteCall(n, lo, hi, FALSE)
  PROVE  Closed'
<1> DEFINE off == 0 - 16   first == Sized(Whole(0), n)   second == Sized(Whole(1), n)   p == Part(before, first, n, lo)
           mem == EightbyteMem(n, lo, hi, FALSE)   q == Part(before, first, 8, lo)
           code == L!emit_store_eightbytes(FP, off, first, lo, second, hi, FALSE)
<1>2. FrameAt - 16 = 8 BY DEF FrameAt
<1>3. meant' = Puts(mem, {}) /\ listed' = Run(before, code) /\ conv' = conv /\ before' = before
  BY CallX86 DEF EightbyteCall
<1>4. /\ P86(FP) \in R /\ P86(FP) \notin T86 /\ before.reg[P86(FP)] + off = 8 /\ off \in Int
      /\ 8 \in 0 .. 100 /\ 8 + 16 <= Memory
  BY FrameSpot86
<1>5. Usable86(first) /\ first.rsize = n /\ P86(first) \in T86 BY Wholes86
<1>6. q = (IF lo THEN Bits(before, Whole(0)) ELSE 0) /\ q \in Int /\ p \in Int /\ Agree(p, q, n)
  <2>1. PartIs86(first, 0, n, lo) BY Parts86
  <2>. QED BY <2>1 DEF PartIs86
<1>7. mem = Stored(8, n, q)
  <2>1. mem = Stored(FrameAt - 16, n, IF lo THEN Bits(before, Whole(0)) ELSE 0) BY Zenon DEF EightbyteMem
  <2>. QED BY <1>2, <1>6, <2>1
<1>8. 8 + first.rsize <= Memory /\ P86(FP) # P86(first) BY <1>4, <1>5, MachineAssumption DEF Sizes
<1>9. Leaves(R, before, code, {P86(first)}, Written(before.mem, 8, n, p))
  <2>1. Leaves(R, before, code, {P86(first)}, Written(before.mem, 8, first.rsize, Part(before, first, first.rsize, lo)))
    <3> HIDE DEF off, first, second, code
    <3>. QED BY <1>4, <1>5, <1>8, RestedFacts, LowPart86 DEF code
  <2>. QED BY <1>5, <2>1
<1> HIDE DEF off, first, second, p, q, mem, code
<1>10. Written(before.mem, 8, n, p) = Stored(8, n, q) /\ Stored(8, n, q) \in Mem
  <2>1. n \in 0 .. 15 /\ n \in 0 .. 16 /\ 8 \in Int BY DEF Sizes
  <2>3. DOMAIN before.mem \subseteq Int BY RestedFacts, MemDomain
  <2> DEFINE old == before.mem
  <2>4. DOMAIN old \subseteq Int BY <2>3
  <2> HIDE DEF old
  <2>5. Written(old, 8, n, p) = Written(old, 8, n, q)
    <3> DEFINE z == 8
    <3>1. z \in Int /\ n \in 0 .. 15 /\ p \in Int /\ q \in Int /\ Agree(p, q, n) BY <1>6, <2>1
    <3> HIDE DEF z, p, q, off, first, second, mem, code
    <3>2. Written(old, z, n, p) = Written(old, z, n, q) BY <2>4, <3>1, WrittenAgree
    <3>. QED BY <3>2 DEF z
  <2>6. Stored(8, n, q) \in Mem BY <1>6, <2>1, StoredMem
  <2>. QED BY <2>5, <2>6 DEF old, Stored
<1>11. {P86(first)} \intersect Kept = {} BY <1>5, TempsSpared86
<1>12. Leaves(R, before, code, {P86(first)}, mem) /\ mem \in Mem BY <1>7, <1>9, <1>10
<1>. QED BY <1>3, <1>12, <1>11, Stores86

\* A call of emit_store_eightbytes with both parts does what it is for.
LEMMA EightbytePair86 ==
  ASSUME X86, Rested, NEW n \in Sizes, NEW lo \in BOOLEAN, NEW hi \in BOOLEAN, EightbyteCall(n, lo, hi, TRUE)
  PROVE  Closed'
<1> DEFINE off == 0 - 16   first == Sized(Whole(0), n)   second == Sized(Whole(1), n)
           p == Part(before, first, 8, lo)   q == Part(before, second, 8, hi)
           mem == EightbyteMem(n, lo, hi, TRUE)   mem1 == Written(before.mem, 8, 8, p)   mem2 == Written(mem1, 16, 8, q)
           code == L!emit_store_eightbytes(FP, off, first, lo, second, hi, TRUE)
<1>2. FrameAt - 16 = 8 /\ FrameAt - 8 = 16 /\ 8 + 8 = 16 BY DEF FrameAt
<1>3. meant' = Puts(mem, {}) /\ listed' = Run(before, code) /\ conv' = conv /\ before' = before
  BY CallX86 DEF EightbyteCall
<1>4. /\ P86(FP) \in R /\ P86(FP) \notin T86 /\ before.reg[P86(FP)] + off = 8 /\ off \in Int
      /\ 8 \in 0 .. 90 /\ 8 + 16 <= Memory
  BY FrameSpot86
<1>5. /\ Usable86(first) /\ P86(first) \in T86 /\ Usable86(second) /\ P86(second) \in T86
      /\ P86(first) # P86(second)
  <2>1. 0 \in {0, 1} /\ 1 \in {0, 1} /\ 0 + 1 = 1 /\ 1 + 1 = 2 OBVIOUS
  <2>2. Class.scratch[1] # Class.scratch[2] BY Registers86
  <2>. QED BY <2>1, <2>2, Wholes86
<1>6. /\ p = (IF lo THEN Bits(before, Whole(0)) ELSE 0) /\ p \in Int
      /\ q = (IF hi THEN Bits(before, Whole(1)) ELSE 0) /\ q \in Int
  <2>1. 0 \in {0, 1} /\ 1 \in {0, 1} OBVIOUS
  <2>2. PartIs86(first, 0, n, lo) /\ PartIs86(second, 1, n, hi) BY <2>1, Parts86
  <2>. QED BY <2>2 DEF PartIs86
<1>7. mem = mem2
  <2>1. mem = Written(Stored(FrameAt - 16, 8, IF lo THEN Bits(before, Whole(0)) ELSE 0), FrameAt - 8, 8,
                      IF hi THEN Bits(before, Whole(1)) ELSE 0) BY Zenon DEF EightbyteMem
  <2>2. Stored(8, 8, p) = mem1 BY Zenon DEF Stored
  <2>3. mem = Written(Stored(8, 8, p), 16, 8, q)
    <3> HIDE DEF p, q, mem
    <3>. QED BY <1>2, <1>6, <2>1
  <2>. QED BY <2>2, <2>3
<1>8. P86(FP) # P86(first) /\ P86(FP) # P86(second) BY <1>4, <1>5
<1>9. Leaves(R, before, code, {P86(first), P86(second)}, mem2)
  <2>1. Leaves(R, before, code, {P86(first), P86(second)}, Written(Written(before.mem, 8, 8, p), 8 + 8, 8, q))
    <3> HIDE DEF off, first, second, code
    <3>. QED BY <1>4, <1>5, <1>8, RestedFacts, BothParts86 DEF code
  <2>. QED BY <1>2, <2>1
<1>10. mem2 \in Mem
  <2>1. 8 \in 0 .. 16 /\ 8 \in Int /\ 16 \in Int OBVIOUS
  <2>2. mem1 \in Mem BY <1>6, <2>1, RestedFacts, WrittenMem
  <2>. QED BY <1>6, <2>1, <2>2, WrittenMem
<1>11. {P86(first), P86(second)} \intersect Kept = {} BY <1>5, TempsSpared86
<1> HIDE DEF off, first, second, p, q, mem, mem1, mem2, code
<1>. QED BY <1>3, <1>7, <1>9, <1>10, <1>11, Stores86

\* A call of emit_store_eightbytes does what it is for.
LEMMA StoreEightbytesCloses86 == ASSUME X86, Rested, StoreEightbytes PROVE Closed'
<1>1. PICK n \in {1, 2, 4, 8}, lo, hi, both \in BOOLEAN : EightbyteCall(n, lo, hi, both) BY EightbyteCalls
<1>2. n \in Sizes BY DEF Sizes
<1>3. CASE both
  <2>1. EightbyteCall(n, lo, hi, TRUE) BY <1>1, <1>3
  <2>. QED BY <1>2, <2>1, EightbytePair86
<1>4. CASE ~both
  <2>1. EightbyteCall(n, lo, hi, FALSE) BY <1>1, <1>4
  <2>. QED BY <1>2, <2>1, EightbyteLow86
<1>. QED BY <1>3, <1>4

-----------------------------------------------------------------------------
(* Any call on x86-64.                                                    *)

\* Every action is one call, made from the start or after a comparison.
LEMMA Calling ==
  ASSUME Next PROVE conv' = conv /\ before' = before
<1>1. CASE Mov BY <1>1 DEF Mov, Call
<1>2. CASE ZeroOut BY <1>2 DEF ZeroOut, Call
<1>3. CASE MovReg BY <1>3 DEF MovReg, Call
<1>4. CASE Add BY <1>4 DEF Add, Call
<1>5. CASE Sub BY <1>5 DEF Sub, Call
<1>6. CASE AddReg BY <1>6 DEF AddReg, Call
<1>7. CASE SubReg BY <1>7 DEF SubReg, Call
<1>8. CASE Lsl BY <1>8 DEF Lsl, Call
<1>9. CASE Cmp BY <1>9 DEF Cmp, Call
<1>10. CASE CmpReg BY <1>10 DEF CmpReg, Call
<1>11. CASE CondSet BY <1>11 DEF CondSet, Call
<1>12. CASE StrReg BY <1>12 DEF StrReg, Call
<1>13. CASE StrImm BY <1>13 DEF StrImm, Call
<1>14. CASE Ldr BY <1>14 DEF Ldr, Call
<1>15. CASE StrRegoff BY <1>15 DEF StrRegoff, Call
<1>16. CASE StrImmRegoff BY <1>16 DEF StrImmRegoff, Call
<1>17. CASE LdrReg BY <1>17 DEF LdrReg, Call
<1>18. CASE ArrayStore BY <1>18 DEF ArrayStore, Call
<1>19. CASE ArrayLoad BY <1>19 DEF ArrayLoad, Call
<1>20. CASE ElemAddr BY <1>20 DEF ElemAddr, Call
<1>21. CASE StorePacked BY <1>21 DEF StorePacked, Call
<1>22. CASE StoreEightbytes
  <2>1. PICK n \in {1, 2, 4, 8}, lo, hi, both \in BOOLEAN : EightbyteCall(n, lo, hi, both) BY <1>22, EightbyteCalls
  <2>. QED BY <2>1 DEF EightbyteCall, Call
<1>23. CASE Zerofill BY <1>23 DEF Zerofill, Call
<1>. QED BY <1>1, <1>2, <1>3, <1>4, <1>5, <1>6, <1>7, <1>8, <1>9, <1>10, <1>11, <1>12, <1>13, <1>14, <1>15,
            <1>16, <1>17, <1>18, <1>19, <1>20, <1>21, <1>22, <1>23 DEF Next

\* A call from the start finds the machine at rest.
LEMMA FreshRests == ASSUME Started, Closed, Fresh PROVE Rested
BY DEF Closed, Fresh, Rested

\* Only emit_cond_set is called after a comparison.
LEMMA FreshOrCondSet == ASSUME Next PROVE Fresh \/ CondSet
BY Zenon DEF Next, Mov, ZeroOut, MovReg, Add, Sub, AddReg, SubReg, Lsl, Cmp, CmpReg, StrReg, StrImm, Ldr, StrRegoff, StrImmRegoff,
   LdrReg, ArrayStore, ArrayLoad, ElemAddr, StorePacked, StoreEightbytes, Zerofill

\* Every call on x86-64 does what it is for.
LEMMA NextCloses86 == ASSUME Beyond = {}, X86, Started, Closed, Next PROVE Closed'
<1>1. CASE CondSet BY <1>1, CondSetCloses86
<1>2. CASE Fresh
  <2>1. Rested BY <1>2, FreshRests
  <2>. QED BY <1>1, <2>1, MovCloses86, ZeroOutCloses86, MovRegCloses86, AddCloses86, SubCloses86, AddRegCloses86, SubRegCloses86,
     LslCloses86, CmpCloses86, CmpRegCloses86, StrRegCloses86, StrImmCloses86, LdrCloses86, StrRegoffCloses86,
     StrImmRegoffCloses86, LdrRegCloses86, ArrayStoreCloses86, ArrayLoadCloses86, ElemAddrCloses86,
     StorePackedCloses86, StoreEightbytesCloses86, ZerofillCloses86, Zenon DEF Next
<1>. QED BY <1>1, <1>2, FreshOrCondSet

\* What holds after a call stays so while nothing happens.
LEMMA StutterCloses == ASSUME Closed, UNCHANGED vars PROVE Closed'
<1>1. conv' = conv /\ before' = before /\ listed' = listed /\ meant' = meant BY DEF vars
<1>2. (\A r : Place(r)' = Place(r)) /\ Variables' = Variables /\ Kept' = Kept /\ R' = R BY <1>1, SamePlaces, SameR
<1>3. DoesWhatItIsFor'
  <2>1. DoesWhatItIsFor BY DEF Closed
  <2>. QED BY <1>1, <1>2, <2>1 DEF DoesWhatItIsFor, Called, Bits
<1>4. VariablesKept'
  <2>1. VariablesKept BY DEF Closed
  <2>. QED BY <1>1, <1>2, <2>1 DEF VariablesKept, Same, Bits, Seen, Destinations
<1>5. Decided(listed)' <=> Decided(listed) BY <1>1, <1>2 DEF Decided
<1>. QED BY <1>1, <1>3, <1>4, <1>5 DEF Closed

-----------------------------------------------------------------------------
(* The calls on aarch64: values.                                          *)

\* The variables are in registers 19 to 24; intermediate results in 8, 11 and 16.
TempsA == {8, 11, 16}

\* On aarch64 a call runs the aarch64 listing.
LEMMA CallA ==
  ASSUME Arm, Rested, NEW purpose, NEW listing, NEW image, NEW armListing, NEW words, Call(purpose, listing, image, armListing, words)
  PROVE  meant' = purpose /\ listed' = Run(before, armListing) /\ conv' = conv /\ before' = before
BY DEF Call, Rested

\* What a call from the start finds on aarch64.
LEMMA RestedFactsA ==
  ASSUME Arm, Rested
  PROVE  before \in Machines(R) /\ ~before.left /\ before.mem \in Mem /\ Started
         /\ before.reg[29] = 24 /\ conv \in Convs
<1>1. conv \in Convs BY NoZeroArm
<1>2. Started BY DEF Rested
<1>3. Class.frame = 29 BY DEF Arm, Class, RegistersOf
<1>. QED BY <1>1, <1>2, <1>3, StartFacts

\* The registers of the classes on aarch64.
LEMMA ClassA ==
  ASSUME Arm
  PROVE  /\ Class.callee = <<19, 20, 21, 22, 23, 24>> /\ Len(Class.callee) = 6 /\ Class.callee[1] = 19 /\ Class.callee[2] = 20
         /\ Class.callee[3] = 21 /\ Class.callee[4] = 22 /\ Class.frame = 29 /\ Class.stack = 31
<1>1. Class.callee = <<19, 20, 21, 22, 23, 24>> /\ Class.frame = 29 /\ Class.stack = 31 BY DEF Arm, Class, RegistersOf
<1>. QED BY <1>1

\* The variables of aarch64 are in no intermediate register.
LEMMA KeptA ==
  ASSUME Arm
  PROVE  Kept \subseteq R /\ Kept \intersect TempsA = {}
<1> DEFINE V1 == {[Var(i, Fund(8, FALSE)) EXCEPT !.rsize = 8] : i \in 0 .. Len(Class.callee) - 1}
<1>1. \A i \in 0 .. 5 : Place([Var(i, Fund(8, FALSE)) EXCEPT !.rsize = 8]) = i + 19
  <2> SUFFICES ASSUME NEW i \in 0 .. 5 PROVE Place([Var(i, Fund(8, FALSE)) EXCEPT !.rsize = 8]) = i + 19 OBVIOUS
  <2> DEFINE dtype == Plain(Fund(8, FALSE))   n == Fund(8, FALSE).size
  <2>1. Var(i, Fund(8, FALSE)) = Reg("NREG", i, n, dtype) BY DEF Var
  <2> HIDE DEF dtype, n
  <2>2. [Reg("NREG", i, n, dtype) EXCEPT !.rsize = 8] = Reg("NREG", i, 8, dtype) BY DEF Reg
  <2> DEFINE r == Reg("NREG", i, 8, dtype)
  <2>3. [Var(i, Fund(8, FALSE)) EXCEPT !.rsize = 8] = r BY <2>1, <2>2
  <2>4. Place(r) = PA(r) /\ PA(r) = i + 19 BY PlacesA
  <2>. QED BY <2>3, <2>4
<1>2. 0 .. Len(Class.callee) - 1 = 0 .. 5
  <2>1. Len(Class.callee) = 6 BY ClassA
  <2>. QED BY <2>1
<1>3. Place(FP) = 29 /\ Place(Reg("STACK", 0, 8, Plain(NoBase))) = 31 BY PlacesA DEF FP
<1>4. Variables = V1 \union {FP, Reg("STACK", 0, 8, Plain(NoBase))} BY DEF Variables
<1>5. Kept = {Place(v) : v \in V1} \union {Place(FP), Place(Reg("STACK", 0, 8, Plain(NoBase)))} BY <1>4 DEF Kept
<1>6. {Place(v) : v \in V1} = {i + 19 : i \in 0 .. 5} BY <1>1, <1>2
<1>7. Kept = {i + 19 : i \in 0 .. 5} \union {29, 31} BY <1>3, <1>5, <1>6
<1>8. \A i \in 0 .. 5 : i + 19 \in 19 .. 24 OBVIOUS
<1>. QED BY <1>7, <1>8, RegistersA DEF TempsA

\* A register of a type and the place it has.
IsA(r, b, place) ==
  /\ TypedA(r) /\ r.rsize = b.size /\ r.dtype = Plain(b) /\ r.dtype.base = b /\ ~is_addr(r.dtype)
  /\ PA(r) = place /\ Place(r) = place

\* The scalars are typed.
LEMMA ScalarA == ASSUME NEW b \in Scalars PROVE b.size \in Sizes /\ b.sign \in BOOLEAN /\ b.tag = "FUND" /\ b # Comptime
BY DEF Scalars, Fund, NoBase, Comptime, Sizes

\* Variables, intermediate results and arguments have their register and
\* type.
LEMMA KindsA ==
  ASSUME Arm, NEW b \in Scalars
  PROVE  /\ \A i \in 0 .. 3 : IsA(Var(i, b), b, i + 19) /\ Var(i, b).reg_type = "NREG"
         /\ IsA(Acc(b), b, 8) /\ Acc(b).reg_type = "SCRATCH"
         /\ IsA(Argument(b), b, 1) /\ Argument(b).reg_type = "PARAM"
<1> DEFINE n == b.size   dtype == Plain(b)
<1>1. dtype.base = b /\ ~is_addr(dtype) BY PlainNoAddr
<1>2. n \in Sizes /\ b.sign \in BOOLEAN /\ b.tag = "FUND" BY ScalarA
<1> HIDE DEF dtype
<1>3. \A k, o, p : PA(Reg(k, o, n, dtype)) = p /\ p \in R => IsA(Reg(k, o, n, dtype), b, p)
  <2> SUFFICES ASSUME NEW k, NEW o, NEW p, PA(Reg(k, o, n, dtype)) = p, p \in R PROVE IsA(Reg(k, o, n, dtype), b, p) OBVIOUS
  <2> DEFINE r == Reg(k, o, n, dtype)
  <2>1. IsReg(r) /\ r.rsize = n /\ r.dtype = dtype BY RegIs
  <2>2. Place(r) = PA(r) BY PlacesA
  <2> HIDE DEF r, n
  <2>3. PA(r) = p BY DEF r
  <2>4. UsableA(r) BY <1>2, <2>1, <2>3 DEF UsableA
  <2>5. TypedA(r) BY <1>1, <1>2, <2>1, <2>4 DEF TypedA, n
  <2>6. IsA(r, b, p) BY <1>1, <2>1, <2>2, <2>3, <2>5 DEF IsA, n, dtype
  <2>. QED BY <2>6 DEF r
<1>4. \A k, o : Reg(k, o, n, dtype).reg_type = k BY RegIs
<1>5. \A i \in 0 .. 3 : i + 19 \in R BY RegistersA
<1>6. 8 \in R /\ 1 \in R /\ 0 + 8 = 8 BY RegistersA
<1>7. \A i \in 0 .. 3 : PA(Reg("NREG", i, n, dtype)) = i + 19 BY PlacesA
<1>8. PA(Reg("SCRATCH", 0, n, dtype)) = 8 /\ PA(Reg("PARAM", 1, n, dtype)) = 1 BY <1>6, PlacesA
<1>. QED BY <1>3, <1>4, <1>5, <1>6, <1>7, <1>8 DEF Var, Acc, Argument, n, dtype

\* Where a result goes and its operands are registers of their types.
TripleA(triple, d, l, r) ==
  /\ IsA(triple[1], d, PA(triple[1])) /\ IsA(triple[2], l, PA(triple[2])) /\ IsA(triple[3], r, PA(triple[3]))
  /\ PA(triple[3]) # 16

\* A destination and two operands of the parser on aarch64.
LEMMA TriplesA ==
  ASSUME Arm, NEW d \in Scalars, NEW l \in Scalars, NEW r \in Scalars, NEW triple \in Triples(d, l, r)
  PROVE  TripleA(triple, d, l, r)
<1>1. /\ 0 \in 0 .. 3 /\ 1 \in 0 .. 3 /\ 2 \in 0 .. 3 /\ 3 \in 0 .. 3
      /\ 0 + 19 = 19 /\ 1 + 19 = 20 /\ 2 + 19 = 21 /\ 3 + 19 = 22 OBVIOUS
<1>2. /\ IsA(Var(3, d), d, 22) /\ IsA(Acc(d), d, 8) /\ IsA(Argument(d), d, 1)
      /\ IsA(Var(0, l), l, 19) /\ IsA(Var(1, l), l, 20) /\ IsA(Var(2, l), l, 21) /\ IsA(Acc(l), l, 8)
      /\ IsA(Var(1, r), r, 20) /\ IsA(Var(2, r), r, 21)
  BY <1>1, KindsA
<1>5. CASE triple = <<Var(3, d), Var(0, l), Var(1, r)>> BY <1>2, <1>5 DEF TripleA, IsA
<1>6. CASE triple = <<Acc(d), Var(1, l), Var(2, r)>> BY <1>2, <1>6 DEF TripleA, IsA
<1>7. CASE triple = <<Argument(d), Var(2, l), Var(1, r)>> BY <1>2, <1>7 DEF TripleA, IsA
<1>8. CASE triple = <<Acc(d), Acc(l), Var(1, r)>> BY <1>2, <1>8 DEF TripleA, IsA
<1>. QED BY <1>5, <1>6, <1>7, <1>8 DEF Triples

\* A result in a register, the intermediate ones in registers of their own.
LEMMA SimpleA ==
  ASSUME Arm, Rested, conv' = conv, before' = before, NEW code, listed' = Run(before, code), NEW dst,
         NEW value, meant' = Gives(dst, value, {}), NEW V, V \subseteq TempsA,
         Yields(R, before, code, V, PA(dst), dst.rsize, value)
  PROVE  Closed'
<1>1. conv \in Convs /\ Place(dst) = PA(dst) /\ Started BY PlacesA, RestedFactsA
<1>2. Kept \subseteq R /\ V \intersect Kept = {} BY KeptA
<1>3. V \intersect Kept \subseteq AllOf({}) BY <1>2
<1>. QED BY <1>1, <1>2, <1>3, GivesClosed

\* What a register of the parser holds.
LEMMA HeldTypedA ==
  ASSUME Arm, Rested, NEW b \in Scalars, NEW r, IsA(r, b, PA(r))
  PROVE  /\ TypedA(r) /\ UsableA(r) /\ r.rsize = b.size /\ r.dtype.base = b /\ b.size \in Sizes /\ b.sign \in BOOLEAN
         /\ Held(before, r) = ExtA(before, r) /\ Held(before, r) \in Int
         /\ Loadable(r) => LoadedA(before, r)
<1>1. TypedA(r) /\ r.rsize = b.size /\ r.dtype.base = b /\ Place(r) = PA(r) BY DEF IsA
<1>2. b.size \in Sizes /\ b.sign \in BOOLEAN BY ScalarA
<1>3. Held(before, r) = ExtA(before, r) BY <1>1 DEF Held, ExtA
<1>4. UsableA(r) /\ ExtA(before, r) \in Int BY <1>1, RestedFactsA, ExtFactsA
<1>5. Loadable(r) => LoadedA(before, r) BY <1>1 DEF Loadable, LoadedA, ExtA
<1>. QED BY <1>1, <1>2, <1>3, <1>4, <1>5

\* With no known families no operands are set apart.
LEMMA NoneKnownA == ASSUME Beyond = {} PROVE \A f : ~Known(f)
BY DEF Known

\* The literals of a type fit eight bytes.
LEMMA LiteralBelow == ASSUME NEW t \in Scalars, NEW v \in Literals(t) PROVE v \in Int /\ v < Values(8)
<1>1. v \in Int BY LiteralInt
<1>2. t.size \in Sizes /\ t.size \in 0 .. 15 /\ t.size \in 0 .. 8 /\ 8 \in 0 .. 15 /\ t.size \in 1 .. 15 BY ScalarA DEF Sizes
<1>3. PICK x \in Samples : v = (IF t.sign \/ t.size = 8 THEN Signed(x, t.size) ELSE Unsigned(x, t.size))
  BY DEF Literals
<1>4. x \in Int BY BackendsAssumption, ValuesPositive
<1>5. Unsigned(x, t.size) \in 0 .. Values(t.size) - 1 /\ Values(t.size) \in Nat /\ Values(8) \in Nat /\ Values(t.size) <= Values(8)
  BY <1>2, <1>4, UnsignedRange, ValuesGrow, ValuesPositive
<1>6. Signed(x, t.size) <= Unsigned(x, t.size)
  <2> DEFINE u == Unsigned(x, t.size)   w == Values(t.size)
  <2>1. Signed(x, t.size) = u \/ Signed(x, t.size) = u - w BY DEF Signed
  <2>2. u \in Int /\ w \in Nat BY <1>5
  <2> HIDE DEF u, w
  <2>3. Signed(x, t.size) <= u BY <2>1, <2>2
  <2>. QED BY <2>3 DEF u
<1>7. Signed(x, t.size) \in Int BY <1>2, <1>4, SignedInt
<1> DEFINE u == Unsigned(x, t.size)   s == Signed(x, t.size)   w == Values(t.size)   big == Values(8)
<1>8. u \in 0 .. w - 1 /\ w \in Nat /\ big \in Nat /\ w <= big /\ s <= u /\ s \in Int BY <1>5, <1>6, <1>7
<1>9. v = u \/ v = s BY <1>3
<1> HIDE DEF u, s, w, big
<1>10. v < big BY <1>8, <1>9
<1>. QED BY <1>1, <1>10 DEF big

\* A call of emit_mov does what it is for.
LEMMA MovClosesA == ASSUME Beyond = {}, Arm, Rested, Mov PROVE Closed'
<1>1. PICK t \in Scalars : \E triple \in Triples(t, t, t), v \in Literals(t), typed \in BOOLEAN :
       LET dst == IF typed THEN triple[1] ELSE [triple[1] EXCEPT !.dtype = Plain(Comptime)]
       IN  /\ typed \/ v < 0 => Movable(t, v)
           /\ Arm /\ ~typed /\ v < 0 /\ ~FitsSigned(v, 4) => Known("wide")
           /\ Call(Gives(dst, v, {}), L!emit_mov(dst, v), B!emit_mov(dst, v), A!emit_mov(dst, v), W!emit_mov(dst, v))
  BY ZenonT(60) DEF Mov
<1>2. PICK triple \in Triples(t, t, t), v \in Literals(t), typed \in BOOLEAN :
       LET dst == IF typed THEN triple[1] ELSE [triple[1] EXCEPT !.dtype = Plain(Comptime)]
       IN  /\ typed \/ v < 0 => Movable(t, v)
           /\ Arm /\ ~typed /\ v < 0 /\ ~FitsSigned(v, 4) => Known("wide")
           /\ Call(Gives(dst, v, {}), L!emit_mov(dst, v), B!emit_mov(dst, v), A!emit_mov(dst, v), W!emit_mov(dst, v))
  BY <1>1
<1> DEFINE dst == IF typed THEN triple[1] ELSE [triple[1] EXCEPT !.dtype = Plain(Comptime)]
<1>3. meant' = Gives(dst, v, {}) /\ listed' = Run(before, A!emit_mov(dst, v)) /\ conv' = conv /\ before' = before
  BY <1>2, CallA
<1>4. IsA(triple[1], t, PA(triple[1])) BY TriplesA DEF TripleA
<1>5. t.size \in Sizes /\ t # Comptime BY ScalarA
<1>6. v \in Int /\ v < Values(8) BY LiteralBelow
<1>7. (typed \/ v < 0) => A!MovImmediate(v, Wx(t.size))
  <2>1. A!get_wx(t.size) = Wx(t.size) BY <1>5, WxFacts
  <2>. QED BY <1>2, <2>1, NoneKnownA DEF Movable
<1>8. ~typed /\ v < 0 => FitsSigned(v, 4) BY <1>2, NoneKnownA
<1>9. {} \subseteq TempsA OBVIOUS
<1>10. CASE typed
  <2>1. dst = triple[1] BY <1>10
  <2> HIDE DEF dst
  <2>2. UsableA(dst) /\ dst.rsize = t.size /\ dst.dtype.base # Comptime BY <1>4, <1>5, <2>1 DEF IsA, TypedA
  <2>3. Computes(R, before, A!emit_mov(dst, v), {}, PA(dst), Wx(dst.rsize), v)
    BY <1>6, <1>7, <1>10, <2>2, RestedFactsA, MovTypedA
  <2>4. Yields(R, before, A!emit_mov(dst, v), {}, PA(dst), dst.rsize, v) BY <1>6, <2>2, <2>3, RestedFactsA, WideYields
  <2>. QED BY <1>3, <1>9, <2>4, SimpleA
<1>11. CASE ~typed
  <2>1. dst = [triple[1] EXCEPT !.dtype = Plain(Comptime)] BY <1>11
  <2> DEFINE r == triple[1]   q == Plain(Comptime)
  <2>2. UsableA(r) /\ r.rsize = t.size BY <1>4 DEF IsA, TypedA
  <2>3. q.base = Comptime BY PlainNoAddr
  <2> HIDE DEF dst, r, q
  <2>4. r = Reg(r.reg_type, r.offset, r.rsize, r.dtype) BY <2>2 DEF UsableA, IsReg
  <2>5. dst = Reg(r.reg_type, r.offset, r.rsize, q) BY <2>1, <2>4 DEF r, q, Reg
  <2>6. PA(Reg(r.reg_type, r.offset, r.rsize, q)) = PA(Reg(r.reg_type, r.offset, r.rsize, r.dtype))
    BY DEF PA, A!get_regoff, Reg
  <2>7. PA(dst) = PA(r) BY <2>4, <2>5, <2>6
  <2>8. dst.rsize = t.size /\ dst.dtype = q /\ IsReg(dst) BY <2>2, <2>5, RegIs
  <2>9. UsableA(dst) /\ dst.dtype.base = Comptime BY <2>2, <2>3, <2>7, <2>8 DEF UsableA
  <2>10. v > Values(4) - 1 => dst.rsize = 8
    <3> DEFINE w == Values(4)   u == Unsigned(v, 4)
    <3>1. 4 \in 0 .. 15 OBVIOUS
    <3>2. w \in Nat /\ u \in 0 .. w - 1 BY <1>6, <3>1, ValuesPositive, UnsignedRange
    <3>3. FitsSigned(v, 4) => v = u \/ v = u - w BY DEF FitsSigned, Signed
    <3>4. t.size # 8 => FitsSigned(v, 4) \/ v \in 0 .. Values(4) - 1 BY LiteralInt
    <3> HIDE DEF w, u
    <3>5. v > w - 1 => t.size = 8 BY <1>6, <3>2, <3>3, <3>4 DEF w
    <3>. QED BY <2>8, <3>5 DEF w
  <2>11. v < 0 => A!MovImmediate(v, Wx(dst.rsize)) /\ FitsSigned(v, 4) BY <1>7, <1>8, <1>11, <2>8
  <2>12. Computes(R, before, A!emit_mov(dst, v), {}, PA(dst), Wx(dst.rsize), v)
    BY <1>6, <2>9, <2>10, <2>11, RestedFactsA, MovUntypedA
  <2>13. Yields(R, before, A!emit_mov(dst, v), {}, PA(dst), dst.rsize, v) BY <1>6, <2>9, <2>12, RestedFactsA, WideYields
  <2>. QED BY <1>3, <1>9, <2>13, SimpleA
<1>. QED BY <1>10, <1>11

\* A call of emit_zero_out does what it is for.
LEMMA ZeroOutClosesA == ASSUME Arm, Rested, ZeroOut PROVE Closed'
<1>1. PICK t \in Scalars : Call(Gives(Acc(t), 0, {}), L!emit_zero_out(Acc(t)), B!emit_zero_out(Acc(t)),
                             A!emit_zero_out(Acc(t)), W!emit_zero_out(Acc(t)))
  BY DEF ZeroOut
<1> DEFINE dst == Acc(t)   z == 0
<1>2. meant' = Gives(dst, z, {}) /\ listed' = Run(before, A!emit_zero_out(dst)) /\ conv' = conv /\ before' = before
  BY <1>1, CallA
<1>3. UsableA(dst) /\ dst.dtype.base # Comptime BY ScalarA, KindsA DEF IsA, TypedA
<1> HIDE DEF dst
<1>4. Computes(R, before, A!emit_zero_out(dst), {}, PA(dst), Wx(dst.rsize), z) BY <1>3, RestedFactsA, ZeroOutA
<1>5. {} \subseteq TempsA /\ z \in Int OBVIOUS
<1> HIDE DEF z
<1>6. Yields(R, before, A!emit_zero_out(dst), {}, PA(dst), dst.rsize, z) BY <1>3, <1>4, <1>5, RestedFactsA, WideYields
<1>. QED BY <1>2, <1>5, <1>6, SimpleA

\* A call of emit_mov_reg does what it is for.
LEMMA MovRegClosesA == ASSUME Arm, Rested, MovReg PROVE Closed'
<1>1. PICK t \in Scalars, s \in Scalars : \E triple \in Triples(t, s, s) :
       LET dst == triple[1]   src == triple[2]
       IN  /\ t.size >= s.size
           /\ Call(Gives(dst, Held(before, src), {}), L!emit_mov_reg(dst, src), B!emit_mov_reg(dst, src),
                   A!emit_mov_reg(dst, src), W!emit_mov_reg(dst, src))
  BY DEF MovReg
<1>2. PICK triple \in Triples(t, s, s) :
       LET dst == triple[1]   src == triple[2]
       IN  /\ t.size >= s.size
           /\ Call(Gives(dst, Held(before, src), {}), L!emit_mov_reg(dst, src), B!emit_mov_reg(dst, src),
                   A!emit_mov_reg(dst, src), W!emit_mov_reg(dst, src))
  BY <1>1
<1> DEFINE dst == triple[1]   src == triple[2]   v == Held(before, src)   code == A!emit_mov_reg(dst, src)
<1>3. meant' = Gives(dst, v, {}) /\ listed' = Run(before, code) /\ conv' = conv /\ before' = before
  BY <1>2, CallA
<1>4. IsA(dst, t, PA(dst)) /\ IsA(src, s, PA(src)) BY TriplesA DEF TripleA
<1> HIDE DEF dst, src
<1>5. UsableA(dst) /\ dst.rsize = t.size /\ ~is_addr(dst.dtype) BY <1>4 DEF IsA, TypedA
<1>6. TypedA(src) /\ src.rsize = s.size /\ v = ExtA(before, src) BY <1>4, HeldTypedA
<1>7. dst.rsize >= src.rsize BY <1>2, <1>5, <1>6
<1> HIDE DEF v
<1>8. Yields(R, before, code, {}, PA(dst), dst.rsize, v) BY <1>5, <1>6, <1>7, RestedFactsA, MovRegA
<1>9. {} \subseteq TempsA OBVIOUS
<1> HIDE DEF code
<1>. QED BY <1>3, <1>8, <1>9, SimpleA

\* The wider of two types is one of them.
LEMMA WiderA == ASSUME NEW l \in Scalars, NEW r \in Scalars
  PROVE Wider(l, r) \in Scalars /\ Wider(l, r).size = (IF l.size > r.size THEN l.size ELSE r.size)
<1>1. l.size \in Int /\ r.size \in Int BY ScalarA DEF Sizes
<1>. QED BY <1>1 DEF Wider

\* A call of emit_add does what it is for.
LEMMA AddClosesA == ASSUME Beyond = {}, Arm, Rested, Add PROVE Closed'
<1>1. PICK t \in Scalars : \E triple \in Triples(t, t, t), v \in Literals(t) :
       LET dst == triple[1]   lhs == triple[2]
       IN  /\ Displaced(t, v)
           /\ Call(Gives(dst, Held(before, lhs) + v, {}), L!emit_add(dst, lhs, v), B!emit_add(dst, lhs, v),
                   A!emit_add(dst, lhs, v), W!emit_add(dst, lhs, v))
  BY DEF Add
<1>2. PICK triple \in Triples(t, t, t), v \in Literals(t) :
       LET dst == triple[1]   lhs == triple[2]
       IN  /\ Displaced(t, v)
           /\ Call(Gives(dst, Held(before, lhs) + v, {}), L!emit_add(dst, lhs, v), B!emit_add(dst, lhs, v),
                   A!emit_add(dst, lhs, v), W!emit_add(dst, lhs, v))
  BY <1>1
<1> DEFINE dst == triple[1]   lhs == triple[2]   x == Held(before, lhs) + v   code == A!emit_add(dst, lhs, v)
<1>3. meant' = Gives(dst, x, {}) /\ listed' = Run(before, code) /\ conv' = conv /\ before' = before
  BY <1>2, CallA
<1>4. IsA(dst, t, PA(dst)) /\ IsA(lhs, t, PA(lhs)) BY TriplesA DEF TripleA
<1>5. v \in Int BY LiteralInt
<1>6. A!AddImmediate(v)
  <2>1. Addable(v) BY <1>2, NoneKnownA DEF Displaced
  <2>. QED BY <1>5, <2>1 DEF Addable, A!AddImmediate
<1> HIDE DEF dst, lhs
<1>7. UsableA(dst) /\ dst.rsize = t.size /\ ~is_addr(dst.dtype) BY <1>4 DEF IsA, TypedA
<1>8. TypedA(lhs) /\ lhs.rsize = t.size /\ Held(before, lhs) = ExtA(before, lhs) BY <1>4, HeldTypedA
<1>9. Yields(R, before, code, {}, PA(dst), dst.rsize, x)
  <2>1. Yields(R, before, code, {}, PA(dst), dst.rsize, ExtA(before, lhs) + v) BY <1>5, <1>6, <1>7, <1>8, RestedFactsA, AddA
  <2>. QED BY <1>8, <2>1
<1>10. {} \subseteq TempsA OBVIOUS
<1> HIDE DEF x, code
<1>. QED BY <1>3, <1>9, <1>10, SimpleA

\* A call of emit_sub does what it is for.
LEMMA SubClosesA == ASSUME Beyond = {}, Arm, Rested, Sub PROVE Closed'
<1>1. PICK t \in Scalars : \E triple \in Triples(t, t, t), v \in Literals(t) :
       LET dst == triple[1]   lhs == triple[2]
       IN  /\ Displaced(t, 0 - v)
           /\ Call(Gives(dst, Held(before, lhs) - v, {}), L!emit_sub(dst, lhs, v), B!emit_sub(dst, lhs, v),
                   A!emit_sub(dst, lhs, v), W!emit_sub(dst, lhs, v))
  BY DEF Sub
<1>2. PICK triple \in Triples(t, t, t), v \in Literals(t) :
       LET dst == triple[1]   lhs == triple[2]
       IN  /\ Displaced(t, 0 - v)
           /\ Call(Gives(dst, Held(before, lhs) - v, {}), L!emit_sub(dst, lhs, v), B!emit_sub(dst, lhs, v),
                   A!emit_sub(dst, lhs, v), W!emit_sub(dst, lhs, v))
  BY <1>1
<1> DEFINE dst == triple[1]   lhs == triple[2]   x == Held(before, lhs) - v   code == A!emit_sub(dst, lhs, v)
<1>3. meant' = Gives(dst, x, {}) /\ listed' = Run(before, code) /\ conv' = conv /\ before' = before
  BY <1>2, CallA
<1>4. IsA(dst, t, PA(dst)) /\ IsA(lhs, t, PA(lhs)) BY TriplesA DEF TripleA
<1>5. v \in Int BY LiteralInt
<1>6. A!AddImmediate(v)
  <2>1. Addable(0 - v) BY <1>2, NoneKnownA DEF Displaced
  <2>. QED BY <1>5, <2>1 DEF Addable, A!AddImmediate
<1> HIDE DEF dst, lhs
<1>7. UsableA(dst) /\ dst.rsize = t.size /\ ~is_addr(dst.dtype) BY <1>4 DEF IsA, TypedA
<1>8. TypedA(lhs) /\ lhs.rsize = t.size /\ Held(before, lhs) = ExtA(before, lhs) BY <1>4, HeldTypedA
<1>9. Yields(R, before, code, {}, PA(dst), dst.rsize, x)
  <2>1. Yields(R, before, code, {}, PA(dst), dst.rsize, ExtA(before, lhs) - v) BY <1>5, <1>6, <1>7, <1>8, RestedFactsA, SubA
  <2>. QED BY <1>8, <2>1
<1>10. {} \subseteq TempsA OBVIOUS
<1> HIDE DEF x, code
<1>. QED BY <1>3, <1>9, <1>10, SimpleA

\* A call of emit_add_reg does what it is for.
LEMMA AddRegClosesA == ASSUME Arm, Rested, AddReg PROVE Closed'
<1>1. PICK l \in Scalars, r \in Scalars : \E triple \in Triples(Wider(l, r), l, r) :
       LET dst == triple[1]   lhs == triple[2]   rhs == triple[3]
       IN  Call(Gives(dst, Held(before, lhs) + Held(before, rhs), {}),
                   L!emit_add_reg(dst, lhs, rhs), B!emit_add_reg(dst, lhs, rhs),
                   A!emit_add_reg(dst, lhs, rhs), W!emit_add_reg(dst, lhs, rhs))
  BY DEF AddReg
<1>2. PICK triple \in Triples(Wider(l, r), l, r) :
       LET dst == triple[1]   lhs == triple[2]   rhs == triple[3]
       IN  Call(Gives(dst, Held(before, lhs) + Held(before, rhs), {}),
                   L!emit_add_reg(dst, lhs, rhs), B!emit_add_reg(dst, lhs, rhs),
                   A!emit_add_reg(dst, lhs, rhs), W!emit_add_reg(dst, lhs, rhs))
  BY <1>1
<1> DEFINE dst == triple[1]   lhs == triple[2]   rhs == triple[3]   x == Held(before, lhs) + Held(before, rhs)
           code == A!emit_add_reg(dst, lhs, rhs)   wide == Wider(l, r)
<1>3. meant' = Gives(dst, x, {}) /\ listed' = Run(before, code) /\ conv' = conv /\ before' = before
  BY <1>2, CallA
<1>4. wide \in Scalars /\ wide.size = (IF l.size > r.size THEN l.size ELSE r.size) BY WiderA
<1>5. IsA(dst, wide, PA(dst)) /\ IsA(lhs, l, PA(lhs)) /\ IsA(rhs, r, PA(rhs)) /\ PA(rhs) # 16
  <2>1. TripleA(triple, wide, l, r) BY <1>4, TriplesA
  <2>. QED BY <2>1 DEF TripleA
<1> HIDE DEF dst, lhs, rhs, wide
<1>7. UsableA(dst) /\ dst.rsize = wide.size BY <1>5 DEF IsA, TypedA
<1>8. /\ TypedA(lhs) /\ lhs.rsize = l.size /\ Held(before, lhs) = ExtA(before, lhs)
      /\ TypedA(rhs) /\ rhs.rsize = r.size /\ Held(before, rhs) = ExtA(before, rhs)
  BY <1>5, HeldTypedA
<1>9. dst.rsize = (IF lhs.rsize > rhs.rsize THEN lhs.rsize ELSE rhs.rsize) BY <1>4, <1>7, <1>8
<1>10. Yields(R, before, code, {}, PA(dst), dst.rsize, x)
  <2>1. Yields(R, before, code, {}, PA(dst), dst.rsize, ExtA(before, lhs) + ExtA(before, rhs))
    BY <1>5, <1>7, <1>8, <1>9, RestedFactsA, AddRegA
  <2>. QED BY <1>8, <2>1
<1>11. {} \subseteq TempsA BY DEF TempsA
<1> HIDE DEF x, code
<1>. QED BY <1>3, <1>10, <1>11, SimpleA

\* A call of emit_sub_reg does what it is for.
LEMMA SubRegClosesA == ASSUME Arm, Rested, SubReg PROVE Closed'
<1>1. PICK l \in Scalars, r \in Scalars : \E triple \in Triples(Wider(l, r), l, r) :
       LET dst == triple[1]   lhs == triple[2]   rhs == triple[3]
       IN  Call(Gives(dst, Held(before, lhs) - Held(before, rhs), {}),
                   L!emit_sub_reg(dst, lhs, rhs), B!emit_sub_reg(dst, lhs, rhs),
                   A!emit_sub_reg(dst, lhs, rhs), W!emit_sub_reg(dst, lhs, rhs))
  BY DEF SubReg
<1>2. PICK triple \in Triples(Wider(l, r), l, r) :
       LET dst == triple[1]   lhs == triple[2]   rhs == triple[3]
       IN  Call(Gives(dst, Held(before, lhs) - Held(before, rhs), {}),
                   L!emit_sub_reg(dst, lhs, rhs), B!emit_sub_reg(dst, lhs, rhs),
                   A!emit_sub_reg(dst, lhs, rhs), W!emit_sub_reg(dst, lhs, rhs))
  BY <1>1
<1> DEFINE dst == triple[1]   lhs == triple[2]   rhs == triple[3]   x == Held(before, lhs) - Held(before, rhs)
           code == A!emit_sub_reg(dst, lhs, rhs)   wide == Wider(l, r)
<1>3. meant' = Gives(dst, x, {}) /\ listed' = Run(before, code) /\ conv' = conv /\ before' = before
  BY <1>2, CallA
<1>4. wide \in Scalars /\ wide.size = (IF l.size > r.size THEN l.size ELSE r.size) BY WiderA
<1>5. IsA(dst, wide, PA(dst)) /\ IsA(lhs, l, PA(lhs)) /\ IsA(rhs, r, PA(rhs)) /\ PA(rhs) # 16
  <2>1. TripleA(triple, wide, l, r) BY <1>4, TriplesA
  <2>. QED BY <2>1 DEF TripleA
<1> HIDE DEF dst, lhs, rhs, wide
<1>7. UsableA(dst) /\ dst.rsize = wide.size BY <1>5 DEF IsA, TypedA
<1>8. /\ TypedA(lhs) /\ lhs.rsize = l.size /\ Held(before, lhs) = ExtA(before, lhs)
      /\ TypedA(rhs) /\ rhs.rsize = r.size /\ Held(before, rhs) = ExtA(before, rhs)
  BY <1>5, HeldTypedA
<1>9. dst.rsize = (IF lhs.rsize > rhs.rsize THEN lhs.rsize ELSE rhs.rsize) BY <1>4, <1>7, <1>8
<1>10. Yields(R, before, code, {16}, PA(dst), dst.rsize, x)
  <2>1. Yields(R, before, code, {16}, PA(dst), dst.rsize, ExtA(before, lhs) - ExtA(before, rhs))
    BY <1>5, <1>7, <1>8, <1>9, RestedFactsA, SubRegA
  <2>. QED BY <1>8, <2>1
<1>11. {16} \subseteq TempsA BY DEF TempsA
<1> HIDE DEF x, code
<1>. QED BY <1>3, <1>10, <1>11, SimpleA

\* A call of emit_lsl does what it is for.
LEMMA LslClosesA == ASSUME Arm, Rested, Lsl PROVE Closed'
<1>1. PICK t \in Scalars : \E triple \in Triples(t, t, t), v \in 0 .. 5 :
       LET dst == triple[1]   lhs == triple[2]
       IN  Call(Gives(dst, Held(before, lhs) * TwoTo[v], {}), L!emit_lsl(dst, lhs, v), B!emit_lsl(dst, lhs, v),
                   A!emit_lsl(dst, lhs, v), W!emit_lsl(dst, lhs, v))
  BY DEF Lsl
<1>2. PICK triple \in Triples(t, t, t), v \in 0 .. 5 :
       LET dst == triple[1]   lhs == triple[2]
       IN  Call(Gives(dst, Held(before, lhs) * TwoTo[v], {}), L!emit_lsl(dst, lhs, v), B!emit_lsl(dst, lhs, v),
                   A!emit_lsl(dst, lhs, v), W!emit_lsl(dst, lhs, v))
  BY <1>1
<1> DEFINE dst == triple[1]   lhs == triple[2]   x == Held(before, lhs) * TwoTo[v]   code == A!emit_lsl(dst, lhs, v)
<1>3. meant' = Gives(dst, x, {}) /\ listed' = Run(before, code) /\ conv' = conv /\ before' = before
  BY <1>2, CallA
<1>4. IsA(dst, t, PA(dst)) /\ IsA(lhs, t, PA(lhs)) BY TriplesA DEF TripleA
<1> HIDE DEF dst, lhs
<1>7. UsableA(dst) /\ dst.rsize = t.size BY <1>4 DEF IsA, TypedA
<1>8. TypedA(lhs) /\ lhs.rsize = t.size /\ Held(before, lhs) = ExtA(before, lhs) BY <1>4, HeldTypedA
<1>9. Yields(R, before, code, {}, PA(dst), dst.rsize, x)
  <2>1. Yields(R, before, code, {}, PA(dst), dst.rsize, ExtA(before, lhs) * TwoTo[v]) BY <1>7, <1>8, RestedFactsA, LslA
  <2>. QED BY <1>8, <2>1
<1>10. {} \subseteq TempsA OBVIOUS
<1> HIDE DEF x, code
<1>. QED BY <1>3, <1>9, <1>10, SimpleA

\* A comparison that spares the variables is closed.
LEMMA DecidesA ==
  ASSUME Arm, Rested, conv' = conv, before' = before, NEW code, listed' = Run(before, code),
         NEW conds, NEW x, NEW y, meant' = Decides(conds, x, y), NEW V, V \subseteq TempsA,
         Compared(R, before, code, V, conds, x, y)
  PROVE  Closed'
<1>1. conv \in Convs /\ Started BY RestedFactsA
<1>2. Kept \subseteq R /\ V \intersect Kept = {} BY KeptA
<1>. QED BY <1>1, <1>2, DecidesClosed

\* A call of emit_cmp does what it is for.
LEMMA CmpClosesA == ASSUME Beyond = {}, Arm, Rested, Cmp PROVE Closed'
<1>1. PICK t \in Scalars : \E triple \in Triples(t, t, t), v \in Literals(t) :
       LET lhs == triple[2]
           y   == IF t.sign THEN v ELSE Unsigned(v, t.size)
       IN  /\ Loadable(lhs) /\ ComparesTo(t, v)
           /\ Call(Decides(Equalities \union Orders(t.sign), Held(before, lhs), y),
                   L!emit_cmp(lhs, v), B!emit_cmp(lhs, v),
                   A!emit_cmp(lhs, v), W!emit_cmp(lhs, v))
  BY DEF Cmp
<1>2. PICK triple \in Triples(t, t, t), v \in Literals(t) :
       LET lhs == triple[2]
           y   == IF t.sign THEN v ELSE Unsigned(v, t.size)
       IN  /\ Loadable(lhs) /\ ComparesTo(t, v)
           /\ Call(Decides(Equalities \union Orders(t.sign), Held(before, lhs), y),
                   L!emit_cmp(lhs, v), B!emit_cmp(lhs, v),
                   A!emit_cmp(lhs, v), W!emit_cmp(lhs, v))
  BY <1>1
<1> DEFINE lhs == triple[2]   x == Held(before, lhs)   y == IF t.sign THEN v ELSE Unsigned(v, t.size)
           sign == t.sign   conds == Equalities \union Orders(sign)   code == A!emit_cmp(lhs, v)
<1>3. meant' = Decides(conds, x, y) /\ listed' = Run(before, code) /\ conv' = conv /\ before' = before
  BY <1>2, CallA
<1>4. IsA(lhs, t, PA(lhs)) /\ Loadable(lhs) BY <1>2, TriplesA DEF TripleA
<1>6. v \in Int /\ y = Extend(v, t.size, sign) BY LiteralInt
<1>7. A!AddImmediate(v) BY <1>2, NoneKnownA DEF ComparesTo, Addable
<1>s. sign = TRUE \/ sign = FALSE BY ScalarA
<1>8. t.size = 8 \/ v = Extend(v, t.size, sign)
  <2>1. t.size \in Sizes /\ t.size \in 0 .. 15 BY ScalarA DEF Sizes
  <2>2. PICK u \in Samples : v = (IF t.sign \/ t.size = 8 THEN Signed(u, t.size) ELSE Unsigned(u, t.size)) BY DEF Literals
  <2>3. u \in Int BY BackendsAssumption, ValuesPositive
  <2>4. CASE sign
    <3>1. y = v BY <2>4
    <3>. QED BY <1>6, <3>1
  <2>5. CASE ~sign /\ t.size # 8
    <3>1. v = Unsigned(u, t.size) BY <2>2, <2>5
    <3>2. v \in 0 .. Values(t.size) - 1 BY <2>1, <2>3, <3>1, UnsignedRange
    <3>3. Unsigned(v, t.size) = v BY <2>1, <3>2, UnsignedSmall
    <3>. QED BY <2>5, <3>3 DEF Extend
  <2>. QED BY <1>s, <2>4, <2>5
<1> HIDE DEF lhs, y
<1>9. LoadedA(before, lhs) /\ lhs.rsize = t.size /\ lhs.dtype.base.sign = sign /\ x = ExtA(before, lhs) BY <1>4, HeldTypedA
<1>10. Compared(R, before, code, {}, conds, x, y)
  <2>1. y = Extend(v, lhs.rsize, sign) /\ (lhs.rsize = 8 \/ v = Extend(v, lhs.rsize, sign)) BY <1>6, <1>8, <1>9
  <2> HIDE DEF x, sign
  <2>. QED BY <1>6, <1>7, <1>9, <2>1, RestedFactsA, CmpA
<1>11. {} \subseteq TempsA OBVIOUS
<1> HIDE DEF x, conds, code
<1>. QED BY <1>3, <1>10, <1>11, DecidesA

\* A call of emit_cmp_reg does what it is for.
LEMMA CmpRegClosesA == ASSUME Beyond = {}, Arm, Rested, CmpReg PROVE Closed'
<1>1. PICK l \in Scalars, r \in Scalars, conds \in {Equalities, Orders(TRUE), Orders(FALSE)} :
       \E triple \in Triples(l, l, r) :
       LET lhs == triple[2]   rhs == triple[3]
           cond == CHOOSE c \in conds : TRUE
       IN  /\ Mixed(l, r) /\ Loadable(lhs) /\ Loadable(rhs) /\ Chained(lhs, l, r)
           /\ conds \in {Equalities, Orders(l.sign)} /\ Compares(cond, l, r)
           /\ Call(Decides(conds, Held(before, lhs), Held(before, rhs)),
                   L!emit_cmp_reg(lhs, rhs, cond), B!emit_cmp_reg(lhs, rhs, cond),
                   A!emit_cmp_reg(lhs, rhs, cond), W!emit_cmp_reg(lhs, rhs, cond))
  BY Zenon DEF CmpReg
<1>2. PICK triple \in Triples(l, l, r) :
       LET lhs == triple[2]   rhs == triple[3]
           cond == CHOOSE c \in conds : TRUE
       IN  /\ Mixed(l, r) /\ Loadable(lhs) /\ Loadable(rhs) /\ Chained(lhs, l, r)
           /\ conds \in {Equalities, Orders(l.sign)} /\ Compares(cond, l, r)
           /\ Call(Decides(conds, Held(before, lhs), Held(before, rhs)),
                   L!emit_cmp_reg(lhs, rhs, cond), B!emit_cmp_reg(lhs, rhs, cond),
                   A!emit_cmp_reg(lhs, rhs, cond), W!emit_cmp_reg(lhs, rhs, cond))
  BY <1>1
<1> DEFINE lhs == triple[2]   rhs == triple[3]   cond == CHOOSE c \in conds : TRUE
           x == Held(before, lhs)   y == Held(before, rhs)   code == A!emit_cmp_reg(lhs, rhs, cond)
<1>3. meant' = Decides(conds, x, y) /\ listed' = Run(before, code) /\ conv' = conv /\ before' = before
  BY <1>2, CallA
<1>5. IsA(lhs, l, PA(lhs)) /\ IsA(rhs, r, PA(rhs)) /\ PA(rhs) # 16 /\ Loadable(lhs) /\ Loadable(rhs)
  BY <1>2, TriplesA DEF TripleA
<1>6. conds \subseteq Equalities \union Orders(l.sign) /\ cond \in conds
  <2>1. conds # {} BY <1>2 DEF Equalities, Orders
  <2>2. cond \in conds BY <2>1
  <2>. QED BY <1>2, <2>2
<1>7. /\ l.size = r.size => l.sign = r.sign
      /\ l.size > r.size => (l.sign = r.sign \/ l.sign)
      /\ l.size < r.size => cond \notin Equalities /\ l.sign = r.sign
  <2>1. l.size \in Int /\ r.size \in Int BY ScalarA DEF Sizes
  <2>3. l.size < r.size => cond \notin Equalities BY <1>2, <2>1, NoneKnownA DEF Compares
  <2>4. cond \notin Equalities => (l.sign \/ ~r.sign) BY <1>2, NoneKnownA DEF Compares
  <2>5. l.sign = r.sign \/ (IF l.sign THEN l.size ELSE r.size) > (IF l.sign THEN r.size ELSE l.size) BY <1>2 DEF Mixed
  <2>6. l.sign \in BOOLEAN /\ r.sign \in BOOLEAN BY ScalarA
  <2> HIDE DEF lhs, cond
  <2>7. CASE l.size = r.size BY <2>1, <2>5, <2>7
  <2>8. CASE l.size > r.size BY <2>1, <2>5, <2>6, <2>8
  <2>9. CASE l.size < r.size BY <2>1, <2>3, <2>4, <2>5, <2>6, <2>9
  <2>. QED BY <2>1, <2>7, <2>8, <2>9
<1> HIDE DEF lhs, rhs, cond
<1>9. /\ LoadedA(before, lhs) /\ lhs.rsize = l.size /\ x = ExtA(before, lhs) /\ lhs.dtype.base.sign = l.sign
      /\ LoadedA(before, rhs) /\ rhs.rsize = r.size /\ y = ExtA(before, rhs) /\ rhs.dtype.base.sign = r.sign
  BY <1>5, HeldTypedA
<1>10. Compared(R, before, code, {16}, conds, x, y)
  <2> DEFINE ls == l.sign   rs == r.sign
  <2>1. lhs.dtype.base.sign = ls /\ rhs.dtype.base.sign = rs BY <1>9
  <2>2. conds \subseteq Equalities \union Orders(ls) BY <1>6
  <2>3. lhs.rsize = rhs.rsize => ls = rs BY <1>7, <1>9
  <2>4. lhs.rsize > rhs.rsize => ls = rs \/ ls BY <1>7, <1>9
  <2>5. lhs.rsize < rhs.rsize => ls = rs /\ cond \notin Equalities BY <1>7, <1>9
  <2> HIDE DEF ls, rs, x, y
  <2>6. Compared(R, before, code, {16}, conds, ExtA(before, lhs), ExtA(before, rhs))
    BY <1>5, <1>6, <1>9, <2>1, <2>2, <2>3, <2>4, <2>5, RestedFactsA, CmpRegA
  <2>. QED BY <1>9, <2>6
<1>11. {16} \subseteq TempsA BY DEF TempsA
<1> HIDE DEF x, y, code
<1>. QED BY <1>3, <1>10, <1>11, DecidesA

\* A call of emit_cond_set does what it is for: it reads what was decided.
LEMMA CondSetClosesA == ASSUME Arm, Started, Closed, CondSet PROVE Closed'
<1>1. meant.truth # << >> BY DEF CondSet
<1>2. PICK t \in {Fund(4, TRUE), Fund(8, FALSE), Fund(1, TRUE)}, cond \in DOMAIN meant.truth :
       LET dst == Argument(t)
       IN  Call(Gives(dst, IF meant.truth[cond] THEN 1 ELSE 0, {}),
                L!emit_cond_set(dst, cond), B!emit_cond_set(dst, cond),
                A!emit_cond_set(dst, cond), W!emit_cond_set(dst, cond))
  BY DEF CondSet
<1> DEFINE dst == Argument(t)   v == IF meant.truth[cond] THEN 1 ELSE 0   code == A!emit_cond_set(dst, cond)   m == Run(listed, code)
<1>3. meant' = Gives(dst, v, {}) /\ listed' = m /\ conv' = conv /\ before' = before
  BY <1>2 DEF Call
<1>4. Decided(listed) BY <1>1 DEF Closed
<1>5. v = IF Holds(cond, listed.flags) THEN 1 ELSE 0
  <2>1. Called BY <1>1 DEF Called, Nothing
  <2>. QED BY <2>1 DEF Closed, DoesWhatItIsFor
<1>6. UsableA(dst) /\ Place(dst) = PA(dst)
  <2> DEFINE four == 4   eight == 8   one == 1   yes == TRUE   no == FALSE
  <2>a. \A n \in {1, 2, 4, 8} : \A s \in BOOLEAN : Fund(n, s) \in Scalars BY DEF Scalars
  <2>b. four \in {1, 2, 4, 8} /\ eight \in {1, 2, 4, 8} /\ one \in {1, 2, 4, 8} /\ yes \in BOOLEAN /\ no \in BOOLEAN OBVIOUS
  <2>c. t \in {Fund(four, yes), Fund(eight, no), Fund(one, yes)} OBVIOUS
  <2> HIDE DEF four, eight, one, yes, no
  <2>1. t \in Scalars BY <2>a, <2>b, <2>c
  <2>. QED BY <2>1, KindsA DEF IsA, TypedA
<1>7. listed \in Machines(R) /\ ~listed.left /\ listed.mem = before.mem /\ \A r \in Kept : listed.reg[r] = before.reg[r]
  BY <1>4 DEF Decided
<1> HIDE DEF v, dst
<1>8. Yields(R, listed, code, {}, PA(dst), dst.rsize, v) BY <1>5, <1>6, <1>7, CondSetA
<1> HIDE DEF code
<1>9. Prepares(R, listed, code, {PA(dst)}) /\ Agree(m.reg[PA(dst)], v, dst.rsize)
  <2>1. {} \union {PA(dst)} = {PA(dst)} OBVIOUS
  <2>. QED BY <1>8, <2>1 DEF Yields
<1>10. m.mem = listed.mem /\ \A r \in R \ {PA(dst)} : m.reg[r] = listed.reg[r] BY <1>7, <1>9, After
<1>11. Spared(m, AllOf({dst} \union {}))
  <2>1. Kept \subseteq R BY KeptA
  <2>2. PA(dst) \in AllOf({dst} \union {}) BY <1>6 DEF AllOf
  <2>. QED BY <1>7, <1>10, <2>1, <2>2 DEF Spared
<1> HIDE DEF m
<1>. QED BY <1>3, <1>6, <1>7, <1>9, <1>10, <1>11, GivesDone DEF m

-----------------------------------------------------------------------------
(* The calls on aarch64: memory.                                          *)

\* Where the places of the parser are.
PlacedA(base, r, at, place) == IsReg(r) /\ r.dtype.base = base /\ PA(r) = place /\ place \in R /\ before.reg[place] = at

\* The frame pointer as a place.
LEMMA FrameA ==
  ASSUME Arm, Rested, NEW base
  PROVE  PlacedA(base, [FP EXCEPT !.dtype.base = base], 24, 29) /\ PlacedA(NoBase, FP, 24, 29)
<1> DEFINE dtype == [Plain(NoBase) EXCEPT !.base = base]
<1>1. dtype.base = base /\ Plain(NoBase).base = NoBase BY DEF Plain
<1>2. [FP EXCEPT !.dtype.base = base] = Reg("FRAME", 0, 8, dtype) BY DEF FP, Reg
<1> HIDE DEF dtype
<1>3. \A d : IsReg(Reg("FRAME", 0, 8, d)) /\ Reg("FRAME", 0, 8, d).dtype = d BY DEF IsReg, Reg
<1>4. \A d : PA(Reg("FRAME", 0, 8, d)) = 29 BY PlacesA
<1>5. 29 \in R /\ before.reg[29] = 24 BY RegistersA, RestedFactsA
<1>6. PlacedA(base, Reg("FRAME", 0, 8, dtype), 24, 29) BY <1>1, <1>3, <1>4, <1>5 DEF PlacedA
<1>7. FP = Reg("FRAME", 0, 8, Plain(NoBase)) BY DEF FP
<1>8. PlacedA(NoBase, FP, 24, 29) BY <1>1, <1>3, <1>4, <1>5, <1>7 DEF PlacedA
<1>. QED BY <1>2, <1>6, <1>8

\* A pointer as a place.
LEMMA PointerA ==
  ASSUME Arm, Rested, Pointing, NEW base
  PROVE  PlacedA(base, Pointer(base), 8, 20)
<1> DEFINE dtype == [Plain(Fund(8, FALSE)) EXCEPT !.base = base]   n == Fund(8, FALSE).size
<1>1. dtype.base = base BY DEF Plain
<1>2. Pointer(base) = Reg("NREG", 1, n, dtype)
  <2> DEFINE old == Plain(Fund(8, FALSE))
  <2>1. Var(1, Fund(8, FALSE)) = Reg("NREG", 1, n, old) BY DEF Var
  <2>2. dtype = [old EXCEPT !.base = base] OBVIOUS
  <2> HIDE DEF old, n, dtype
  <2>3. [Reg("NREG", 1, n, old) EXCEPT !.dtype.base = base] = Reg("NREG", 1, n, dtype) BY <2>2 DEF Reg
  <2>. QED BY <2>1, <2>3 DEF Pointer
<1> HIDE DEF dtype, n
<1>3. IsReg(Reg("NREG", 1, n, dtype)) /\ Reg("NREG", 1, n, dtype).dtype = dtype BY RegIs
<1>4. 1 + 19 = 20 /\ 20 \in R BY RegistersA
<1>5. PA(Reg("NREG", 1, n, dtype)) = 1 + 19 BY PlacesA
<1>6. before.reg[20] = 8 BY ClassA DEF Pointing, ObjectAt
<1>. QED BY <1>1, <1>2, <1>3, <1>4, <1>5, <1>6 DEF PlacedA

\* A spot of the parser: a register and a distance, which name a place in memory.
SpotIsA(place, t) ==
  /\ IsReg(place[1]) /\ place[1].dtype.base = t /\ PA(place[1]) \in R /\ PA(place[1]) # 16 /\ place[2] \in 0 - 256 .. 255
  /\ Spot(place) \in Place8 /\ before.reg[PA(place[1])] + place[2] = Spot(place)
  /\ Spot(place) + 8 <= Memory

\* The places calls store at and load from.
LEMMA SpotsA ==
  ASSUME Arm, Rested, NEW t, NEW place \in Spots(t) PROVE SpotIsA(place, t)
<1>1. 32 <= Memory /\ Memory \in Nat BY ConventionsAssumption, MachineAssumption
<1>2. \A r : Place(r) = PA(r) BY PlacesA
<1>3. CASE \E off \in {1, 4, 8, 12} : place = <<[FP EXCEPT !.dtype.base = t], 0 - off>>
  <2> PICK off \in {1, 4, 8, 12} : place = <<[FP EXCEPT !.dtype.base = t], 0 - off>> BY <1>3
  <2> DEFINE r == [FP EXCEPT !.dtype.base = t]   x == 0 - off
  <2>1. PlacedA(t, r, 24, 29) BY FrameA
  <2>3. place = <<r, x>> /\ x \in Int /\ x \in -12 .. -1 OBVIOUS
  <2> HIDE DEF r, x
  <2>4. place[1] = r /\ place[2] = x BY <2>3
  <2>5. Spot(place) = 24 + x BY <1>2, <2>1, <2>4 DEF Spot, PlacedA
  <2>. QED BY <1>1, <2>1, <2>3, <2>4, <2>5 DEF SpotIsA, PlacedA, Place8
<1>4. CASE Pointing /\ \E off \in {0, 4} : place = <<Pointer(t), off>>
  <2> PICK off \in {0, 4} : place = <<Pointer(t), off>> BY <1>4
  <2> DEFINE r == Pointer(t)
  <2>1. PlacedA(t, r, 8, 20) BY <1>4, PointerA
  <2> HIDE DEF r
  <2>4. place[1] = r /\ place[2] = off BY DEF r
  <2>5. Spot(place) = 8 + off BY <1>2, <2>1, <2>4 DEF Spot, PlacedA
  <2>. QED BY <1>1, <2>1, <2>4, <2>5 DEF SpotIsA, PlacedA, Place8
<1>. QED BY <1>3, <1>4 DEF Spots

\* A call that leaves a memory and spares the variables is closed.
LEMMA StoresA ==
  ASSUME Arm, Rested, conv' = conv, before' = before, NEW code, listed' = Run(before, code), NEW V, V \subseteq TempsA,
         NEW mem \in Mem, Leaves(R, before, code, V, mem), meant' = Puts(mem, {})
  PROVE  Closed'
<1>1. conv \in Convs /\ Kept \subseteq R /\ Started BY RestedFactsA, KeptA
<1>2. V \intersect Kept \subseteq AllOf({}) BY KeptA
<1>. QED BY <1>1, <1>2, PutsClosed

\* A memory something is stored in is a memory.
LEMMA StoredMemA ==
  ASSUME Arm, Rested, NEW at \in Int, NEW n \in 0 .. 16, NEW v \in Int PROVE Stored(at, n, v) \in Mem
BY RestedFactsA, WrittenMem DEF Stored

\* A constant is stored as its bytes.
LEMMA StoredConstantA ==
  ASSUME Arm, Rested, NEW at \in Int, NEW n \in Sizes, NEW v \in Int
  PROVE  Written(before.mem, at, n, v) = Stored(at, n, Unsigned(v, n)) /\ Stored(at, n, Unsigned(v, n)) \in Mem
<1>1. n \in 0 .. 15 /\ n \in 0 .. 16 BY DEF Sizes
<1>2. Unsigned(v, n) \in Int /\ Agree(Unsigned(v, n), v, n) BY <1>1, UnsignedRange, AgreeUnsigned
<1>3. DOMAIN before.mem \subseteq Int BY RestedFactsA, MemDomain
<1> DEFINE u == Unsigned(v, n)   mem == before.mem
<1>4. u \in Int /\ Agree(u, v, n) /\ DOMAIN mem \subseteq Int BY <1>2, <1>3
<1> HIDE DEF u, mem
<1>5. Written(mem, at, n, u) = Written(mem, at, n, v) BY <1>1, <1>4, WrittenAgree
<1>6. Stored(at, n, u) \in Mem BY <1>1, <1>4, StoredMemA
<1>. QED BY <1>5, <1>6 DEF Stored, u, mem

\* What a load reads is a number.
LEMMA BytesValueA ==
  ASSUME Arm, Rested, NEW at \in Place8, NEW n \in Sizes, at + n <= Memory
  PROVE  Bytes(before, at, n) = BytesIn(before.mem, at, n) /\ Bytes(before, at, n) \in Int
<1>1. n \in Nat /\ at \in Nat BY DEF Sizes, Place8
<1>2. before.mem \in Mem BY RestedFactsA
<1>. QED BY <1>1, <1>2, BytesOf, BytesInt DEF Mem

\* Registers a call stores from, and its destinations.
FromA(src, t) ==
  /\ UsableA(src) /\ src.rsize = t.size /\ ~is_addr(src.dtype) /\ Place(src) = PA(src) /\ PA(src) \in {8, 19, 21}

\* Where a store comes from.
LEMMA FromIsA ==
  ASSUME Arm, NEW t \in Scalars, NEW src \in {Var(0, t), Acc(t), Var(2, t)} PROVE FromA(src, t)
<1>1. 0 \in 0 .. 3 /\ 2 \in 0 .. 3 /\ 0 + 19 = 19 /\ 2 + 19 = 21 OBVIOUS
<1>2. IsA(Var(0, t), t, 19) /\ IsA(Var(2, t), t, 21) /\ IsA(Acc(t), t, 8) BY <1>1, KindsA
<1>. QED BY <1>2 DEF IsA, TypedA, FromA
BitsA(r, n) == Bits(before, r) = Unsigned(before.reg[PA(r)], n) /\ Bits(before, r) \in Int

\* The bytes of a register that are stored.
LEMMA BitsIsA ==
  ASSUME Arm, Rested, NEW r, UsableA(r), Place(r) = PA(r) PROVE BitsA(r, r.rsize)
<1>1. before.reg[PA(r)] \in Int BY RestedFactsA, FactsA
<1>2. r.rsize \in 0 .. 15 BY DEF UsableA, Sizes
<1>3. Unsigned(before.reg[PA(r)], r.rsize) \in Int BY <1>1, <1>2, UnsignedRange
<1>. QED BY <1>3 DEF Bits, BitsA
ToA(dst, t) ==
  /\ UsableA(dst) /\ dst.rsize = t.size /\ ~is_addr(dst.dtype) /\ dst.dtype.base.sign \in BOOLEAN
  /\ Place(dst) = PA(dst) /\ PA(dst) \in {22, 8, 1}

\* Where a load goes.
LEMMA ToIsA == ASSUME Arm, NEW t \in Scalars, NEW dst \in To(t) PROVE ToA(dst, t)
<1>1. 3 \in 0 .. 3 /\ 3 + 19 = 22 OBVIOUS
<1>2. IsA(Var(3, t), t, 22) /\ IsA(Argument(t), t, 1) /\ IsA(Acc(t), t, 8) BY <1>1, KindsA
<1>3. t.sign \in BOOLEAN BY ScalarA
<1>. QED BY <1>2, <1>3 DEF IsA, TypedA, ToA, To

\* A call of emit_str_reg does what it is for.
LEMMA StrRegClosesA == ASSUME Arm, Rested, StrReg PROVE Closed'
<1>1. PICK t \in Scalars : \E place \in Spots(t), src \in From(t) :
       Call(Puts(Stored(Spot(place), t.size, Bits(before, src)), {}),
            L!emit_str_reg(place[1], src, place[2]), B!emit_str_reg(place[1], src, place[2]),
            A!emit_str_reg(place[1], src, place[2]), W!emit_str_reg(place[1], src, place[2]))
  BY Zenon DEF StrReg
<1>2. PICK place \in Spots(t), src \in From(t) :
       Call(Puts(Stored(Spot(place), t.size, Bits(before, src)), {}),
            L!emit_str_reg(place[1], src, place[2]), B!emit_str_reg(place[1], src, place[2]),
            A!emit_str_reg(place[1], src, place[2]), W!emit_str_reg(place[1], src, place[2]))
  BY <1>1
<1> DEFINE base == place[1]   off == place[2]   at == Spot(place)   v == Bits(before, src)   n == t.size
           code == A!emit_str_reg(base, src, off)
<1>3. meant' = Puts(Stored(at, n, v), {}) /\ listed' = Run(before, code) /\ conv' = conv /\ before' = before
  BY <1>2, CallA
<1>4. PA(base) \in R /\ off \in 0 - 256 .. 255 /\ at \in Place8 /\ before.reg[PA(base)] + off = at /\ at + 8 <= Memory
  BY SpotsA DEF SpotIsA
<1>5. n \in Sizes BY ScalarA
<1>6. UsableA(src) /\ src.rsize = n /\ ~is_addr(src.dtype) /\ Place(src) = PA(src) BY FromIsA DEF From, FromA
<1>7. v = Unsigned(before.reg[PA(src)], n) /\ v \in Int BY <1>6, BitsIsA DEF BitsA
<1> HIDE DEF at, v
<1>8. n \in 0 .. 16 /\ at \in Int /\ at + n <= Memory BY <1>4, <1>5, MachineAssumption DEF Sizes, Place8
<1>10. Leaves(R, before, code, {}, Stored(at, n, v))
  <2> HIDE DEF base, off, n
  <2>. QED BY <1>4, <1>6, <1>7, <1>8, RestedFactsA, StrRegA DEF Stored
<1>11. Stored(at, n, v) \in Mem
  <2> HIDE DEF n
  <2>. QED BY <1>7, <1>8, StoredMemA
<1>12. {} \subseteq TempsA OBVIOUS
<1> HIDE DEF code, n
<1>. QED BY <1>3, <1>10, <1>11, <1>12, StoresA

\* A constant that can be moved is one instruction's.
LEMMA MovableA ==
  ASSUME Beyond = {}, Arm, NEW t \in Scalars, NEW v, Movable(t, v) PROVE A!MovImmediate(v, Wx(t.size))
<1>1. A!get_wx(t.size) = Wx(t.size) BY ScalarA, WxFacts
<1>. QED BY <1>1, NoneKnownA DEF Movable

\* A call of emit_str_imm does what it is for.
LEMMA StrImmClosesA == ASSUME Beyond = {}, Arm, Rested, StrImm PROVE Closed'
<1>1. PICK t \in Scalars : \E place \in Spots(t), v \in Literals(t) :
       /\ Movable(t, v) /\ (Arm /\ v = 0 /\ t.size < 8 => Known("zero"))
       /\ Call(Puts(Stored(Spot(place), t.size, Unsigned(v, t.size)), {}),
            L!emit_str_imm(place[1], v, place[2]), B!emit_str_imm(place[1], v, place[2]),
            A!emit_str_imm(place[1], v, place[2]), W!emit_str_imm(place[1], v, place[2]))
  BY Zenon DEF StrImm
<1>2. PICK place \in Spots(t), v \in Literals(t) :
       /\ Movable(t, v)
       /\ Call(Puts(Stored(Spot(place), t.size, Unsigned(v, t.size)), {}),
            L!emit_str_imm(place[1], v, place[2]), B!emit_str_imm(place[1], v, place[2]),
            A!emit_str_imm(place[1], v, place[2]), W!emit_str_imm(place[1], v, place[2]))
  BY <1>1
<1> DEFINE base == place[1]   off == place[2]   at == Spot(place)   n == t.size   mem == Stored(at, n, Unsigned(v, n))
           code == A!emit_str_imm(base, v, off)
<1>3. meant' = Puts(mem, {}) /\ listed' = Run(before, code) /\ conv' = conv /\ before' = before
  BY <1>2, CallA
<1>4. PA(base) \in R /\ PA(base) # 16 /\ off \in 0 - 256 .. 255 /\ at \in Place8 /\ before.reg[PA(base)] + off = at /\ at + 8 <= Memory
      /\ base.dtype.base = t
  BY SpotsA DEF SpotIsA
<1>5. n \in Sizes /\ t # Comptime BY ScalarA
<1>6. v \in Int BY LiteralInt
<1>7. A!MovImmediate(v, Wx(n)) BY <1>2, MovableA
<1>9. base.dtype.base.size = n /\ base.dtype.base # Comptime BY <1>4, <1>5
<1> HIDE DEF at, base, off
<1>8. at \in Int /\ at + n <= Memory BY <1>4, <1>5, MachineAssumption DEF Sizes, Place8
<1> HIDE DEF n
<1>10. Leaves(R, before, code, {16}, Written(before.mem, at, n, v))
  BY <1>4, <1>5, <1>6, <1>7, <1>8, <1>9, RestedFactsA, StrImmA
<1>11. Written(before.mem, at, n, v) = mem /\ mem \in Mem BY <1>5, <1>6, <1>8, StoredConstantA
<1>12. {16} \subseteq TempsA BY DEF TempsA
<1> HIDE DEF code, mem
<1>. QED BY <1>3, <1>10, <1>11, <1>12, StoresA

\* A call of emit_ldr does what it is for.
LEMMA LdrClosesA == ASSUME Arm, Rested, Ldr PROVE Closed'
<1>1. PICK t \in Scalars : \E place \in Spots(t), dst \in To(t) :
       Call(Gives(dst, Bytes(before, Spot(place), t.size), {}),
            L!emit_ldr(dst, place[1], place[2]), B!emit_ldr(dst, place[1], place[2]),
            A!emit_ldr(dst, place[1], place[2]), W!emit_ldr(dst, place[1], place[2]))
  BY Zenon DEF Ldr
<1>2. PICK place \in Spots(t), dst \in To(t) :
       Call(Gives(dst, Bytes(before, Spot(place), t.size), {}),
            L!emit_ldr(dst, place[1], place[2]), B!emit_ldr(dst, place[1], place[2]),
            A!emit_ldr(dst, place[1], place[2]), W!emit_ldr(dst, place[1], place[2]))
  BY <1>1
<1> DEFINE base == place[1]   off == place[2]   at == Spot(place)   n == t.size   v == Bytes(before, at, n)
           code == A!emit_ldr(dst, base, off)
<1>3. meant' = Gives(dst, v, {}) /\ listed' = Run(before, code) /\ conv' = conv /\ before' = before
  BY <1>2, CallA
<1>4. PA(base) \in R /\ off \in 0 - 256 .. 255 /\ at \in Place8 /\ before.reg[PA(base)] + off = at /\ at + 8 <= Memory
  BY SpotsA DEF SpotIsA
<1>5. n \in Sizes BY ScalarA
<1>6. UsableA(dst) /\ dst.rsize = n /\ ~is_addr(dst.dtype) /\ dst.dtype.base.sign \in BOOLEAN BY ToIsA DEF ToA
<1> HIDE DEF at, base, off
<1>8. at + n <= Memory BY <1>4, <1>5, MachineAssumption DEF Sizes, Place8
<1>9. v = BytesIn(before.mem, at, n) /\ v \in Int BY <1>4, <1>5, <1>8, BytesValueA
<1>10. Yields(R, before, code, {}, PA(dst), dst.rsize, v)
  <2>1. at + dst.rsize <= Memory BY <1>6, <1>8
  <2>2. Yields(R, before, code, {}, PA(dst), dst.rsize, BytesIn(before.mem, at, dst.rsize))
    <3> HIDE DEF n
    <3>. QED BY <1>4, <1>6, <2>1, RestedFactsA, LdrA
  <2>. QED BY <1>6, <1>9, <2>2
<1>11. {} \subseteq TempsA OBVIOUS
<1> HIDE DEF code, v
<1>. QED BY <1>3, <1>10, <1>11, SimpleA

\* A register as an offset, behind a pointer.
ByOffsetIsA(t, at) ==
  /\ PA(Offset) = 19 /\ PA(Pointer(t)) = 20 /\ 19 \in R /\ 20 \in R /\ Pointer(t).dtype.base = t
  /\ before.reg[20] + before.reg[19] = at /\ at = ObjectAt + Held(before, Offset)
  /\ at \in Place8 /\ at + 8 <= Memory

\* An offset in a register reaches the object.
LEMMA ByOffsetA ==
  ASSUME Arm, Rested, ByOffset, NEW t
  PROVE  ByOffsetIsA(t, ObjectAt + Held(before, Offset))
<1> DEFINE b == Fund(8, FALSE)   o == Offset   x == before.reg[PA(o)]
<1>1. b.size = 8 /\ b.sign = FALSE /\ 8 \in Sizes /\ 0 \in 0 .. 3 /\ 8 \in 0 .. 15 /\ 0 + 19 = 19 BY DEF Fund, Sizes
<1>s. b \in Scalars
  <2> DEFINE n == 8   no == FALSE
  <2>1. n \in {1, 2, 4, 8} /\ no \in BOOLEAN OBVIOUS
  <2> HIDE DEF n, no
  <2>2. Fund(n, no) \in Scalars BY <2>1 DEF Scalars
  <2>. QED BY <2>2 DEF n, no
<1> HIDE DEF b
<1>2. IsA(o, b, 19)
  <2>1. IsA(Var(0, b), b, 0 + 19) BY <1>1, <1>s, KindsA
  <2>. QED BY <1>1, <2>1 DEF Offset, b
<1> HIDE DEF o
<1>3. UsableA(o) /\ Held(before, o) = Extend(x, o.rsize, b.sign) /\ o.rsize = 8 /\ PA(o) = 19
  BY <1>1, <1>2, <1>s, HeldTypedA DEF ExtA, IsA
<1>4. x \in 0 .. Values(8) - 1 /\ 19 \in R
  <2>1. x \in 0 .. Values(8) - 1 BY <1>3, RestedFactsA, FactsA
  <2>. QED BY <1>3, <2>1 DEF UsableA
<1>5. Held(before, o) = x BY <1>1, <1>3, <1>4, UnsignedSmall DEF Extend
<1>6. x \in 0 .. 8 BY <1>5 DEF ByOffset, o
<1>7. PlacedA(t, Pointer(t), 8, 20) BY PointerA DEF ByOffset
<1>8. 32 <= Memory /\ Memory \in Nat BY ConventionsAssumption, MachineAssumption
<1>9. before.reg[20] = 8 /\ 20 \in R /\ PA(Pointer(t)) = 20 /\ Pointer(t).dtype.base = t BY <1>7 DEF PlacedA
<1>10. before.reg[19] = x BY <1>3
<1> HIDE DEF x
<1>11. 8 + x \in Place8 /\ (8 + x) + 8 <= Memory BY <1>6, <1>8 DEF Place8
<1>12. ObjectAt + Held(before, o) = 8 + x BY <1>5 DEF ObjectAt
<1>. QED BY <1>3, <1>4, <1>9, <1>10, <1>11, <1>12 DEF ByOffsetIsA, o

\* A call of emit_str_regoff does what it is for.
LEMMA StrRegoffClosesA == ASSUME Arm, Rested, StrRegoff PROVE Closed'
<1>1. PICK t \in Scalars : \E src \in {Var(2, t), Acc(t)} :
       Call(Puts(Stored(ObjectAt + Held(before, Offset), t.size, Bits(before, src)), {}),
            L!emit_str_regoff(Pointer(t), src, Offset), B!emit_str_regoff(Pointer(t), src, Offset),
            A!emit_str_regoff(Pointer(t), src, Offset), W!emit_str_regoff(Pointer(t), src, Offset))
  BY Zenon DEF StrRegoff
<1>2. PICK src \in {Var(2, t), Acc(t)} :
       Call(Puts(Stored(ObjectAt + Held(before, Offset), t.size, Bits(before, src)), {}),
            L!emit_str_regoff(Pointer(t), src, Offset), B!emit_str_regoff(Pointer(t), src, Offset),
            A!emit_str_regoff(Pointer(t), src, Offset), W!emit_str_regoff(Pointer(t), src, Offset))
  BY <1>1
<1> DEFINE base == Pointer(t)   o == Offset   at == ObjectAt + Held(before, o)   v == Bits(before, src)   n == t.size
           code == A!emit_str_regoff(base, src, o)
<1>3. meant' = Puts(Stored(at, n, v), {}) /\ listed' = Run(before, code) /\ conv' = conv /\ before' = before
  BY <1>2, CallA
<1>4. PA(base) \in R /\ PA(o) \in R /\ at \in Place8 /\ before.reg[PA(base)] + before.reg[PA(o)] = at /\ at + 8 <= Memory
  BY ByOffsetA DEF StrRegoff, ByOffsetIsA
<1>5. n \in Sizes BY ScalarA
<1>6. UsableA(src) /\ src.rsize = n /\ ~is_addr(src.dtype) /\ Place(src) = PA(src) BY FromIsA DEF FromA
<1>7. v = Unsigned(before.reg[PA(src)], n) /\ v \in Int BY <1>6, BitsIsA DEF BitsA
<1> HIDE DEF base, o, at, v
<1>8. n \in 0 .. 16 /\ at \in Int /\ at + n <= Memory BY <1>4, <1>5, MachineAssumption DEF Sizes, Place8
<1> HIDE DEF n
<1>10. Leaves(R, before, code, {}, Stored(at, n, v))
  BY <1>4, <1>6, <1>7, <1>8, RestedFactsA, StrRegoffA DEF Stored
<1>11. Stored(at, n, v) \in Mem BY <1>7, <1>8, StoredMemA
<1>12. {} \subseteq TempsA OBVIOUS
<1> HIDE DEF code
<1>. QED BY <1>3, <1>10, <1>11, <1>12, StoresA

\* A call of emit_str_imm_regoff does what it is for.
LEMMA StrImmRegoffClosesA == ASSUME Beyond = {}, Arm, Rested, StrImmRegoff PROVE Closed'
<1>1. PICK t \in Scalars : \E v \in Literals(t) :
       /\ Movable(t, v)
       /\ Call(Puts(Stored(ObjectAt + Held(before, Offset), t.size, Unsigned(v, t.size)), {}),
            L!emit_str_imm_regoff(Pointer(t), v, Offset), B!emit_str_imm_regoff(Pointer(t), v, Offset),
            A!emit_str_imm_regoff(Pointer(t), v, Offset), W!emit_str_imm_regoff(Pointer(t), v, Offset))
  BY Zenon DEF StrImmRegoff
<1>2. PICK v \in Literals(t) :
       /\ Movable(t, v)
       /\ Call(Puts(Stored(ObjectAt + Held(before, Offset), t.size, Unsigned(v, t.size)), {}),
            L!emit_str_imm_regoff(Pointer(t), v, Offset), B!emit_str_imm_regoff(Pointer(t), v, Offset),
            A!emit_str_imm_regoff(Pointer(t), v, Offset), W!emit_str_imm_regoff(Pointer(t), v, Offset))
  BY <1>1
<1> DEFINE base == Pointer(t)   o == Offset   at == ObjectAt + Held(before, o)   n == t.size   mem == Stored(at, n, Unsigned(v, n))
           code == A!emit_str_imm_regoff(base, v, o)
<1>3. meant' = Puts(mem, {}) /\ listed' = Run(before, code) /\ conv' = conv /\ before' = before
  BY <1>2, CallA
<1>4. PA(base) = 20 /\ PA(o) = 19 /\ 19 \in R /\ 20 \in R /\ at \in Place8 /\ before.reg[20] + before.reg[19] = at /\ at + 8 <= Memory
      /\ base.dtype.base = t
  BY ByOffsetA DEF StrImmRegoff, ByOffsetIsA
<1>5. n \in Sizes /\ t # Comptime BY ScalarA
<1>6. v \in Int BY LiteralInt
<1>7. A!MovImmediate(v, Wx(n)) BY <1>2, MovableA
<1>9. base.dtype.base.size = n /\ base.dtype.base # Comptime BY <1>4, <1>5
<1> HIDE DEF base, at, o
<1>p. PA(base) \in R /\ PA(o) \in R /\ PA(base) # 16 /\ PA(o) # 16 /\ before.reg[PA(base)] + before.reg[PA(o)] = at BY <1>4
<1>8. at \in Int /\ at + n <= Memory BY <1>4, <1>5, MachineAssumption DEF Sizes, Place8
<1> HIDE DEF n
<1>10. Leaves(R, before, code, {16}, Written(before.mem, at, n, v))
  BY <1>4, <1>p, <1>5, <1>6, <1>7, <1>8, <1>9, RestedFactsA, StrImmRegoffA
<1>11. Written(before.mem, at, n, v) = mem /\ mem \in Mem BY <1>5, <1>6, <1>8, StoredConstantA
<1>12. {16} \subseteq TempsA BY DEF TempsA
<1> HIDE DEF code, mem
<1>. QED BY <1>3, <1>10, <1>11, <1>12, StoresA

\* A call of emit_ldr_reg does what it is for.
LEMMA LdrRegClosesA == ASSUME Arm, Rested, LdrReg PROVE Closed'
<1>1. PICK t \in Scalars : \E dst \in To(t) :
       Call(Gives(dst, Bytes(before, ObjectAt + Held(before, Offset), t.size), {}),
            L!emit_ldr_reg(dst, Pointer(t), Offset), B!emit_ldr_reg(dst, Pointer(t), Offset),
            A!emit_ldr_reg(dst, Pointer(t), Offset), W!emit_ldr_reg(dst, Pointer(t), Offset))
  BY Zenon DEF LdrReg
<1>2. PICK dst \in To(t) :
       Call(Gives(dst, Bytes(before, ObjectAt + Held(before, Offset), t.size), {}),
            L!emit_ldr_reg(dst, Pointer(t), Offset), B!emit_ldr_reg(dst, Pointer(t), Offset),
            A!emit_ldr_reg(dst, Pointer(t), Offset), W!emit_ldr_reg(dst, Pointer(t), Offset))
  BY <1>1
<1> DEFINE base == Pointer(t)   o == Offset   at == ObjectAt + Held(before, o)   n == t.size   v == Bytes(before, at, n)
           code == A!emit_ldr_reg(dst, base, o)
<1>3. meant' = Gives(dst, v, {}) /\ listed' = Run(before, code) /\ conv' = conv /\ before' = before
  BY <1>2, CallA
<1>4. PA(base) \in R /\ PA(o) \in R /\ at \in Place8 /\ before.reg[PA(base)] + before.reg[PA(o)] = at /\ at + 8 <= Memory
  BY ByOffsetA DEF LdrReg, ByOffsetIsA
<1>5. n \in Sizes BY ScalarA
<1>6. UsableA(dst) /\ dst.rsize = n /\ ~is_addr(dst.dtype) /\ dst.dtype.base.sign \in BOOLEAN BY ToIsA DEF ToA
<1> HIDE DEF base, at, o
<1>8. at + n <= Memory BY <1>4, <1>5, MachineAssumption DEF Sizes, Place8
<1>9. v = BytesIn(before.mem, at, n) /\ v \in Int BY <1>4, <1>5, <1>8, BytesValueA
<1>10. Yields(R, before, code, {}, PA(dst), dst.rsize, v)
  <2>1. at + dst.rsize <= Memory BY <1>6, <1>8
  <2>2. Yields(R, before, code, {}, PA(dst), dst.rsize, BytesIn(before.mem, at, dst.rsize))
    <3> HIDE DEF n
    <3>. QED BY <1>4, <1>6, <2>1, RestedFactsA, LdrRegA
  <2>. QED BY <1>6, <1>9, <2>2
<1>11. {} \subseteq TempsA OBVIOUS
<1> HIDE DEF code, v
<1>. QED BY <1>3, <1>10, <1>11, SimpleA

\* An array of the parser, whose elements begin at ObjectAt.
ArrayIsA(array, b) ==
  /\ FoundA(before, array, ObjectAt) /\ array.dtype.base = b /\ (array.reg_type # "STACK" => array.rsize = 8)

\* An array in the frame is found.
LEMMA FoundStackA ==
  ASSUME Arm, Rested, NEW n, NEW dtype
  PROVE  ArrayIsA(Reg("STACK", 16, n, dtype), dtype.base)
<1> DEFINE r == Reg("STACK", 16, n, dtype)
<1>1. r.reg_type = "STACK" /\ r.offset = 16 /\ r.dtype = dtype /\ IsReg(r) BY RegIs
<1>4. before.reg[29] = 24 BY RestedFactsA
<1> HIDE DEF r
<1>5. FoundA(before, r, ObjectAt) BY <1>1, <1>4 DEF FoundA, ObjectAt
<1>. QED BY <1>1, <1>5 DEF ArrayIsA, r

\* An array behind a pointer is found.
LEMMA FoundPointerA ==
  ASSUME Arm, Rested, Pointing, NEW n, n = 8, NEW dtype
  PROVE  ArrayIsA(Reg("NREG", 1, n, dtype), dtype.base)
<1> DEFINE array == Reg("NREG", 1, n, dtype)
<1>1. array.reg_type = "NREG" /\ array.dtype = dtype /\ IsReg(array) /\ array.rsize = n BY RegIs
<1>2. PA(array) = 20 /\ 20 \in R
  <2>1. 1 + 19 = 20 OBVIOUS
  <2>2. PA(Reg("NREG", 1, n, dtype)) = 1 + 19 BY PlacesA
  <2>. QED BY <2>1, <2>2, RegistersA
<1>3. before.reg[20] = ObjectAt BY ClassA DEF Pointing
<1> HIDE DEF array
<1>4. ArrayIsA(array, dtype.base) BY <1>1, <1>2, <1>3 DEF FoundA, ArrayIsA
<1>. QED BY <1>4 DEF array

\* The arrays of the parser are found.
LEMMA ArraysA ==
  ASSUME Arm, Rested, NEW b, NEW array \in Arrays(Plain(b)) PROVE ArrayIsA(array, b)
<1> DEFINE elem == Plain(b)
<1>1. ArrayOf(elem).base = b /\ SliceOf(elem).base = b BY DEF ArrayOf, SliceOf, dtype_wrap, Plain
<1>2. CASE array = Reg("STACK", FrameAt - ObjectAt, elem.base.size, ArrayOf(elem))
  <2> DEFINE n == elem.base.size   dtype == ArrayOf(elem)
  <2>1. FrameAt - ObjectAt = 16 BY DEF FrameAt, ObjectAt
  <2>2. array = Reg("STACK", 16, n, dtype) BY <1>2, <2>1
  <2>3. dtype.base = b BY <1>1
  <2> HIDE DEF n, dtype
  <2>. QED BY <2>2, <2>3, FoundStackA
<1>3. CASE Pointing /\ array = [Var(1, Fund(8, FALSE)) EXCEPT !.dtype = SliceOf(elem)]
  <2> DEFINE n == Fund(8, FALSE).size   dtype == SliceOf(elem)   old == Plain(Fund(8, FALSE))
  <2>1. Var(1, Fund(8, FALSE)) = Reg("NREG", 1, n, old) BY DEF Var
  <2>2. dtype.base = b BY <1>1
  <2>3. n = 8 BY DEF Fund
  <2> HIDE DEF n, dtype, old
  <2>4. [Reg("NREG", 1, n, old) EXCEPT !.dtype = dtype] = Reg("NREG", 1, n, dtype) BY DEF Reg
  <2>5. array = Reg("NREG", 1, n, dtype) BY <1>3, <2>1, <2>4 DEF dtype
  <2>6. Pointing BY <1>3
  <2>. QED BY <2>2, <2>3, <2>5, <2>6, FoundPointerA
<1>. QED BY <1>2, <1>3 DEF Arrays

\* An array of another register size is found where it was.
LEMMA SizedFoundA ==
  ASSUME NEW array, NEW b, ArrayIsA(array, b), NEW n
  PROVE  FoundA(before, Sized(array, n), ObjectAt) /\ Sized(array, n).dtype.base = b
<1>1. IsReg(array) BY DEF ArrayIsA, FoundA
<1> DEFINE r == Sized(array, n)
<1>2. r.reg_type = array.reg_type /\ r.offset = array.offset /\ r.dtype = array.dtype /\ IsReg(r) BY <1>1, SizedReg
<1>3. PA(r) = PA(array) BY <1>2, Zenon DEF PA, A!get_regoff
<1> HIDE DEF r
<1>. QED BY <1>2, <1>3 DEF ArrayIsA, FoundA, r

\* An index that lies within its array is the whole of its register.
IndexIsA(index) ==
  /\ IndexA(before, index, Held(before, index)) /\ PA(index) = 19 /\ Place(index) = 19 /\ TypedA(index)
  /\ ExtA(before, index) = Held(before, index)

\* The indexes of the parser are 0 or 1, in a variable.
LEMMA IndexesA ==
  ASSUME Arm, Rested, NEW t \in Scalars, NEW index \in Indexes(t) PROVE IndexIsA(index)
<1>1. index = Var(0, t) /\ Loadable(index) /\ Held(before, index) \in {0, 1} BY DEF Indexes
<1>2. 0 \in 0 .. 3 /\ 0 + 19 = 19 OBVIOUS
<1>3. IsA(index, t, 19) BY <1>1, <1>2, KindsA
<1>4. TypedA(index) /\ UsableA(index) /\ Held(before, index) = ExtA(before, index) /\ LoadedA(before, index)
  <2>1. IsA(index, t, PA(index)) BY <1>3 DEF IsA
  <2>. QED BY <1>1, <2>1, HeldTypedA
<1> DEFINE h == Held(before, index)   w == before.reg[PA(index)]   n == index.rsize
<1>5. h \in {0, 1} /\ n \in Sizes /\ w \in 0 .. Values(8) - 1 /\ Agree(h, w, n)
  <2>1. w \in 0 .. Values(8) - 1 /\ n \in Sizes BY <1>4, RestedFactsA, FactsA
  <2>2. Agree(ExtA(before, index), w, n) BY <1>4, RestedFactsA, ExtFactsA
  <2>. QED BY <1>1, <1>4, <2>1, <2>2
<1>6. n <= 4 => w = Unsigned(h, 4) BY <1>4 DEF LoadedA
<1>7. PA(index) = 19 /\ Place(index) = 19 /\ 19 \in R BY <1>3, RegistersA DEF IsA
<1>8. w = h
  <2> HIDE DEF h, w, n
  <2>1. 4 \in 0 .. 15 /\ 8 \in 0 .. 15 /\ 4 # 0 /\ 8 # 0 OBVIOUS
  <2>2. Values(4) \in Nat /\ Values(8) \in Nat /\ Values(4) >= 2 /\ Values(8) >= 2
    <3>1. Values(1) >= 2 /\ Values(1) \in Int BY ValuesOne, BaseTwo
    <3>2. 1 \in 0 .. 4 /\ 1 \in 0 .. 8 OBVIOUS
    <3>3. Values(1) <= Values(4) /\ Values(1) <= Values(8) /\ Values(4) \in Nat /\ Values(8) \in Nat
      BY <2>1, <3>2, ValuesGrow, ValuesPositive
    <3>. QED BY <3>1, <3>3
  <2>3. h \in 0 .. Values(4) - 1 /\ h \in 0 .. Values(8) - 1 BY <1>5, <2>2
  <2>4. Unsigned(h, 4) = h /\ Unsigned(h, 8) = h /\ Unsigned(w, 8) = w BY <1>5, <2>1, <2>3, UnsignedSmall
  <2>5. n = 8 => Unsigned(h, 8) = Unsigned(w, 8) BY <1>5 DEF Agree
  <2>6. n <= 4 \/ n = 8 BY <1>5 DEF Sizes
  <2>. QED BY <1>6, <2>4, <2>5, <2>6
<1>. QED BY <1>1, <1>4, <1>7, <1>8 DEF IndexIsA, IndexA

\* The index keeps its value.
LEMMA StoresIndexedA ==
  ASSUME Arm, Rested, conv' = conv, before' = before, NEW code, listed' = Run(before, code), NEW index, Place(index) = 19,
         NEW V, V \subseteq TempsA, NEW mem \in Mem, Leaves(R, before, code, V, mem), meant' = Puts(mem, {index})
  PROVE  Closed'
<1>1. conv \in Convs /\ Kept \subseteq R /\ Started BY RestedFactsA, KeptA
<1>2. V \intersect Kept \subseteq AllOf({index}) BY KeptA
<1>3. 19 \in R \ V BY RegistersA DEF TempsA
<1>4. Run(before, code).reg[19] = before.reg[19] BY <1>3 DEF Leaves
<1>5. \A u \in {index} : Agree(Run(before, code).reg[Place(u)], before.reg[Place(u)], u.rsize) BY <1>4 DEF Agree
<1>. QED BY <1>1, <1>2, <1>5, PutsClosed

\* A call that gives an element is closed.
LEMMA GivesIndexedA ==
  ASSUME Arm, Rested, conv' = conv, before' = before, NEW code, listed' = Run(before, code), NEW index, Place(index) = 19,
         NEW dst, Place(dst) = PA(dst), PA(dst) # 19, NEW V, V \subseteq TempsA, NEW v,
         Yields(R, before, code, V, PA(dst), dst.rsize, v), meant' = Gives(dst, v, {index})
  PROVE  Closed'
<1>1. conv \in Convs /\ Kept \subseteq R /\ Started /\ before \in Machines(R) /\ ~before.left BY RestedFactsA, KeptA
<1>2. V \intersect Kept \subseteq AllOf({index}) BY KeptA
<1> DEFINE U == V \union {PA(dst)}
<1>3. 19 \in R \ U BY RegistersA DEF TempsA
<1>4. Prepares(R, before, code, U) BY DEF Yields
<1> HIDE DEF U
<1>5. Run(before, code).reg[19] = before.reg[19] BY <1>1, <1>3, <1>4, After
<1>6. \A u \in {index} : Agree(Run(before, code).reg[Place(u)], before.reg[Place(u)], u.rsize) BY <1>5 DEF Agree
<1>7. Yields(R, before, code, V, Place(dst), dst.rsize, v) OBVIOUS
<1>. QED BY <1>1, <1>2, <1>6, <1>7, GivesClosed

\* The types of elements.
LEMMA ElementBaseA ==
  ASSUME NEW n \in {1, 2, 4, 8}, NEW elem \in Elements(n)
  PROVE  elem = Plain(elem.base) /\ elem.base \in Scalars /\ elem.base.size = n /\ elem.base.sign \in BOOLEAN
<1>1. PICK s \in BOOLEAN : elem = Plain(Fund(n, s))
  <2> DEFINE no == FALSE   yes == TRUE
  <2>1. no \in BOOLEAN /\ yes \in BOOLEAN OBVIOUS
  <2>2. elem = Plain(Fund(n, no)) \/ elem = Plain(Fund(n, yes)) BY DEF Elements
  <2> HIDE DEF no, yes
  <2>. QED BY <2>1, <2>2
<1> DEFINE b == Fund(n, s)
<1>2. b \in Scalars /\ b.size = n /\ b.sign = s
  <2>1. b \in Scalars BY DEF Scalars
  <2>2. b.size = n /\ b.sign = s BY DEF Fund
  <2>. QED BY <2>1, <2>2
<1> HIDE DEF b
<1>3. elem.base = b BY <1>1 DEF Plain, b
<1>. QED BY <1>1, <1>2, <1>3 DEF b

\* The element is inside the memory.
LEMMA ElementA ==
  ASSUME Arm, Rested, NEW t \in Scalars, NEW index \in Indexes(t), NEW n \in Nat, n <= 12
  PROVE  /\ Element(index, n) \in Place8 /\ ObjectAt + Held(before, index) * n = Element(index, n)
         /\ n <= 8 => Element(index, n) + n <= Memory
<1>1. Held(before, index) \in {0, 1} BY DEF Indexes
<1>. QED BY <1>1, ElementPlace DEF Element

\* A store of emit_array_access does what it is for.
LEMMA ArrayStoreClosesA == ASSUME Arm, Rested, ArrayStore PROVE Closed'
<1>1. PICK n \in {1, 2, 4, 8}, t \in Scalars : \E elem \in Elements(n), index \in Indexes(t) :
       \E array \in Arrays(elem), src \in {Acc(elem.base), Var(2, elem.base)} :
         Call(Puts(Stored(Element(index, n), n, Bits(before, src)), {index}),
              L!emit_array_access(array, src, index, TRUE), B!emit_array_access(array, src, index, TRUE),
              A!emit_array_access(array, src, index, TRUE), W!emit_array_access(array, src, index, TRUE))
  BY Zenon DEF ArrayStore
<1>2. PICK elem \in Elements(n), index \in Indexes(t) :
       \E array \in Arrays(elem), src \in {Acc(elem.base), Var(2, elem.base)} :
         Call(Puts(Stored(Element(index, n), n, Bits(before, src)), {index}),
              L!emit_array_access(array, src, index, TRUE), B!emit_array_access(array, src, index, TRUE),
              A!emit_array_access(array, src, index, TRUE), W!emit_array_access(array, src, index, TRUE))
  BY <1>1
<1>3. PICK array \in Arrays(elem), src \in {Acc(elem.base), Var(2, elem.base)} :
         Call(Puts(Stored(Element(index, n), n, Bits(before, src)), {index}),
              L!emit_array_access(array, src, index, TRUE), B!emit_array_access(array, src, index, TRUE),
              A!emit_array_access(array, src, index, TRUE), W!emit_array_access(array, src, index, TRUE))
  BY <1>2
<1> DEFINE b == elem.base   at == Element(index, n)   v == Bits(before, src)   h == Held(before, index)
           code == A!emit_array_access(array, src, index, TRUE)
<1>4. meant' = Puts(Stored(at, n, v), {index}) /\ listed' = Run(before, code) /\ conv' = conv /\ before' = before
  BY <1>3, CallA
<1>5. n \in Sizes /\ n \in Nat /\ n <= 8 /\ n <= 12 /\ n \in 0 .. 16 BY DEF Sizes
<1>6. elem = Plain(b) /\ b \in Scalars /\ b.size = n BY ElementBaseA
<1>7. ArrayIsA(array, b)
  <2>1. array \in Arrays(Plain(b)) BY <1>6
  <2>. QED BY <2>1, ArraysA
<1>8. UsableA(src) /\ src.rsize = n /\ ~is_addr(src.dtype) /\ Place(src) = PA(src) /\ PA(src) # 11
  <2>1. src \in {Var(0, b), Acc(b), Var(2, b)} OBVIOUS
  <2>2. FromA(src, b) BY <1>6, <2>1, FromIsA
  <2>. QED BY <1>6, <2>2 DEF FromA
<1>9. IndexA(before, index, h) /\ Place(index) = 19 BY IndexesA DEF IndexIsA
<1>10. at \in Place8 /\ ObjectAt + h * n = at /\ at + n <= Memory BY <1>5, ElementA
<1>11. FoundA(before, array, ObjectAt) /\ array.dtype.base.size = n BY <1>6, <1>7 DEF ArrayIsA
<1>12. v = Unsigned(before.reg[PA(src)], n) /\ v \in Int BY <1>8, BitsIsA DEF BitsA
<1>13. ObjectAt \in Place8 BY MachineAssumption, ConventionsAssumption DEF ObjectAt, Place8
<1> HIDE DEF b, at, h, code, v
<1>14. at \in Int BY <1>10 DEF Place8
<1>15. Leaves(R, before, code, {11}, Stored(at, n, v))
  <2>1. Leaves(R, before, code, {11}, Written(before.mem, at, n, Unsigned(before.reg[PA(src)], n)))
    BY <1>5, <1>8, <1>9, <1>10, <1>11, <1>13, RestedFactsA, ArrayStoreA DEF code
  <2>. QED BY <1>12, <2>1 DEF Stored
<1>16. Stored(at, n, v) \in Mem BY <1>5, <1>12, <1>14, StoredMemA
<1>17. {11} \subseteq TempsA BY DEF TempsA
<1>. QED BY <1>4, <1>9, <1>15, <1>16, <1>17, StoresIndexedA

\* A load of emit_array_access does what it is for.
LEMMA ArrayLoadClosesA == ASSUME Arm, Rested, ArrayLoad PROVE Closed'
<1>1. PICK n \in {1, 2, 4, 8}, t \in Scalars : \E elem \in Elements(n), index \in Indexes(t) :
       \E array \in Arrays(elem), dst \in To(elem.base) :
         Call(Gives(dst, Bytes(before, Element(index, n), n), {index}),
              L!emit_array_access(dst, Sized(array, n), index, FALSE),
              B!emit_array_access(dst, Sized(array, n), index, FALSE),
              A!emit_array_access(dst, Sized(array, n), index, FALSE), W!emit_array_access(dst, Sized(array, n), index, FALSE))
  BY Zenon DEF ArrayLoad
<1>2. PICK elem \in Elements(n), index \in Indexes(t) :
       \E array \in Arrays(elem), dst \in To(elem.base) :
         Call(Gives(dst, Bytes(before, Element(index, n), n), {index}),
              L!emit_array_access(dst, Sized(array, n), index, FALSE),
              B!emit_array_access(dst, Sized(array, n), index, FALSE),
              A!emit_array_access(dst, Sized(array, n), index, FALSE), W!emit_array_access(dst, Sized(array, n), index, FALSE))
  BY <1>1
<1>3. PICK array \in Arrays(elem), dst \in To(elem.base) :
         Call(Gives(dst, Bytes(before, Element(index, n), n), {index}),
              L!emit_array_access(dst, Sized(array, n), index, FALSE),
              B!emit_array_access(dst, Sized(array, n), index, FALSE),
              A!emit_array_access(dst, Sized(array, n), index, FALSE), W!emit_array_access(dst, Sized(array, n), index, FALSE))
  BY <1>2
<1> DEFINE b == elem.base   at == Element(index, n)   h == Held(before, index)   v == Bytes(before, at, n)   src == Sized(array, n)
           code == A!emit_array_access(dst, src, index, FALSE)
<1>4. meant' = Gives(dst, v, {index}) /\ listed' = Run(before, code) /\ conv' = conv /\ before' = before
  BY <1>3, CallA
<1>5. n \in Sizes /\ n \in Nat /\ n <= 8 /\ n <= 12 BY DEF Sizes
<1>6. elem = Plain(b) /\ b \in Scalars /\ b.size = n BY ElementBaseA
<1>7. ArrayIsA(array, b)
  <2>1. array \in Arrays(Plain(b)) BY <1>6
  <2>. QED BY <2>1, ArraysA
<1>8. /\ UsableA(dst) /\ dst.rsize = n /\ ~is_addr(dst.dtype) /\ dst.dtype.base.sign \in BOOLEAN /\ Place(dst) = PA(dst)
      /\ PA(dst) # 19
  BY <1>6, ToIsA DEF ToA
<1>9. IndexA(before, index, h) /\ Place(index) = 19 BY IndexesA DEF IndexIsA
<1>10. at \in Place8 /\ ObjectAt + h * n = at /\ at + n <= Memory BY <1>5, ElementA
<1>11. FoundA(before, src, ObjectAt) /\ src.dtype.base.size = n BY <1>6, <1>7, SizedFoundA
<1>13. ObjectAt \in Place8 BY MachineAssumption, ConventionsAssumption DEF ObjectAt, Place8
<1>14. v = BytesIn(before.mem, at, n) BY <1>5, <1>10, BytesValueA
<1> HIDE DEF b, at, h, code, v, src
<1>15. Yields(R, before, code, {11}, PA(dst), n, BytesIn(before.mem, at, n))
  BY <1>5, <1>8, <1>9, <1>10, <1>11, <1>13, RestedFactsA, ArrayLoadA DEF code
<1>16. Yields(R, before, code, {11}, PA(dst), dst.rsize, v) BY <1>8, <1>14, <1>15
<1>17. {11} \subseteq TempsA BY DEF TempsA
<1>. QED BY <1>4, <1>8, <1>9, <1>16, <1>17, GivesIndexedA

\* A call of emit_elem_addr does what it is for.
LEMMA ElemAddrClosesA == ASSUME Beyond = {}, Arm, Rested, ElemAddr PROVE Closed'
<1>1. PICK elem \in (UNION {Elements(n) : n \in {1, 4, 8}}) \union {Plain(Twelve)}, t \in Scalars :
       \E index \in Indexes(t), array \in Arrays(elem), dst \in To(Fund(8, FALSE)) :
         /\ Arm /\ elem.base = Twelve => Known("stride")
         /\ Call(Gives(dst, Element(index, elem.base.size), {index}),
              L!emit_elem_addr(dst, array, index), B!emit_elem_addr(dst, array, index),
              A!emit_elem_addr(dst, array, index), W!emit_elem_addr(dst, array, index))
  BY Zenon DEF ElemAddr
<1>2. PICK index \in Indexes(t), array \in Arrays(elem), dst \in To(Fund(8, FALSE)) :
         /\ Arm /\ elem.base = Twelve => Known("stride")
         /\ Call(Gives(dst, Element(index, elem.base.size), {index}),
              L!emit_elem_addr(dst, array, index), B!emit_elem_addr(dst, array, index),
              A!emit_elem_addr(dst, array, index), W!emit_elem_addr(dst, array, index))
  BY <1>1
<1> DEFINE b == elem.base   n == b.size   at == Element(index, n)   h == Held(before, index)
           code == A!emit_elem_addr(dst, array, index)
<1>4. meant' = Gives(dst, at, {index}) /\ listed' = Run(before, code) /\ conv' = conv /\ before' = before
  BY <1>2, CallA
<1>6. elem = Plain(b) /\ n \in {1, 4, 8}
  <2>1. elem.base # Twelve BY <1>2, NoneKnownA
  <2>2. Plain(Twelve).base = Twelve BY PlainNoAddr
  <2>3. PICK k \in {1, 4, 8} : elem \in Elements(k) BY <1>1, <2>1, <2>2, ElementTypes
  <2>4. k \in {1, 2, 4, 8} OBVIOUS
  <2>. QED BY <2>3, <2>4, ElementBaseA
<1>5. n \in Nat /\ n <= 12 BY <1>6
<1>7. ArrayIsA(array, b)
  <2>1. array \in Arrays(Plain(b)) BY <1>6
  <2>. QED BY <2>1, ArraysA
<1>8. UsableA(dst) /\ dst.rsize = 8 /\ Place(dst) = PA(dst) /\ PA(dst) # 19
  <2> DEFINE eight == 8   no == FALSE   to == Fund(eight, no)
  <2>1. eight \in {1, 2, 4, 8} /\ no \in BOOLEAN /\ to.size = 8 BY DEF Fund
  <2>2. to \in Scalars
    <3> HIDE DEF eight, no
    <3>. QED BY <2>1 DEF Scalars
  <2>3. dst \in To(to) OBVIOUS
  <2> HIDE DEF to
  <2>. QED BY <2>1, <2>2, <2>3, ToIsA DEF ToA
<1>9. IndexIsA(index) BY IndexesA
<1>10. at \in Place8 /\ ObjectAt + h * n = at BY <1>5, ElementA
<1>11. FoundA(before, array, ObjectAt) /\ array.dtype.base.size = n /\ (array.reg_type # "STACK" => array.rsize = 8)
  BY <1>7 DEF ArrayIsA
<1>13. ObjectAt \in Place8 BY MachineAssumption, ConventionsAssumption DEF ObjectAt, Place8
<1>12. TypedA(index) /\ h \in {0, 1} /\ before.reg[PA(index)] = h /\ ExtA(before, index) = h /\ PA(index) # 8 /\ Place(index) = 19
  BY <1>9 DEF IndexIsA, IndexA
<1> HIDE DEF b, n, at, h, code
<1>15. Yields(R, before, code, {8}, PA(dst), 8, at)
  BY <1>6, <1>8, <1>10, <1>11, <1>12, <1>13, RestedFactsA, ElemAddrA DEF code
<1>16. Yields(R, before, code, {8}, PA(dst), dst.rsize, at) BY <1>8, <1>15
<1>17. {8} \subseteq TempsA BY DEF TempsA
<1>. QED BY <1>4, <1>8, <1>12, <1>16, <1>17, GivesIndexedA

\* The registers in which parts of an object are put together.
LEMMA WholesA ==
  ASSUME Arm, NEW i \in {0, 1}, NEW n \in Sizes, NEW r, r = Sized(Whole(i), n)
  PROVE  /\ UsableA(r) /\ r.rsize = n /\ ~is_addr(r.dtype) /\ PA(r) = i + 8 /\ Place(Whole(i)) = i + 8
<1> DEFINE d == Plain(NoBase)
<1>1. r = Reg("SCRATCH", i, n, d) BY DEF Sized, Whole, Reg
<1>2. ~is_addr(d) BY PlainNoAddr
<1>3. Whole(i) = Reg("SCRATCH", i, 8, d) BY DEF Whole
<1> HIDE DEF d
<1>4. PA(r) = i + 8 /\ Place(Whole(i)) = i + 8 BY <1>1, <1>3, PlacesA
<1>5. IsReg(r) /\ r.rsize = n /\ r.dtype = d BY <1>1, RegIs
<1>6. 8 \in R /\ 9 \in R /\ i + 8 \in {8, 9} BY RegistersA
<1>. QED BY <1>2, <1>4, <1>5, <1>6 DEF UsableA

\* Where the parts go.
LEMMA FrameSpotA ==
  ASSUME Arm, Rested
  PROVE  /\ PA(FP) = 29 /\ PA(FP) \in R /\ before.reg[PA(FP)] + (0 - 16) = 8 /\ 0 - 16 \in 0 - 100 .. 100 /\ (0 - 16) % 8 = 0
         /\ FrameAt - 16 = 8 /\ 8 \in 0 .. 100 /\ 8 + 16 <= Memory
<1>1. PA(FP) = 29 /\ 29 \in R /\ before.reg[29] = 24 BY FrameA DEF PlacedA
<1>4. 32 <= Memory /\ Memory \in Nat BY ConventionsAssumption, MachineAssumption
<1>. QED BY <1>1, <1>4 DEF FrameAt

\* A call of emit_store_packed does what it is for.
LEMMA StorePackedClosesA == ASSUME Arm, Rested, StorePacked PROVE Closed'
<1>1. PICK n \in 1 .. 8 :
       Call(Puts(Stored(FrameAt - 16, n, Bits(before, Whole(0))), {}),
            L!emit_store_packed(FP, 0 - 16, Whole(0), n), B!emit_store_packed(FP, 0 - 16, Whole(0), n),
            A!emit_store_packed(FP, 0 - 16, Whole(0), n), W!emit_store_packed(FP, 0 - 16, Whole(0), n))
  BY Zenon DEF StorePacked
<1> DEFINE off == 0 - 16   src == Whole(0)   v == Bits(before, src)   u == before.reg[PA(src)]
           code == A!emit_store_packed(FP, off, src, n)
<1>2. FrameAt - 16 = 8 BY DEF FrameAt
<1>3. meant' = Puts(Stored(8, n, v), {}) /\ listed' = Run(before, code) /\ conv' = conv /\ before' = before
  <2>1. meant' = Puts(Stored(FrameAt - 16, n, v), {}) /\ listed' = Run(before, code) /\ conv' = conv /\ before' = before
    BY <1>1, CallA
  <2>. QED BY <1>2, <2>1
<1>4. PA(FP) = 29 /\ PA(FP) \in R /\ before.reg[PA(FP)] + off = 8 /\ off \in 0 - 100 .. 100 /\ 8 \in 0 .. 100 /\ 8 + 16 <= Memory
  BY FrameSpotA
<1>5. UsableA(src) /\ src.rsize = 8 /\ ~is_addr(src.dtype) /\ PA(src) = 8 /\ Place(src) = PA(src)
  <2>1. 0 \in {0, 1} /\ 8 \in Sizes /\ 0 + 8 = 8 BY DEF Sizes
  <2>2. src = Sized(Whole(0), 8) BY WholeSize
  <2> HIDE DEF src
  <2>3. UsableA(src) /\ src.rsize = 8 /\ ~is_addr(src.dtype) /\ PA(src) = 0 + 8 /\ Place(Whole(0)) = 0 + 8 BY <2>1, <2>2, WholesA
  <2>. QED BY <2>3 DEF src
<1>6. v = Unsigned(u, 8) /\ v \in Int
  <2>1. BitsA(src, src.rsize) BY <1>5, BitsIsA
  <2>. QED BY <1>5, <2>1 DEF BitsA
<1>7. u \in Int /\ Agree(v, u, 8)
  <2>1. u \in Int BY <1>5, RestedFactsA, FactsA
  <2>2. 8 \in 0 .. 15 OBVIOUS
  <2>. QED BY <1>6, <2>1, <2>2, AgreeUnsigned
<1> HIDE DEF src
<1>8. 8 + n <= Memory /\ PA(FP) # PA(src) BY <1>4, <1>5, MachineAssumption
<1> HIDE DEF off, v, u, code
<1>9. Leaves(R, before, code, {PA(src)}, Written(before.mem, 8, n, u))
  BY <1>4, <1>5, <1>8, RestedFactsA, StorePackedA DEF code, u
<1>10. Written(before.mem, 8, n, u) = Stored(8, n, v) /\ Stored(8, n, v) \in Mem
  <2>1. n \in 0 .. 15 /\ n \in 0 .. 16 /\ n \in 0 .. 8 OBVIOUS
  <2>2. Agree(v, u, n)
    <3>1. 8 \in 0 .. 15 OBVIOUS
    <3>. QED BY <1>6, <1>7, <2>1, <3>1, AgreeFewer
  <2>3. DOMAIN before.mem \subseteq Int BY RestedFactsA, MemDomain
  <2> DEFINE mem == before.mem
  <2>4. DOMAIN mem \subseteq Int BY <2>3
  <2> HIDE DEF mem
  <2>0. 8 \in Int /\ v \in Int /\ u \in Int BY <1>6, <1>7
  <2>5. Written(mem, 8, n, v) = Written(mem, 8, n, u) BY Zenon, <2>0, <2>1, <2>2, <2>4, WrittenAgree
  <2>6. Stored(8, n, v) \in Mem BY <2>0, <2>1, StoredMemA
  <2>. QED BY <2>5, <2>6 DEF mem, Stored
<1>11. {PA(src)} \subseteq TempsA BY <1>5 DEF TempsA
<1>. QED BY <1>3, <1>9, <1>10, <1>11, StoresA

\* A call of emit_zerofill does what it is for.
LEMMA ZerofillClosesA == ASSUME Arm, Rested, Zerofill PROVE Closed'
<1>1. PICK n \in 1 .. 16 :
       LET object == Plain([NoBase EXCEPT !.tag = "STRUCT", !.size = n])
       IN  Call(Puts(Stored(FrameAt - 16, n, 0), {}),
                L!emit_zerofill(FP, 0 - 16, object), B!emit_zerofill(FP, 0 - 16, object),
                A!emit_zerofill(FP, 0 - 16, object), W!emit_zerofill(FP, 0 - 16, object))
  BY Zenon DEF Zerofill
<1> DEFINE off == 0 - 16   object == Plain([NoBase EXCEPT !.tag = "STRUCT", !.size = n])
           code == A!emit_zerofill(FP, off, object)
<1>2. FrameAt - 16 = 8 BY DEF FrameAt
<1>3. meant' = Puts(Stored(8, n, 0), {}) /\ listed' = Run(before, code) /\ conv' = conv /\ before' = before
  <2>1. meant' = Puts(Stored(FrameAt - 16, n, 0), {}) /\ listed' = Run(before, code) /\ conv' = conv /\ before' = before
    BY <1>1, CallA
  <2>. QED BY <1>2, <2>1
<1>4. /\ PA(FP) \in R /\ before.reg[PA(FP)] + off = 8 /\ off \in 0 - 100 .. 100 /\ off % 8 = 0
      /\ 8 \in 0 .. 100 /\ 8 + 16 <= Memory
  BY FrameSpotA
<1>5. dtype_size(object) = n
  <2>1. object.decl = << >> /\ object.base.size = n BY DEF Plain, NoBase
  <2> HIDE DEF object
  <2>2. dtype_outer(object) = NoDeclarator /\ NoDeclarator.tag = "NONE" BY <2>1 DEF dtype_outer, NoDeclarator, Declarator
  <2>. QED BY <2>1, <2>2 DEF dtype_size
<1>8. 8 + n <= Memory /\ n \in 0 .. 16 BY <1>4, MachineAssumption
<1> HIDE DEF off, object, code
<1>9. Leaves(R, before, code, {}, Written(before.mem, 8, n, 0))
  BY <1>4, <1>5, <1>8, RestedFactsA, ZerofillA DEF code
<1>10. Written(before.mem, 8, n, 0) = Stored(8, n, 0) /\ Stored(8, n, 0) \in Mem
  <2>1. Stored(8, n, 0) \in Mem BY <1>8, StoredMemA
  <2>. QED BY <2>1 DEF Stored
<1>11. {} \subseteq TempsA OBVIOUS
<1>. QED BY <1>3, <1>9, <1>10, <1>11, StoresA

\* What is stored for a part is the register's bytes, or zeros.
PartIsA(lo, i, n, written) ==
  /\ (IF written THEN Bits(before, Whole(i)) ELSE 0) = WholePart(before, lo, written)
  /\ PartA(before, lo, n, written) \in Int /\ WholePart(before, lo, written) \in Int
  /\ Agree(PartA(before, lo, n, written), WholePart(before, lo, written), n)

\* A part is stored alike from its low bytes and from the whole register.
LEMMA PartsA ==
  ASSUME Arm, Rested, NEW i \in {0, 1}, NEW n \in Sizes, NEW written \in BOOLEAN,
         NEW lo, lo = Sized(Whole(i), n)
  PROVE  PartIsA(lo, i, n, written)
<1>1. UsableA(lo) /\ PA(lo) = Place(Whole(i)) BY WholesA
<1> DEFINE u == before.reg[PA(lo)]
<1>2. u \in Int /\ u \in 0 .. Values(8) - 1 BY <1>1, RestedFactsA, FactsA
<1>4. n \in 0 .. 15 /\ 8 \in 0 .. 15 BY DEF Sizes
<1>3. Bits(before, Whole(i)) = u
  <2>1. Bits(before, Whole(i)) = Unsigned(u, 8) BY <1>1, WholeSize DEF Bits
  <2> HIDE DEF u
  <2>. QED BY <1>2, <1>4, <2>1, UnsignedSmall
<1> HIDE DEF u
<1>5. Unsigned(u, n) \in Int /\ Agree(Unsigned(u, n), u, n) BY <1>2, <1>4, UnsignedRange, AgreeUnsigned
<1>9. Agree(0, 0, n) BY DEF Agree
<1>. QED BY <1>2, <1>3, <1>5, <1>9 DEF PartIsA, PartA, WholePart, u

\* A call of emit_store_eightbytes with one part does what it is for.
LEMMA EightbyteLowA ==
  ASSUME Arm, Rested, NEW n \in Sizes, NEW lo \in BOOLEAN, NEW hi \in BOOLEAN, EightbyteCall(n, lo, hi, FALSE)
  PROVE  Closed'
<1> DEFINE off == 0 - 16   first == Sized(Whole(0), n)   second == Sized(Whole(1), n)   p == PartA(before, first, n, lo)
           mem == EightbyteMem(n, lo, hi, FALSE)   q == WholePart(before, first, lo)
           code == A!emit_store_eightbytes(FP, off, first, lo, second, hi, FALSE)
<1>2. FrameAt - 16 = 8 BY DEF FrameAt
<1>3. meant' = Puts(mem, {}) /\ listed' = Run(before, code) /\ conv' = conv /\ before' = before
  BY CallA DEF EightbyteCall
<1>4. PA(FP) \in R /\ before.reg[PA(FP)] + off = 8 /\ off \in 0 - 100 .. 100 /\ 8 \in 0 .. 100 /\ 8 + 16 <= Memory
  BY FrameSpotA
<1>5. UsableA(first) /\ first.rsize = n /\ ~is_addr(first.dtype) BY WholesA
<1>6. q = (IF lo THEN Bits(before, Whole(0)) ELSE 0) /\ q \in Int /\ p \in Int /\ Agree(p, q, n)
  <2>1. PartIsA(first, 0, n, lo) BY PartsA
  <2>. QED BY <2>1 DEF PartIsA
<1>7. mem = Stored(8, n, q)
  <2>1. mem = Stored(FrameAt - 16, n, IF lo THEN Bits(before, Whole(0)) ELSE 0) BY Zenon DEF EightbyteMem
  <2>. QED BY <1>2, <1>6, <2>1
<1>8. 8 + first.rsize <= Memory BY <1>4, <1>5, MachineAssumption DEF Sizes
<1>9. Leaves(R, before, code, {}, Written(before.mem, 8, n, p))
  <2>1. Leaves(R, before, code, {}, Written(before.mem, 8, first.rsize, PartA(before, first, first.rsize, lo)))
    <3> HIDE DEF off, first, second, code
    <3>. QED BY <1>4, <1>5, <1>8, RestedFactsA, LowPartA DEF code
  <2>. QED BY <1>5, <2>1
<1> HIDE DEF off, first, second, p, q, mem, code
<1>10. Written(before.mem, 8, n, p) = Stored(8, n, q) /\ Stored(8, n, q) \in Mem
  <2>1. n \in 0 .. 15 /\ n \in 0 .. 16 /\ 8 \in Int BY DEF Sizes
  <2>3. DOMAIN before.mem \subseteq Int BY RestedFactsA, MemDomain
  <2> DEFINE old == before.mem
  <2>4. DOMAIN old \subseteq Int BY <2>3
  <2> HIDE DEF old
  <2>5. Written(old, 8, n, p) = Written(old, 8, n, q) BY <1>6, <2>1, <2>4, ZenonT(40), WrittenAgree
  <2>6. Stored(8, n, q) \in Mem BY <1>6, <2>1, StoredMemA
  <2>. QED BY <2>5, <2>6 DEF old, Stored
<1>11. {} \subseteq TempsA OBVIOUS
<1>12. Leaves(R, before, code, {}, mem) /\ mem \in Mem BY <1>7, <1>9, <1>10
<1>. QED BY <1>3, <1>12, <1>11, StoresA

\* A call of emit_store_eightbytes with both parts does what it is for.
LEMMA EightbytePairA ==
  ASSUME Arm, Rested, NEW n \in Sizes, NEW lo \in BOOLEAN, NEW hi \in BOOLEAN, EightbyteCall(n, lo, hi, TRUE)
  PROVE  Closed'
<1> DEFINE off == 0 - 16   first == Sized(Whole(0), n)   second == Sized(Whole(1), n)
           p == WholePart(before, first, lo)   q == WholePart(before, second, hi)
           mem == EightbyteMem(n, lo, hi, TRUE)   mem1 == Written(before.mem, 8, 8, p)   mem2 == Written(mem1, 16, 8, q)
           code == A!emit_store_eightbytes(FP, off, first, lo, second, hi, TRUE)
<1>2. FrameAt - 16 = 8 /\ FrameAt - 8 = 16 /\ 8 + 8 = 16 BY DEF FrameAt
<1>3. meant' = Puts(mem, {}) /\ listed' = Run(before, code) /\ conv' = conv /\ before' = before
  BY CallA DEF EightbyteCall
<1>4. /\ PA(FP) \in R /\ before.reg[PA(FP)] + off = 8 /\ off \in 0 - 100 .. 100 /\ off % 8 = 0
      /\ 8 \in 0 .. 100 /\ 8 + 16 <= Memory
  BY FrameSpotA
<1>5. UsableA(first) /\ UsableA(second)
  <2>1. 0 \in {0, 1} /\ 1 \in {0, 1} OBVIOUS
  <2>. QED BY <2>1, WholesA
<1>6. /\ p = (IF lo THEN Bits(before, Whole(0)) ELSE 0) /\ p \in Int
      /\ q = (IF hi THEN Bits(before, Whole(1)) ELSE 0) /\ q \in Int
  <2>1. 0 \in {0, 1} /\ 1 \in {0, 1} OBVIOUS
  <2>2. PartIsA(first, 0, n, lo) /\ PartIsA(second, 1, n, hi) BY <2>1, PartsA
  <2>. QED BY <2>2 DEF PartIsA
<1>7. mem = mem2
  <2>1. mem = Written(Stored(FrameAt - 16, 8, IF lo THEN Bits(before, Whole(0)) ELSE 0), FrameAt - 8, 8,
                      IF hi THEN Bits(before, Whole(1)) ELSE 0) BY Zenon DEF EightbyteMem
  <2>2. Stored(8, 8, p) = mem1 BY Zenon DEF Stored
  <2>3. mem = Written(Stored(8, 8, p), 16, 8, q)
    <3> HIDE DEF p, q, mem
    <3>. QED BY <1>2, <1>6, <2>1
  <2>. QED BY <2>2, <2>3
<1>9. Leaves(R, before, code, {}, mem2)
  <2>1. Leaves(R, before, code, {}, Written(Written(before.mem, 8, 8, p), 8 + 8, 8, q))
    <3> HIDE DEF off, first, second
    <3>1. before \in Machines(R) /\ ~before.left BY RestedFactsA
    <3>2. PairReady(before, FP, off, first, second, 8) BY <1>4, <1>5, <3>1, Zenon DEF PairReady
    <3>3. PairLeaves(before, FP, off, first, lo, second, hi, 8) BY <3>2, BothPartsA, Zenon
    <3>. QED BY <3>3, Zenon DEF PairLeaves
  <2>. QED BY <1>2, <2>1
<1>10. mem2 \in Mem
  <2>1. 8 \in 0 .. 16 /\ 8 \in Int /\ 16 \in Int OBVIOUS
  <2>2. mem1 \in Mem BY <1>6, <2>1, RestedFactsA, WrittenMem
  <2>. QED BY <1>6, <2>1, <2>2, WrittenMem
<1>11. {} \subseteq TempsA OBVIOUS
<1> HIDE DEF off, first, second, p, q, mem, mem1, mem2, code
<1>. QED BY <1>3, <1>7, <1>9, <1>10, <1>11, StoresA

\* A call of emit_store_eightbytes does what it is for.
LEMMA StoreEightbytesClosesA == ASSUME Arm, Rested, StoreEightbytes PROVE Closed'
<1>1. PICK n \in {1, 2, 4, 8}, lo, hi, both \in BOOLEAN : EightbyteCall(n, lo, hi, both) BY EightbyteCalls
<1>2. n \in Sizes BY DEF Sizes
<1>3. CASE both
  <2>1. EightbyteCall(n, lo, hi, TRUE) BY <1>1, <1>3
  <2>. QED BY <1>2, <2>1, EightbytePairA
<1>4. CASE ~both
  <2>1. EightbyteCall(n, lo, hi, FALSE) BY <1>1, <1>4
  <2>. QED BY <1>2, <2>1, EightbyteLowA
<1>. QED BY <1>3, <1>4

-----------------------------------------------------------------------------
(* Any call.                                                              *)

\* Every call on aarch64 does what it is for.
LEMMA NextClosesA == ASSUME Beyond = {}, Arm, Started, Closed, Next PROVE Closed'
<1>1. CASE CondSet BY <1>1, CondSetClosesA
<1>2. CASE Fresh
  <2>1. Rested BY <1>2, FreshRests
  <2>. QED BY <1>1, <2>1, MovClosesA, ZeroOutClosesA, MovRegClosesA, AddClosesA, SubClosesA, AddRegClosesA, SubRegClosesA,
     LslClosesA, CmpClosesA, CmpRegClosesA, StrRegClosesA, StrImmClosesA, LdrClosesA, StrRegoffClosesA,
     StrImmRegoffClosesA, LdrRegClosesA, ArrayStoreClosesA, ArrayLoadClosesA, ElemAddrClosesA,
     StorePackedClosesA, StoreEightbytesClosesA, ZerofillClosesA, Zenon DEF Next
<1>. QED BY <1>1, <1>2, FreshOrCondSet

CallInv == conv \in Convs /\ Started /\ Closed

\* The call invariant holds at the start.
LEMMA InitCall == Init => CallInv
<1> SUFFICES ASSUME Init PROVE CallInv OBVIOUS
<1>1. conv \in Convs /\ Started /\ listed = before /\ meant = Nothing BY DEF Init, Convs, Started
<1>2. meant.truth = << >> BY <1>1 DEF Nothing
<1>3. DoesWhatItIsFor BY <1>1 DEF DoesWhatItIsFor, Called
<1>4. VariablesKept BY <1>1, Zenon DEF VariablesKept, Same
<1>. QED BY <1>1, <1>2, <1>3, <1>4 DEF CallInv, Closed

\* Every call keeps the call invariant.
LEMMA NextCall == Beyond = {} /\ CallInv /\ [Next]_vars => CallInv'
<1> SUFFICES ASSUME Beyond = {}, CallInv, [Next]_vars PROVE CallInv' OBVIOUS
<1>1. conv' = conv /\ before' = before BY Calling DEF vars
<1>2. conv' \in Convs /\ Started'
  <2>1. Class' = Class BY <1>1 DEF Class
  <2>2. \A v, w : Start(v, w)' = Start(v, w) BY <2>1 DEF Start
  <2>3. conv \in Convs /\ Started BY DEF CallInv
  <2>4. PICK v, w \in Samples : before = Start(v, w) BY <2>3 DEF Started
  <2>5. before' = Start(v, w)' BY <1>1, <2>2, <2>4
  <2>. QED BY <1>1, <2>3, <2>5 DEF Started, Convs
<1>3. Closed'
  <2>1. Started /\ Closed /\ (X86 \/ Arm) BY DEF CallInv, Convs, X86, Arm
  <2>. QED BY <2>1, NextCloses86, NextClosesA, StutterCloses
<1>. QED BY <1>2, <1>3 DEF CallInv

\* Of every calling convention, byte width, memory and set of values, and
\* however calls follow each other: what the assembly of a call leaves is
\* what the call is for (the functions of emit.h; asm-x86_64.c, asm-
\* aarch64.c), except for the operands listed as known to go wrong.
THEOREM CallsDo == Beyond = {} => (Spec => []DoesWhatItIsFor)
<1> SUFFICES ASSUME Beyond = {} PROVE Spec => []DoesWhatItIsFor OBVIOUS
<1>1. Init => CallInv BY InitCall
<1>2. CallInv /\ [Next]_vars => CallInv' BY NextCall
<1>3. CallInv => DoesWhatItIsFor BY DEF CallInv, Closed
<1>. QED BY <1>1, <1>2, <1>3, PTL DEF Spec

\* No call changes a variable it was not given: what it takes for itself are
\* registers no variable is in (exe-elf-x86_64.c, exe-pe-x86_64.c; get_regoff
\* of asm-aarch64.c).
THEOREM CallsKeep == Beyond = {} => (Spec => []VariablesKept)
<1> SUFFICES ASSUME Beyond = {} PROVE Spec => []VariablesKept OBVIOUS
<1>1. Init => CallInv BY InitCall
<1>2. CallInv /\ [Next]_vars => CallInv' BY NextCall
<1>3. CallInv => VariablesKept BY DEF CallInv, Closed
<1>. QED BY <1>1, <1>2, <1>3, PTL DEF Spec
=============================================================================
