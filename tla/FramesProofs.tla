---------------------------- MODULE FramesProofs ----------------------------
(***************************************************************************)
(* The frames of emit_fn_prologue_epilogue, for every number of named      *)
(* registers and every size of locals: what the function returns with,     *)
(* where the stack pointer stands at its calls, and that its locals and    *)
(* its saved registers never meet.                                         *)
(*                                                                         *)
(* The invariant says, phase by phase, where the stack pointer is and      *)
(* which registers' values on entry are in their registers, and which in   *)
(* the words of the frame that are theirs (Slot).                          *)
(***************************************************************************)
EXTENDS Frames, TLAPS

Pushes(f) == f.nregs + OneIf(f.locals > 0)

Slot(f, r) ==
  IF f.target = "aarch64"
    THEN IF r = Fp THEN SaveArea(f) ELSE
         IF r = Lr THEN SaveArea(f) - 8 ELSE SaveArea(f) - 8 * (RegsToSave(f) - 1 - r)
    ELSE IF r = Fp THEN 8 ELSE 8 * (r + 1 + OneIf(f.locals > 0))

\* The values on entry of the named registers from i on, in their registers.
Intact(i) == \A r \in NRegs : r >= i => reg[r] = r

\* Those of the named registers from i to j - 1, in the frame.
Held(i, j) == \A r \in i .. j - 1 : mem[Slot(fn, r)] = r

HeldFp == fn.locals > 0 => mem[8] = Fp
HeldPair == NeedsFp(fn) => mem[Slot(fn, Fp)] = Fp /\ mem[Slot(fn, Lr)] = Lr

\* The words of locals lie between the saved registers and the stack pointer.
LocalsApart == \A w \in stored : base < w /\ w <= sp

FrameTyped ==
  /\ fn \in Frames
  /\ at \in Int /\ sp \in Int /\ base \in Words
  /\ reg \in [NRegs \cup {Fp, Lr} -> Contents]
  /\ mem \in [Words -> Contents]
  /\ stored \subseteq Words
  /\ named \subseteq 0 .. fn.nregs - 1

X86Inv ==
  /\ phase \in {"entry", "push", "body", "pop", "ret"}
  /\ mem[0] = Lr
  /\ at \in 0 .. fn.nregs
  /\ phase = "entry" => /\ at = 0 /\ sp = 0 /\ base = 0 /\ Intact(0) /\ reg[Fp] = Fp
                        /\ named = {} /\ stored = {}
  /\ phase = "push" => /\ sp = 8 * (at + Pushes(fn) - fn.nregs)
                       /\ base = 0 /\ Intact(0) /\ reg[Fp] = Fp
                       /\ HeldFp /\ Held(0, at)
                       /\ named = {} /\ stored = {}
  /\ phase = "body" => /\ at = fn.nregs
                       /\ sp = 8 * Pushes(fn) + Reserved(fn)
                       /\ fn.locals > 0 => base = 8 * Pushes(fn) + 32 * OneIf(fn.calls)
                       /\ Intact(fn.nregs) /\ HeldFp /\ Held(0, fn.nregs)
                       /\ fn.locals = 0 => base = 0 /\ reg[Fp] = Fp /\ stored = {}
                       /\ LocalsApart
  /\ phase = "pop" => /\ sp = 8 * (at + Pushes(fn) - fn.nregs)
                      /\ Intact(at) /\ HeldFp /\ Held(0, at)
                      /\ fn.locals = 0 => reg[Fp] = Fp
  /\ phase = "ret" => sp = 0 /\ Intact(0) /\ reg[Fp] = Fp

\* The count of registers to go jumps over the pair the frame begins with.
ArmInv ==
  /\ phase \in {"entry", "save", "body", "load", "ret"}
  /\ at \in 0 .. fn.nregs \/ at = RegsToSave(fn)
  /\ phase = "entry" => /\ sp = 0 /\ base = 0 /\ Intact(0) /\ reg[Fp] = Fp /\ reg[Lr] = Lr
                        /\ named = {} /\ stored = {}
  /\ phase = "save" => /\ sp = IF PreIndexed(fn) /\ at = RegsToSave(fn)
                                 THEN 0 ELSE FrameSize(fn)
                       /\ base = 0 /\ Intact(0) /\ reg[Fp] = Fp /\ reg[Lr] = Lr
                       /\ Held(at, fn.nregs)
                       /\ at <= fn.nregs => HeldPair
                       /\ named = {} /\ stored = {}
  /\ phase = "body" => /\ sp = FrameSize(fn)
                       /\ NeedsFp(fn) => base = SaveArea(fn)
                       /\ Intact(fn.nregs) /\ Held(0, fn.nregs) /\ HeldPair
                       /\ ~ NeedsFp(fn) => /\ base = 0 /\ stored = {}
                                           /\ reg[Fp] = Fp /\ reg[Lr] = Lr
                       /\ LocalsApart
  /\ phase = "load" => /\ sp = IF PreIndexed(fn) /\ RegsToSave(fn) = 1 /\ at = 0
                                 THEN 0 ELSE FrameSize(fn)
                       /\ Held(0, fn.nregs) /\ HeldPair
                       /\ ~ NeedsFp(fn) => reg[Fp] = Fp /\ reg[Lr] = Lr
                       /\ NeedsFp(fn) /\ ~ PreIndexed(fn) /\ at <= fn.nregs
                            => reg[Fp] = Fp /\ reg[Lr] = Lr
                       /\ Intact(fn.nregs)
                       /\ IF NeedsFp(fn) \/ ~ PreIndexed(fn) \/ RegsToSave(fn) = 1
                            THEN Intact(at)
                            ELSE /\ at <= fn.nregs - 2
                                 /\ \A r \in NRegs : r >= at /\ r < fn.nregs - 2 => reg[r] = r
  /\ phase = "ret" => sp = 0 /\ Intact(0) /\ reg[Fp] = Fp /\ reg[Lr] = Lr

FrameInv ==
  /\ FrameTyped
  /\ fn.target # "aarch64" => X86Inv
  /\ fn.target = "aarch64" => ArmInv

\* What the body has stored and named is still there.
BodyInv == phase = "body" => /\ "shadow" \notin Beyond => \A w \in stored : mem[w] = Local
                             /\ \A i \in named : reg[i] = Named
\* What registers and words hold.
LEMMA ContentsHave ==
  /\ NRegs \subseteq Contents
  /\ Fp \in Contents /\ Lr \in Contents
  /\ Junk \in Contents /\ Named \in Contents /\ Local \in Contents
BY DEF Contents

LEMMA ZeroWord == 0 \in Words
BY CountsAssumption DEF Words
-----------------------------------------------------------------------------
(* The counts of a frame. *)

\* Rounding up to a power of two the code uses.
LEMMA AlignBounds ==
  ASSUME NEW n \in Nat
  PROVE  /\ AlignTo(n, 16) \in Nat /\ AlignTo(n, 16) % 16 = 0
         /\ n <= AlignTo(n, 16) /\ AlignTo(n, 16) <= n + 15
         /\ AlignTo(n, 8) \in Nat /\ AlignTo(n, 8) % 8 = 0
         /\ n <= AlignTo(n, 8) /\ AlignTo(n, 8) <= n + 7
BY DEF AlignTo

LEMMA FrameTypes ==
  ASSUME NEW f \in Frames
  PROVE  /\ f.nregs \in 0 .. MaxRegs /\ f.nregs \in Nat /\ f.locals \in Nat
         /\ f.calls \in BOOLEAN /\ f.target \in {"linux", "windows", "aarch64"}
         /\ DepthOf(f) <= Deepest /\ MaxRegs \in Nat /\ Deepest \in Nat
         /\ OneIf(f.locals > 0) = (IF f.locals = 0 THEN 0 ELSE 1)
         /\ OneIf(f.calls) = (IF f.calls THEN 1 ELSE 0)
<1>1. /\ f.nregs \in 0 .. MaxRegs /\ f.locals \in LocalSizes
      /\ f.calls \in BOOLEAN /\ f.target \in Targets /\ DepthOf(f) <= Deepest
  BY DEF Frames
<1>2. f.locals \in Nat
  BY <1>1, CountsAssumption
<1>3. OneIf(f.locals > 0) = (IF f.locals = 0 THEN 0 ELSE 1)
  BY <1>2 DEF OneIf
<1>4. OneIf(f.calls) = (IF f.calls THEN 1 ELSE 0)
  BY DEF OneIf
<1>5. f.target \in {"linux", "windows", "aarch64"}
  BY <1>1, CountsAssumption
<1>6. MaxRegs \in Nat /\ Deepest \in Nat
  BY CountsAssumption
<1>7. f.nregs \in Nat
  BY <1>1, <1>6
<1>8. QED
  BY <1>1, <1>2, <1>3, <1>4, <1>5, <1>6, <1>7, Zenon

\* The room an x86-64 frame makes: it holds the shadow space and the locals,
\* and leaves a calling function's stack aligned.
LEMMA ReservedBounds ==
  ASSUME NEW f \in Frames
  PROVE  /\ Reserved(f) \in Nat /\ Reserved(f) % 8 = 0
         /\ Pushes(f) \in Nat
         /\ Pushes(f) = f.nregs + (IF f.locals = 0 THEN 0 ELSE 1)
         /\ f.calls => (8 * Pushes(f) + Reserved(f) + 8) % 16 = 0
         /\ \A b \in 0 .. f.locals : 32 * OneIf(f.calls) + AlignTo(b, 8) <= Reserved(f)
<1> DEFINE n == f.nregs
           l == f.locals
           p == OneIf(l > 0)
           c == OneIf(f.calls)
<1>1. n \in Nat /\ l \in Nat /\ p \in {0, 1} /\ c \in {0, 1}
  BY FrameTypes
<1> HIDE DEF n, l, p, c
<1>a. l + 32 * c \in Nat
  BY <1>1
<1>2. AlignTo(l + 32 * c, 16) \in Nat /\ AlignTo(l + 32 * c, 16) % 16 = 0
      /\ l + 32 * c <= AlignTo(l + 32 * c, 16)
  BY <1>a, AlignBounds
<1>3. Reserved(f) = AlignTo(l + 32 * c, 16) + 8 * ((n + p + c) % 2)
  BY DEF Reserved, n, l, p, c
<1>4. Pushes(f) = n + p
  BY DEF Pushes, n, l, p
<1>5. Reserved(f) \in Nat /\ Reserved(f) % 8 = 0 /\ l + 32 * c <= Reserved(f)
  BY <1>1, <1>2, <1>3
<1>6. c = 1 => (8 * Pushes(f) + Reserved(f) + 8) % 16 = 0
  <2> DEFINE a == AlignTo(l + 32 * c, 16)
  <2>1. a \in Nat /\ a % 16 = 0 /\ Reserved(f) = a + 8 * ((n + p + c) % 2)
    BY <1>2, <1>3
  <2> HIDE DEF a
  <2> SUFFICES ASSUME c = 1 PROVE (8 * (n + p) + Reserved(f) + 8) % 16 = 0
    BY <1>4
  <2>2. CASE (n + p) % 2 = 0
    <3>1. (n + p + 1) % 2 = 1
      BY <1>1, <2>2
    <3>2. QED
      BY <1>1, <2>1, <2>2, <3>1
  <2>3. CASE (n + p) % 2 = 1
    <3>1. (n + p + 1) % 2 = 0
      BY <1>1, <2>3
    <3>2. QED
      BY <1>1, <2>1, <2>3, <3>1
  <2>4. QED
    BY <1>1, <2>2, <2>3
<1>7. ASSUME NEW b \in 0 .. l PROVE 32 * c + AlignTo(b, 8) <= Reserved(f)
  <2>1. b \in Nat /\ AlignTo(b, 8) \in Nat /\ AlignTo(b, 8) % 8 = 0 /\ AlignTo(b, 8) <= b + 7
    BY <1>1, AlignBounds
  <2>2. QED
    BY <1>1, <1>5, <2>1
<1>8. QED
  <2>1. n = f.nregs /\ l = f.locals /\ c = OneIf(f.calls)
    BY DEF n, l, c
  <2>2. p = (IF f.locals = 0 THEN 0 ELSE 1) /\ (f.calls => c = 1)
    BY FrameTypes DEF p, c, l
  <2>3. \A b \in 0 .. f.locals : 32 * OneIf(f.calls) + AlignTo(b, 8) <= Reserved(f)
    BY <1>7, <2>1
  <2>4. QED
    BY <1>1, <1>4, <1>5, <1>6, <2>1, <2>2, <2>3

\* The frame of aarch64: every word of it is where its instruction can reach.
LEMMA FrameSizes ==
  ASSUME NEW f \in Frames, f.target = "aarch64", "large" \notin Beyond
  PROVE  /\ RegsToSave(f) \in Nat
         /\ RegsToSave(f) = f.nregs + (IF NeedsFp(f) THEN 2 ELSE 0)
         /\ SaveArea(f) \in Nat /\ SaveArea(f) % 16 = 0 /\ 8 * RegsToSave(f) <= SaveArea(f)
         /\ StackObjs(f) \in Nat /\ StackObjs(f) % 16 = 0
         /\ StackObjs(f) > 0 <=> f.locals > 0
         /\ \A b \in 0 .. f.locals : AlignTo(b, 8) <= StackObjs(f)
         /\ FrameSize(f) = SaveArea(f) + StackObjs(f)
         /\ FrameSize(f) <= 504 /\ FrameSize(f) + 512 <= Deepest
         /\ NeedsFp(f) <=> f.calls \/ f.locals > 0
<1> DEFINE n == f.nregs
           l == f.locals
<1>1. n \in Nat /\ l \in Nat /\ f.calls \in BOOLEAN
  BY FrameTypes
<1>2. RegsToSave(f) = n + (IF NeedsFp(f) THEN 2 ELSE 0)
  BY <1>1 DEF RegsToSave, OneIf
<1>3. RegsToSave(f) \in Nat
  BY <1>1, <1>2
<1>4. /\ SaveArea(f) \in Nat /\ SaveArea(f) % 16 = 0 /\ 8 * RegsToSave(f) <= SaveArea(f)
  <2>1. 8 * RegsToSave(f) \in Nat
    BY <1>3
  <2>2. QED
    BY <2>1, AlignBounds DEF SaveArea
<1>5. /\ StackObjs(f) \in Nat /\ StackObjs(f) % 16 = 0
      /\ l <= StackObjs(f) /\ StackObjs(f) <= l + 15
  BY <1>1, AlignBounds DEF StackObjs
<1>6. ASSUME NEW b \in 0 .. l PROVE AlignTo(b, 8) <= StackObjs(f)
  <2>1. b \in Nat /\ AlignTo(b, 8) \in Nat /\ AlignTo(b, 8) % 8 = 0 /\ AlignTo(b, 8) <= b + 7
    BY <1>1, AlignBounds
  <2>2. QED
    BY <1>1, <1>5, <2>1
<1>7. FrameSize(f) + 512 <= Deepest /\ FrameSize(f) <= 504
  BY <1>4, <1>5 DEF Frames, DepthOf, FrameSize
<1>8. QED
  BY <1>1, <1>2, <1>3, <1>4, <1>5, <1>6, <1>7 DEF FrameSize, NeedsFp

LEMMA FieldsHold ==
  ASSUME NEW n \in Nat, n % 8 = 0, n <= 504
  PROVE  Field7(n) = n /\ Field12(n) = n
BY DEF Field7, Field12
-----------------------------------------------------------------------------
(* x86-64. *)

\* Where an x86-64 frame keeps what, in numbers: p is 1 with a frame pointer.
LEMMA X86Places ==
  ASSUME FrameTyped, fn.target # "aarch64",
         NEW p, p = IF fn.locals = 0 THEN 0 ELSE 1
  PROVE  /\ fn.nregs \in Nat /\ fn.nregs <= MaxRegs /\ MaxRegs \in Nat /\ fn.locals \in Nat
         /\ fn.calls \in BOOLEAN /\ p \in {0, 1} /\ (p = 1 <=> fn.locals > 0)
         /\ Pushes(fn) = fn.nregs + p
         /\ \A r \in Int : r # Fp => Slot(fn, r) = 8 * (r + 1 + p)
         /\ \A d \in Int : d \in Words <=> 0 <= d /\ d <= Deepest /\ d % 8 = 0
         /\ 8 * (fn.nregs + 1) + Reserved(fn) <= Deepest
         /\ Reserved(fn) \in Nat /\ Reserved(fn) % 8 = 0 /\ Deepest \in Nat
<1>1. fn \in Frames
  BY DEF FrameTyped
<1>2. OneIf(fn.locals > 0) = p
  BY <1>1, FrameTypes
<1>3. \A r \in Int : r # Fp => Slot(fn, r) = 8 * (r + 1 + p)
  BY <1>2 DEF Slot
<1>4. 8 * (fn.nregs + 1) + Reserved(fn) <= Deepest
  BY <1>1, FrameTypes DEF DepthOf
<1>5. \A d \in Int : d \in Words <=> 0 <= d /\ d <= Deepest /\ d % 8 = 0
  BY <1>1, FrameTypes DEF Words
<1>6. fn.locals \in Nat /\ (p = 1 <=> fn.locals > 0)
  BY <1>1, FrameTypes
<1>7. Pushes(fn) = fn.nregs + p
  BY <1>1, ReservedBounds
<1>8. QED
  BY <1>1, <1>3, <1>4, <1>5, <1>6, <1>7, FrameTypes, ReservedBounds

LEMMA PushFpStep ==
  ASSUME FrameTyped, X86Inv, fn.target # "aarch64", PushFp
  PROVE  FrameTyped' /\ X86Inv'
<1> DEFINE p == IF fn.locals = 0 THEN 0 ELSE 1
<1>1. /\ fn.nregs \in Nat /\ MaxRegs \in Nat /\ fn.locals \in Nat
      /\ p \in {0, 1} /\ (p = 1 <=> fn.locals > 0) /\ Pushes(fn) = fn.nregs + p
      /\ 8 \in Words
  BY X86Places
<1> HIDE DEF p
<1>2. /\ phase' = "push" /\ fn' = fn /\ at' = 0 /\ base' = 0 /\ reg' = reg
      /\ named' = {} /\ stored' = {} /\ at = 0 /\ Intact(0) /\ reg[Fp] = Fp /\ sp = 0
  BY DEF PushFp, X86Inv
<1>3. /\ sp' = 8 * p
      /\ mem' \in [Words -> Contents] /\ mem'[0] = Lr
      /\ fn.locals > 0 => mem'[8] = Fp
  <2>1. 0 \in Words /\ mem \in [Words -> Contents] /\ mem[0] = Lr /\ Fp \in Int
    BY X86Places DEF X86Inv, FrameTyped, Fp
  <2>2. CASE fn.locals > 0
    <3>1. sp' = 8 /\ mem' = [mem EXCEPT ![8] = Fp] /\ p = 1
      BY <1>1, <1>2, <2>2 DEF PushFp, Push
    <3>2. QED
      BY <1>1, <2>1, <3>1, ContentsHave
  <2>3. CASE ~ (fn.locals > 0)
    <3>1. sp' = 0 /\ mem' = mem /\ p = 0
      BY <1>1, <1>2, <2>3 DEF PushFp
    <3>2. QED
      BY <2>1, <2>3, <3>1
  <2>4. QED
    BY <2>2, <2>3
<1>4. FrameTyped'
  BY <1>1, <1>2, <1>3, ZeroWord DEF FrameTyped
<1>5. X86Inv'
  BY <1>1, <1>2, <1>3 DEF X86Inv, Intact, Held, HeldFp
<1>6. QED
  BY <1>4, <1>5

LEMMA PushRegStep ==
  ASSUME FrameTyped, X86Inv, fn.target # "aarch64", PushReg
  PROVE  FrameTyped' /\ X86Inv'
<1> DEFINE p == IF fn.locals = 0 THEN 0 ELSE 1
<1>1. /\ fn.nregs \in Nat /\ fn.nregs <= MaxRegs /\ MaxRegs \in Nat /\ fn.locals \in Nat
      /\ p \in {0, 1} /\ (p = 1 <=> fn.locals > 0) /\ Pushes(fn) = fn.nregs + p
      /\ \A r \in Int : r # Fp => Slot(fn, r) = 8 * (r + 1 + p)
  BY X86Places
<1>2. /\ at \in Nat /\ at < fn.nregs /\ sp = 8 * (at + p) /\ sp + 8 \in Words
      /\ phase' = "push" /\ fn' = fn /\ at' = at + 1 /\ base' = 0 /\ reg' = reg
      /\ named' = {} /\ stored' = {} /\ Intact(0) /\ reg[Fp] = Fp
      /\ sp' = sp + 8 /\ mem' = [mem EXCEPT ![sp + 8] = reg[at]]
  <2>1. /\ phase = "push" /\ at \in 0 .. fn.nregs /\ at < fn.nregs
        /\ sp = 8 * (at + Pushes(fn) - fn.nregs)
    BY DEF PushReg, X86Inv
  <2>2. sp = 8 * (at + p) /\ sp + 8 \in Words
    BY <1>1, <2>1, X86Places
  <2>3. QED
    BY <1>1, <2>1, <2>2 DEF PushReg, Push, X86Inv
<1> HIDE DEF p
<1>3. reg[at] = at /\ at \in NRegs /\ mem \in [Words -> Contents]
  BY <1>1, <1>2 DEF Intact, NRegs, FrameTyped
<1>4. /\ mem' \in [Words -> Contents] /\ mem'[sp + 8] = at
      /\ \A d \in Words : d # sp + 8 => mem'[d] = mem[d]
  BY <1>2, <1>3, ContentsHave
<1>5. mem'[0] = Lr /\ (fn.locals > 0 => mem'[8] = Fp)
  <2>1. mem[0] = Lr /\ (fn.locals > 0 => mem[8] = Fp) /\ sp + 8 # 0
        /\ (fn.locals > 0 => sp + 8 # 8)
    BY <1>1, <1>2 DEF X86Inv, HeldFp, PushReg
  <2>2. 0 \in Words /\ 8 \in Words
    BY X86Places
  <2>3. QED
    BY <1>4, <2>1, <2>2
<1>6. ASSUME NEW r \in 0 .. at PROVE mem'[Slot(fn, r)] = r
  <2>1. Slot(fn, r) = 8 * (r + 1 + p)
    BY <1>1, <1>2 DEF Fp
  <2>2. CASE r = at
    BY <1>2, <1>1, <1>4, <2>1, <2>2
  <2>3. CASE r # at
    <3>1. mem[Slot(fn, r)] = r
      BY <1>2, <2>3 DEF X86Inv, Held, PushReg
    <3>2. Slot(fn, r) # sp + 8 /\ Slot(fn, r) \in Words
      BY <1>1, <1>2, <2>1, <2>3, X86Places
    <3>3. QED
      BY <1>4, <3>1, <3>2
  <2>4. QED
    BY <2>2, <2>3
<1>7. FrameTyped'
  BY <1>1, <1>2, <1>4, ZeroWord DEF FrameTyped
<1>8. X86Inv'
  <2>1. Held(0, at)' /\ HeldFp' /\ Intact(0)'
    <3>1. \A r \in 0 .. at' - 1 : r \in 0 .. at
      BY <1>2
    <3>2. QED
      BY <1>2, <1>5, <1>6, <3>1 DEF Held, HeldFp, Intact
  <2>2. sp' = 8 * (at' + Pushes(fn) - fn.nregs) /\ at' \in 0 .. fn.nregs
    BY <1>1, <1>2
  <2>3. QED
    BY <1>2, <1>5, <2>1, <2>2 DEF X86Inv
<1>9. QED
  BY <1>7, <1>8

LEMMA ReserveStep ==
  ASSUME FrameTyped, X86Inv, fn.target # "aarch64", Reserve
  PROVE  FrameTyped' /\ X86Inv'
<1> DEFINE p == IF fn.locals = 0 THEN 0 ELSE 1
<1>1. /\ fn.nregs \in Nat /\ fn.nregs <= MaxRegs /\ MaxRegs \in Nat /\ fn.locals \in Nat
      /\ p \in {0, 1} /\ (p = 1 <=> fn.locals > 0) /\ Pushes(fn) = fn.nregs + p
      /\ Reserved(fn) \in Nat /\ fn.calls \in BOOLEAN
  BY X86Places
<1> HIDE DEF p
<1>2. /\ phase = "push" /\ at = fn.nregs /\ sp = 8 * Pushes(fn) /\ base = 0
      /\ Intact(0) /\ reg[Fp] = Fp /\ HeldFp /\ Held(0, fn.nregs)
      /\ named = {} /\ stored = {} /\ mem[0] = Lr
  <2>1. phase = "push" /\ at = fn.nregs
    BY DEF Reserve
  <2>2. Held(0, fn.nregs) /\ sp = 8 * (fn.nregs + Pushes(fn) - fn.nregs)
    BY <2>1 DEF X86Inv, Held
  <2>3. sp = 8 * Pushes(fn)
    BY <1>1, <2>2
  <2>4. QED
    BY <2>1, <2>2, <2>3 DEF X86Inv
<1>3. /\ phase' = "body" /\ fn' = fn /\ at' = at /\ mem' = mem
      /\ named' = named /\ stored' = stored /\ sp' = sp + Reserved(fn)
      /\ fn.locals > 0 => base' = sp + 32 * OneIf(fn.calls)
      /\ fn.locals = 0 => base' = base /\ reg' = reg
  BY <1>1 DEF Reserve
<1>4. /\ reg' \in [NRegs \cup {Fp, Lr} -> Contents]
      /\ \A r \in NRegs : reg'[r] = reg[r]
  <2>1. reg' = [reg EXCEPT ![Fp] = Junk] \/ reg' = reg
    BY DEF Reserve
  <2>2. reg \in [NRegs \cup {Fp, Lr} -> Contents] /\ Junk \in Int /\ Fp \notin NRegs
    BY DEF FrameTyped, Junk, Fp, NRegs
  <2>3. QED
    BY <2>1, <2>2, ContentsHave
<1>5. base' \in Words
  <2> DEFINE c == 32 * OneIf(fn.calls)
  <2>1. c \in Nat /\ c % 8 = 0
    BY DEF OneIf
  <2>2. fn.locals > 0 => base' = sp + c
    BY <1>3
  <2>3. c <= Reserved(fn)
    <3>1. fn \in Frames /\ 0 \in 0 .. fn.locals /\ AlignTo(0, 8) = 0
      BY <1>1 DEF FrameTyped, AlignTo
    <3>2. c + AlignTo(0, 8) <= Reserved(fn)
      BY <3>1, ReservedBounds
    <3>3. QED
      BY <1>1, <2>1, <3>1, <3>2
  <2> HIDE DEF c
  <2>4. CASE fn.locals > 0
    <3>1. /\ 8 * (fn.nregs + 1) + Reserved(fn) <= Deepest
          /\ \A d \in Int : d \in Words <=> 0 <= d /\ d <= Deepest /\ d % 8 = 0
      BY X86Places
    <3>2. base' = 8 * (fn.nregs + 1) + c
      BY <1>1, <1>2, <2>2, <2>4
    <3>3. 8 * (fn.nregs + 1) + c \in Nat /\ (8 * (fn.nregs + 1) + c) % 8 = 0
      BY <1>1, <2>1
    <3>4. 8 * (fn.nregs + 1) + c <= Deepest
      BY <1>1, <2>1, <2>3, <3>1, CountsAssumption
    <3>5. QED
      BY <3>1, <3>2, <3>3, <3>4
  <2>5. CASE fn.locals = 0
    BY <1>3, <2>5 DEF FrameTyped
  <2>6. QED
    BY <1>1, <2>4, <2>5
<1>6. FrameTyped'
  BY <1>1, <1>2, <1>3, <1>4, <1>5 DEF FrameTyped
<1>7. X86Inv'
  <2>1. Intact(fn.nregs)' /\ HeldFp' /\ Held(0, fn.nregs)' /\ LocalsApart'
    BY <1>1, <1>2, <1>3, <1>4 DEF Intact, HeldFp, Held, LocalsApart, NRegs
  <2>2. QED
    BY <1>1, <1>2, <1>3, <2>1 DEF X86Inv
<1>8. QED
  BY <1>6, <1>7

LEMMA ReleaseStep ==
  ASSUME FrameTyped, X86Inv, fn.target # "aarch64", Release
  PROVE  FrameTyped' /\ X86Inv'
<1>1. /\ fn.nregs \in Nat /\ Pushes(fn) \in Int /\ Reserved(fn) \in Nat
  BY X86Places
<1>2. /\ phase = "body" /\ phase' = "pop"
      /\ UNCHANGED <<fn, at, base, reg, mem, named, stored>>
      /\ sp' = sp - Reserved(fn) /\ sp = 8 * Pushes(fn) + Reserved(fn) /\ at = fn.nregs
  BY DEF Release, X86Inv
<1>3. FrameTyped'
  BY <1>1, <1>2 DEF FrameTyped
<1>4. sp' = 8 * (at + Pushes(fn) - fn.nregs)
  BY <1>1, <1>2
<1>5. X86Inv'
  BY <1>2, <1>4 DEF X86Inv, Intact, Held, HeldFp
<1>6. QED
  BY <1>3, <1>5

LEMMA PopRegStep ==
  ASSUME FrameTyped, X86Inv, fn.target # "aarch64", PopReg
  PROVE  FrameTyped' /\ X86Inv'
<1> DEFINE p == IF fn.locals = 0 THEN 0 ELSE 1
<1>1. /\ fn.nregs \in Nat /\ fn.nregs <= MaxRegs /\ MaxRegs \in Nat /\ fn.locals \in Nat
      /\ p \in {0, 1} /\ (p = 1 <=> fn.locals > 0) /\ Pushes(fn) = fn.nregs + p
      /\ \A r \in Int : r # Fp => Slot(fn, r) = 8 * (r + 1 + p)
  BY X86Places
<1> HIDE DEF p
<1>2. /\ phase = "pop" /\ at \in Nat /\ at > 0 /\ at <= fn.nregs /\ sp = 8 * (at + p)
      /\ Intact(at) /\ HeldFp /\ Held(0, at) /\ mem[0] = Lr
      /\ fn.locals = 0 => reg[Fp] = Fp
  BY <1>1 DEF PopReg, X86Inv
<1>3. /\ phase' = "pop" /\ at' = at - 1 /\ sp' = sp - 8
      /\ reg' = [reg EXCEPT ![at - 1] = mem[sp]]
      /\ UNCHANGED <<fn, base, mem, named, stored>>
  BY <1>2 DEF PopReg, Pop
<1>4. mem[sp] = at - 1
  <2>1. at - 1 \in 0 .. at - 1 /\ at - 1 # Fp /\ at - 1 \in Int
    BY <1>2 DEF Fp
  <2>2. Slot(fn, at - 1) = sp
    BY <1>1, <1>2, <2>1
  <2>3. QED
    BY <1>2, <2>1, <2>2 DEF Held
<1>5. at - 1 \in NRegs /\ Fp # at - 1 /\ reg \in [NRegs \cup {Fp, Lr} -> Contents]
  BY <1>1, <1>2 DEF NRegs, Fp, FrameTyped
<1>6. /\ reg' \in [NRegs \cup {Fp, Lr} -> Contents] /\ reg'[Fp] = reg[Fp]
      /\ \A r \in NRegs : reg'[r] = IF r = at - 1 THEN at - 1 ELSE reg[r]
  BY <1>2, <1>3, <1>4, <1>5, ContentsHave
<1>7. FrameTyped'
  BY <1>1, <1>2, <1>3, <1>6 DEF FrameTyped
<1>8. X86Inv'
  <2>1. ASSUME NEW r \in NRegs, r >= at - 1 PROVE reg'[r] = r
    <3>1. r = at - 1 \/ r >= at
      BY <1>2, <2>1 DEF NRegs
    <3>2. QED
      BY <1>2, <1>6, <3>1 DEF Intact
  <2>2. HeldFp' /\ \A r \in 0 .. at - 2 : mem'[Slot(fn, r)] = r
    BY <1>2, <1>3 DEF Held, HeldFp
  <2>3. sp' = 8 * (at' + Pushes(fn) - fn.nregs) /\ at' \in 0 .. fn.nregs
        /\ at' - 1 = at - 2
    <3>1. sp' = 8 * (at + p) - 8 /\ at' = at - 1
      BY <1>2, <1>3
    <3>2. QED
      BY <1>1, <1>2, <3>1
  <2>4. Intact(at)' /\ Held(0, at)'
    BY <1>3, <2>1, <2>2, <2>3 DEF Intact, Held
  <2>5. QED
    BY <1>2, <1>3, <1>6, <2>2, <2>3 , <2>4 DEF X86Inv
<1>9. QED
  BY <1>7, <1>8

LEMMA PopFpStep ==
  ASSUME FrameTyped, X86Inv, fn.target # "aarch64", PopFp
  PROVE  FrameTyped' /\ X86Inv'
<1> DEFINE p == IF fn.locals = 0 THEN 0 ELSE 1
<1>1. /\ fn.nregs \in Nat /\ fn.locals \in Nat
      /\ p \in {0, 1} /\ (p = 1 <=> fn.locals > 0) /\ Pushes(fn) = fn.nregs + p
  BY X86Places
<1> HIDE DEF p
<1>2. /\ phase = "pop" /\ at = 0 /\ sp = 8 * p /\ Intact(0) /\ HeldFp /\ mem[0] = Lr
      /\ fn.locals = 0 => reg[Fp] = Fp
      /\ phase' = "ret" /\ UNCHANGED <<fn, at, base, mem, named, stored>>
  BY <1>1 DEF PopFp, X86Inv
<1>3. /\ sp' = 0 /\ reg' \in [NRegs \cup {Fp, Lr} -> Contents] /\ reg'[Fp] = Fp
      /\ \A r \in NRegs : reg'[r] = reg[r]
  <2>1. reg \in [NRegs \cup {Fp, Lr} -> Contents]
    BY DEF FrameTyped
  <2>2. CASE fn.locals > 0
    <3>1. sp = 8 /\ mem[sp] = Fp
      BY <1>1, <1>2, <2>2 DEF HeldFp
    <3>2. reg' = [reg EXCEPT ![Fp] = Fp] /\ sp' = 0
      BY <2>2, <3>1 DEF PopFp, Pop
    <3>3. QED
      BY <2>1, <3>2, ContentsHave DEF Fp, NRegs
  <2>3. CASE ~ (fn.locals > 0)
    BY <1>1, <1>2, <2>1, <2>3 DEF PopFp
  <2>4. QED
    BY <2>2, <2>3
<1>4. FrameTyped'
  BY <1>1, <1>2, <1>3 DEF FrameTyped
<1>5. X86Inv'
  BY <1>1, <1>2, <1>3 DEF X86Inv, Intact
<1>6. QED
  BY <1>4, <1>5
-----------------------------------------------------------------------------
(* aarch64. *)

\* Where an aarch64 frame keeps what: t registers, in a bytes, above o bytes
\* of locals.
LEMMA ArmPlaces ==
  ASSUME FrameTyped, fn.target = "aarch64", "large" \notin Beyond,
         NEW t, t = RegsToSave(fn), NEW a, a = SaveArea(fn), NEW o, o = StackObjs(fn)
  PROVE  /\ fn.nregs \in Nat /\ fn.nregs <= MaxRegs /\ MaxRegs \in Nat /\ fn.locals \in Nat
         /\ t \in Nat /\ t = fn.nregs + (IF NeedsFp(fn) THEN 2 ELSE 0)
         /\ a \in Nat /\ a % 16 = 0 /\ 8 * t <= a
         /\ o \in Nat /\ o % 16 = 0 /\ (o > 0 <=> fn.locals > 0)
         /\ FrameSize(fn) = a + o /\ a + o <= 504 /\ a + o <= Deepest
         /\ o > 0 => NeedsFp(fn)
         /\ PreIndexed(fn) <=> o = 0 /\ t > 0
         /\ \A r \in Int : r # Fp /\ r # Lr => Slot(fn, r) = a - 8 * (t - 1 - r)
         /\ Slot(fn, Fp) = a /\ Slot(fn, Lr) = a - 8
         /\ \A d \in Int : d \in Words <=> 0 <= d /\ d <= Deepest /\ d % 8 = 0
<1>1. fn \in Frames
  BY DEF FrameTyped
<1>2. /\ fn.nregs \in Nat /\ fn.nregs <= MaxRegs /\ MaxRegs \in Nat /\ fn.locals \in Nat
      /\ Deepest \in Nat
  BY <1>1, FrameTypes
<1>3. /\ t \in Nat /\ t = fn.nregs + (IF NeedsFp(fn) THEN 2 ELSE 0)
      /\ a \in Nat /\ a % 16 = 0 /\ 8 * t <= a
      /\ o \in Nat /\ o % 16 = 0 /\ (o > 0 <=> fn.locals > 0)
      /\ FrameSize(fn) = a + o /\ a + o <= 504 /\ a + o + 512 <= Deepest
      /\ o > 0 => NeedsFp(fn)
  BY <1>1, FrameSizes
<1>4. /\ \A r \in Int : r # Fp /\ r # Lr => Slot(fn, r) = a - 8 * (t - 1 - r)
      /\ Slot(fn, Fp) = a /\ Slot(fn, Lr) = a - 8
  BY DEF Slot, Fp, Lr
<1>5. \A d \in Int : d \in Words <=> 0 <= d /\ d <= Deepest /\ d % 8 = 0
  BY <1>2 DEF Words
<1>6. PreIndexed(fn) <=> o = 0 /\ t > 0
  BY DEF PreIndexed
<1>7. a + o <= Deepest
  BY <1>2, <1>3
<1>8. QED
  BY <1>2, <1>3, <1>4, <1>5, <1>6, <1>7

\* Which pair the count of registers to go stands for, and where it belongs.
LEMMA PairPlaces ==
  ASSUME FrameTyped, fn.target = "aarch64", "large" \notin Beyond,
         at \in 0 .. fn.nregs \/ at = RegsToSave(fn), at > 1
  PROVE  /\ at - 2 \in 0 .. fn.nregs
         /\ at \in Nat /\ PairHi \in Int /\ PairLo \in Int /\ PairHi # PairLo
         /\ at > fn.nregs <=> at = RegsToSave(fn) /\ NeedsFp(fn)
         /\ at > fn.nregs => at = fn.nregs + 2 /\ PairHi = Fp /\ PairLo = Lr
         /\ at <= fn.nregs => PairHi = at - 1 /\ PairLo = at - 2
         /\ PairHi \in NRegs \cup {Fp, Lr} /\ PairLo \in NRegs \cup {Fp, Lr}
         /\ Slot(fn, PairHi) = SaveArea(fn) - 8 * (RegsToSave(fn) - at)
         /\ Slot(fn, PairLo) = Slot(fn, PairHi) - 8
         /\ Slot(fn, PairHi) \in Words /\ Slot(fn, PairLo) \in Words
         /\ sp = FrameSize(fn) => PairDepth = Slot(fn, PairHi)
         /\ at = RegsToSave(fn) => Slot(fn, PairHi) = SaveArea(fn)
<1> DEFINE t == RegsToSave(fn)
           a == SaveArea(fn)
           o == StackObjs(fn)
<1>1. /\ fn.nregs \in Nat /\ fn.nregs <= MaxRegs /\ MaxRegs \in Nat
      /\ t \in Nat /\ t = fn.nregs + (IF NeedsFp(fn) THEN 2 ELSE 0)
      /\ a \in Nat /\ a % 16 = 0 /\ 8 * t <= a
      /\ o \in Nat /\ o % 16 = 0 /\ FrameSize(fn) = a + o /\ a + o <= 504 /\ a + o <= Deepest
      /\ \A r \in Int : r # Fp /\ r # Lr => Slot(fn, r) = a - 8 * (t - 1 - r)
      /\ Slot(fn, Fp) = a /\ Slot(fn, Lr) = a - 8
  BY ArmPlaces
<1>n. /\ fn.nregs \in Nat /\ fn.nregs <= MaxRegs /\ MaxRegs \in Nat
      /\ t \in Nat /\ a \in Nat /\ a % 16 = 0 /\ 8 * t <= a
      /\ o \in Nat /\ o % 16 = 0 /\ a + o <= 504 /\ a + o <= Deepest
      /\ Deepest \in Nat /\ fn.nregs <= t
  BY <1>1, CountsAssumption
<1>s. /\ \A r \in Int : r # Fp /\ r # Lr => Slot(fn, r) = a - 8 * (t - 1 - r)
      /\ FrameSize(fn) = a + o
  BY <1>1
<1>w. \A d \in Int : 0 <= d /\ d <= a /\ d % 8 = 0 => d \in Words
  BY <1>n DEF Words
<1>2. at \in Nat /\ at <= t
  BY <1>1
<1>3. Off = o + 8 * (t - at)
  BY DEF Off
<1>4. First <=> at = t
  BY DEF First
<1> HIDE DEF t, a, o
<1>5. CASE at > fn.nregs
  <2>1. at = t /\ NeedsFp(fn) /\ at = fn.nregs + 2
    BY <1>1, <1>5 DEF t
  <2>2. PairHi = Fp /\ PairLo = Lr
    BY <1>4, <2>1 DEF PairHi, PairLo
  <2>3. Off = o
    <3>1. at = t
      BY <2>1
    <3>2. o + 8 * (t - t) = o
      BY <1>n
    <3>3. QED
      BY <1>3, <3>1, <3>2
  <2>4. sp = FrameSize(fn) => PairDepth = a
    <3>1. Field7(o) = o
      <4>1. o % 8 = 0 /\ o <= 504
        BY <1>n
      <4>2. QED
        BY <1>n, <4>1, FieldsHold
    <3>2. QED
      BY <1>n, <1>s, <2>3, <3>1 DEF PairDepth
  <2>5. a \in Words /\ a - 8 \in Words
    <3>1. 0 <= a - 8 /\ a % 8 = 0 /\ (a - 8) % 8 = 0
      BY <1>n, <2>1
    <3>2. QED
      BY <1>n, <1>w, <3>1
  <2>6. a = a - 8 * (t - at) /\ at - 2 \in 0 .. fn.nregs
    BY <1>1, <2>1
  <2>7. Slot(fn, PairHi) = a /\ Slot(fn, PairLo) = a - 8
    BY <1>1, <2>2
  <2>8. /\ PairHi \in Int /\ PairLo \in Int /\ PairHi # PairLo
        /\ PairHi \in NRegs \cup {Fp, Lr} /\ PairLo \in NRegs \cup {Fp, Lr}
    BY <2>2 DEF Fp, Lr
  <2>9. ~ (at <= fn.nregs)
    BY <1>n, <1>2, <1>5
  <2>10. QED
    BY <1>2, <1>5, <2>1, <2>2, <2>4, <2>5, <2>6, <2>7, <2>8, <2>9 DEF t, a, o
<1>6. CASE ~ (at > fn.nregs)
  <2>1. at <= fn.nregs /\ ~ (at = t /\ NeedsFp(fn))
    BY <1>1, <1>2, <1>6
  <2>2. PairHi = at - 1 /\ PairLo = at - 2
    BY <1>4, <2>1 DEF PairHi, PairLo
  <2>3. /\ at - 1 \in Int /\ at - 2 \in Int /\ at - 1 # Fp /\ at - 1 # Lr
        /\ at - 2 # Fp /\ at - 2 # Lr
        /\ at - 1 \in NRegs /\ at - 2 \in NRegs /\ at - 1 # at - 2
    BY <1>n, <1>2, <2>1 DEF Fp, Lr, NRegs
  <2>4. Slot(fn, PairHi) = a - 8 * (t - at) /\ Slot(fn, PairLo) = a - 8 * (t - at) - 8
    <3>1. /\ Slot(fn, at - 1) = a - 8 * (t - 1 - (at - 1))
          /\ Slot(fn, at - 2) = a - 8 * (t - 1 - (at - 2))
      BY <1>s, <2>3
    <3>2. QED
      BY <1>n, <1>2, <2>2, <3>1
  <2>5. Off \in Nat /\ Off % 8 = 0 /\ Off <= 504
    BY <1>n, <1>2, <1>3
  <2>6. sp = FrameSize(fn) => PairDepth = a - 8 * (t - at)
    <3>1. Field7(Off) = Off
      BY <2>5, FieldsHold
    <3>2. (a + o) - (o + 8 * (t - at)) = a - 8 * (t - at)
      BY <1>n, <1>2
    <3>3. QED
      BY <1>s, <1>3, <3>1, <3>2 DEF PairDepth
  <2>7. a - 8 * (t - at) \in Words /\ a - 8 * (t - at) - 8 \in Words
    <3> DEFINE d == a - 8 * (t - at)
    <3>1. d \in Int /\ d % 8 = 0 /\ (d - 8) % 8 = 0
      BY <1>n, <1>2
    <3>2. 0 <= d - 8 /\ d <= a
      BY <1>n, <1>2
    <3> HIDE DEF d
    <3>3. d - 8 \in Int /\ 0 <= d /\ d - 8 <= a
      BY <1>n, <3>1, <3>2
    <3>4. d \in Words /\ d - 8 \in Words
      BY <1>w, <3>1, <3>2, <3>3
    <3>5. QED
      BY <3>4 DEF d
  <2>8. at = t => a - 8 * (t - at) = a
    BY <1>n, <1>2
  <2>9. at - 2 \in 0 .. fn.nregs
    BY <1>1, <1>2, <2>1
  <2>10. QED
    BY <1>2, <1>6, <2>1, <2>2, <2>3, <2>4, <2>6, <2>7, <2>8, <2>9 DEF t, a, o
<1>7. QED
  BY <1>5, <1>6

\* Numbers that the steps of aarch64 need of the frame.
LEMMA ArmNumbers ==
  ASSUME FrameTyped, fn.target = "aarch64", "large" \notin Beyond
  PROVE  /\ fn.nregs \in Nat /\ fn.nregs <= MaxRegs /\ MaxRegs \in Nat
         /\ RegsToSave(fn) \in Nat /\ fn.nregs <= RegsToSave(fn)
         /\ NeedsFp(fn) => RegsToSave(fn) = fn.nregs + 2
         /\ ~ NeedsFp(fn) => RegsToSave(fn) = fn.nregs
         /\ SaveArea(fn) \in Nat /\ StackObjs(fn) \in Nat
         /\ FrameSize(fn) = SaveArea(fn) + StackObjs(fn)
         /\ FrameSize(fn) \in Nat
         /\ Field12(FrameSize(fn)) = FrameSize(fn)
         /\ RegsToSave(fn) = 0 => FrameSize(fn) = 0
         /\ StackObjs(fn) > 0 => NeedsFp(fn)
         /\ PreIndexed(fn) => StackObjs(fn) = 0 /\ RegsToSave(fn) > 0
         /\ ~ PreIndexed(fn) => StackObjs(fn) > 0 \/ RegsToSave(fn) = 0
<1> DEFINE t == RegsToSave(fn)
           a == SaveArea(fn)
           o == StackObjs(fn)
<1>1. /\ fn.nregs \in Nat /\ fn.nregs <= MaxRegs /\ MaxRegs \in Nat
      /\ t \in Nat /\ t = fn.nregs + (IF NeedsFp(fn) THEN 2 ELSE 0)
      /\ a \in Nat /\ a % 16 = 0 /\ o \in Nat /\ o % 16 = 0
      /\ FrameSize(fn) = a + o /\ a + o <= 504 /\ (o > 0 => NeedsFp(fn))
      /\ (PreIndexed(fn) <=> o = 0 /\ t > 0)
  BY ArmPlaces
<1>2. t = 0 => a = 0
  BY DEF SaveArea, AlignTo, t, a
<1> HIDE DEF t, a, o
<1>3. a + o \in Nat /\ (a + o) % 8 = 0
  BY <1>1
<1>4. Field12(FrameSize(fn)) = FrameSize(fn)
  BY <1>1, <1>3, FieldsHold
<1>5. t = 0 => o = 0
  BY <1>1
<1>6. /\ NeedsFp(fn) => t = fn.nregs + 2
      /\ ~ NeedsFp(fn) => t = fn.nregs
      /\ fn.nregs <= t
  BY <1>1
<1>7. PreIndexed(fn) => o = 0 /\ t > 0
  BY <1>1
<1>8. ~ PreIndexed(fn) => o > 0 \/ t = 0
  BY <1>1
<1>9. t = 0 => FrameSize(fn) = 0
  BY <1>1, <1>2, <1>5
<1>10. QED
  BY <1>1, <1>3, <1>4, <1>6, <1>7, <1>8, <1>9 DEF t, a, o

LEMMA AllocateStep ==
  ASSUME FrameTyped, ArmInv, fn.target = "aarch64", "large" \notin Beyond, Allocate
  PROVE  FrameTyped' /\ ArmInv'
<1>1. /\ fn.nregs \in Nat /\ RegsToSave(fn) \in Nat /\ fn.nregs <= RegsToSave(fn)
      /\ NeedsFp(fn) => RegsToSave(fn) = fn.nregs + 2
      /\ FrameSize(fn) \in Nat
      /\ Field12(FrameSize(fn)) = FrameSize(fn)
      /\ RegsToSave(fn) = 0 => FrameSize(fn) = 0
      /\ PreIndexed(fn) => StackObjs(fn) = 0 /\ RegsToSave(fn) > 0
      /\ ~ PreIndexed(fn) => StackObjs(fn) > 0 \/ RegsToSave(fn) = 0
      /\ StackObjs(fn) \in Nat
  BY ArmNumbers
<1>2. /\ phase = "entry" /\ phase' = "save" /\ at' = RegsToSave(fn)
      /\ UNCHANGED <<fn, base, reg, mem, named, stored>>
      /\ base = 0 /\ Intact(0) /\ reg[Fp] = Fp /\ reg[Lr] = Lr /\ named = {} /\ stored = {}
      /\ sp' = IF StackObjs(fn) > 0 THEN FrameSize(fn) ELSE 0
  BY <1>1 DEF Allocate, ArmInv
<1>3. FrameTyped'
  BY <1>1, <1>2 DEF FrameTyped
<1>4. sp' = IF PreIndexed(fn) THEN 0 ELSE FrameSize(fn)
  BY <1>1, <1>2
<1>5. Held(at, fn.nregs)'
  BY <1>1, <1>2 DEF Held
<1>6. at' <= fn.nregs => HeldPair'
  BY <1>1, <1>2 DEF HeldPair
<1>7. Intact(0)'
  BY <1>2 DEF Intact
<1>8. QED
  BY <1>2, <1>3, <1>4, <1>5, <1>6, <1>7 DEF ArmInv

\* The words of an aarch64 frame are on the stack, one for each register.
LEMMA SlotWords ==
  ASSUME FrameTyped, fn.target = "aarch64", "large" \notin Beyond
  PROVE  /\ \A r \in 0 .. fn.nregs - 1 :
              /\ Slot(fn, r) = SaveArea(fn) - 8 * (RegsToSave(fn) - 1 - r)
              /\ Slot(fn, r) \in Words
         /\ Slot(fn, Fp) = SaveArea(fn) /\ Slot(fn, Lr) = SaveArea(fn) - 8
         /\ NeedsFp(fn) => Slot(fn, Fp) \in Words /\ Slot(fn, Lr) \in Words
<1>1. /\ fn.nregs \in Nat /\ RegsToSave(fn) \in Nat /\ fn.nregs <= RegsToSave(fn)
      /\ NeedsFp(fn) => RegsToSave(fn) = fn.nregs + 2
      /\ SaveArea(fn) \in Nat /\ StackObjs(fn) \in Nat
  BY ArmNumbers
<1>2. /\ SaveArea(fn) % 16 = 0 /\ 8 * RegsToSave(fn) <= SaveArea(fn)
      /\ SaveArea(fn) + StackObjs(fn) <= Deepest
      /\ \A x \in Int : x \in Words <=> 0 <= x /\ x <= Deepest /\ x % 8 = 0
      /\ \A r \in Int : r # Fp /\ r # Lr => Slot(fn, r) = SaveArea(fn) - 8 * (RegsToSave(fn) - 1 - r)
      /\ Slot(fn, Fp) = SaveArea(fn) /\ Slot(fn, Lr) = SaveArea(fn) - 8
  BY ArmPlaces
<1>3. ASSUME NEW r \in 0 .. fn.nregs - 1
      PROVE  /\ Slot(fn, r) = SaveArea(fn) - 8 * (RegsToSave(fn) - 1 - r)
             /\ Slot(fn, r) \in Words
  <2>1. r # Fp /\ r # Lr /\ r \in Int
    BY <1>1 DEF Fp, Lr
  <2>2. /\ SaveArea(fn) - 8 * (RegsToSave(fn) - 1 - r) \in Int
        /\ (SaveArea(fn) - 8 * (RegsToSave(fn) - 1 - r)) % 8 = 0
        /\ 0 <= SaveArea(fn) - 8 * (RegsToSave(fn) - 1 - r)
    <3> DEFINE a == SaveArea(fn)
               t == RegsToSave(fn)
    <3>1. a \in Nat /\ t \in Nat /\ a % 16 = 0 /\ 8 * t <= a /\ fn.nregs <= t /\ fn.nregs \in Nat
      BY <1>1, <1>2
    <3> HIDE DEF a, t
    <3>2. /\ a - 8 * (t - 1 - r) \in Int /\ (a - 8 * (t - 1 - r)) % 8 = 0
          /\ 0 <= a - 8 * (t - 1 - r)
      BY <3>1
    <3>3. QED
      BY <3>2 DEF a, t
  <2>3. SaveArea(fn) - 8 * (RegsToSave(fn) - 1 - r) <= Deepest
    BY <1>1, <1>2, CountsAssumption
  <2>4. QED
    BY <1>2, <2>1, <2>2, <2>3
<1>4. ASSUME NeedsFp(fn) PROVE SaveArea(fn) \in Words /\ SaveArea(fn) - 8 \in Words
  <2>1. 0 <= SaveArea(fn) - 8 /\ (SaveArea(fn) - 8) % 8 = 0 /\ SaveArea(fn) % 8 = 0
    <3> DEFINE a == SaveArea(fn)
               t == RegsToSave(fn)
    <3>1. a \in Nat /\ t \in Nat /\ a % 16 = 0 /\ 8 * t <= a /\ t >= 2
      BY <1>1, <1>2, <1>4
    <3> HIDE DEF a, t
    <3>2. 0 <= a - 8 /\ (a - 8) % 8 = 0 /\ a % 8 = 0
      BY <3>1
    <3>3. QED
      BY <3>2 DEF a
  <2>2. SaveArea(fn) <= Deepest /\ SaveArea(fn) - 8 <= Deepest
    BY <1>1, <1>2, CountsAssumption
  <2>3. QED
    BY <1>1, <1>2, <2>1, <2>2
<1>5. QED
  BY <1>2, <1>3, <1>4

LEMMA SavePairStep ==
  ASSUME FrameTyped, ArmInv, fn.target = "aarch64", "large" \notin Beyond, SavePair
  PROVE  FrameTyped' /\ ArmInv'
<1> DEFINE d == Slot(fn, PairHi)
           e == Slot(fn, PairLo)
<1>1. /\ phase = "save" /\ at > 1 /\ phase' = "save" /\ at' = at - 2
      /\ at \in 0 .. fn.nregs \/ at = RegsToSave(fn)
      /\ UNCHANGED <<fn, base, reg, named, stored>>
      /\ sp = IF PreIndexed(fn) /\ at = RegsToSave(fn) THEN 0 ELSE FrameSize(fn)
      /\ base = 0 /\ Intact(0) /\ reg[Fp] = Fp /\ reg[Lr] = Lr
      /\ Held(at, fn.nregs) /\ (at <= fn.nregs => HeldPair)
      /\ named = {} /\ stored = {} /\ sp' = StoreSp
      /\ mem' = [mem EXCEPT ![SaveDepth] = reg[PairHi], ![SaveDepth - 8] = reg[PairLo]]
  BY DEF SavePair, ArmInv
<1>2. /\ at - 2 \in 0 .. fn.nregs /\ at \in Nat
      /\ PairHi \in Int /\ PairLo \in Int /\ PairHi # PairLo
      /\ at > fn.nregs => at = fn.nregs + 2 /\ PairHi = Fp /\ PairLo = Lr
      /\ at <= fn.nregs => PairHi = at - 1 /\ PairLo = at - 2
      /\ PairHi \in NRegs \cup {Fp, Lr} /\ PairLo \in NRegs \cup {Fp, Lr}
      /\ d = SaveArea(fn) - 8 * (RegsToSave(fn) - at)
      /\ e = d - 8 /\ d \in Words /\ e \in Words
      /\ sp = FrameSize(fn) => PairDepth = d
      /\ at = RegsToSave(fn) => d = SaveArea(fn)
  BY <1>1, PairPlaces
<1>3. /\ fn.nregs \in Nat /\ RegsToSave(fn) \in Nat /\ fn.nregs <= RegsToSave(fn)
      /\ NeedsFp(fn) => RegsToSave(fn) = fn.nregs + 2
      /\ ~ NeedsFp(fn) => RegsToSave(fn) = fn.nregs
      /\ FrameSize(fn) \in Nat /\ SaveArea(fn) \in Nat /\ StackObjs(fn) \in Nat
      /\ FrameSize(fn) = SaveArea(fn) + StackObjs(fn)
      /\ PreIndexed(fn) => StackObjs(fn) = 0
  BY ArmNumbers
<1>4. \A r \in 0 .. fn.nregs - 1 : /\ Slot(fn, r) = SaveArea(fn) - 8 * (RegsToSave(fn) - 1 - r)
                                   /\ Slot(fn, r) \in Words
  BY SlotWords
<1>5. /\ Slot(fn, Fp) = SaveArea(fn) /\ Slot(fn, Lr) = SaveArea(fn) - 8
      /\ NeedsFp(fn) => Slot(fn, Fp) \in Words /\ Slot(fn, Lr) \in Words
  BY SlotWords
<1> HIDE DEF d, e
<1>6. StoreSp = FrameSize(fn) /\ SaveDepth = d
  <2>1. CASE PreIndexed(fn) /\ at = RegsToSave(fn)
    BY <1>2, <1>3, <2>1 DEF StoreSp, SaveDepth, First
  <2>2. CASE ~ (PreIndexed(fn) /\ at = RegsToSave(fn))
    BY <1>1, <1>2, <2>2 DEF StoreSp, SaveDepth, First
  <2>3. QED
    BY <2>1, <2>2
<1>7. reg[PairHi] = PairHi /\ reg[PairLo] = PairLo
  BY <1>1, <1>2 DEF Intact, NRegs
<1>8. /\ mem' \in [Words -> Contents] /\ mem'[d] = PairHi /\ mem'[e] = PairLo
      /\ \A x \in Words : x # d /\ x # e => mem'[x] = mem[x]
  <2>1. mem' = [mem EXCEPT ![d] = PairHi, ![e] = PairLo]
    BY <1>1, <1>2, <1>6, <1>7
  <2>2. d # e /\ d \in Int
    BY <1>2, <1>3
  <2>3. QED
    BY <1>2, <2>1, <2>2, ContentsHave DEF FrameTyped
<1>9. ASSUME NEW r \in at - 2 .. fn.nregs - 1 PROVE mem'[Slot(fn, r)] = r
  <2>1. at <= fn.nregs \/ ~ (at > fn.nregs)
    BY <1>2, <1>3
  <2>2. at <= fn.nregs /\ PairHi = at - 1 /\ PairLo = at - 2 /\ r \in Int
    BY <1>2, <1>3
  <2>3. CASE r = at - 1
    BY <1>8, <2>2, <2>3 DEF d
  <2>4. CASE r = at - 2
    BY <1>8, <2>2, <2>4 DEF e
  <2>5. CASE r >= at
    <3>1. r \in at .. fn.nregs - 1 /\ r \in 0 .. fn.nregs - 1 /\ r # Fp /\ r # Lr
      BY <1>2, <1>3, <2>2, <2>5 DEF Fp, Lr
    <3>2. mem[Slot(fn, r)] = r
      BY <1>1, <3>1 DEF Held
    <3>3. Slot(fn, r) # d /\ Slot(fn, r) # e
      <4>1. Slot(fn, r) = SaveArea(fn) - 8 * (RegsToSave(fn) - 1 - r)
        BY <1>4, <3>1
      <4>2. QED
        BY <1>2, <1>3, <2>2, <2>5, <4>1
    <3>4. QED
      BY <1>4, <1>8, <3>1, <3>2, <3>3
  <2>6. QED
    BY <1>2, <2>2, <2>3, <2>4, <2>5
<1>10. HeldPair'
  <2> SUFFICES ASSUME NeedsFp(fn) PROVE mem'[Slot(fn, Fp)] = Fp /\ mem'[Slot(fn, Lr)] = Lr
    BY <1>1 DEF HeldPair
  <2>1. CASE at > fn.nregs
    BY <1>2, <1>8, <2>1 DEF d, e
  <2>2. CASE ~ (at > fn.nregs)
    <3>1. at <= fn.nregs /\ mem[Slot(fn, Fp)] = Fp /\ mem[Slot(fn, Lr)] = Lr
      BY <1>1, <1>2, <1>3, <2>2 DEF HeldPair
    <3>2. d <= SaveArea(fn) - 16
      BY <1>2, <1>3, <3>1
    <3>3. d \in Int /\ e \in Int /\ e < d
      BY <1>2, <1>3
    <3>4. Slot(fn, Fp) \in Words /\ Slot(fn, Lr) \in Words
      BY <1>5
    <3>5. /\ SaveArea(fn) # d /\ SaveArea(fn) # e
          /\ SaveArea(fn) - 8 # d /\ SaveArea(fn) - 8 # e
      BY <1>3, <3>2, <3>3
    <3>6. QED
      BY <1>5, <1>8, <3>1, <3>4, <3>5
  <2>3. QED
    BY <2>1, <2>2
<1>11. FrameTyped'
  BY <1>1, <1>2, <1>3, <1>6, <1>8 DEF FrameTyped
<1>12. at' \in 0 .. fn.nregs /\ (PreIndexed(fn) => at' # RegsToSave(fn))
  BY <1>1, <1>2, <1>3
<1>13. Intact(0)' /\ Held(at, fn.nregs)'
  <2>1. Intact(0)'
    BY <1>1 DEF Intact
  <2>2. Held(at, fn.nregs)'
    BY <1>1, <1>9 DEF Held
  <2>3. QED
    BY <2>1, <2>2
<1>14. QED
  BY <1>1, <1>6, <1>10, <1>11, <1>12, <1>13 DEF ArmInv

LEMMA SaveLastStep ==
  ASSUME FrameTyped, ArmInv, fn.target = "aarch64", "large" \notin Beyond, SaveLast
  PROVE  FrameTyped' /\ ArmInv'
<1> DEFINE d == Slot(fn, 0)
<1>1. /\ phase = "save" /\ at = 1 /\ phase' = "save" /\ at' = 0
      /\ at \in 0 .. fn.nregs \/ at = RegsToSave(fn)
      /\ UNCHANGED <<fn, base, reg, named, stored>>
      /\ sp = IF PreIndexed(fn) /\ at = RegsToSave(fn) THEN 0 ELSE FrameSize(fn)
      /\ base = 0 /\ Intact(0) /\ reg[Fp] = Fp /\ reg[Lr] = Lr
      /\ Held(1, fn.nregs) /\ (1 <= fn.nregs => HeldPair)
      /\ named = {} /\ stored = {} /\ sp' = StoreSp
      /\ mem' = [mem EXCEPT ![StoreSp - (IF First /\ PreIndexed(fn) THEN 0 ELSE Off)] = reg[0]]
  BY DEF SaveLast, ArmInv, Held
<1>2. /\ fn.nregs \in Nat /\ fn.nregs <= MaxRegs /\ MaxRegs \in Nat
      /\ RegsToSave(fn) \in Nat /\ fn.nregs <= RegsToSave(fn)
      /\ NeedsFp(fn) => RegsToSave(fn) = fn.nregs + 2
      /\ ~ NeedsFp(fn) => RegsToSave(fn) = fn.nregs
      /\ FrameSize(fn) \in Nat /\ SaveArea(fn) \in Nat /\ StackObjs(fn) \in Nat
      /\ FrameSize(fn) = SaveArea(fn) + StackObjs(fn)
      /\ PreIndexed(fn) => StackObjs(fn) = 0
  BY ArmNumbers
<1>3. 1 <= fn.nregs
  BY <1>1, <1>2
<1>4. /\ \A r \in 0 .. fn.nregs - 1 : /\ Slot(fn, r) = SaveArea(fn) - 8 * (RegsToSave(fn) - 1 - r)
                                      /\ Slot(fn, r) \in Words
      /\ Slot(fn, Fp) = SaveArea(fn) /\ Slot(fn, Lr) = SaveArea(fn) - 8
      /\ NeedsFp(fn) => Slot(fn, Fp) \in Words /\ Slot(fn, Lr) \in Words
  BY SlotWords
<1>5. d = SaveArea(fn) - 8 * (RegsToSave(fn) - 1) /\ d \in Words
  <2>1. 0 \in 0 .. fn.nregs - 1
    BY <1>2, <1>3
  <2>2. Slot(fn, 0) = SaveArea(fn) - 8 * (RegsToSave(fn) - 1 - 0) /\ Slot(fn, 0) \in Words
    BY <1>4, <2>1
  <2>3. QED
    BY <1>2, <2>2
<1> HIDE DEF d
<1>6. /\ StoreSp = FrameSize(fn)
      /\ StoreSp - (IF First /\ PreIndexed(fn) THEN 0 ELSE Off) = d
  <2>1. CASE PreIndexed(fn) /\ at = RegsToSave(fn)
    <3>1. First /\ StoreSp = FrameSize(fn) /\ StackObjs(fn) = 0 /\ RegsToSave(fn) = 1
      BY <1>1, <1>2, <2>1 DEF StoreSp, First
    <3>2. d = SaveArea(fn) /\ FrameSize(fn) - 0 = SaveArea(fn)
      BY <1>2, <1>5, <3>1
    <3>3. QED
      BY <2>1, <3>1, <3>2
  <2>2. CASE ~ (PreIndexed(fn) /\ at = RegsToSave(fn))
    <3>1. ~ (First /\ PreIndexed(fn)) /\ StoreSp = FrameSize(fn)
      BY <1>1, <2>2 DEF StoreSp, First
    <3>2. FrameSize(fn) - Off = d
      BY <1>1, <1>2, <1>5 DEF Off
    <3>3. QED
      BY <3>1, <3>2
  <2>3. QED
    BY <2>1, <2>2
<1>7. reg[0] = 0 /\ 0 \in NRegs
  BY <1>1, <1>2, <1>3 DEF Intact, NRegs
<1>8. /\ mem' \in [Words -> Contents] /\ mem'[d] = 0
      /\ \A x \in Words : x # d => mem'[x] = mem[x]
  BY <1>1, <1>5, <1>6, <1>7, ContentsHave DEF FrameTyped
<1>9. ASSUME NEW r \in 0 .. fn.nregs - 1 PROVE mem'[Slot(fn, r)] = r
  <2>1. CASE r = 0
    BY <1>8, <2>1 DEF d
  <2>2. CASE r # 0
    <3>1. r \in 1 .. fn.nregs - 1
      BY <1>2, <2>2
    <3>2. mem[Slot(fn, r)] = r
      BY <1>1, <3>1 DEF Held
    <3>3. Slot(fn, r) # d
      BY <1>2, <1>4, <1>5, <2>2
    <3>4. QED
      BY <1>4, <1>8, <3>2, <3>3
  <2>3. QED
    BY <2>1, <2>2
<1>10. HeldPair'
  <2> SUFFICES ASSUME NeedsFp(fn) PROVE mem'[Slot(fn, Fp)] = Fp /\ mem'[Slot(fn, Lr)] = Lr
    BY <1>1 DEF HeldPair
  <2>1. mem[Slot(fn, Fp)] = Fp /\ mem[Slot(fn, Lr)] = Lr
    BY <1>1, <1>3 DEF HeldPair
  <2>2. Slot(fn, Fp) # d /\ Slot(fn, Lr) # d
    BY <1>2, <1>3, <1>4, <1>5
  <2>3. QED
    BY <1>4, <1>8, <2>1, <2>2
<1>11. FrameTyped'
  BY <1>1, <1>2, <1>6, <1>8 DEF FrameTyped
<1>12. Intact(0)' /\ Held(at, fn.nregs)'
  BY <1>1, <1>9 DEF Intact, Held
<1>13. at' \in 0 .. fn.nregs /\ at' <= fn.nregs /\ (PreIndexed(fn) => at' # RegsToSave(fn))
  BY <1>1, <1>2, <1>3
<1>14. QED
  BY <1>1, <1>6, <1>10, <1>11, <1>12, <1>13 DEF ArmInv

LEMMA PointFrameStep ==
  ASSUME FrameTyped, ArmInv, fn.target = "aarch64", "large" \notin Beyond, PointFrame
  PROVE  FrameTyped' /\ ArmInv'
<1>1. /\ phase = "save" /\ at = 0 /\ phase' = "body"
      /\ UNCHANGED <<fn, at, sp, mem, named, stored>>
      /\ sp = IF PreIndexed(fn) /\ at = RegsToSave(fn) THEN 0 ELSE FrameSize(fn)
      /\ base = 0 /\ Intact(0) /\ reg[Fp] = Fp /\ reg[Lr] = Lr
      /\ Held(0, fn.nregs) /\ (0 <= fn.nregs => HeldPair) /\ stored = {} /\ named = {}
      /\ NeedsFp(fn) => base' = sp - StackObjs(fn) /\ reg' = [reg EXCEPT ![Fp] = Junk]
      /\ ~ NeedsFp(fn) => UNCHANGED <<base, reg>>
  BY DEF PointFrame, ArmInv, Held
<1>2. /\ fn.nregs \in Nat /\ RegsToSave(fn) \in Nat
      /\ FrameSize(fn) \in Nat /\ SaveArea(fn) \in Nat /\ StackObjs(fn) \in Nat
      /\ FrameSize(fn) = SaveArea(fn) + StackObjs(fn)
      /\ PreIndexed(fn) => RegsToSave(fn) > 0
  BY ArmNumbers
<1>3. sp = FrameSize(fn) /\ HeldPair
  BY <1>1, <1>2
<1>4. NeedsFp(fn) => base' = SaveArea(fn)
  BY <1>1, <1>2, <1>3
<1>5. /\ reg' \in [NRegs \cup {Fp, Lr} -> Contents]
      /\ \A r \in NRegs : reg'[r] = reg[r]
  <2>1. reg \in [NRegs \cup {Fp, Lr} -> Contents] /\ Junk \in Int /\ Fp \notin NRegs
    BY DEF FrameTyped, Junk, Fp, NRegs
  <2>2. QED
    BY <1>1, <1>2, <1>4, <2>1, ContentsHave
<1>6. FrameTyped'
  <2>1. base' \in Words
    <3> DEFINE a == SaveArea(fn)
               o == StackObjs(fn)
               t == RegsToSave(fn)
    <3>1. /\ a \in Nat /\ a % 16 = 0 /\ o \in Nat /\ a + o <= Deepest
          /\ \A d \in Int : d \in Words <=> 0 <= d /\ d <= Deepest /\ d % 8 = 0
      BY ArmPlaces
    <3>2. NeedsFp(fn) => base' = a
      BY <1>4
    <3> HIDE DEF a, o, t
    <3>3. a \in Words
      BY <3>1, CountsAssumption
    <3>4. QED
      BY <1>1, <3>2, <3>3 DEF FrameTyped
  <2>2. QED
    BY <1>1, <1>5, <2>1 DEF FrameTyped
<1>7. Intact(fn.nregs)' /\ Held(0, fn.nregs)' /\ HeldPair' /\ LocalsApart'
  <2>1. Intact(fn.nregs)'
    BY <1>1, <1>2, <1>5 DEF Intact, NRegs
  <2>2. QED
    BY <1>1, <1>3, <2>1 DEF Held, HeldPair, LocalsApart
<1>8. QED
  BY <1>1, <1>2, <1>3, <1>4, <1>6, <1>7 DEF ArmInv

LEMMA StartLoadsStep ==
  ASSUME FrameTyped, ArmInv, fn.target = "aarch64", "large" \notin Beyond, StartLoads
  PROVE  FrameTyped' /\ ArmInv'
<1>1. /\ phase = "body" /\ phase' = "load"
      /\ UNCHANGED <<fn, sp, base, reg, mem, named, stored>>
      /\ at' = RegsToSave(fn) - 2 * OneIf(Deferred)
      /\ sp = FrameSize(fn) /\ Intact(fn.nregs) /\ Held(0, fn.nregs) /\ HeldPair
      /\ ~ NeedsFp(fn) => reg[Fp] = Fp /\ reg[Lr] = Lr
  BY DEF StartLoads, ArmInv
<1>2. /\ fn.nregs \in Nat
      /\ RegsToSave(fn) \in Nat /\ fn.nregs <= RegsToSave(fn)
      /\ NeedsFp(fn) => RegsToSave(fn) = fn.nregs + 2
      /\ ~ NeedsFp(fn) => RegsToSave(fn) = fn.nregs
      /\ FrameSize(fn) \in Nat /\ SaveArea(fn) \in Nat /\ StackObjs(fn) \in Nat
      /\ FrameSize(fn) = SaveArea(fn) + StackObjs(fn)
      /\ StackObjs(fn) > 0 => NeedsFp(fn)
      /\ PreIndexed(fn) => StackObjs(fn) = 0 /\ RegsToSave(fn) > 0
      /\ ~ PreIndexed(fn) => StackObjs(fn) > 0 \/ RegsToSave(fn) = 0
      /\ RegsToSave(fn) = 0 => FrameSize(fn) = 0
  BY ArmNumbers
<1>3. Deferred <=> PreIndexed(fn) /\ RegsToSave(fn) > 1
  BY DEF Deferred
<1>4. at' = IF PreIndexed(fn) /\ RegsToSave(fn) > 1 THEN RegsToSave(fn) - 2 ELSE RegsToSave(fn)
  BY <1>1, <1>2, <1>3 DEF OneIf
<1>5. /\ at' \in 0 .. fn.nregs \/ at' = RegsToSave(fn)
      /\ at' \in Int
      /\ ~ (PreIndexed(fn) /\ RegsToSave(fn) = 1 /\ at' = 0)
      /\ ~ (NeedsFp(fn) /\ ~ PreIndexed(fn) /\ at' <= fn.nregs)
      /\ (NeedsFp(fn) \/ ~ PreIndexed(fn) \/ RegsToSave(fn) = 1) => at' >= fn.nregs
      /\ ~ (NeedsFp(fn) \/ ~ PreIndexed(fn) \/ RegsToSave(fn) = 1) => at' = fn.nregs - 2
  BY <1>2, <1>4
<1>6. FrameTyped'
  BY <1>1, <1>5 DEF FrameTyped
<1>7. /\ Held(0, fn.nregs)' /\ HeldPair' /\ Intact(fn.nregs)'
      /\ at' >= fn.nregs => Intact(at)'
  BY <1>1, <1>2, <1>5 DEF Held, HeldPair, Intact, NRegs
<1>8. at' = fn.nregs - 2 => \A r \in NRegs : ~ (r >= at' /\ r < fn.nregs - 2)
  BY <1>2 DEF NRegs
<1>9. QED
  BY <1>1, <1>5, <1>6, <1>7, <1>8 DEF ArmInv

LEMMA LoadPairStep ==
  ASSUME FrameTyped, ArmInv, fn.target = "aarch64", "large" \notin Beyond, LoadPair
  PROVE  FrameTyped' /\ ArmInv'
<1>1. /\ phase = "load" /\ at > 1 /\ phase' = "load" /\ at' = at - 2
      /\ at \in 0 .. fn.nregs \/ at = RegsToSave(fn)
      /\ UNCHANGED <<fn, sp, base, mem, named, stored>>
      /\ sp = IF PreIndexed(fn) /\ RegsToSave(fn) = 1 /\ at = 0 THEN 0 ELSE FrameSize(fn)
      /\ Held(0, fn.nregs) /\ HeldPair
      /\ ~ NeedsFp(fn) => reg[Fp] = Fp /\ reg[Lr] = Lr
      /\ NeedsFp(fn) /\ ~ PreIndexed(fn) /\ at <= fn.nregs => reg[Fp] = Fp /\ reg[Lr] = Lr
      /\ Intact(fn.nregs)
      /\ reg' = [reg EXCEPT ![PairHi] = mem[PairDepth], ![PairLo] = mem[PairDepth - 8]]
  BY DEF LoadPair, ArmInv
<1>2. /\ at - 2 \in 0 .. fn.nregs /\ at \in Nat
      /\ PairHi \in Int /\ PairLo \in Int /\ PairHi # PairLo
      /\ at > fn.nregs <=> at = RegsToSave(fn) /\ NeedsFp(fn)
      /\ at > fn.nregs => at = fn.nregs + 2 /\ PairHi = Fp /\ PairLo = Lr
      /\ at <= fn.nregs => PairHi = at - 1 /\ PairLo = at - 2
      /\ PairHi \in NRegs \cup {Fp, Lr} /\ PairLo \in NRegs \cup {Fp, Lr}
      /\ Slot(fn, PairLo) = Slot(fn, PairHi) - 8
      /\ sp = FrameSize(fn) => PairDepth = Slot(fn, PairHi)
  BY <1>1, PairPlaces
<1>3. /\ fn.nregs \in Nat
      /\ RegsToSave(fn) \in Nat /\ fn.nregs <= RegsToSave(fn)
      /\ NeedsFp(fn) => RegsToSave(fn) = fn.nregs + 2
      /\ ~ NeedsFp(fn) => RegsToSave(fn) = fn.nregs
      /\ FrameSize(fn) \in Nat /\ SaveArea(fn) \in Nat /\ StackObjs(fn) \in Nat
      /\ FrameSize(fn) = SaveArea(fn) + StackObjs(fn)
      /\ StackObjs(fn) > 0 => NeedsFp(fn)
      /\ PreIndexed(fn) => StackObjs(fn) = 0 /\ RegsToSave(fn) > 0
      /\ ~ PreIndexed(fn) => StackObjs(fn) > 0 \/ RegsToSave(fn) = 0
      /\ RegsToSave(fn) = 0 => FrameSize(fn) = 0
  BY ArmNumbers
<1>4. sp = FrameSize(fn) /\ PairDepth = Slot(fn, PairHi) /\ PairDepth - 8 = Slot(fn, PairLo)
  BY <1>1, <1>2
<1>5. mem[PairDepth] = PairHi /\ mem[PairDepth - 8] = PairLo
  <2>1. CASE at > fn.nregs
    BY <1>1, <1>2, <1>4, <2>1 DEF HeldPair
  <2>2. CASE ~ (at > fn.nregs)
    <3>1. at - 1 \in 0 .. fn.nregs - 1 /\ at - 2 \in 0 .. fn.nregs - 1
          /\ PairHi = at - 1 /\ PairLo = at - 2
      BY <1>1, <1>2, <1>3, <2>2
    <3>2. QED
      BY <1>1, <1>4, <3>1 DEF Held
  <2>3. QED
    BY <2>1, <2>2
<1>6. /\ reg' \in [NRegs \cup {Fp, Lr} -> Contents]
      /\ reg'[PairHi] = PairHi /\ reg'[PairLo] = PairLo
      /\ \A r \in NRegs \cup {Fp, Lr} : r # PairHi /\ r # PairLo => reg'[r] = reg[r]
  <2>1. reg' = [reg EXCEPT ![PairHi] = PairHi, ![PairLo] = PairLo]
    BY <1>1, <1>5
  <2>2. reg \in [NRegs \cup {Fp, Lr} -> Contents]
    BY DEF FrameTyped
  <2>3. QED
    BY <1>2, <2>1, <2>2, ContentsHave
<1>7. FrameTyped'
  <2>1. at' \in Int
    BY <1>1, <1>2, <1>3
  <2>2. QED
    BY <1>1, <1>6, <2>1 DEF FrameTyped
<1>8. /\ ~ NeedsFp(fn) => reg'[Fp] = Fp /\ reg'[Lr] = Lr
      /\ NeedsFp(fn) /\ ~ PreIndexed(fn) => reg'[Fp] = Fp /\ reg'[Lr] = Lr
  <2>1. CASE at > fn.nregs
    BY <1>2, <1>6, <2>1
  <2>2. CASE ~ (at > fn.nregs)
    <3>1. at <= fn.nregs /\ PairHi >= 0 /\ PairLo >= 0
      BY <1>1, <1>2, <1>3, <2>2
    <3>2. Fp # PairHi /\ Fp # PairLo /\ Lr # PairHi /\ Lr # PairLo
      BY <1>2, <3>1 DEF Fp, Lr
    <3>3. reg'[Fp] = reg[Fp] /\ reg'[Lr] = reg[Lr]
      BY <1>6, <3>2
    <3>4. QED
      BY <1>1, <3>1, <3>3
  <2>3. QED
    BY <2>1, <2>2
<1>9. ASSUME NEW r \in NRegs, r >= at - 2, at <= fn.nregs,
             r = at - 1 \/ r = at - 2 \/ reg[r] = r
      PROVE  reg'[r] = r
  BY <1>2, <1>6, <1>9
<1>10. ASSUME NEW r \in NRegs, at > fn.nregs PROVE reg'[r] = reg[r]
  <2>1. r # Fp /\ r # Lr /\ PairHi = Fp /\ PairLo = Lr
    BY <1>2, <1>3, <1>10 DEF Fp, Lr, NRegs
  <2>2. QED
    BY <1>6, <2>1
<1>11. ASSUME NeedsFp(fn) \/ ~ PreIndexed(fn) \/ RegsToSave(fn) = 1
       PROVE  \A r \in NRegs : r >= at - 2 => reg'[r] = r
  <2> SUFFICES ASSUME NEW r \in NRegs, r >= at - 2 PROVE reg'[r] = r
    OBVIOUS
  <2>1. Intact(at)
    BY <1>1, <1>11 DEF ArmInv
  <2>2. CASE at > fn.nregs
    <3>1. at = fn.nregs + 2 /\ at = RegsToSave(fn) /\ NeedsFp(fn)
      BY <1>2, <2>2
    <3>2. r >= fn.nregs
      BY <1>2, <1>3, <3>1 DEF NRegs
    <3>3. reg[r] = r
      BY <1>1, <3>2 DEF Intact
    <3>4. QED
      BY <1>10, <2>2, <3>3
  <2>3. CASE ~ (at > fn.nregs)
    <3>1. at <= fn.nregs /\ r \in Nat
      BY <1>2, <1>3, <2>3 DEF NRegs
    <3>2. r = at - 1 \/ r = at - 2 \/ r >= at
      BY <1>2, <3>1
    <3>3. QED
      BY <1>9, <2>1, <3>1, <3>2 DEF Intact
  <2>4. QED
    BY <2>2, <2>3
<1>12. ASSUME ~ (NeedsFp(fn) \/ ~ PreIndexed(fn) \/ RegsToSave(fn) = 1)
       PROVE  /\ at - 2 <= fn.nregs - 2
              /\ \A r \in NRegs : r >= at - 2 /\ r < fn.nregs - 2 => reg'[r] = r
  <2>1. /\ at <= fn.nregs - 2
        /\ \A r \in NRegs : r >= at /\ r < fn.nregs - 2 => reg[r] = r
    BY <1>1, <1>12 DEF ArmInv
  <2>2. ASSUME NEW r \in NRegs, r >= at - 2, r < fn.nregs - 2 PROVE reg'[r] = r
    <3>1. (r = at - 1 \/ r = at - 2 \/ r >= at) /\ at <= fn.nregs
      BY <1>2, <1>3, <2>1, <2>2 DEF NRegs
    <3>2. QED
      BY <1>9, <2>1, <2>2, <3>1
  <2>3. QED
    BY <1>2, <1>3, <2>1, <2>2
<1>20. ASSUME NEW r \in NRegs, r >= fn.nregs PROVE reg'[r] = r
  <2>1. reg[r] = r
    BY <1>1, <1>20 DEF Intact
  <2>2. CASE at > fn.nregs
    BY <1>10, <2>1, <2>2
  <2>3. CASE ~ (at > fn.nregs)
    <3>1. at <= fn.nregs /\ r >= at - 2
      BY <1>2, <1>3, <1>20, <2>3 DEF NRegs
    <3>2. QED
      BY <1>9, <2>1, <3>1
  <2>4. QED
    BY <2>2, <2>3
<1>13. Held(0, fn.nregs)' /\ HeldPair'
  BY <1>1 DEF Held, HeldPair
<1>14. at' \in 0 .. fn.nregs /\ ~ (RegsToSave(fn) = 1)
  BY <1>1, <1>2, <1>3
<1>15. (NeedsFp(fn) \/ ~ PreIndexed(fn) \/ RegsToSave(fn) = 1) => Intact(at)'
  BY <1>1, <1>11 DEF Intact
<1>16. ~ (NeedsFp(fn) \/ ~ PreIndexed(fn) \/ RegsToSave(fn) = 1)
         => /\ at' <= fn.nregs - 2
            /\ \A r \in NRegs : r >= at' /\ r < fn.nregs - 2 => reg'[r] = r
  BY <1>1, <1>12
<1>17. Intact(fn.nregs)'
  BY <1>1, <1>20 DEF Intact
<1>18. QED
  BY <1>1, <1>4, <1>7, <1>8, <1>13, <1>14, <1>15, <1>16, <1>17 DEF ArmInv

LEMMA LoadLastStep ==
  ASSUME FrameTyped, ArmInv, fn.target = "aarch64", "large" \notin Beyond, LoadLast
  PROVE  FrameTyped' /\ ArmInv'
<1>1. /\ phase = "load" /\ at = 1 /\ phase' = "load" /\ at' = 0
      /\ at \in 0 .. fn.nregs \/ at = RegsToSave(fn)
      /\ UNCHANGED <<fn, base, mem, named, stored>>
      /\ sp = FrameSize(fn)
      /\ Held(0, fn.nregs) /\ HeldPair /\ Intact(fn.nregs)
      /\ ~ NeedsFp(fn) => reg[Fp] = Fp /\ reg[Lr] = Lr
      /\ NeedsFp(fn) /\ ~ PreIndexed(fn) /\ at <= fn.nregs => reg[Fp] = Fp /\ reg[Lr] = Lr
      /\ reg' = [reg EXCEPT ![0] = mem[sp - Off]]
      /\ sp' = IF First /\ PreIndexed(fn) THEN sp - FrameSize(fn) ELSE sp
  BY DEF LoadLast, ArmInv
<1>2. /\ fn.nregs \in Nat /\ fn.nregs <= MaxRegs /\ MaxRegs \in Nat
      /\ RegsToSave(fn) \in Nat /\ fn.nregs <= RegsToSave(fn)
      /\ NeedsFp(fn) => RegsToSave(fn) = fn.nregs + 2
      /\ ~ NeedsFp(fn) => RegsToSave(fn) = fn.nregs
      /\ FrameSize(fn) \in Nat /\ SaveArea(fn) \in Nat /\ StackObjs(fn) \in Nat
      /\ FrameSize(fn) = SaveArea(fn) + StackObjs(fn)
      /\ Field12(FrameSize(fn)) = FrameSize(fn)
      /\ StackObjs(fn) > 0 => NeedsFp(fn)
      /\ PreIndexed(fn) => StackObjs(fn) = 0 /\ RegsToSave(fn) > 0
      /\ ~ PreIndexed(fn) => StackObjs(fn) > 0 \/ RegsToSave(fn) = 0
      /\ RegsToSave(fn) = 0 => FrameSize(fn) = 0
  BY ArmNumbers
<1>3. 1 <= fn.nregs
  BY <1>1, <1>2
<1>4. mem[sp - Off] = 0
  <2>1. 0 \in 0 .. fn.nregs - 1
    BY <1>2, <1>3
  <2>2. Slot(fn, 0) = SaveArea(fn) - 8 * (RegsToSave(fn) - 1 - 0)
    BY <2>1, SlotWords
  <2>3. sp - Off = Slot(fn, 0)
    BY <1>1, <1>2, <2>2 DEF Off
  <2>4. QED
    BY <1>1, <2>1, <2>3 DEF Held
<1>5. /\ reg' \in [NRegs \cup {Fp, Lr} -> Contents] /\ reg'[0] = 0
      /\ reg'[Fp] = reg[Fp] /\ reg'[Lr] = reg[Lr]
      /\ \A r \in NRegs : r # 0 => reg'[r] = reg[r]
  <2>1. 0 \in NRegs /\ 0 # Fp /\ 0 # Lr /\ reg \in [NRegs \cup {Fp, Lr} -> Contents]
    BY <1>2, <1>3 DEF NRegs, Fp, Lr, FrameTyped
  <2>2. QED
    BY <1>1, <1>4, <2>1, ContentsHave
<1>6. sp' = IF PreIndexed(fn) /\ RegsToSave(fn) = 1 THEN 0 ELSE FrameSize(fn)
  BY <1>1, <1>2 DEF First
<1>7. FrameTyped'
  BY <1>1, <1>2, <1>5, <1>6 DEF FrameTyped
<1>8. Intact(fn.nregs)'
  BY <1>1, <1>2, <1>3, <1>5 DEF Intact, NRegs
<1>9. ASSUME NeedsFp(fn) \/ ~ PreIndexed(fn) \/ RegsToSave(fn) = 1
      PROVE  Intact(at)'
  <2>1. Intact(1)
    BY <1>1, <1>9 DEF ArmInv, Intact
  <2>2. ASSUME NEW r \in NRegs PROVE reg'[r] = r
    <3>1. r = 0 \/ r >= 1
      BY DEF NRegs
    <3>2. QED
      BY <1>5, <2>1, <3>1 DEF Intact
  <2>3. QED
    BY <2>2 DEF Intact
<1>10. ASSUME ~ (NeedsFp(fn) \/ ~ PreIndexed(fn) \/ RegsToSave(fn) = 1)
       PROVE  at' <= fn.nregs - 2 /\ \A r \in NRegs : r >= at' /\ r < fn.nregs - 2 => reg'[r] = r
  <2>1. /\ 1 <= fn.nregs - 2
        /\ \A r \in NRegs : r >= 1 /\ r < fn.nregs - 2 => reg[r] = r
    BY <1>1, <1>10 DEF ArmInv
  <2>2. ASSUME NEW r \in NRegs, r < fn.nregs - 2 PROVE reg'[r] = r
    <3>1. r = 0 \/ r >= 1
      BY DEF NRegs
    <3>2. QED
      BY <1>5, <2>1, <2>2, <3>1
  <2>3. QED
    BY <1>1, <1>2, <2>1, <2>2
<1>11. Held(0, fn.nregs)' /\ HeldPair'
  BY <1>1 DEF Held, HeldPair
<1>12. at' \in 0 .. fn.nregs
  BY <1>1, <1>2
<1>13. QED
  BY <1>1, <1>3, <1>5, <1>6, <1>7, <1>8, <1>9, <1>10, <1>11, <1>12 DEF ArmInv

LEMMA CloseStep ==
  ASSUME FrameTyped, ArmInv, fn.target = "aarch64", "large" \notin Beyond, Close
  PROVE  FrameTyped' /\ ArmInv'
<1>1. /\ phase = "load" /\ at = 0 /\ phase' = "ret"
      /\ UNCHANGED <<fn, at, base, mem, named, stored>>
      /\ sp = IF PreIndexed(fn) /\ RegsToSave(fn) = 1 THEN 0 ELSE FrameSize(fn)
      /\ Held(0, fn.nregs) /\ HeldPair /\ Intact(fn.nregs)
      /\ ~ NeedsFp(fn) => reg[Fp] = Fp /\ reg[Lr] = Lr
      /\ NeedsFp(fn) /\ ~ PreIndexed(fn) /\ 0 <= fn.nregs => reg[Fp] = Fp /\ reg[Lr] = Lr
  BY DEF Close, ArmInv
<1>2. /\ fn.nregs \in Nat /\ fn.nregs <= MaxRegs /\ MaxRegs \in Nat
      /\ RegsToSave(fn) \in Nat /\ fn.nregs <= RegsToSave(fn)
      /\ NeedsFp(fn) => RegsToSave(fn) = fn.nregs + 2
      /\ ~ NeedsFp(fn) => RegsToSave(fn) = fn.nregs
      /\ FrameSize(fn) \in Nat /\ SaveArea(fn) \in Nat /\ StackObjs(fn) \in Nat
      /\ FrameSize(fn) = SaveArea(fn) + StackObjs(fn)
      /\ Field12(FrameSize(fn)) = FrameSize(fn)
      /\ StackObjs(fn) > 0 => NeedsFp(fn)
      /\ PreIndexed(fn) => StackObjs(fn) = 0 /\ RegsToSave(fn) > 0
      /\ ~ PreIndexed(fn) => StackObjs(fn) > 0 \/ RegsToSave(fn) = 0
      /\ RegsToSave(fn) = 0 => FrameSize(fn) = 0
  BY ArmNumbers
<1>3. reg \in [NRegs \cup {Fp, Lr} -> Contents]
  BY DEF FrameTyped
<1>4. Deferred <=> PreIndexed(fn) /\ RegsToSave(fn) > 1
  BY DEF Deferred
<1>5. ASSUME ~ Deferred PROVE sp' = 0 /\ reg' = reg /\ Intact(0) /\ reg[Fp] = Fp /\ reg[Lr] = Lr
  <2>1. /\ reg' = reg
        /\ sp' = IF StackObjs(fn) > 0 THEN sp - FrameSize(fn) ELSE sp
    BY <1>2, <1>5 DEF Close
  <2>2. ~ PreIndexed(fn) \/ RegsToSave(fn) = 1
    BY <1>2, <1>4, <1>5
  <2>3. sp' = 0
    BY <1>1, <1>2, <2>1, <2>2
  <2>4. Intact(0)
    BY <1>1, <2>2 DEF ArmInv, Intact
  <2>5. reg[Fp] = Fp /\ reg[Lr] = Lr
    BY <1>1, <1>2, <2>2
  <2>6. QED
    BY <2>1, <2>3, <2>4, <2>5
<1>6. ASSUME Deferred, NeedsFp(fn)
      PROVE  sp' = 0 /\ reg' = [reg EXCEPT ![Fp] = Fp, ![Lr] = Lr] /\ Intact(0)
  <2>1. sp = FrameSize(fn) /\ sp = SaveArea(fn) /\ RegsToSave(fn) > 1
    BY <1>1, <1>2, <1>4, <1>6
  <2>2. mem[sp] = Fp /\ mem[sp - 8] = Lr
    BY <1>1, <1>6, <2>1, SlotWords DEF HeldPair
  <2>3. /\ sp' = sp - FrameSize(fn)
        /\ reg' = [reg EXCEPT ![Fp] = mem[sp], ![Lr] = mem[sp - 8]]
    BY <1>6 DEF Close
  <2>4. Intact(0)
    BY <1>1, <1>6 DEF ArmInv, Intact
  <2>5. QED
    BY <1>2, <2>1, <2>2, <2>3, <2>4
<1>7. ASSUME Deferred, ~ NeedsFp(fn)
      PROVE  /\ sp' = 0 /\ fn.nregs >= 2
             /\ reg' = [reg EXCEPT ![fn.nregs - 1] = fn.nregs - 1, ![fn.nregs - 2] = fn.nregs - 2]
             /\ \A r \in NRegs : r < fn.nregs - 2 => reg[r] = r
  <2>1. sp = FrameSize(fn) /\ sp = SaveArea(fn) /\ RegsToSave(fn) = fn.nregs /\ fn.nregs >= 2
    BY <1>1, <1>2, <1>4, <1>7
  <2>2. mem[sp] = fn.nregs - 1 /\ mem[sp - 8] = fn.nregs - 2
    <3>1. fn.nregs - 1 \in 0 .. fn.nregs - 1 /\ fn.nregs - 2 \in 0 .. fn.nregs - 1
      BY <1>2, <2>1
    <3>2. /\ Slot(fn, fn.nregs - 1) = SaveArea(fn) - 8 * (RegsToSave(fn) - 1 - (fn.nregs - 1))
          /\ Slot(fn, fn.nregs - 2) = SaveArea(fn) - 8 * (RegsToSave(fn) - 1 - (fn.nregs - 2))
      BY <3>1, SlotWords
    <3>3. Slot(fn, fn.nregs - 1) = sp /\ Slot(fn, fn.nregs - 2) = sp - 8
      BY <1>2, <2>1, <3>2
    <3>4. QED
      BY <1>1, <3>1, <3>3 DEF Held
  <2>3. /\ sp' = sp - FrameSize(fn)
        /\ reg' = [reg EXCEPT ![fn.nregs - 1] = mem[sp], ![fn.nregs - 2] = mem[sp - 8]]
    BY <1>7 DEF Close
  <2>4. \A r \in NRegs : r >= 0 /\ r < fn.nregs - 2 => reg[r] = r
    BY <1>1, <1>4, <1>7 DEF ArmInv
  <2>5. \A r \in NRegs : r >= 0
    BY DEF NRegs
  <2>6. QED
    BY <1>2, <2>1, <2>2, <2>3, <2>4, <2>5
<1>8. /\ sp' = 0 /\ reg' \in [NRegs \cup {Fp, Lr} -> Contents]
      /\ reg'[Fp] = Fp /\ reg'[Lr] = Lr
      /\ \A r \in NRegs : reg'[r] = r
  <2>1. Fp \in Int /\ Lr \in Int /\ Fp \notin NRegs /\ Lr \notin NRegs /\ Fp # Lr
        /\ \A r \in NRegs : r >= 0
    BY DEF Fp, Lr, NRegs
  <2>2. CASE ~ Deferred
    BY <1>3, <1>5, <2>1, <2>2 DEF Intact
  <2>3. CASE Deferred /\ NeedsFp(fn)
    BY <1>3, <1>6, <2>1, <2>3, ContentsHave DEF Intact
  <2>4. CASE Deferred /\ ~ NeedsFp(fn)
    <3>1. fn.nregs - 1 \in NRegs /\ fn.nregs - 2 \in NRegs
      BY <1>2, <1>7, <2>4 DEF NRegs
    <3>2. /\ fn.nregs - 1 # Fp /\ fn.nregs - 2 # Fp /\ fn.nregs - 1 # Lr /\ fn.nregs - 2 # Lr
          /\ fn.nregs - 1 \in Int /\ fn.nregs - 2 \in Int /\ fn.nregs - 1 # fn.nregs - 2
      BY <1>2, <2>1, <3>1 DEF Fp, Lr
    <3>3. /\ reg' \in [NRegs \cup {Fp, Lr} -> Contents]
          /\ reg'[Fp] = reg[Fp] /\ reg'[Lr] = reg[Lr]
          /\ \A r \in NRegs : reg'[r] = IF r \in {fn.nregs - 1, fn.nregs - 2} THEN r ELSE reg[r]
      BY <1>3, <1>7, <2>1, <2>4, <3>1, <3>2, ContentsHave
    <3>4. ASSUME NEW r \in NRegs, r \notin {fn.nregs - 1, fn.nregs - 2} PROVE reg[r] = r
      <4>1. r < fn.nregs - 2 \/ r >= fn.nregs
        BY <1>2, <3>4 DEF NRegs
      <4>2. QED
        BY <1>1, <1>7, <2>4, <4>1 DEF Intact
    <3>5. QED
      BY <1>1, <1>7, <2>4, <3>3, <3>4
  <2>5. QED
    BY <2>2, <2>3, <2>4
<1>9. FrameTyped'
  BY <1>1, <1>8 DEF FrameTyped
<1>10. at' \in 0 .. fn.nregs /\ Intact(0)'
  BY <1>1, <1>2, <1>8 DEF Intact
<1>11. QED
  BY <1>1, <1>8, <1>9, <1>10 DEF ArmInv
-----------------------------------------------------------------------------
(* The body. *)

\* The deepest word the prologue has saved a register in.
Low == IF fn.target = "aarch64" THEN SaveArea(fn) ELSE 8 * Pushes(fn)

\* In the body the saved words lie above the locals and the shadow space.
LEMMA BodyPlaces ==
  ASSUME FrameInv, phase = "body", "large" \notin Beyond
  PROVE  /\ Low \in Nat /\ Low <= sp /\ sp \in Nat /\ sp <= Deepest
         /\ 0 \in Words /\ 0 <= Low
         /\ \A r \in 0 .. fn.nregs - 1 : Slot(fn, r) \in Words /\ Slot(fn, r) <= Low
         /\ fn.target # "aarch64" /\ fn.locals > 0 => 8 \in Words /\ 8 <= Low
         /\ fn.target # "aarch64" /\ fn.calls => Low <= sp - 32
         /\ fn.target = "aarch64" /\ NeedsFp(fn)
              => /\ Slot(fn, Fp) \in Words /\ Slot(fn, Lr) \in Words
                 /\ Slot(fn, Fp) <= Low /\ Slot(fn, Lr) <= Low
         /\ fn.locals > 0 => base \in Nat /\ Low <= base /\ base % 8 = 0
         /\ \A b \in 1 .. fn.locals : base + AlignTo(b, 8) <= sp
         /\ fn.nregs \in Nat /\ fn.nregs <= MaxRegs /\ MaxRegs \in Nat /\ fn.locals \in Nat
<1>1. fn \in Frames /\ FrameTyped
  BY DEF FrameInv, FrameTyped
<1>2. CASE fn.target # "aarch64"
  <2> DEFINE p == IF fn.locals = 0 THEN 0 ELSE 1
             c == 32 * OneIf(fn.calls)
  <2>1. /\ fn.nregs \in Nat /\ fn.nregs <= MaxRegs /\ MaxRegs \in Nat /\ fn.locals \in Nat
        /\ p \in {0, 1} /\ (p = 1 <=> fn.locals > 0)
        /\ Pushes(fn) = fn.nregs + p
        /\ \A r \in Int : r # Fp => Slot(fn, r) = 8 * (r + 1 + p)
        /\ \A d \in Int : d \in Words <=> 0 <= d /\ d <= Deepest /\ d % 8 = 0
        /\ 8 * (fn.nregs + 1) + Reserved(fn) <= Deepest
        /\ Reserved(fn) \in Nat /\ Deepest \in Nat
    BY <1>1, <1>2, X86Places
  <2>2. \A b \in 0 .. fn.locals : c + AlignTo(b, 8) <= Reserved(fn)
    BY <1>1, ReservedBounds
  <2>3. c \in Nat /\ c % 8 = 0 /\ (fn.calls => c = 32)
    BY DEF OneIf
  <2>4. /\ sp = 8 * Pushes(fn) + Reserved(fn)
        /\ fn.locals > 0 => base = 8 * Pushes(fn) + c
    BY <1>2 DEF FrameInv, X86Inv
  <2>5. Low = 8 * Pushes(fn)
    BY <1>2 DEF Low
  <2> HIDE DEF p, c
  <2>6. /\ Low \in Nat /\ Low <= sp /\ sp \in Nat /\ sp <= Deepest /\ 0 <= Low
        /\ 0 \in Words
        /\ fn.locals > 0 => 8 \in Words /\ 8 <= Low
    BY <2>1, <2>4, <2>5
  <2>7. ASSUME NEW r \in 0 .. fn.nregs - 1 PROVE Slot(fn, r) \in Words /\ Slot(fn, r) <= Low
    <3>1. Slot(fn, r) = 8 * (r + 1 + p) /\ r \in Nat
      BY <2>1 DEF Fp
    <3>2. 8 * (r + 1 + p) \in Int /\ (8 * (r + 1 + p)) % 8 = 0 /\ 0 <= 8 * (r + 1 + p)
      BY <2>1, <3>1
    <3>3. 8 * (r + 1 + p) <= Low
      BY <2>1, <2>5, <3>1
    <3>4. 8 * (r + 1 + p) <= Deepest
      BY <2>1, <2>6, <3>1, <3>2, <3>3
    <3>5. QED
      BY <2>1, <3>1, <3>2, <3>3, <3>4
  <2>8. AlignTo(0, 8) = 0
    BY DEF AlignTo
  <2>9. fn.calls => Low <= sp - 32
    <3>1. c <= Reserved(fn)
      <4>1. 0 \in 0 .. fn.locals
        BY <2>1
      <4>2. QED
        BY <2>2, <2>3, <2>8, <4>1
    <3>2. QED
      BY <2>1, <2>3, <2>4, <2>5, <3>1
  <2>10. fn.locals > 0 => base \in Nat /\ Low <= base /\ base % 8 = 0
    BY <2>1, <2>3, <2>4, <2>5
  <2>11. ASSUME NEW b \in 1 .. fn.locals PROVE base + AlignTo(b, 8) <= sp
    <3>1. b \in 0 .. fn.locals /\ b \in Nat /\ fn.locals > 0
      BY <2>1
    <3>2. AlignTo(b, 8) \in Nat /\ c + AlignTo(b, 8) <= Reserved(fn)
      BY <2>2, <3>1, AlignBounds
    <3>3. QED
      BY <2>1, <2>3, <2>4, <3>1, <3>2
  <2>12. QED
    BY <1>2, <2>1, <2>6, <2>7, <2>9, <2>10, <2>11
<1>3. CASE fn.target = "aarch64"
  <2>1. /\ fn.nregs \in Nat /\ fn.nregs <= MaxRegs /\ MaxRegs \in Nat
        /\ RegsToSave(fn) \in Nat /\ fn.nregs <= RegsToSave(fn)
        /\ SaveArea(fn) \in Nat /\ StackObjs(fn) \in Nat
        /\ FrameSize(fn) = SaveArea(fn) + StackObjs(fn)
    BY <1>1, <1>3, ArmNumbers
  <2>2. /\ SaveArea(fn) + StackObjs(fn) <= Deepest /\ SaveArea(fn) % 16 = 0
        /\ fn.locals \in Nat /\ (StackObjs(fn) > 0 <=> fn.locals > 0)
        /\ StackObjs(fn) > 0 => NeedsFp(fn)
        /\ \A d \in Int : d \in Words <=> 0 <= d /\ d <= Deepest /\ d % 8 = 0
    BY <1>1, <1>3, ArmPlaces
  <2>3. \A b \in 0 .. fn.locals : AlignTo(b, 8) <= StackObjs(fn)
    BY <1>1, <1>3, FrameSizes
  <2>4. /\ sp = FrameSize(fn)
        /\ NeedsFp(fn) => base = SaveArea(fn)
    BY <1>3 DEF FrameInv, ArmInv
  <2>5. Low = SaveArea(fn)
    BY <1>3 DEF Low
  <2>6. /\ Low \in Nat /\ Low <= sp /\ sp \in Nat /\ sp <= Deepest /\ 0 <= Low
    BY <2>1, <2>2, <2>4, <2>5
  <2>7. 0 \in Words
    BY <2>2, <2>6, CountsAssumption
  <2>8. /\ \A r \in 0 .. fn.nregs - 1 :
             /\ Slot(fn, r) = SaveArea(fn) - 8 * (RegsToSave(fn) - 1 - r)
             /\ Slot(fn, r) \in Words
        /\ Slot(fn, Fp) = SaveArea(fn) /\ Slot(fn, Lr) = SaveArea(fn) - 8
        /\ NeedsFp(fn) => Slot(fn, Fp) \in Words /\ Slot(fn, Lr) \in Words
    BY <1>1, <1>3, SlotWords
  <2>9. ASSUME NEW r \in 0 .. fn.nregs - 1 PROVE Slot(fn, r) \in Words /\ Slot(fn, r) <= Low
    <3>1. Slot(fn, r) = SaveArea(fn) - 8 * (RegsToSave(fn) - 1 - r) /\ Slot(fn, r) \in Words
      BY <2>8
    <3>2. SaveArea(fn) - 8 * (RegsToSave(fn) - 1 - r) <= SaveArea(fn)
      BY <2>1
    <3>3. QED
      BY <2>5, <3>1, <3>2
  <2>10. fn.locals > 0 => base \in Nat /\ Low <= base /\ base % 8 = 0
    BY <2>1, <2>2, <2>4, <2>5
  <2>11. ASSUME NEW b \in 1 .. fn.locals PROVE base + AlignTo(b, 8) <= sp
    <3>1. b \in 0 .. fn.locals /\ b \in Nat /\ fn.locals > 0
      BY <2>2
    <3>2. AlignTo(b, 8) \in Nat /\ AlignTo(b, 8) <= StackObjs(fn)
      BY <2>3, <3>1, AlignBounds
    <3>3. QED
      BY <2>1, <2>2, <2>4, <3>1, <3>2
  <2>12. Slot(fn, Fp) <= Low /\ Slot(fn, Lr) <= Low
    <3>1. SaveArea(fn) <= SaveArea(fn) /\ SaveArea(fn) - 8 <= SaveArea(fn)
      BY <2>1
    <3>2. QED
      BY <2>5, <2>8, <3>1
  <2>13. QED
    BY <1>3, <2>1, <2>2, <2>6, <2>7, <2>8, <2>9, <2>10, <2>11, <2>12
<1>4. QED
  BY <1>2, <1>3

\* A step of the body that leaves the saved words and the registers the
\* function does not name alone.
LEMMA BodyStep ==
  ASSUME FrameInv, phase = "body", "large" \notin Beyond, FrameTyped',
         UNCHANGED <<fn, phase, at, sp, base>>,
         \A d \in Words : d <= Low => mem'[d] = mem[d],
         \A r \in NRegs \cup {Fp} : r \notin 0 .. fn.nregs - 1 => reg'[r] = reg[r],
         ~ NeedsFp(fn) => reg'[Lr] = reg[Lr],
         LocalsApart',
         fn.locals = 0 => stored' = stored
  PROVE  FrameInv'
<1>1. /\ Low \in Nat /\ 0 \in Words /\ 0 <= Low /\ fn.nregs \in Nat
      /\ \A r \in 0 .. fn.nregs - 1 : Slot(fn, r) \in Words /\ Slot(fn, r) <= Low
      /\ fn.target # "aarch64" /\ fn.locals > 0 => 8 \in Words /\ 8 <= Low
      /\ fn.target = "aarch64" /\ NeedsFp(fn)
           => /\ Slot(fn, Fp) \in Words /\ Slot(fn, Lr) \in Words
              /\ Slot(fn, Fp) <= Low /\ Slot(fn, Lr) <= Low
      /\ fn.locals \in Nat
  BY BodyPlaces
<1>2. Intact(fn.nregs) => Intact(fn.nregs)'
  <2> SUFFICES ASSUME Intact(fn.nregs), NEW r \in NRegs, r >= fn.nregs PROVE reg'[r] = r
    BY DEF Intact
  <2>1. r \notin 0 .. fn.nregs - 1
    BY <1>1
  <2>2. QED
    BY <2>1 DEF Intact
<1>3. Held(0, fn.nregs) => Held(0, fn.nregs)'
  BY <1>1 DEF Held
<1>4. reg'[Fp] = reg[Fp]
  <2>1. Fp \notin 0 .. fn.nregs - 1
    BY <1>1 DEF Fp
  <2>2. QED
    BY <2>1
<1>5. CASE fn.target # "aarch64"
  <2>1. mem'[0] = mem[0] /\ (HeldFp => HeldFp')
    BY <1>1, <1>5 DEF HeldFp
  <2>2. X86Inv
    BY <1>5 DEF FrameInv
  <2>3. X86Inv'
    BY <1>2, <1>3, <1>4, <2>1, <2>2 DEF X86Inv
  <2>4. QED
    BY <1>5, <2>3 DEF FrameInv
<1>6. CASE fn.target = "aarch64"
  <2>1. HeldPair => HeldPair'
    BY <1>1, <1>6 DEF HeldPair
  <2>2. ArmInv
    BY <1>6 DEF FrameInv
  <2>3. ~ NeedsFp(fn) => fn.locals = 0
    BY <1>1 DEF NeedsFp
  <2>4. ArmInv'
    BY <1>2, <1>3, <1>4, <2>1, <2>2, <2>3 DEF ArmInv
  <2>5. QED
    BY <1>6, <2>4 DEF FrameInv
<1>7. QED
  BY <1>5, <1>6

LEMMA BodySteps ==
  ASSUME FrameInv, BodyInv, "large" \notin Beyond, "foreign" \notin Beyond,
         SetNamed \/ SetLocal \/ Call
  PROVE  FrameInv' /\ BodyInv'
<1>1. /\ phase = "body" /\ UNCHANGED <<fn, phase, at, sp, base>> /\ FrameTyped
      /\ LocalsApart /\ fn \in Frames
  BY DEF SetNamed, SetLocal, Call, FrameInv, FrameTyped, X86Inv, ArmInv
<1>2. /\ Low \in Nat /\ Low <= sp /\ sp \in Nat /\ sp <= Deepest
      /\ fn.target # "aarch64" /\ fn.calls => Low <= sp - 32
      /\ fn.locals > 0 => base \in Nat /\ Low <= base /\ base % 8 = 0
      /\ \A b \in 1 .. fn.locals : base + AlignTo(b, 8) <= sp
      /\ fn.nregs \in Nat /\ fn.nregs <= MaxRegs /\ MaxRegs \in Nat /\ fn.locals \in Nat
  BY <1>1, BodyPlaces
<1>3. /\ reg \in [NRegs \cup {Fp, Lr} -> Contents] /\ mem \in [Words -> Contents]
      /\ stored \subseteq Words /\ named \subseteq 0 .. fn.nregs - 1
  BY <1>1 DEF FrameTyped
<1>4. CASE SetNamed
  <2>1. PICK i \in 0 .. fn.nregs - 1 : reg' = [reg EXCEPT ![i] = Named] /\ named' = named \cup {i}
    BY <1>4 DEF SetNamed
  <2>2. mem' = mem /\ stored' = stored
    BY <1>4 DEF SetNamed
  <2>3. i \in NRegs /\ i # Fp /\ i # Lr /\ Named \in Int
    BY <1>2 DEF NRegs, Fp, Lr, Named
  <2>4. /\ reg' \in [NRegs \cup {Fp, Lr} -> Contents] /\ reg'[i] = Named
        /\ \A r \in NRegs \cup {Fp, Lr} : r # i => reg'[r] = reg[r]
    BY <1>3, <2>1, <2>3, ContentsHave
  <2>5. FrameTyped'
    BY <1>1, <1>3, <2>1, <2>2, <2>4 DEF FrameTyped
  <2>6. LocalsApart'
    BY <1>1, <2>2 DEF LocalsApart
  <2>7. FrameInv'
    BY <1>1, <2>2, <2>3, <2>4, <2>5, <2>6, BodyStep
  <2>8. ASSUME NEW k \in named' PROVE reg'[k] = Named
    <3>1. k \in 0 .. fn.nregs - 1 /\ (k \in named \/ k = i)
      BY <1>3, <2>1
    <3>2. k \in NRegs
      BY <1>2, <3>1 DEF NRegs
    <3>3. QED
      BY <1>1, <2>4, <3>1, <3>2 DEF BodyInv
  <2>9. BodyInv'
    BY <1>1, <2>2, <2>8 DEF BodyInv
  <2>10. QED
    BY <2>7, <2>9
<1>5. CASE SetLocal
  <2>1. PICK b \in 1 .. fn.locals :
          /\ mem' = [mem EXCEPT ![base + AlignTo(b, 8)] = Local]
          /\ stored' = stored \cup {base + AlignTo(b, 8)}
    BY <1>5 DEF SetLocal
  <2>2. reg' = reg /\ named' = named
    BY <1>5 DEF SetLocal
  <2> DEFINE w == base + AlignTo(b, 8)
  <2>3. /\ b \in Nat /\ b >= 1 /\ fn.locals > 0
        /\ AlignTo(b, 8) \in Nat /\ AlignTo(b, 8) % 8 = 0 /\ b <= AlignTo(b, 8)
    <3>1. b \in Nat /\ b >= 1 /\ fn.locals > 0
      BY <1>2
    <3>2. QED
      BY <3>1, AlignBounds
  <2>4. w \in Nat /\ w % 8 = 0 /\ base < w /\ w <= sp /\ Low < w
    <3> DEFINE m == AlignTo(b, 8)
    <3>1. m \in Nat /\ m % 8 = 0 /\ 1 <= m /\ base + m <= sp
          /\ base \in Nat /\ Low <= base /\ base % 8 = 0
      BY <1>2, <2>3
    <3> HIDE DEF m
    <3>2. base + m \in Nat /\ (base + m) % 8 = 0 /\ base < base + m /\ Low < base + m
      BY <1>2, <3>1
    <3>3. QED
      BY <3>1, <3>2 DEF m
  <2>5. mem' = [mem EXCEPT ![w] = Local] /\ stored' = stored \cup {w}
    BY <2>1
  <2> HIDE DEF w
  <2>6. w \in Words
    BY <1>2, <2>4, CountsAssumption DEF Words
  <2>7. /\ mem' \in [Words -> Contents] /\ mem'[w] = Local
        /\ \A d \in Words : d # w => mem'[d] = mem[d]
    BY <1>3, <2>5, <2>6, ContentsHave DEF Local
  <2>8. FrameTyped'
    BY <1>1, <1>3, <2>2, <2>5, <2>6, <2>7 DEF FrameTyped
  <2>9. LocalsApart'
    BY <1>1, <2>4, <2>5 DEF LocalsApart
  <2>10. \A d \in Words : d <= Low => mem'[d] = mem[d]
    <3>1. \A d \in Words : d <= Low => d # w
      BY <1>2, <2>4 DEF Words
    <3>2. QED
      BY <2>7, <3>1
  <2>11. FrameInv'
    BY <1>1, <2>2, <2>3, <2>8, <2>9, <2>10, BodyStep
  <2>12. BodyInv'
    BY <1>1, <1>3, <2>2, <2>5, <2>7 DEF BodyInv
  <2>13. QED
    BY <2>11, <2>12
<1>6. CASE Call
  <2>1. /\ fn.calls /\ named' = named /\ stored' = stored
        /\ mem' = [d \in Words |-> IF d > sp \/ Home(d) THEN Junk ELSE mem[d]]
        /\ reg' = [r \in NRegs \cup {Fp, Lr} |->
                     IF Clobbered(r) \/ (Arm /\ r = Lr) THEN Junk ELSE reg[r]]
    BY <1>6 DEF Call
  <2>2. \A r : ~ Clobbered(r)
    BY DEF Clobbered
  <2>3. reg' \in [NRegs \cup {Fp, Lr} -> Contents] /\ mem' \in [Words -> Contents]
    BY <1>3, <2>1, ContentsHave DEF Junk
  <2>4. \A r \in NRegs \cup {Fp} : reg'[r] = reg[r]
    <3>1. \A r \in NRegs \cup {Fp} : r # Lr
      BY DEF NRegs, Fp, Lr
    <3>2. QED
      BY <2>1, <2>2, <3>1
  <2>5. \A d \in Words : d <= Low => ~ (d > sp) /\ ~ Home(d)
    <3> SUFFICES ASSUME NEW d \in Words, d <= Low PROVE ~ (d > sp) /\ ~ Home(d)
      OBVIOUS
    <3>1. d \in Nat
      BY CountsAssumption DEF Words
    <3>2. ~ (d > sp)
      BY <1>2, <3>1
    <3>3. Home(d) => fn.target # "aarch64" /\ d > sp - 32
      BY DEF Home
    <3>4. QED
      BY <1>2, <2>1, <3>1, <3>2, <3>3
  <2>6. \A d \in Words : d <= Low => mem'[d] = mem[d]
    BY <2>1, <2>5
  <2>7. NeedsFp(fn)
    BY <2>1 DEF NeedsFp
  <2>8. FrameTyped'
    BY <1>1, <1>3, <2>1, <2>3 DEF FrameTyped
  <2>9. LocalsApart'
    BY <1>1, <2>1 DEF LocalsApart
  <2>10. FrameInv'
    BY <1>1, <2>1, <2>4, <2>6, <2>7, <2>8, <2>9, BodyStep
  <2>11. ASSUME "shadow" \notin Beyond, NEW w \in stored PROVE mem'[w] = Local
    <3>1. w \in Words /\ w <= sp /\ w \in Nat
      BY <1>1, <1>3, CountsAssumption DEF LocalsApart, Words
    <3>2. ~ (w > sp) /\ ~ Home(w)
      BY <1>2, <2>11, <3>1 DEF Home
    <3>3. mem[w] = Local
      BY <1>1, <2>11 DEF BodyInv
    <3>4. QED
      BY <2>1, <3>1, <3>2, <3>3
  <2>12. ASSUME NEW k \in named PROVE reg'[k] = Named
    <3>1. k \in NRegs
      BY <1>2, <1>3 DEF NRegs
    <3>2. QED
      BY <1>1, <2>4, <3>1 DEF BodyInv
  <2>13. BodyInv'
    BY <1>1, <2>1, <2>11, <2>12 DEF BodyInv
  <2>14. QED
    BY <2>10, <2>13
<1>7. QED
  BY <1>4, <1>5, <1>6
-----------------------------------------------------------------------------
(* The specification. *)

LEMMA InitFrame == Init => FrameInv /\ BodyInv
<1> SUFFICES ASSUME Init PROVE FrameInv /\ BodyInv
  OBVIOUS
<1>1. fn \in Frames /\ fn.nregs \in Nat /\ 0 \in Words
  BY FrameTypes, CountsAssumption DEF Init, Words
<1>2. /\ reg = [r \in NRegs \cup {Fp, Lr} |-> r]
      /\ mem = [d \in Words |-> IF d = 0 THEN Lr ELSE Junk]
      /\ phase = "entry" /\ at = 0 /\ sp = 0 /\ base = 0 /\ named = {} /\ stored = {}
  BY DEF Init
<1>3. \A r \in NRegs \cup {Fp, Lr} : r \in Int
  BY CountsAssumption DEF NRegs, Fp, Lr
<1>4. /\ reg \in [NRegs \cup {Fp, Lr} -> Contents] /\ mem \in [Words -> Contents] /\ mem[0] = Lr
      /\ Intact(0) /\ reg[Fp] = Fp /\ reg[Lr] = Lr
  BY <1>1, <1>2, <1>3, ContentsHave DEF Intact, Lr, Junk
<1>5. FrameTyped
  BY <1>1, <1>2, <1>4 DEF FrameTyped
<1>6. X86Inv /\ ArmInv
  BY <1>1, <1>2, <1>4 DEF X86Inv, ArmInv
<1>7. QED
  BY <1>2, <1>5, <1>6 DEF FrameInv, BodyInv

\* Only the body sets what BodyInv is about; it begins with nothing set.
LEMMA NextFrame ==
  ASSUME "large" \notin Beyond, "foreign" \notin Beyond,
         FrameInv, BodyInv, [Next]_vars
  PROVE  FrameInv' /\ BodyInv'
<1>1. FrameTyped /\ fn \in Frames
  BY DEF FrameInv, FrameTyped
<1>2. fn.target # "aarch64" => X86Inv
  BY DEF FrameInv
<1>3. fn.target = "aarch64" => ArmInv
  BY DEF FrameInv
<1>4. CASE PushFp \/ PushReg \/ Release \/ PopReg \/ PopFp
  <2>1. /\ fn.target # "aarch64" /\ fn' = fn
        /\ phase' # "body"
    BY <1>2, <1>3, <1>4 DEF PushFp, PushReg, Release, PopReg, PopFp, Arm, ArmInv
  <2>2. FrameTyped' /\ X86Inv'
    BY <1>1, <1>2, <1>4, <2>1, PushFpStep, PushRegStep, ReleaseStep, PopRegStep, PopFpStep
  <2>3. QED
    BY <2>1, <2>2 DEF FrameInv, BodyInv
<1>5. CASE Reserve
  <2>1. /\ fn.target # "aarch64" /\ fn' = fn /\ named' = named /\ stored' = stored
        /\ phase = "push"
    BY <1>2, <1>3, <1>5 DEF Reserve, ArmInv
  <2>2. FrameTyped' /\ X86Inv'
    BY <1>1, <1>2, <1>5, <2>1, ReserveStep
  <2>3. named' = {} /\ stored' = {}
    BY <1>2, <2>1 DEF X86Inv
  <2>4. QED
    BY <2>1, <2>2, <2>3 DEF FrameInv, BodyInv
<1>6. CASE Allocate \/ SavePair \/ SaveLast \/ StartLoads \/ LoadPair \/ LoadLast \/ Close
  <2>1. /\ fn.target = "aarch64" /\ fn' = fn
        /\ phase' # "body"
    BY <1>2, <1>3, <1>6
       DEF Allocate, SavePair, SaveLast, StartLoads, LoadPair, LoadLast, Close, Arm, X86Inv
  <2>2. FrameTyped' /\ ArmInv'
    BY <1>1, <1>3, <1>6, <2>1, AllocateStep, SavePairStep, SaveLastStep, StartLoadsStep,
       LoadPairStep, LoadLastStep, CloseStep
  <2>3. QED
    BY <2>1, <2>2 DEF FrameInv, BodyInv
<1>7. CASE PointFrame
  <2>1. /\ fn.target = "aarch64" /\ fn' = fn /\ named' = named /\ stored' = stored
        /\ phase = "save"
    BY <1>2, <1>3, <1>7 DEF PointFrame, X86Inv
  <2>2. FrameTyped' /\ ArmInv'
    BY <1>1, <1>3, <1>7, <2>1, PointFrameStep
  <2>3. named' = {} /\ stored' = {}
    BY <1>3, <2>1 DEF ArmInv
  <2>4. QED
    BY <2>1, <2>2, <2>3 DEF FrameInv, BodyInv
<1>8. CASE SetNamed \/ SetLocal \/ Call
  BY <1>8, BodySteps
<1>9. CASE UNCHANGED vars
  BY <1>9 DEF vars, FrameInv, BodyInv, FrameTyped, X86Inv, ArmInv, Intact, Held, HeldFp,
              HeldPair, LocalsApart
<1>10. QED
  BY <1>4, <1>5, <1>6, <1>7, <1>8, <1>9 DEF Next, Returned

\* When a function returns, the caller's stack pointer, callee-saved registers
\* and return address are those of the call: for every number of registers and
\* size of locals, unless the saved words are out of stp's reach ("large") or a
\* callee changes r10 and r11 ("foreign").
THEOREM FrameSound ==
  "large" \notin Beyond /\ "foreign" \notin Beyond => (Spec => []FrameRestored)
<1> SUFFICES ASSUME "large" \notin Beyond, "foreign" \notin Beyond
             PROVE  Spec => []FrameRestored
  OBVIOUS
<1>1. Init => FrameInv /\ BodyInv
  BY InitFrame
<1>2. FrameInv /\ BodyInv /\ [Next]_vars => FrameInv' /\ BodyInv'
  BY NextFrame
<1>3. FrameInv => FrameRestored
  <2> SUFFICES ASSUME FrameInv, phase = "ret" PROVE
                 /\ sp = 0
                 /\ \A r \in NRegs \cup {Fp} : reg[r] = r
                 /\ IF Arm THEN reg[Lr] = Lr ELSE mem[0] = Lr
    BY DEF FrameRestored
  <2>1. sp = 0 /\ Intact(0) /\ reg[Fp] = Fp
    BY DEF FrameInv, X86Inv, ArmInv
  <2>2. \A r \in NRegs : r >= 0
    BY DEF NRegs
  <2>3. \A r \in NRegs \cup {Fp} : reg[r] = r
    BY <2>1, <2>2 DEF Intact
  <2>4. IF Arm THEN reg[Lr] = Lr ELSE mem[0] = Lr
    BY DEF FrameInv, X86Inv, ArmInv, Arm
  <2>5. QED
    BY <2>1, <2>3, <2>4
<1>4. QED
  BY <1>1, <1>2, <1>3, PTL DEF Spec

\* Calls are made with the stack pointer the conventions want, whatever the
\* function saves.
THEOREM AlignmentSound ==
  "large" \notin Beyond /\ "foreign" \notin Beyond => (Spec => []CallsAligned)
<1> SUFFICES ASSUME "large" \notin Beyond, "foreign" \notin Beyond
             PROVE  Spec => []CallsAligned
  OBVIOUS
<1>1. Init => FrameInv /\ BodyInv
  BY InitFrame
<1>2. FrameInv /\ BodyInv /\ [Next]_vars => FrameInv' /\ BodyInv'
  BY NextFrame
<1>3. FrameInv => CallsAligned
  <2> SUFFICES ASSUME FrameInv, phase = "body", fn.calls
               PROVE  (IF Arm THEN sp ELSE sp + 8) % 16 = 0
    BY DEF CallsAligned
  <2>1. fn \in Frames /\ FrameTyped
    BY DEF FrameInv, FrameTyped
  <2>2. CASE fn.target # "aarch64"
    <3>1. sp = 8 * Pushes(fn) + Reserved(fn)
      BY <2>2 DEF FrameInv, X86Inv
    <3>2. (8 * Pushes(fn) + Reserved(fn) + 8) % 16 = 0
      BY <2>1, ReservedBounds
    <3>3. QED
      BY <2>2, <3>1, <3>2 DEF Arm
  <2>3. CASE fn.target = "aarch64"
    <3>1. sp = FrameSize(fn)
      BY <2>3 DEF FrameInv, ArmInv
    <3> DEFINE a == SaveArea(fn)
               o == StackObjs(fn)
    <3>2. a \in Nat /\ a % 16 = 0 /\ o \in Nat /\ o % 16 = 0 /\ FrameSize(fn) = a + o
      BY <2>1, <2>3, ArmPlaces
    <3> HIDE DEF a, o
    <3>3. (a + o) % 16 = 0
      BY <3>2
    <3>4. QED
      BY <2>3, <3>1, <3>2, <3>3 DEF Arm
  <2>4. QED
    BY <2>2, <2>3
<1>4. QED
  BY <1>1, <1>2, <1>3, PTL DEF Spec

\* No call changes a local, and no local overlaps a saved register, when
\* callees also keep out of the shadow space.
THEOREM LocalsSound ==
  Beyond = {} => (Spec => []LocalsKept)
<1> SUFFICES ASSUME Beyond = {} PROVE Spec => []LocalsKept
  OBVIOUS
<1>1. "large" \notin Beyond /\ "foreign" \notin Beyond /\ "shadow" \notin Beyond
  OBVIOUS
<1>2. Init => FrameInv /\ BodyInv
  BY InitFrame
<1>3. FrameInv /\ BodyInv /\ [Next]_vars => FrameInv' /\ BodyInv'
  BY <1>1, NextFrame
<1>4. BodyInv => LocalsKept
  BY <1>1 DEF BodyInv, LocalsKept
<1>5. QED
  BY <1>2, <1>3, <1>4, PTL DEF Spec

\* What the stack pointer and the count of registers come to in any phase.
LEMMA FramePlaces ==
  ASSUME FrameInv, "large" \notin Beyond
  PROVE  /\ sp \in Words /\ at \in 0 .. MaxRegs + 2
         /\ phase \in {"entry", "push", "save", "body", "pop", "load", "ret"}
<1>1. FrameTyped /\ fn \in Frames
  BY DEF FrameInv, FrameTyped
<1>2. CASE fn.target # "aarch64"
  <2> DEFINE p == IF fn.locals = 0 THEN 0 ELSE 1
  <2>1. /\ fn.nregs \in Nat /\ fn.nregs <= MaxRegs /\ MaxRegs \in Nat
        /\ p \in {0, 1} /\ Pushes(fn) = fn.nregs + p
        /\ 8 * (fn.nregs + 1) + Reserved(fn) <= Deepest
        /\ Reserved(fn) \in Nat /\ Reserved(fn) % 8 = 0 /\ Deepest \in Nat
        /\ \A d \in Int : d \in Words <=> 0 <= d /\ d <= Deepest /\ d % 8 = 0
    BY <1>1, <1>2, X86Places
  <2>2. X86Inv
    BY <1>2 DEF FrameInv
  <2> HIDE DEF p
  <2>3. at \in 0 .. fn.nregs /\ phase \in {"entry", "push", "body", "pop", "ret"}
    BY <2>2 DEF X86Inv
  <2>4. /\ phase \in {"entry", "ret"} => sp = 0
        /\ phase \in {"push", "pop"} => sp = 8 * (at + p)
        /\ phase = "body" => sp = 8 * (fn.nregs + p) + Reserved(fn)
    <3>1. phase \in {"push", "pop"} => sp = 8 * (at + Pushes(fn) - fn.nregs)
      BY <2>2 DEF X86Inv
    <3>2. at + Pushes(fn) - fn.nregs = at + p
      BY <2>1, <2>3
    <3>3. QED
      BY <2>1, <2>2, <3>1, <3>2 DEF X86Inv
  <2>5. \A n \in 0 .. fn.nregs : 8 * (n + p) \in Nat /\ (8 * (n + p)) % 8 = 0 /\ 8 * (n + p) <= Deepest
    BY <2>1
  <2>6. /\ 8 * (fn.nregs + p) + Reserved(fn) \in Nat /\ (8 * (fn.nregs + p) + Reserved(fn)) % 8 = 0
        /\ 8 * (fn.nregs + p) + Reserved(fn) <= Deepest
    BY <2>1
  <2>7. sp \in Words
    BY <2>1, <2>3, <2>4, <2>5, <2>6
  <2>8. QED
    BY <2>1, <2>3, <2>7
<1>3. CASE fn.target = "aarch64"
  <2> DEFINE a == SaveArea(fn)
             o == StackObjs(fn)
             t == RegsToSave(fn)
  <2>1. /\ fn.nregs \in Nat /\ fn.nregs <= MaxRegs /\ MaxRegs \in Nat
        /\ t \in Nat /\ t = fn.nregs + (IF NeedsFp(fn) THEN 2 ELSE 0)
        /\ a \in Nat /\ a % 16 = 0 /\ o \in Nat /\ o % 16 = 0
        /\ FrameSize(fn) = a + o /\ a + o <= Deepest
        /\ \A d \in Int : d \in Words <=> 0 <= d /\ d <= Deepest /\ d % 8 = 0
    BY <1>1, <1>3, ArmPlaces
  <2>2. ArmInv
    BY <1>3 DEF FrameInv
  <2>3. sp = 0 \/ sp = a + o
    BY <2>1, <2>2 DEF ArmInv
  <2>4. at \in 0 .. fn.nregs \/ at = t
    BY <2>2 DEF ArmInv
  <2>5. phase \in {"entry", "save", "body", "load", "ret"}
    BY <2>2 DEF ArmInv
  <2> HIDE DEF a, o, t
  <2>6. a + o \in Nat /\ (a + o) % 8 = 0
    BY <2>1
  <2>7. sp \in Words
    BY <2>1, <2>3, <2>6, ZeroWord
  <2>8. t <= MaxRegs + 2
    BY <2>1
  <2>9. at \in 0 .. MaxRegs + 2
    BY <2>1, <2>4, <2>8
  <2>10. QED
    BY <2>5, <2>7, <2>9
<1>4. QED
  BY <1>2, <1>3

\* The stack pointer, what the frame pointer addresses and the words of locals
\* stay on the stack there is, for every number of registers and size of locals
\* whose frame fits it (DepthOf), and registers and words never hold anything
\* but what the caller, the body or a callee has put there.
THEOREM FrameTypesSound ==
  "large" \notin Beyond /\ "foreign" \notin Beyond => (Spec => []TypeOK)
<1> SUFFICES ASSUME "large" \notin Beyond, "foreign" \notin Beyond
             PROVE  Spec => []TypeOK
  OBVIOUS
<1>1. Init => FrameInv /\ BodyInv
  BY InitFrame
<1>2. FrameInv /\ BodyInv /\ [Next]_vars => FrameInv' /\ BodyInv'
  BY NextFrame
<1>3. FrameInv => TypeOK
  BY FramePlaces DEF FrameInv, FrameTyped, TypeOK
<1>4. QED
  BY <1>1, <1>2, <1>3, PTL DEF Spec
=============================================================================
