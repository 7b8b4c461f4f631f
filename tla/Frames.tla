------------------------------- MODULE Frames -------------------------------
(***************************************************************************)
(* The stack frame of one function: the prologue and the epilogue of       *)
(* emit_fn_prologue_epilogue for the three targets, around a body that     *)
(* does to the frame what bodies do.  The counts a frame is built from are *)
(* those parser_context collects: the named registers, the bytes of the    *)
(* locals (resolve_stack_store_target) and whether it calls (fn_call).     *)
(*                                                                         *)
(* An address is written as its depth: the bytes between it and the stack  *)
(* pointer on entry.  Memory is looked at in words of eight bytes.  What a *)
(* register or a word holds is the name of the register whose value on     *)
(* entry it still has, or one of Named, Local and Junk.                    *)
(***************************************************************************)
EXTENDS Integers

CONSTANTS Targets,      \* a subset of {"linux", "windows", "aarch64"}
          MaxRegs,      \* the most registers a function names
          LocalSizes,   \* the bytes of locals a function has
          Deepest,      \* the bytes of stack there are
          Beyond        \* families of frames the generated code gets wrong

ASSUME CountsAssumption == /\ Targets \subseteq {"linux", "windows", "aarch64"}
                           /\ MaxRegs \in Nat /\ Deepest \in Nat
                           /\ LocalSizes \subseteq Nat

\* Register 0..MaxRegs-1 is NREG i.  Lr is x30, or the return address an
\* x86 call has left at depth 0.
Fp == -1
Lr == -2
Junk == -3
Named == -4
Local == -5

NRegs == 0 .. MaxRegs - 1
Contents == NRegs \cup {Fp, Lr, Junk, Named, Local}

VARIABLES
  fn,      \* the function: its target and what the parser counted
  phase,   \* where in the function the processor is
  at,      \* registers pushed, or left to store or load
  sp,      \* the depth of the stack pointer
  base,    \* the depth of what the frame pointer addresses
  reg,     \* what the registers hold
  mem,     \* what the words of the stack hold
  named,   \* the named registers the body has given a value
  stored   \* the words of locals the body has given a value

vars == <<fn, phase, at, sp, base, reg, mem, named, stored>>
-----------------------------------------------------------------------------
AlignTo(n, a) == ((n + a - 1) \div a) * a

Arm == fn.target = "aarch64"
OneIf(b) == IF b THEN 1 ELSE 0

\* mutant: no padding for the registers
ReservedUnpadded(f) == AlignTo(f.locals + 32 * OneIf(f.calls), 16)
\* mutant: no room for the shadow space
ReservedNoShadow(f) ==
  AlignTo(f.locals, 16) + 8 * ((f.nregs + OneIf(f.locals > 0) + OneIf(f.calls)) % 2)
\* The shadow space and the locals, padded so that calls find the stack
\* aligned whatever number of registers was pushed.
Reserved(f) ==
  AlignTo(f.locals + 32 * OneIf(f.calls), 16)
    + 8 * ((f.nregs + OneIf(f.locals > 0) + OneIf(f.calls)) % 2)

NeedsFp(f) == f.calls \/ f.locals > 0
RegsToSave(f) == f.nregs + 2 * OneIf(NeedsFp(f))
SaveArea(f) == AlignTo(8 * RegsToSave(f), 16)
StackObjs(f) == AlignTo(f.locals, 16)
FrameSize(f) == SaveArea(f) + StackObjs(f)

\* The frame opens with the store itself: no locals to step over.
PreIndexed(f) == StackObjs(f) = 0 /\ RegsToSave(f) > 0

\* The offset field of stp and ldp, in words, and that of add and sub.
Field7(off) == LET w == (off \div 8) % 128
               IN  8 * (IF w < 64 THEN w ELSE w - 128)
Field12(n) == n % 4096

\* What the frame and the deepest store of it take.
DepthOf(f) == IF f.target = "aarch64" THEN FrameSize(f) + 512
              ELSE 8 * (f.nregs + 1) + Reserved(f)

\* "large": the locals push the saved registers out of reach of stp.
Frames ==
  {f \in [target : Targets, nregs : 0 .. MaxRegs, locals : LocalSizes, calls : BOOLEAN] :
     /\ DepthOf(f) <= Deepest
     /\ f.target = "aarch64" => f.nregs + 19 < 28
     /\ f.target # "aarch64" => f.nregs <= 7
     /\ f.target = "aarch64" /\ StackObjs(f) + SaveArea(f) > 504 => "large" \in Beyond}

Words == {d \in 0 .. Deepest : d % 8 = 0}

Init ==
  /\ fn \in Frames
  /\ phase = "entry"
  /\ at = 0
  /\ sp = 0
  /\ base = 0
  /\ reg = [r \in NRegs \cup {Fp, Lr} |-> r]
  /\ mem = [d \in Words |-> IF d = 0 THEN Lr ELSE Junk]
  /\ named = {}
  /\ stored = {}
-----------------------------------------------------------------------------
(* x86-64: push the frame pointer and the named registers, then make room. *)

Push(r) == /\ sp' = sp + 8
           /\ mem' = [mem EXCEPT ![sp + 8] = r]

PushFp ==
  /\ ~ Arm /\ phase = "entry"
  /\ IF fn.locals > 0 THEN Push(reg[Fp]) ELSE UNCHANGED <<sp, mem>>
  /\ phase' = "push"
  /\ UNCHANGED <<fn, at, base, reg, named, stored>>

PushReg ==
  /\ phase = "push" /\ at < fn.nregs
  /\ Push(reg[at])
  /\ at' = at + 1
  /\ UNCHANGED <<fn, phase, base, reg, named, stored>>

\* lea rbp, [rsp - 32] keeps the shadow space between the saved registers
\* and the locals.
Reserve ==
  /\ phase = "push" /\ at = fn.nregs
  /\ IF fn.locals > 0 THEN /\ base' = sp + 32 * OneIf(fn.calls)
                           /\ reg' = [reg EXCEPT ![Fp] = Junk]
                      ELSE UNCHANGED <<base, reg>>
  /\ sp' = sp + Reserved(fn)
  /\ phase' = "body"
  /\ UNCHANGED <<fn, at, mem, named, stored>>

\* mutant: what is released is rounded once more
ReleaseRounded ==
  /\ ~ Arm /\ phase = "body"
  /\ sp' = sp - AlignTo(Reserved(fn), 16)
  /\ phase' = "pop"
  /\ UNCHANGED <<fn, at, base, reg, mem, named, stored>>
Release ==
  /\ ~ Arm /\ phase = "body"
  /\ sp' = sp - Reserved(fn)
  /\ phase' = "pop"
  /\ UNCHANGED <<fn, at, base, reg, mem, named, stored>>

Pop(r) == /\ reg' = [reg EXCEPT ![r] = mem[sp]]
          /\ sp' = sp - 8

\* mutant: registers are popped in the order they were pushed
PopRegForward ==
  /\ phase = "pop" /\ at > 0
  /\ Pop(fn.nregs - at)
  /\ at' = at - 1
  /\ UNCHANGED <<fn, phase, base, mem, named, stored>>
PopReg ==
  /\ phase = "pop" /\ at > 0
  /\ Pop(at - 1)
  /\ at' = at - 1
  /\ UNCHANGED <<fn, phase, base, mem, named, stored>>

PopFp ==
  /\ phase = "pop" /\ at = 0
  /\ IF fn.locals > 0 THEN Pop(Fp) ELSE UNCHANGED <<reg, sp>>
  /\ phase' = "ret"
  /\ UNCHANGED <<fn, at, base, mem, named, stored>>
-----------------------------------------------------------------------------
(* aarch64: pairs of registers from the top one down, above the locals;    *)
(* the frame pointer and the link register are the first pair.             *)

First == at = RegsToSave(fn)
PairHi == IF First /\ NeedsFp(fn) THEN Fp ELSE at - 1
PairLo == IF First /\ NeedsFp(fn) THEN Lr ELSE at - 2

\* Where the store or load with `at` registers to go finds its first word.
Off == StackObjs(fn) + 8 * (RegsToSave(fn) - at)

Allocate ==
  /\ Arm /\ phase = "entry"
  /\ sp' = IF StackObjs(fn) > 0 THEN Field12(FrameSize(fn)) ELSE 0
  /\ at' = RegsToSave(fn)
  /\ phase' = "save"
  /\ UNCHANGED <<fn, base, reg, mem, named, stored>>

\* The stack pointer the store leaves, and the depth it stores at.
StoreSp == IF First /\ PreIndexed(fn) THEN FrameSize(fn) ELSE sp
PairDepth == sp - Field7(Off)
SaveDepth == IF First /\ PreIndexed(fn) THEN StoreSp ELSE PairDepth

SavePair ==
  /\ phase = "save" /\ at > 1
  /\ sp' = StoreSp
  /\ mem' = [mem EXCEPT ![SaveDepth] = reg[PairHi], ![SaveDepth - 8] = reg[PairLo]]
  /\ at' = at - 2
  /\ UNCHANGED <<fn, phase, base, reg, named, stored>>

SaveLast ==
  /\ phase = "save" /\ at = 1
  /\ sp' = StoreSp
  /\ mem' = [mem EXCEPT ![StoreSp - (IF First /\ PreIndexed(fn) THEN 0 ELSE Off)] = reg[0]]
  /\ at' = 0
  /\ UNCHANGED <<fn, phase, base, reg, named, stored>>

PointFrame ==
  /\ phase = "save" /\ at = 0
  /\ IF NeedsFp(fn) THEN /\ base' = sp - StackObjs(fn)
                         /\ reg' = [reg EXCEPT ![Fp] = Junk]
                    ELSE UNCHANGED <<base, reg>>
  /\ phase' = "body"
  /\ UNCHANGED <<fn, at, sp, mem, named, stored>>

\* The pair whose store opened the frame is loaded last, to close it.
Deferred == PreIndexed(fn) /\ RegsToSave(fn) > 1

StartLoads ==
  /\ Arm /\ phase = "body"
  /\ at' = RegsToSave(fn) - 2 * OneIf(Deferred)
  /\ phase' = "load"
  /\ UNCHANGED <<fn, sp, base, reg, mem, named, stored>>

LoadPair ==
  /\ phase = "load" /\ at > 1
  /\ reg' = [reg EXCEPT ![PairHi] = mem[PairDepth], ![PairLo] = mem[PairDepth - 8]]
  /\ at' = at - 2
  /\ UNCHANGED <<fn, phase, sp, base, mem, named, stored>>

LoadLast ==
  /\ phase = "load" /\ at = 1
  /\ reg' = [reg EXCEPT ![0] = mem[sp - Off]]
  /\ sp' = IF First /\ PreIndexed(fn) THEN sp - FrameSize(fn) ELSE sp
  /\ at' = 0
  /\ UNCHANGED <<fn, phase, base, mem, named, stored>>

Close ==
  /\ phase = "load" /\ at = 0
  /\ IF Deferred
       THEN LET hi == IF NeedsFp(fn) THEN Fp ELSE fn.nregs - 1
                lo == IF NeedsFp(fn) THEN Lr ELSE fn.nregs - 2
            IN  /\ reg' = [reg EXCEPT ![hi] = mem[sp], ![lo] = mem[sp - 8]]
                /\ sp' = sp - FrameSize(fn)
       ELSE /\ sp' = IF StackObjs(fn) > 0 THEN sp - Field12(FrameSize(fn)) ELSE sp
            /\ UNCHANGED reg
  /\ phase' = "ret"
  /\ UNCHANGED <<fn, at, base, mem, named, stored>>
-----------------------------------------------------------------------------
(* The body between them. *)

SetNamed ==
  /\ phase = "body"
  /\ \E i \in 0 .. fn.nregs - 1 : /\ reg' = [reg EXCEPT ![i] = Named]
                                  /\ named' = named \cup {i}
  /\ UNCHANGED <<fn, phase, at, sp, base, mem, stored>>

\* A store to byte b of the locals, at [frame pointer - b].
SetLocal ==
  /\ phase = "body"
  /\ \E b \in {l \in 1 .. fn.locals : l % 8 = 0 \/ l = fn.locals} :
       LET w == base + AlignTo(b, 8)
       IN  /\ mem' = [mem EXCEPT ![w] = Local]
           /\ stored' = stored \cup {w}
  /\ UNCHANGED <<fn, phase, at, sp, base, reg, named>>

\* "shadow": a callee compiled elsewhere may store its parameters in the 32
\* bytes above its return address.  "foreign": the System V convention lets
\* it change r10 and r11, which are NREG 5 and 6.
Home(d) == fn.target = "windows" /\ "shadow" \in Beyond /\ d > sp - 32
Clobbered(r) == fn.target = "linux" /\ "foreign" \in Beyond /\ r \in {5, 6}

Call ==
  /\ phase = "body" /\ fn.calls
  /\ mem' = [d \in Words |-> IF d > sp \/ Home(d) THEN Junk ELSE mem[d]]
  /\ reg' = [r \in NRegs \cup {Fp, Lr} |->
               IF Clobbered(r) \/ (Arm /\ r = Lr) THEN Junk ELSE reg[r]]
  /\ UNCHANGED <<fn, phase, at, sp, base, named, stored>>

Returned == phase = "ret" /\ UNCHANGED vars

Next ==
  \/ PushFp \/ PushReg \/ Reserve \/ Release \/ PopReg \/ PopFp
  \/ Allocate \/ SavePair \/ SaveLast \/ PointFrame
  \/ StartLoads \/ LoadPair \/ LoadLast \/ Close
  \/ SetNamed \/ SetLocal \/ Call \/ Returned

Spec == Init /\ [][Next]_vars
-----------------------------------------------------------------------------
\* The frame stays on the stack there is.
TypeOK ==
  /\ fn \in Frames
  /\ phase \in {"entry", "push", "save", "body", "pop", "load", "ret"}
  /\ at \in 0 .. MaxRegs + 2
  /\ sp \in Words /\ base \in Words
  /\ reg \in [NRegs \cup {Fp, Lr} -> Contents]
  /\ mem \in [Words -> Contents]
  /\ named \subseteq 0 .. fn.nregs - 1
  /\ stored \subseteq Words

\* What the conventions promise the caller: when the function returns, the
\* stack pointer, the callee-saved registers and the return address are those
\* of its entry (emit_fn_prologue_epilogue, every backend).
FrameRestored ==
  phase = "ret" => /\ sp = 0
                   /\ \A r \in NRegs \cup {Fp} : reg[r] = r
                   /\ IF Arm THEN reg[Lr] = Lr ELSE mem[0] = Lr

\* "for aligning stack to 0x10 bytes on 'call'": a body that calls does so with
\* the stack pointer the convention wants (the word call pushes, on x86-64).
CallsAligned ==
  phase = "body" /\ fn.calls => (IF Arm THEN sp ELSE sp + 8) % 16 = 0

\* No call and no store to another part of the frame changes a local the body
\* has stored, and no local lies over a register the prologue saved.
LocalsKept == phase = "body" => \A w \in stored : mem[w] = Local
=============================================================================
