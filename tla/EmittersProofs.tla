--------------------------- MODULE EmittersProofs ---------------------------
(* Proofs about the emitters for every program and every limit: the text holds *)
(* each function in one piece, and so does the machine code as long as         *)
(* `#compile_all` comes before the other lines of its function.  Then its      *)
(* branches, calls and entry point are linked right, and no table overflows.   *)
EXTENDS Emitters, SequenceTheorems, FiniteSetTheorems, TLAPS

-----------------------------------------------------------------------------
(* Sequences *)

\* Front keeps what lies below the top.
LEMMA FrontStack ==
    ASSUME NEW S, NEW s \in Seq(S), s # <<>>
    PROVE  /\ Front(s) \in Seq(S)
           /\ Len(Front(s)) = Len(s) - 1
           /\ \A i \in 1..(Len(s) - 1) : Front(s)[i] = s[i]
<1>1. Len(s) \in Nat \ {0}
    OBVIOUS
<1>2. \A i \in 1..(Len(s) - 1) : s[i] \in S
    BY <1>1
<1>3. /\ SubSeq(s, 1, Len(s) - 1) \in Seq(S)
      /\ Len(SubSeq(s, 1, Len(s) - 1)) =
            IF 1 <= Len(s) - 1 THEN Len(s) - 1 - 1 + 1 ELSE 0
    BY <1>1, <1>2, SubSeqProperties
<1>4. Len(SubSeq(s, 1, Len(s) - 1)) = Len(s) - 1
    <2>1. \A l \in Nat \ {0} : (IF 1 <= l - 1 THEN l - 1 - 1 + 1 ELSE 0) = l - 1
        OBVIOUS
    <2>2. QED
        BY <1>1, <1>3, <2>1, Zenon
<1>5. \A i \in 1..(Len(s) - 1) : SubSeq(s, 1, Len(s) - 1)[i] = s[i]
    BY <1>1
<1>6. QED
    BY <1>3, <1>4, <1>5, Zenon DEF Front

\* One more instruction makes the code of a function one instruction longer.
LEMMA LongerBody ==
    ASSUME NEW f, NEW count \in Nat
    PROVE  /\ Append(TextImage!Body(f, count), Instr(f, count + 1))
                = TextImage!Body(f, count + 1)
           /\ TextImage!Body(f, count) \in Seq([fn : {f}, n : Nat])
           /\ TextImage!Body(f, 0) = <<>>
<1>1. TextImage!Body(f, count) \in Seq([fn : {f}, n : Nat])
    BY DEF TextImage!Body, TextImage!Instr
<1>2. Len(TextImage!Body(f, count)) = count
    BY DEF TextImage!Body
<1>3. Append(TextImage!Body(f, count), Instr(f, count + 1))
         = TextImage!Body(f, count + 1)
    BY <1>1, <1>2 DEF TextImage!Body, TextImage!Instr, Instr
<1>4. TextImage!Body(f, 0) = <<>>
    BY DEF TextImage!Body
<1>5. QED
    BY <1>1, <1>3, <1>4

-----------------------------------------------------------------------------
(* The driver: what every step does to the functions in progress. *)

FnRecord ==
    [fn : Functions, emitted : Nat, unnamed : Nat, blocks : Seq(Nat),
     branched : BOOLEAN, started : BOOLEAN, closing : BOOLEAN]
FileRecord == [inside : Nat, skipping : BOOLEAN]

UnitsInv ==
    /\ fns \in Seq(FnRecord)
    /\ files \in Seq(FileRecord) /\ files # <<>>

\* The function in progress emits k instructions.
Advance(k) ==
    /\ InFunction
    /\ \E r \in FnRecord :
          /\ r.fn = Current.fn /\ r.emitted = Current.emitted + k
          /\ r.started \/ (k = 0 /\ r.started = Current.started)
          /\ fns' = [fns EXCEPT ![Len(fns)] = r]

\* The binary backends put one instruction into the body.
BinAppend == body' = Append(body, NextCode) /\ UNCHANGED code

EmitStep == Advance(1) /\ TextEmit /\ BinAppend /\ UNCHANGED files
QuietStep == Advance(0) /\ UNCHANGED <<files, textVars, body, code>>
IncludeStep ==
    /\ Advance(0)
    /\ Late \/ ~Current.started
    /\ files' = Append(files, File(Len(fns), TRUE))
    /\ UNCHANGED <<textVars, body, code>>
FileStep ==
    /\ IncludeSkipping \/ EndSkip \/ EndFile
    /\ UNCHANGED <<textVars, body, code>>
IdleStep == UNCHANGED <<fns, files, textVars, body, code>>

\* The updates that lines make to the record of their function.
LEMMA RecordEmits ==
    ASSUME NEW c \in FnRecord
    PROVE  LET r == [c EXCEPT !.emitted = @ + 1, !.started = TRUE]
           IN r \in FnRecord /\ r.fn = c.fn /\ r.emitted = c.emitted + 1 /\ r.started
<1>1. ASSUME NEW e \in Nat
      PROVE  LET r == [c EXCEPT !.emitted = e, !.started = TRUE]
             IN r \in FnRecord /\ r.fn = c.fn /\ r.emitted = e /\ r.started
    BY DEF FnRecord
<1>2. c.emitted + 1 \in Nat
    BY DEF FnRecord
<1>3. QED
    BY <1>1, <1>2

LEMMA RecordOpens ==
    ASSUME NEW c \in FnRecord
    PROVE  LET r == [c EXCEPT !.unnamed = @ + 1, !.blocks = Append(@, c.unnamed)]
           IN r \in FnRecord /\ r.fn = c.fn /\ r.emitted = c.emitted
<1>1. ASSUME NEW u \in Nat, NEW s \in Seq(Nat)
      PROVE  LET r == [c EXCEPT !.unnamed = u, !.blocks = s]
             IN r \in FnRecord /\ r.fn = c.fn /\ r.emitted = c.emitted
    BY DEF FnRecord
<1>2. c.unnamed + 1 \in Nat /\ Append(c.blocks, c.unnamed) \in Seq(Nat)
    BY DEF FnRecord
<1>3. QED
    BY <1>1, <1>2

LEMMA RecordKeeps ==
    ASSUME NEW c \in FnRecord, NEW s \in Seq(Nat), NEW b \in BOOLEAN
    PROVE  LET r == [c EXCEPT !.blocks = s, !.closing = b]
               q == [c EXCEPT !.closing = b]
           IN /\ r \in FnRecord /\ r.fn = c.fn /\ r.started = c.started
              /\ r.emitted = c.emitted + 0
              /\ q \in FnRecord /\ q.fn = c.fn /\ q.started = c.started
              /\ q.emitted = c.emitted + 0
<1> DEFINE r == [c EXCEPT !.blocks = s, !.closing = b]
           q == [c EXCEPT !.closing = b]
<1>1. r \in FnRecord /\ r.fn = c.fn /\ r.started = c.started /\ r.emitted = c.emitted
    BY DEF FnRecord
<1>2. q \in FnRecord /\ q.fn = c.fn /\ q.started = c.started /\ q.emitted = c.emitted
    BY DEF FnRecord
<1>3. c.emitted + 0 = c.emitted
    BY DEF FnRecord
<1>4. QED
    BY <1>1, <1>2, <1>3

LEMMA RecordStarts ==
    ASSUME NEW c \in FnRecord
    PROVE  LET r == [c EXCEPT !.started = TRUE]
           IN r \in FnRecord /\ r.fn = c.fn /\ r.started /\ r.emitted = c.emitted + 0
<1> DEFINE r == [c EXCEPT !.started = TRUE]
<1>1. r \in FnRecord /\ r.fn = c.fn /\ r.started /\ r.emitted = c.emitted
    BY DEF FnRecord
<1>2. c.emitted + 0 = c.emitted
    BY DEF FnRecord
<1>3. QED
    BY <1>1, <1>2

\* In a function there is a record of it, and it is of the right type.
LEMMA CurrentRecord ==
    ASSUME UnitsInv, InFunction
    PROVE  Len(fns) \in Nat \ {0} /\ fns # <<>> /\ Current \in FnRecord
<1>1. Top(files).inside \in Nat
    <2>1. Len(files) \in 1..Len(files)
        BY DEF UnitsInv
    <2>2. files[Len(files)] \in FileRecord
        BY <2>1 DEF UnitsInv
    <2>3. QED
        BY <2>2 DEF FileRecord, Top
<1>2. Len(fns) \in Nat \ {0}
    BY <1>1 DEF UnitsInv, InFunction
<1>3. QED
    BY <1>2 DEF UnitsInv, Current, Top

\* A line that emits one instruction.
LEMMA EmittingLine ==
    ASSUME UnitsInv, Instruction \/ Return \/ OpenBlock, TextEmit, BinAppend
    PROVE  EmitStep
<1> USE DEF Advance, EmitStep
<1>1. InFunction /\ Current \in FnRecord
    BY CurrentRecord DEF Instruction, Return, OpenBlock, HasRoom, AtLine
<1>2. CASE Instruction
    BY <1>1, <1>2, RecordEmits DEF Instruction, Emitting, Becomes
<1>3. CASE Return
    <2> DEFINE q == [Current EXCEPT !.branched = TRUE]
               r == [q EXCEPT !.emitted = @ + 1, !.started = TRUE]
    <2>1. q \in FnRecord /\ q.fn = Current.fn /\ q.emitted = Current.emitted
        BY <1>1 DEF FnRecord
    <2>2. r \in FnRecord /\ r.fn = Current.fn /\ r.emitted = Current.emitted + 1 /\ r.started
        BY <2>1, RecordEmits
    <2>3. fns' = [fns EXCEPT ![Len(fns)] = r] /\ files' = files
        BY <1>3 DEF Return, Emitting, Becomes
    <2>4. QED
        BY <1>1, <2>2, <2>3
<1>4. CASE OpenBlock
    <2> DEFINE q == [Current EXCEPT !.unnamed = @ + 1,
                                    !.blocks = Append(@, Current.unnamed)]
               r == [q EXCEPT !.emitted = @ + 1, !.started = TRUE]
    <2>1. q \in FnRecord /\ q.fn = Current.fn /\ q.emitted = Current.emitted
        BY <1>1, RecordOpens
    <2>2. r \in FnRecord /\ r.fn = Current.fn /\ r.emitted = Current.emitted + 1 /\ r.started
        BY <2>1, RecordEmits
    <2>3. fns' = [fns EXCEPT ![Len(fns)] = r] /\ files' = files
        BY <1>4 DEF OpenBlock, Emitting, Becomes
    <2>4. QED
        BY <1>1, <2>2, <2>3
<1>5. QED
    BY <1>2, <1>3, <1>4

\* A label that the program sets, and the one at the end of a block.
LEMMA LabelLine ==
    ASSUME UnitsInv, CloseBlock \/ \E label \in LabelNames : SetLabel(label),
           UNCHANGED <<textVars, body, code>>
    PROVE  QuietStep
<1> USE DEF Advance, QuietStep
<1>1. CASE \E label \in LabelNames : SetLabel(label)
    <2>1. PICK label \in LabelNames : SetLabel(label)
        BY <1>1
    <2>2. InFunction /\ Current \in FnRecord
        BY <2>1, CurrentRecord DEF SetLabel, AtLine
    <2> DEFINE r == [Current EXCEPT !.started = TRUE]
    <2>3. r \in FnRecord /\ r.fn = Current.fn /\ r.emitted = Current.emitted + 0 /\ r.started
        BY <2>2, RecordStarts
    <2>4. fns' = [fns EXCEPT ![Len(fns)] = r] /\ files' = files
        BY <2>1 DEF SetLabel, Becomes
    <2>5. QED
        BY <2>2, <2>3, <2>4
<1>2. CASE CloseBlock
    <2>1. InFunction /\ Current \in FnRecord /\ Current.blocks # <<>>
        BY <1>2, CurrentRecord DEF CloseBlock
    <2> DEFINE last == Current.closing /\ (Len(Current.blocks) > 1 \/ Current.fn # "main")
               r == [Current EXCEPT !.blocks = Front(@), !.closing = last]
    <2>2. Front(Current.blocks) \in Seq(Nat)
        <3>1. Current.blocks \in Seq(Nat)
            BY <2>1 DEF FnRecord
        <3>2. QED
            BY <2>1, <3>1, FrontStack
    <2>3. last \in BOOLEAN
        <3>1. Current.closing \in BOOLEAN
            BY <2>1 DEF FnRecord
        <3>2. QED
            BY <3>1, Zenon
    <2> HIDE DEF last
    <2>4. r \in FnRecord /\ r.fn = Current.fn /\ r.emitted = Current.emitted + 0
              /\ r.started = Current.started
        BY <2>1, <2>2, <2>3, RecordKeeps
    <2>5. fns' = [fns EXCEPT ![Len(fns)] = r] /\ files' = files
        BY <1>2 DEF CloseBlock, Becomes, last
    <2>6. QED
        BY <2>1, <2>4, <2>5
<1>3. QED
    BY <1>1, <1>2

\* `#compile_all`
LEMMA IncludeLine ==
    ASSUME UnitsInv, Include, UNCHANGED <<textVars, body, code>>
    PROVE  IncludeStep
<1>1. InFunction /\ Current \in FnRecord /\ Len(fns) \in Nat \ {0}
    BY CurrentRecord DEF Include, AtLine
<1> DEFINE last == Current.blocks # <<>> \/ Current.fn # "main"
           r == [Current EXCEPT !.closing = last]
<1>2. r \in FnRecord /\ r.fn = Current.fn /\ r.emitted = Current.emitted + 0
         /\ r.started = Current.started
    BY <1>1, RecordKeeps, EmptySeq
<1>3. fns' = [fns EXCEPT ![Len(fns)] = r]
    BY <1>1 DEF Include, Current, Top
<1>4. QED
    BY <1>1, <1>2, <1>3 DEF IncludeStep, Include, Open, Advance

\* Every step is of one of seven kinds.
LEMMA StepKinds ==
    ASSUME UnitsInv, [EmittersNext]_emitterVars
    PROVE  \/ \E f \in Functions : Begin(f)
           \/ EmitStep \/ QuietStep \/ IncludeStep \/ FileStep
           \/ \E size \in 0..MaxPrologue : End(size)
           \/ IdleStep
<1>1. ASSUME EmitInstruction \/ EmitReturn \/ EmitOpenBlock
             \/ (\E f \in Declared : EmitCall(f)) \/ (\E label \in LabelNames : EmitGoto(label))
      PROVE  EmitStep
    <2>1. (Instruction \/ Return \/ OpenBlock) /\ TextEmit /\ BinAppend
        BY <1>1 DEF EmitInstruction, EmitCall, EmitGoto, EmitReturn, EmitOpenBlock, Call, Goto,
                    BinEmit, BinCall, BinBranch, BinEmitFixup, BinAppend
    <2>2. QED
        BY <2>1, EmittingLine
<1>2. ASSUME EmitCloseBlock \/ \E label \in LabelNames : EmitLabel(label)
      PROVE  QuietStep
    <2>1. /\ CloseBlock \/ \E label \in LabelNames : SetLabel(label)
          /\ UNCHANGED <<textVars, body, code>>
        BY <1>2 DEF EmitCloseBlock, EmitLabel, BinLabel
    <2>2. QED
        BY <2>1, LabelLine
<1>3. CASE Files
    <2>1. CASE Include
        BY <1>3, <2>1, IncludeLine DEF Files, binVars
    <2>2. CASE ~Include
        BY <1>3, <2>2 DEF Files, FileStep, binVars
    <2>3. QED
        BY <2>1, <2>2
<1>4. CASE Write \/ Diagnose \/ Done \/ UNCHANGED emitterVars
    BY <1>4 DEF Write, EndProgram, BinWrite, Diagnose, Fail, Done, emitterVars, vars,
                textVars, binVars, IdleStep
<1>5. QED
    BY <1>1, <1>2, <1>3, <1>4 DEF EmittersNext

\* The record of the function in progress is replaced by one of its kind.
LEMMA AdvanceKeeps ==
    ASSUME UnitsInv, NEW k \in {0, 1}, Advance(k)
    PROVE  /\ Len(fns) \in Nat \ {0} /\ Len(fns') = Len(fns)
           /\ fns' \in Seq(FnRecord)
           /\ Current' = fns'[Len(fns)]
           /\ Current'.fn = Current.fn /\ Current'.emitted = Current.emitted + k
           /\ Current'.started \/ (k = 0 /\ Current'.started = Current.started)
           /\ \A i \in 1..(Len(fns) - 1) : fns'[i] = fns[i]
<1>1. PICK r \in FnRecord :
         /\ r.fn = Current.fn /\ r.emitted = Current.emitted + k
         /\ r.started \/ (k = 0 /\ r.started = Current.started)
         /\ fns' = [fns EXCEPT ![Len(fns)] = r]
    BY DEF Advance
<1>2. Len(fns) \in Nat \ {0}
    BY CurrentRecord DEF Advance
<1>3. /\ fns' \in Seq(FnRecord) /\ Len(fns') = Len(fns)
      /\ \A i \in 1..Len(fns) : fns'[i] = IF i = Len(fns) THEN r ELSE fns[i]
    BY <1>1, <1>2, ExceptSeq DEF UnitsInv
<1>4. Current' = r /\ fns'[Len(fns)] = r
    BY <1>2, <1>3 DEF Current, Top
<1>5. \A i \in 1..(Len(fns) - 1) : fns'[i] = fns[i]
    BY <1>2, <1>3
<1>6. /\ Current'.fn = Current.fn /\ Current'.emitted = Current.emitted + k
      /\ Current'.started \/ (k = 0 /\ Current'.started = Current.started)
    BY <1>1, <1>4, Zenon
<1>7. QED
    BY <1>2, <1>3, <1>4, <1>5, <1>6, Zenon

\* What beginning and ending a function do to the functions in progress.
LEMMA BeginKeeps ==
    ASSUME UnitsInv, NEW f \in Functions, BeginFunction(f)
    PROVE  /\ fns' \in Seq(FnRecord) /\ Len(fns') = Len(fns) + 1 /\ files' = files
           /\ \A i \in 1..Len(fns) : fns'[i] = fns[i]
           /\ fns'[Len(fns) + 1] = Function(f) /\ Current' = Function(f)
<1>1. Function(f) \in FnRecord
    <2>1. <<>> \in Seq(Nat)
        OBVIOUS
    <2>2. QED
        BY <2>1 DEF Function, FnRecord
<1>2. fns' = Append(fns, Function(f)) /\ files' = files
    BY DEF BeginFunction
<1>3. /\ fns' \in Seq(FnRecord) /\ Len(fns') = Len(fns) + 1
      /\ \A i \in 1..Len(fns) : fns'[i] = fns[i]
      /\ fns'[Len(fns) + 1] = Function(f)
    BY <1>1, <1>2, AppendProperties DEF UnitsInv
<1>4. Current' = Function(f)
    BY <1>3 DEF Current, Top
<1>5. QED
    BY <1>2, <1>3, <1>4

LEMMA EndKeeps ==
    ASSUME UnitsInv, EndFunction
    PROVE  /\ Len(fns) \in Nat \ {0} /\ Current \in FnRecord
           /\ fns' \in Seq(FnRecord) /\ Len(fns') = Len(fns) - 1 /\ files' = files
           /\ \A i \in 1..(Len(fns) - 1) : fns'[i] = fns[i]
    BY CurrentRecord, FrontStack DEF UnitsInv, EndFunction

\* What the same steps are for Output.
LEMMA OpenAdvance ==
    ASSUME UnitsInv, NEW k \in {0, 1}, Advance(k)
    PROVE  /\ k = 1 => /\ OpenFunctions # <<>>
                       /\ OpenFunctions' = [OpenFunctions EXCEPT ![Len(OpenFunctions)].emitted = @ + 1]
           /\ k = 0 => OpenFunctions' = OpenFunctions
<1> DEFINE n == Len(fns)
<1>1. /\ n \in Nat \ {0} /\ Len(fns') = n /\ fns' \in Seq(FnRecord)
      /\ Current' = fns'[n]
      /\ Current'.fn = Current.fn /\ Current'.emitted = Current.emitted + k
      /\ \A i \in 1..(n - 1) : fns'[i] = fns[i]
    BY AdvanceKeeps
<1>2. Current = fns[n] /\ Current \in FnRecord /\ Current.emitted \in Nat
    BY CurrentRecord DEF Advance, Current, Top, FnRecord
<1>3. OpenFunctions' = [OpenFunctions EXCEPT ![n].emitted = Current.emitted + k]
    <2> DEFINE top == [fn |-> Current.fn, emitted |-> Current.emitted + k]
    <2>1. OpenFunctions' = [i \in 1..n |-> [fn |-> fns'[i].fn, emitted |-> fns'[i].emitted]]
        BY <1>1 DEF OpenFunctions
    <2>2. OpenFunctions[n] = [fn |-> Current.fn, emitted |-> Current.emitted]
        BY <1>1, <1>2 DEF OpenFunctions
    <2>3. [OpenFunctions EXCEPT ![n].emitted = Current.emitted + k]
             = [OpenFunctions EXCEPT ![n] = top]
        <3>1. [OpenFunctions[n] EXCEPT !.emitted = Current.emitted + k] = top
            BY <2>2
        <3>2. QED
            BY <3>1
    <2>4. [fn |-> fns'[n].fn, emitted |-> fns'[n].emitted] = top
        BY <1>1
    <2>5. \A i \in 1..n : [fn |-> fns'[i].fn, emitted |-> fns'[i].emitted]
                             = IF i = n THEN top ELSE OpenFunctions[i]
        BY <1>1, <2>4 DEF OpenFunctions
    <2>6. [OpenFunctions EXCEPT ![n] = top]
             = [i \in 1..n |-> IF i = n THEN top ELSE OpenFunctions[i]]
        BY <1>1 DEF OpenFunctions
    <2>7. QED
        BY <2>1, <2>3, <2>5, <2>6
<1>4. CASE k = 1
    <2>1. OpenFunctions # <<>> /\ Len(OpenFunctions) = n
        <3>1. \A i \in 1..n : [fn |-> fns[i].fn, emitted |-> fns[i].emitted]
                                 \in [fn : {fns[j].fn : j \in 1..n}, emitted : {fns[j].emitted : j \in 1..n}]
            OBVIOUS
        <3>2. Len(OpenFunctions) = n
            BY <1>1, <3>1 DEF OpenFunctions
        <3>3. QED
            BY <1>1, <3>2
    <2>2. OpenFunctions' = [OpenFunctions EXCEPT ![n].emitted = @ + 1]
        BY <1>1, <1>2, <1>3, <1>4 DEF OpenFunctions
    <2>3. QED
        BY <1>4, <2>1, <2>2
<1>5. CASE k = 0
    <2>1. OpenFunctions' = OpenFunctions
        BY <1>1, <1>2, <1>3, <1>5 DEF OpenFunctions
    <2>2. QED
        BY <1>5, <2>1
<1>6. QED
    BY <1>4, <1>5

LEMMA OpenBegins ==
    ASSUME UnitsInv, NEW f \in Functions, BeginFunction(f)
    PROVE  OpenFunctions' = Append(OpenFunctions, [fn |-> f, emitted |-> 0])
<1> DEFINE n == Len(fns)
           new == [fn |-> f, emitted |-> 0]
<1>1. /\ n \in Nat /\ Len(fns') = n + 1
      /\ \A i \in 1..n : fns'[i] = fns[i]
      /\ fns'[n + 1] = Function(f)
    BY BeginKeeps DEF UnitsInv
<1>2. Len(OpenFunctions) = n
    BY <1>1 DEF OpenFunctions
<1>3. Append(OpenFunctions, new)
         = [i \in 1..(n + 1) |-> IF i = n + 1 THEN new ELSE OpenFunctions[i]]
    BY <1>1, <1>2 DEF OpenFunctions
<1>4. OpenFunctions' = [i \in 1..(n + 1) |-> [fn |-> fns'[i].fn, emitted |-> fns'[i].emitted]]
    BY <1>1 DEF OpenFunctions
<1>5. \A i \in 1..(n + 1) : [fn |-> fns'[i].fn, emitted |-> fns'[i].emitted]
                               = IF i = n + 1 THEN new ELSE OpenFunctions[i]
    BY <1>1 DEF OpenFunctions, Function
<1>6. QED
    BY <1>3, <1>4, <1>5

LEMMA OpenEnds ==
    ASSUME UnitsInv, EndFunction
    PROVE  /\ OpenFunctions # <<>>
           /\ OpenFunctions[Len(OpenFunctions)] = [fn |-> Current.fn, emitted |-> Current.emitted]
           /\ OpenFunctions' = SubSeq(OpenFunctions, 1, Len(OpenFunctions) - 1)
<1> DEFINE n == Len(fns)
<1>1. /\ n \in Nat \ {0} /\ Current \in FnRecord /\ Current = fns[n]
      /\ fns' \in Seq(FnRecord) /\ Len(fns') = n - 1
      /\ \A i \in 1..(n - 1) : fns'[i] = fns[i]
    BY EndKeeps DEF Current, Top
<1>2. Len(OpenFunctions) = n /\ OpenFunctions # <<>>
    BY <1>1 DEF OpenFunctions
<1>3. SubSeq(OpenFunctions, 1, n - 1) = [i \in 1..(n - 1) |-> OpenFunctions[i]]
    BY <1>1, <1>2
<1>4. OpenFunctions' = [i \in 1..(n - 1) |-> [fn |-> fns'[i].fn, emitted |-> fns'[i].emitted]]
    BY <1>1 DEF OpenFunctions
<1>5. \A i \in 1..(n - 1) : OpenFunctions[i] = [fn |-> fns'[i].fn, emitted |-> fns'[i].emitted]
    BY <1>1 DEF OpenFunctions
<1>6. OpenFunctions[n] = [fn |-> Current.fn, emitted |-> Current.emitted]
    BY <1>1 DEF OpenFunctions
<1>7. QED
    BY <1>2, <1>3, <1>4, <1>5, <1>6

\* The types of the driver's stacks, at the start and after every step.
LEMMA InitialUnits == Init => UnitsInv
<1> SUFFICES ASSUME Init PROVE UnitsInv
    OBVIOUS
<1>1. fns = <<>> /\ files = <<File(0, FALSE)>> /\ File(0, FALSE) \in FileRecord
    BY DEF Init, File, FileRecord
<1>2. ASSUME NEW x \in FileRecord
      PROVE  <<x>> \in Seq(FileRecord) /\ <<x>> # <<>>
    OBVIOUS
<1>3. files \in Seq(FileRecord) /\ files # <<>>
    BY <1>1, <1>2
<1>4. fns \in Seq(FnRecord)
    BY <1>1, EmptySeq
<1>5. QED
    BY <1>3, <1>4 DEF UnitsInv

LEMMA OpenKeeps ==
    ASSUME UnitsInv, files' = Append(files, File(Len(fns), TRUE))
    PROVE  files' \in Seq(FileRecord) /\ files' # <<>>
<1>1. ASSUME NEW r \in FileRecord
      PROVE  Append(files, r) \in Seq(FileRecord) /\ Append(files, r) # <<>>
    BY AppendProperties DEF UnitsInv
<1>2. File(Len(fns), TRUE) \in FileRecord
    BY DEF UnitsInv, File, FileRecord
<1>3. QED
    BY <1>1, <1>2

LEMMA UnitsStep ==
    ASSUME UnitsInv, [EmittersNext]_emitterVars
    PROVE  UnitsInv'
<1>1. CASE \E f \in Functions : Begin(f)
    BY <1>1, BeginKeeps DEF Begin, UnitsInv
<1>2. CASE EmitStep \/ QuietStep
    BY <1>2, AdvanceKeeps DEF EmitStep, QuietStep, UnitsInv
<1>3. CASE IncludeStep
    <2>1. fns' \in Seq(FnRecord)
        BY <1>3, AdvanceKeeps DEF IncludeStep
    <2>2. files' \in Seq(FileRecord) /\ files' # <<>>
        BY <1>3, OpenKeeps DEF IncludeStep
    <2>3. QED
        BY <2>1, <2>2 DEF UnitsInv
<1>4. CASE FileStep
    <2>1. CASE IncludeSkipping
        <3>1. files' = Append(files, File(Len(fns), TRUE)) /\ fns' = fns
            BY <2>1 DEF IncludeSkipping, Open
        <3>2. files' \in Seq(FileRecord) /\ files' # <<>>
            BY <3>1, OpenKeeps
        <3>3. QED
            BY <3>1, <3>2 DEF UnitsInv
    <2>2. CASE EndSkip
        <3>1. Len(files) \in 1..Len(files) /\ files[Len(files)] \in FileRecord
            BY DEF UnitsInv
        <3>2. [files[Len(files)] EXCEPT !.skipping = FALSE] \in FileRecord
            BY <3>1 DEF FileRecord
        <3>3. files' \in Seq(FileRecord) /\ Len(files') = Len(files)
            BY <2>2, <3>1, <3>2, ExceptSeq DEF UnitsInv, EndSkip
        <3>4. QED
            BY <2>2, <3>1, <3>3 DEF UnitsInv, EndSkip
    <2>3. CASE EndFile
        <3>1. files' \in Seq(FileRecord) /\ Len(files') = Len(files) - 1
            BY <2>3, FrontStack DEF UnitsInv, EndFile
        <3>2. QED
            BY <2>3, <3>1 DEF UnitsInv, EndFile
    <2>4. QED
        BY <1>4, <2>1, <2>2, <2>3 DEF FileStep
<1>5. CASE \E size \in 0..MaxPrologue : End(size)
    BY <1>5, EndKeeps DEF End, UnitsInv
<1>6. CASE IdleStep
    BY <1>6 DEF IdleStep, UnitsInv
<1>7. QED
    BY StepKinds, <1>1, <1>2, <1>3, <1>4, <1>5, <1>6

-----------------------------------------------------------------------------
(* The assembly backends.  Each function in progress has a context with the    *)
(* instructions it has emitted, and the contexts to return to are those below  *)
(* it, in order.                                                               *)

CodeOf(f) == TextImage!Body(f.fn, f.emitted)

TextInv ==
    /\ bufs = [i \in 1..Len(fns) |-> [prologue |-> <<>>, body |-> CodeOf(fns[i])]]
    /\ contexts = [i \in 1..Len(fns) |-> i - 1]
    /\ context = Len(fns)

\* A step of the current function that emits k instructions is k steps of Output.
LEMMA TextAdvance ==
    ASSUME UnitsInv, TextInv, NEW k \in {0, 1}, Advance(k),
           IF k = 1 THEN TextEmit ELSE UNCHANGED textVars
    PROVE  /\ TextInv'
           /\ IF k = 1 THEN TextImage!Emit ELSE UNCHANGED TextImage!vars
<1> DEFINE n == Len(fns)
<1>1. /\ n \in Nat \ {0} /\ Len(fns') = n /\ fns' \in Seq(FnRecord)
      /\ Current' = fns'[n]
      /\ Current'.fn = Current.fn /\ Current'.emitted = Current.emitted + k
      /\ \A i \in 1..(n - 1) : fns'[i] = fns[i]
    BY AdvanceKeeps
<1>2. Current = fns[n] /\ Current \in FnRecord /\ Current.emitted \in Nat
    BY CurrentRecord DEF Advance, Current, Top, FnRecord
<1>4. bufs' = [i \in 1..n |-> [prologue |-> <<>>, body |-> CodeOf(fns'[i])]]
    <2>1. CASE k = 1
        <3>1. bufs' = [bufs EXCEPT ![n].body = Append(@, NextInstr)]
            BY <2>1 DEF TextEmit, TextInv
        <3>2. Append(CodeOf(Current), NextInstr) = CodeOf(Current')
            BY <1>1, <1>2, <2>1, LongerBody DEF CodeOf, NextInstr
        <3>3. bufs[n] = [prologue |-> <<>>, body |-> CodeOf(Current)]
            BY <1>1, <1>2 DEF TextInv
        <3> DEFINE top == [prologue |-> <<>>, body |-> CodeOf(Current')]
        <3>4. bufs' = [bufs EXCEPT ![n] =
                          [bufs[n] EXCEPT !.body = Append(bufs[n].body, NextInstr)]]
            BY <3>1
        <3>5. [bufs[n] EXCEPT !.body = Append(bufs[n].body, NextInstr)] = top
            BY <3>2, <3>3
        <3>6. bufs' = [bufs EXCEPT ![n] = top]
            BY <3>4, <3>5
        <3>7. bufs' = [i \in 1..n |-> IF i = n THEN top ELSE bufs[i]]
            BY <3>6 DEF TextInv
        <3>8. \A i \in 1..n : [prologue |-> <<>>, body |-> CodeOf(fns'[i])]
                                 = IF i = n THEN top ELSE bufs[i]
            <4>1. CodeOf(fns'[n]) = CodeOf(Current')
                BY <1>1
            <4>2. \A i \in 1..(n - 1) : CodeOf(fns'[i]) = CodeOf(fns[i])
                BY <1>1
            <4>3. \A i \in 1..n : bufs[i] = [prologue |-> <<>>, body |-> CodeOf(fns[i])]
                BY DEF TextInv
            <4>4. \A i \in 1..n : i = n \/ i \in 1..(n - 1)
                BY <1>1
            <4>5. QED
                BY <4>1, <4>2, <4>3, <4>4, Zenon
        <3>9. QED
            BY <3>7, <3>8
    <2>2. CASE k = 0
        <3>1. bufs' = bufs /\ CodeOf(Current') = CodeOf(Current)
            BY <1>1, <1>2, <2>2 DEF textVars, CodeOf
        <3>2. \A i \in 1..n : CodeOf(fns'[i]) = CodeOf(fns[i])
            BY <1>1, <1>2, <3>1
        <3>3. QED
            BY <3>1, <3>2 DEF TextInv
    <2>3. QED
        BY <2>1, <2>2
<1>5. contexts' = contexts /\ context' = context /\ text' = text
    BY DEF TextEmit, textVars
<1>6. TextInv'
    BY <1>1, <1>4, <1>5 DEF TextInv
<1>7. QED
    BY <1>5, <1>6, OpenAdvance DEF TextImage!Emit, TextImage!vars

LEMMA TextBegins ==
    ASSUME UnitsInv, TextInv, NEW f \in Functions, BeginFunction(f), TextBegin
    PROVE  TextInv' /\ TextImage!Begin(f)
<1> DEFINE n == Len(fns)
<1>1. /\ n \in Nat /\ Len(fns') = n + 1
      /\ \A i \in 1..n : fns'[i] = fns[i]
      /\ fns'[n + 1] = Function(f)
    BY BeginKeeps DEF UnitsInv
<1>2. CodeOf(Function(f)) = <<>>
    BY LongerBody DEF CodeOf, Function
<1>3. bufs' = [i \in 1..(n + 1) |-> [prologue |-> <<>>, body |-> CodeOf(fns'[i])]]
    <2>1. Len(bufs) = n
        BY <1>1 DEF TextInv
    <2>2. bufs' = [i \in 1..(n + 1) |-> IF i = n + 1 THEN EmptyBufs ELSE bufs[i]]
        BY <1>1, <2>1 DEF TextBegin, TextInv
    <2>3. EmptyBufs = [prologue |-> <<>>, body |-> CodeOf(fns'[n + 1])]
        BY <1>1, <1>2 DEF EmptyBufs
    <2>4. \A i \in 1..(n + 1) : [prologue |-> <<>>, body |-> CodeOf(fns'[i])]
                                   = IF i = n + 1 THEN EmptyBufs ELSE bufs[i]
        BY <1>1, <2>3 DEF TextInv
    <2>5. QED
        BY <2>2, <2>4
<1>4. contexts' = [i \in 1..(n + 1) |-> i - 1]
    <2>1. contexts \in Seq(Int) /\ Len(contexts) = n
        BY <1>1 DEF TextInv
    <2>2. contexts' = Append(contexts, n)
        BY DEF TextBegin, TextInv
    <2>3. contexts' \in Seq(Int) /\ Len(contexts') = n + 1
          /\ \A i \in 1..(n + 1) : contexts'[i] = i - 1
        BY <1>1, <2>1, <2>2 DEF TextInv
    <2>4. QED
        BY <2>3
<1>5. context' = n + 1
    BY <1>1 DEF TextBegin, TextInv
<1>6. TextInv'
    BY <1>1, <1>3, <1>4, <1>5 DEF TextInv
<1>7. QED
    BY <1>6, OpenBegins DEF TextBegin, TextImage!Begin

LEMMA TextEnds ==
    ASSUME UnitsInv, TextInv, EndFunction, NEW size \in 0..MaxPrologue, TextEnd(size)
    PROVE  TextInv' /\ TextImage!End(size)
<1> DEFINE n == Len(fns)
           prologue == [i \in 1..size |-> Instr(Current.fn, 0)]
           new == [prologue |-> prologue, body |-> Append(CodeOf(Current), NextInstr)]
           full == [bufs EXCEPT
                      ![context] = [prologue |-> [i \in 1..size |-> Instr(Current.fn, 0)],
                                    body |-> Append(@.body, NextInstr)]]
<1>0. text' = text \o Top(full).prologue \o Top(full).body /\ bufs' = Front(full)
    BY DEF TextEnd
<1>1. /\ n \in Nat \ {0} /\ Current \in FnRecord /\ Current = fns[n]
      /\ fns' \in Seq(FnRecord) /\ Len(fns') = n - 1
      /\ \A i \in 1..(n - 1) : fns'[i] = fns[i]
    BY EndKeeps DEF Current, Top
<1>2. Append(CodeOf(Current), NextInstr) = TextImage!Body(Current.fn, Current.emitted + 1)
    BY <1>1, LongerBody DEF CodeOf, NextInstr, FnRecord
<1>3. full = [i \in 1..n |-> IF i = n THEN new ELSE bufs[i]]
    <2>1. bufs[n].body = CodeOf(Current)
        BY <1>1 DEF TextInv
    <2>2. full = [bufs EXCEPT ![n] = [prologue |-> prologue,
                                      body |-> Append(bufs[n].body, NextInstr)]]
        BY DEF TextInv
    <2>3. QED
        BY <2>1, <2>2 DEF TextInv
<1> HIDE DEF full, new
<1>4. Len(full) = n
    BY <1>1, <1>3
<1>5. Top(full).prologue = prologue
      /\ Top(full).body = TextImage!Body(Current.fn, Current.emitted + 1)
    <2>1. full[n] = new
        BY <1>1, <1>3
    <2>2. Top(full) = new
        BY <1>4, <2>1 DEF Top
    <2>3. QED
        BY <1>2, <2>2 DEF new
<1>6. text' = text \o prologue \o TextImage!Body(Current.fn, Current.emitted + 1)
    BY <1>0, <1>5
<1>7. bufs' = [i \in 1..(n - 1) |-> [prologue |-> <<>>, body |-> CodeOf(fns'[i])]]
    <2>1. bufs' = SubSeq(full, 1, n - 1)
        BY <1>0, <1>4 DEF Front
    <2>2. bufs' = [i \in 1..(n - 1) |-> full[i]]
        BY <1>1, <1>3, <1>4, <2>1
    <2>3. \A i \in 1..(n - 1) : full[i] = [prologue |-> <<>>, body |-> CodeOf(fns'[i])]
        BY <1>1, <1>3 DEF TextInv
    <2>4. QED
        BY <2>2, <2>3
<1>8. contexts' = [i \in 1..(n - 1) |-> i - 1] /\ context' = n - 1
    <2>1. contexts # <<>> /\ Len(contexts) = n
        BY <1>1 DEF TextInv
    <2>2. contexts' = SubSeq(contexts, 1, n - 1) /\ context' = contexts[n]
        BY <2>1 DEF TextEnd, Front, Top
    <2>3. QED
        BY <1>1, <2>1, <2>2 DEF TextInv
<1>9. TextInv'
    BY <1>1, <1>7, <1>8 DEF TextInv
<1>11. prologue = TextImage!Prologue(Current.fn, size)
    BY DEF TextImage!Prologue, TextImage!Instr, Instr
<1>12. TextImage!End(size)
    <2>1. text' = text \o TextImage!Prologue(Current.fn, size)
                     \o TextImage!Body(Current.fn, Current.emitted + 1)
        BY <1>6, <1>11
    <2>2. /\ OpenFunctions # <<>>
          /\ OpenFunctions[Len(OpenFunctions)] = [fn |-> Current.fn, emitted |-> Current.emitted]
          /\ OpenFunctions' = SubSeq(OpenFunctions, 1, Len(OpenFunctions) - 1)
        BY OpenEnds
    <2>3. QED
        BY <2>1, <2>2 DEF TextImage!End
<1>13. QED
    BY <1>9, <1>12

\* Steps that leave the functions in progress alone.
LEMMA TextIdles ==
    ASSUME TextInv, fns' = fns, UNCHANGED textVars
    PROVE  TextInv' /\ UNCHANGED TextImage!vars
    BY DEF TextInv, textVars, OpenFunctions, CodeOf, TextImage!vars

LEMMA TextStep ==
    ASSUME UnitsInv, TextInv, [EmittersNext]_emitterVars
    PROVE  TextInv' /\ [TextImage!Next]_(TextImage!vars)
<1>1. CASE \E f \in Functions : Begin(f)
    BY <1>1, TextBegins DEF Begin, TextImage!Next
<1>2. CASE EmitStep
    BY <1>2, TextAdvance DEF EmitStep, TextImage!Next
<1>3. CASE QuietStep \/ IncludeStep
    <2>1. Advance(0) /\ UNCHANGED textVars
        BY <1>3 DEF QuietStep, IncludeStep
    <2>2. QED
        BY <2>1, TextAdvance
<1>4. CASE FileStep \/ IdleStep
    <2>1. fns' = fns /\ UNCHANGED textVars
        BY <1>4 DEF FileStep, IdleStep, IncludeSkipping, EndSkip, EndFile
    <2>2. QED
        BY <2>1, TextIdles
<1>5. CASE \E size \in 0..MaxPrologue : End(size)
    BY <1>5, TextEnds DEF End, TextImage!Next
<1>6. QED
    BY StepKinds, <1>1, <1>2, <1>3, <1>4, <1>5

\* The text holds each function in one piece, prologue first, in the order in
\* which the functions end, however they nest and wherever `#compile_all` stands:
\* the contexts of emit_helper.h implement Output.
THEOREM TextSound == EmittersSpec => TextInOnePiece
<1>1. EmittersInit => UnitsInv /\ TextInv /\ TextImage!Init
    <2> SUFFICES ASSUME EmittersInit PROVE UnitsInv /\ TextInv /\ TextImage!Init
        OBVIOUS
    <2>1. fns = <<>> /\ files = <<File(0, FALSE)>> /\ text = <<>>
        BY DEF EmittersInit, Init, TextInit
    <2>2. UnitsInv
        BY InitialUnits DEF EmittersInit
    <2>3. TextInv
        BY <2>1 DEF EmittersInit, TextInit, TextInv
    <2>4. TextImage!Init
        BY <2>1 DEF TextImage!Init, OpenFunctions
    <2>5. QED
        BY <2>2, <2>3, <2>4
<1>2. UnitsInv /\ TextInv /\ [EmittersNext]_emitterVars
         => UnitsInv' /\ TextInv' /\ [TextImage!Next]_(TextImage!vars)
    BY UnitsStep, TextStep
<1>3. QED
    BY <1>1, <1>2, PTL DEF EmittersSpec, TextInOnePiece, TextImage!Spec

-----------------------------------------------------------------------------
(* The binary backends.  Their one body holds the code of the function in      *)
(* progress only as long as the functions around it have emitted nothing,      *)
(* which is so when `#compile_all` comes first.                                *)

\* A file stands within as many functions as the file it was opened from, or one
\* more; and within a file at most one function is in progress.
NestInv ==
    /\ Len(fns) \in {Top(files).inside, Top(files).inside + 1}
    /\ \A k \in 1..(Len(files) - 1) :
          files[k + 1].inside \in {files[k].inside, files[k].inside + 1}

\* The functions that the innermost file was opened within have emitted nothing.
SilentInv ==
    \A i \in 1..Len(fns) :
        i <= Top(files).inside \/ ~fns[i].started => fns[i].emitted = 0

CodeInv ==
    /\ code \in Seq([fn : Functions, n : Nat])
    /\ body = IF fns = <<>> THEN <<>> ELSE CodeOf(Current)

\* Opening a file within the functions in progress, and the type of its record.
LEMMA TopFile ==
    ASSUME UnitsInv
    PROVE  /\ Len(files) \in Nat \ {0}
           /\ Top(files) = files[Len(files)]
           /\ \A k \in 1..Len(files) : files[k].inside \in Nat
<1>1. Len(files) \in Nat \ {0}
    BY DEF UnitsInv
<1>2. \A k \in 1..Len(files) : files[k] \in FileRecord
    BY DEF UnitsInv
<1>3. QED
    BY <1>1, <1>2 DEF FileRecord, Top

LEMMA OpenedFile ==
    ASSUME UnitsInv, NestInv, files' = Append(files, File(Len(fns), TRUE)),
           Len(fns') = Len(fns)
    PROVE  NestInv' /\ Top(files)'.inside = Len(fns)
<1> DEFINE m == Len(files)
           new == File(Len(fns), TRUE)
<1>1. new \in FileRecord /\ new.inside = Len(fns)
    BY DEF UnitsInv, File, FileRecord
<1> HIDE DEF new
<1>2. files' = Append(files, new)
    BY DEF new
<1>3. /\ m \in Nat \ {0} /\ Len(files') = m + 1
      /\ \A k \in 1..m : files'[k] = files[k]
      /\ files'[m + 1] = new
    <2>1. files \in Seq(FileRecord) /\ m \in Nat \ {0}
        BY TopFile DEF UnitsInv
    <2>2. /\ Len(Append(files, new)) = m + 1
          /\ \A k \in 1..m : Append(files, new)[k] = files[k]
          /\ Append(files, new)[m + 1] = new
        BY <1>1, <2>1, AppendProperties
    <2>3. QED
        BY <1>2, <2>1, <2>2
<1>4. Top(files)'.inside = Len(fns)
    BY <1>1, <1>3 DEF Top
<1>5. ASSUME NEW k \in 1..m
      PROVE  files'[k + 1].inside \in {files'[k].inside, files'[k].inside + 1}
    <2>1. CASE k = m
        <3>1. files'[k] = Top(files) /\ files'[k + 1].inside = Len(fns)
            BY <1>1, <1>3, <2>1, TopFile
        <3>2. QED
            BY <3>1 DEF NestInv
    <2>2. CASE k < m
        <3>1. k \in 1..(m - 1) /\ k + 1 \in 1..m
            BY <1>3, <2>2
        <3>2. files'[k] = files[k] /\ files'[k + 1] = files[k + 1]
            BY <1>3, <3>1
        <3>3. files[k + 1].inside \in {files[k].inside, files[k].inside + 1}
            BY <3>1 DEF NestInv
        <3>4. QED
            BY <3>2, <3>3
    <2>3. k = m \/ k < m
        BY <1>3
    <2>4. QED
        BY <2>1, <2>2, <2>3, Zenon
<1>6. \A k \in 1..(Len(files') - 1) :
         files'[k + 1].inside \in {files'[k].inside, files'[k].inside + 1}
    <2>1. Len(files') - 1 = m
        BY <1>3
    <2>2. QED
        BY <1>5, <2>1, Zenon
<1>7. QED
    BY <1>4, <1>6 DEF NestInv

\* A function in progress is the one that the innermost file began.
LEMMA InnermostFunction ==
    ASSUME UnitsInv, NestInv, InFunction
    PROVE  Len(fns) = Top(files).inside + 1
    BY TopFile DEF NestInv, InFunction, UnitsInv

\* A line of the function in progress.
LEMMA CodeAdvance ==
    ASSUME UnitsInv, NestInv, SilentInv, CodeInv, NEW k \in {0, 1}, Advance(k), files' = files,
           IF k = 1 THEN BinAppend ELSE UNCHANGED <<body, code>>
    PROVE  /\ NestInv' /\ SilentInv' /\ CodeInv'
           /\ IF k = 1 THEN BinImage!Emit ELSE UNCHANGED BinImage!vars
<1> DEFINE n == Len(fns)
<1>1. /\ n \in Nat \ {0} /\ Len(fns') = n /\ fns' \in Seq(FnRecord)
      /\ Current' = fns'[n]
      /\ Current'.fn = Current.fn /\ Current'.emitted = Current.emitted + k
      /\ Current'.started \/ (k = 0 /\ Current'.started = Current.started)
      /\ \A i \in 1..(n - 1) : fns'[i] = fns[i]
    BY AdvanceKeeps
<1>2. Current = fns[n] /\ Current \in FnRecord /\ Current.emitted \in Nat
    BY CurrentRecord DEF Advance, Current, Top, FnRecord
<1>3. n = Top(files).inside + 1 /\ Top(files').inside \in Nat /\ Top(files)' = Top(files)
    BY InnermostFunction, TopFile DEF Advance, Top
<1>4. NestInv'
    BY <1>1, <1>3 DEF NestInv
<1>5. SilentInv'
    <2> SUFFICES ASSUME NEW i \in 1..n,
                        i <= Top(files).inside \/ ~fns'[i].started
                 PROVE  fns'[i].emitted = 0
        BY <1>1, <1>3 DEF SilentInv
    <2>1. CASE i = n
        <3>1. k = 0 /\ ~Current.started /\ ~fns'[n].started
            BY <1>1, <1>3, <2>1
        <3>2. Current.emitted = 0
            BY <1>1, <1>2, <3>1 DEF SilentInv
        <3>3. QED
            BY <1>1, <2>1, <3>1, <3>2
    <2>2. CASE i # n
        <3>1. i \in 1..(n - 1)
            BY <1>1, <2>2
        <3>2. fns'[i] = fns[i]
            BY <1>1, <3>1
        <3>3. QED
            BY <3>2 DEF SilentInv
    <2>3. QED
        BY <2>1, <2>2
<1>6. fns # <<>> /\ fns' # <<>> /\ body = CodeOf(Current)
    BY <1>1 DEF CodeInv
<1>7. body' = CodeOf(Current') /\ code' = code
    <2>1. CASE k = 1
        <3>1. Append(CodeOf(Current), NextCode) = CodeOf(Current')
            BY <1>1, <1>2, <2>1, LongerBody DEF CodeOf, NextCode, Code, Instr
        <3>2. QED
            BY <1>6, <2>1, <3>1 DEF BinAppend
    <2>2. CASE k = 0
        BY <1>1, <1>2, <1>6, <2>2 DEF CodeOf
    <2>3. QED
        BY <2>1, <2>2
<1>8. CodeInv'
    BY <1>6, <1>7 DEF CodeInv
<1>9. QED
    BY <1>4, <1>5, <1>7, <1>8, OpenAdvance DEF BinImage!Emit, BinImage!vars

\* The beginning of a function, within others that have emitted nothing.
LEMMA CodeBegins ==
    ASSUME UnitsInv, NestInv, SilentInv, CodeInv, NEW f \in Functions,
           BeginFunction(f), BinBegin
    PROVE  /\ NestInv' /\ SilentInv' /\ CodeInv'
           /\ BinImage!Begin(f)
<1> DEFINE n == Len(fns)
<1>1. /\ n \in Nat /\ Len(fns') = n + 1 /\ files' = files
      /\ \A i \in 1..n : fns'[i] = fns[i]
      /\ fns'[n + 1] = Function(f) /\ Current' = Function(f)
    BY BeginKeeps DEF UnitsInv
<1>2. n = Top(files).inside /\ Top(files)' = Top(files)
    BY <1>1 DEF BeginFunction, Compiling, InFile, Top
<1>3. NestInv'
    BY <1>1, <1>2 DEF NestInv
<1>4. SilentInv'
    <2> SUFFICES ASSUME NEW i \in 1..(n + 1) PROVE fns'[i].emitted = 0
        BY <1>1 DEF SilentInv
    <2>1. CASE i = n + 1
        BY <1>1, <2>1 DEF Function
    <2>2. CASE i # n + 1
        <3>1. i \in 1..n /\ fns'[i] = fns[i]
            BY <1>1, <2>2
        <3>2. QED
            BY <1>1, <1>2, <3>1 DEF SilentInv
    <2>3. QED
        BY <2>1, <2>2
<1>5. CodeOf(Function(f)) = <<>>
    BY LongerBody DEF CodeOf, Function
<1>6. CodeInv' /\ code' = code
    BY <1>1, <1>5 DEF CodeInv, BinBegin
<1>7. QED
    BY <1>3, <1>4, <1>6, OpenBegins DEF BinImage!Begin

\* The end of a function, which leaves an empty body to the one around it.
LEMMA CodeEnds ==
    ASSUME UnitsInv, NestInv, SilentInv, CodeInv, NEW size \in 0..MaxPrologue,
           EndFunction, BinEnd(size)
    PROVE  /\ NestInv' /\ SilentInv' /\ CodeInv'
           /\ BinImage!End(size)
<1> DEFINE n == Len(fns)
           prologue == [i \in 1..size |-> Code(Current.fn, 0)]
           rest == BinImage!Body(Current.fn, Current.emitted + 1)
<1>1. /\ n \in Nat \ {0} /\ Current \in FnRecord /\ Current = fns[n]
      /\ fns' \in Seq(FnRecord) /\ Len(fns') = n - 1 /\ files' = files
      /\ \A i \in 1..(n - 1) : fns'[i] = fns[i]
    BY EndKeeps DEF Current, Top
<1>2. /\ n = Top(files).inside + 1 /\ Top(files)' = Top(files)
      /\ Top(files).inside = n - 1
    BY <1>1, InnermostFunction, TopFile DEF EndFunction, Top
<1>3. NestInv'
    <2>1. Len(fns') \in {Top(files)'.inside, Top(files)'.inside + 1}
        BY <1>1, <1>2
    <2>2. QED
        BY <1>1, <2>1 DEF NestInv
<1>4. ASSUME NEW i \in 1..(n - 1) PROVE fns'[i].emitted = 0
    <2>1. i \in 1..n /\ i <= Top(files).inside /\ fns'[i] = fns[i]
        BY <1>1, <1>2
    <2>2. QED
        BY <2>1 DEF SilentInv
<1>5. SilentInv'
    BY <1>1, <1>4 DEF SilentInv
<1>6. Append(body, NextCode) = rest /\ rest \in Seq([fn : Functions, n : Nat])
    <2>1. body = CodeOf(Current) /\ Current.emitted \in Nat /\ Current.fn \in Functions
        BY <1>1 DEF CodeInv, FnRecord
    <2>2. Append(body, NextCode) = TextImage!Body(Current.fn, Current.emitted + 1)
        BY <2>1, LongerBody DEF CodeOf, NextCode, Code, Instr
    <2>3. rest = TextImage!Body(Current.fn, Current.emitted + 1)
        BY DEF BinImage!Body, BinImage!Instr, TextImage!Body, TextImage!Instr
    <2>4. rest \in Seq([fn : Functions, n : Nat])
        <3>1. Current.emitted + 1 \in Nat
            BY <2>1
        <3>2. ASSUME NEW f \in Functions, NEW count \in Nat
              PROVE  BinImage!Body(f, count) \in Seq([fn : Functions, n : Nat])
            BY DEF BinImage!Body, BinImage!Instr
        <3>3. QED
            BY <2>1, <3>1, <3>2
    <2>5. QED
        BY <2>2, <2>3, <2>4
<1>7. prologue \in Seq([fn : Functions, n : Nat])
      /\ prologue = BinImage!Prologue(Current.fn, size)
    BY <1>1, BoundsAssumption DEF FnRecord, Code, BinImage!Prologue, BinImage!Instr
<1>8. code' = code \o (prologue \o rest) /\ body' = <<>>
    BY <1>6 DEF BinEnd, FunctionCode
<1> HIDE DEF prologue, rest
<1>9. code' = (code \o prologue) \o rest
    <2> DEFINE Instrs == [fn : Functions, n : Nat]
    <2>1. code \in Seq(Instrs) /\ prologue \in Seq(Instrs) /\ rest \in Seq(Instrs)
        BY <1>6, <1>7 DEF CodeInv
    <2> HIDE DEF Instrs
    <2>2. (code \o prologue) \o rest = code \o (prologue \o rest)
        BY <2>1, ConcatAssociative
    <2>3. QED
        BY <1>8, <2>2
<1>10. CodeInv'
    <2>1. code' \in Seq([fn : Functions, n : Nat])
        BY <1>6, <1>7, <1>8 DEF CodeInv
    <2>2. fns' # <<>> => CodeOf(Current') = <<>>
        <3> SUFFICES ASSUME fns' # <<>> PROVE CodeOf(Current') = <<>>
            OBVIOUS
        <3>1. n - 1 \in 1..(n - 1) /\ Current' = fns'[n - 1]
            BY <1>1 DEF Current, Top
        <3>2. Current'.emitted = 0
            BY <1>4, <3>1
        <3>3. QED
            BY <3>2, LongerBody DEF CodeOf
    <2>3. QED
        BY <1>8, <2>1, <2>2 DEF CodeInv
<1>11. BinImage!End(size)
    <2>1. code' = code \o BinImage!Prologue(Current.fn, size)
                     \o BinImage!Body(Current.fn, Current.emitted + 1)
        BY <1>7, <1>9 DEF rest
    <2>2. /\ OpenFunctions # <<>>
          /\ OpenFunctions[Len(OpenFunctions)] = [fn |-> Current.fn, emitted |-> Current.emitted]
          /\ OpenFunctions' = SubSeq(OpenFunctions, 1, Len(OpenFunctions) - 1)
        BY OpenEnds
    <2>3. QED
        BY <2>1, <2>2 DEF BinImage!End
<1>12. QED
    BY <1>3, <1>5, <1>10, <1>11

\* Steps that leave the functions in progress alone.
LEMMA CodeIdles ==
    ASSUME CodeInv, fns' = fns, UNCHANGED <<body, code>>
    PROVE  CodeInv' /\ UNCHANGED BinImage!vars
    BY DEF CodeInv, OpenFunctions, CodeOf, Current, BinImage!vars

\* A file that is opened, skipped or finished leaves the functions alone.
LEMMA FileKeeps ==
    ASSUME UnitsInv, NestInv, SilentInv, FileStep
    PROVE  NestInv' /\ SilentInv' /\ fns' = fns
<1>1. fns' = fns /\ Len(fns) \in Nat
    BY DEF FileStep, IncludeSkipping, EndSkip, EndFile, UnitsInv
<1>2. CASE IncludeSkipping
    <2>1. files' = Append(files, File(Len(fns), TRUE)) /\ Len(fns) = Top(files).inside
        BY <1>2 DEF IncludeSkipping, Open, Skipping, InFile
    <2>2. NestInv' /\ Top(files)'.inside = Top(files).inside
        BY <1>1, <2>1, OpenedFile
    <2>3. QED
        BY <1>1, <2>2 DEF SilentInv
<1>3. CASE EndSkip
    <2> DEFINE m == Len(files)
    <2>1. m \in Nat \ {0} /\ files' = [files EXCEPT ![m].skipping = FALSE]
        BY <1>3, TopFile DEF EndSkip
    <2>2. Len(files') = m /\ \A k \in 1..m : files'[k].inside = files[k].inside
        <3>1. files[m] \in FileRecord
            BY <2>1 DEF UnitsInv
        <3>2. [files[m] EXCEPT !.skipping = FALSE].inside = files[m].inside
            BY <3>1 DEF FileRecord
        <3>3. files' = [files EXCEPT ![m] = [files[m] EXCEPT !.skipping = FALSE]]
            BY <2>1
        <3>4. QED
            BY <2>1, <3>2, <3>3 DEF UnitsInv
    <2>3. Top(files)'.inside = Top(files).inside
        BY <2>1, <2>2 DEF Top
    <2>4. NestInv'
        BY <1>1, <2>1, <2>2, <2>3 DEF NestInv
    <2>5. QED
        BY <1>1, <2>3, <2>4 DEF SilentInv
<1>4. CASE EndFile
    <2> DEFINE m == Len(files)
    <2>1. m \in Nat /\ m > 1 /\ Len(fns) = Top(files).inside
        BY <1>4, TopFile DEF EndFile, Compiling, InFile
    <2>2. Len(files') = m - 1 /\ \A k \in 1..(m - 1) : files'[k] = files[k]
        BY <1>4, FrontStack DEF EndFile, UnitsInv
    <2>3. Top(files)' = files[m - 1] /\ Top(files) = files[m]
        BY <2>1, <2>2 DEF Top
    <2>4. /\ files[m].inside \in {files[m - 1].inside, files[m - 1].inside + 1}
          /\ files[m].inside \in Nat /\ files[m - 1].inside \in Nat
        <3>1. m - 1 \in 1..(m - 1) /\ m \in 1..m /\ m - 1 \in 1..m /\ m - 1 + 1 = m
            BY <2>1
        <3>2. files[m - 1 + 1].inside \in {files[m - 1].inside, files[m - 1].inside + 1}
            BY <3>1 DEF NestInv
        <3>3. QED
            BY <3>1, <3>2, TopFile
    <2>5. NestInv'
        <3>1. Len(fns') \in {Top(files)'.inside, Top(files)'.inside + 1}
            BY <1>1, <2>1, <2>3, <2>4
        <3>2. ASSUME NEW k \in 1..(m - 2)
              PROVE  files'[k + 1].inside \in {files'[k].inside, files'[k].inside + 1}
            <4>1. k \in 1..(m - 1) /\ k + 1 \in 1..(m - 1)
                BY <2>1
            <4>2. files[k + 1].inside \in {files[k].inside, files[k].inside + 1}
                BY <4>1 DEF NestInv
            <4>3. QED
                BY <2>2, <4>1, <4>2
        <3>3. Len(files') - 1 = m - 2
            BY <2>1, <2>2
        <3>4. QED
            BY <3>1, <3>2, <3>3 DEF NestInv
    <2>6. ASSUME NEW i \in 1..Len(fns), i <= Top(files)'.inside
          PROVE  i <= Top(files).inside
        <3>1. files[m - 1].inside <= files[m].inside /\ i <= files[m - 1].inside
            <4>1. files[m - 1].inside <= files[m].inside
                BY <2>4
            <4>2. i <= files[m - 1].inside
                BY <2>3, <2>6, Zenon
            <4>3. QED
                BY <4>1, <4>2
        <3>2. i <= files[m].inside
            BY <1>1, <2>4, <3>1
        <3>3. QED
            BY <2>3, <3>2
    <2>7. SilentInv'
        BY <1>1, <2>6 DEF SilentInv
    <2>8. QED
        BY <1>1, <2>5, <2>7
<1>5. QED
    BY <1>2, <1>3, <1>4 DEF FileStep

\* `#compile_all` before the other lines of its function.
LEMMA IncludeKeeps ==
    ASSUME ~Late, UnitsInv, NestInv, SilentInv, CodeInv, IncludeStep
    PROVE  /\ NestInv' /\ SilentInv' /\ CodeInv'
           /\ UNCHANGED BinImage!vars
<1> DEFINE n == Len(fns)
<1>1. /\ n \in Nat \ {0} /\ Len(fns') = n
      /\ Current' = fns'[n]
      /\ Current'.fn = Current.fn /\ Current'.emitted = Current.emitted + 0
      /\ \A i \in 1..(n - 1) : fns'[i] = fns[i]
    BY AdvanceKeeps DEF IncludeStep
<1>2. Current = fns[n] /\ Current \in FnRecord /\ Current.emitted \in Nat /\ ~Current.started
    BY CurrentRecord DEF IncludeStep, Advance, Current, Top, FnRecord
<1>3. n = Top(files).inside + 1 /\ Top(files).inside \in Nat
    BY InnermostFunction, TopFile DEF IncludeStep, Advance
<1>4. NestInv'
    BY <1>1, OpenedFile DEF IncludeStep
<1>5. ASSUME NEW i \in 1..n PROVE fns'[i].emitted = 0
    <2>1. CASE i = n
        <3>1. n \in 1..n /\ ~fns[n].started
            BY <1>1, <1>2
        <3>2. Current.emitted = 0
            BY <1>2, <3>1 DEF SilentInv
        <3>3. QED
            BY <1>1, <2>1, <3>2
    <2>2. CASE i # n
        <3>1. i \in 1..(n - 1) /\ i <= Top(files).inside
            BY <1>1, <1>3, <2>2
        <3>2. fns'[i] = fns[i] /\ fns[i].emitted = 0
            BY <1>1, <3>1 DEF SilentInv
        <3>3. QED
            BY <3>2
    <2>3. QED
        BY <2>1, <2>2
<1>6. SilentInv'
    BY <1>1, <1>5 DEF SilentInv
<1>7. body' = body /\ code' = code /\ CodeOf(Current') = CodeOf(Current)
    BY <1>1, <1>2 DEF IncludeStep, CodeOf
<1>8. CodeInv'
    BY <1>1, <1>7 DEF CodeInv
<1>9. OpenFunctions' = OpenFunctions
    BY OpenAdvance DEF IncludeStep
<1>10. QED
    BY <1>4, <1>6, <1>7, <1>8, <1>9 DEF BinImage!vars

LEMMA CodeStep ==
    ASSUME ~Late, UnitsInv, NestInv, SilentInv, CodeInv, [EmittersNext]_emitterVars
    PROVE  NestInv' /\ SilentInv' /\ CodeInv' /\ [BinImage!Next]_(BinImage!vars)
<1>1. CASE \E f \in Functions : Begin(f)
    BY <1>1, CodeBegins DEF Begin, BinImage!Next
<1>2. CASE EmitStep
    BY <1>2, CodeAdvance DEF EmitStep, BinImage!Next
<1>3. CASE QuietStep
    BY <1>3, CodeAdvance DEF QuietStep
<1>4. CASE IncludeStep
    BY <1>4, IncludeKeeps
<1>5. CASE FileStep
    BY <1>5, FileKeeps, CodeIdles DEF FileStep
<1>6. CASE IdleStep
    <2>1. fns' = fns /\ files' = files /\ UNCHANGED <<body, code>>
        BY <1>6 DEF IdleStep
    <2>2. NestInv' /\ SilentInv'
        BY <2>1 DEF NestInv, SilentInv, Top
    <2>3. QED
        BY <2>1, <2>2, CodeIdles
<1>7. CASE \E size \in 0..MaxPrologue : End(size)
    BY <1>7, CodeEnds DEF End, BinImage!Next
<1>8. QED
    BY StepKinds, <1>1, <1>2, <1>3, <1>4, <1>5, <1>6, <1>7

\* The machine code holds each function in one piece, prologue first, in the order
\* in which the functions end, if every `#compile_all` comes before the other
\* lines of its function: the one body of the binary backends implements Output.
THEOREM CodeSound == ASSUME ~Late PROVE EmittersSpec => CodeInOnePiece
<1>1. EmittersInit => /\ UnitsInv /\ NestInv /\ SilentInv /\ CodeInv
                      /\ BinImage!Init
    <2> SUFFICES ASSUME EmittersInit
                 PROVE  UnitsInv /\ NestInv /\ SilentInv /\ CodeInv /\ BinImage!Init
        OBVIOUS
    <2>1. fns = <<>> /\ files = <<File(0, FALSE)>> /\ code = <<>> /\ body = <<>>
        BY DEF EmittersInit, Init, BinInit
    <2>2. UnitsInv
        BY InitialUnits DEF EmittersInit
    <2>3. NestInv /\ SilentInv /\ CodeInv
        BY <2>1 DEF NestInv, SilentInv, CodeInv, Top, File
    <2>4. BinImage!Init
        BY <2>1 DEF BinImage!Init, OpenFunctions
    <2>5. QED
        BY <2>2, <2>3, <2>4
<1>2. UnitsInv /\ NestInv /\ SilentInv /\ CodeInv /\ [EmittersNext]_emitterVars
         => /\ UnitsInv' /\ NestInv' /\ SilentInv' /\ CodeInv'
            /\ [BinImage!Next]_(BinImage!vars)
    BY UnitsStep, CodeStep
<1>3. QED
    BY <1>1, <1>2, PTL DEF EmittersSpec, CodeInOnePiece, BinImage!Spec

-----------------------------------------------------------------------------
(* The links of the machine code.  Labels and fixups that no function's end    *)
(* has moved belong to the function in progress; the ones that are moved stand *)
(* in the code where bin_emit will look for them.                             *)

Keys == Functions \X (LabelNames \cup {"lbb", "ret"}) \X Nat
LabelRecord == [key : Keys, at : Nat, done : BOOLEAN, line : Nat]
FixupRecord ==
    [kind : {"branch", "call"}, key : Keys \cup Declared, at : Nat, done : BOOLEAN,
     fn : Functions, line : Nat]
SymbolRecord == [key : Functions, at : Nat]

TablesInv ==
    /\ labels \in Seq(LabelRecord) /\ fixups \in Seq(FixupRecord)
    /\ fn_syms \in Seq(SymbolRecord) /\ entry_off \in Nat

\* A function with an open block has had a line.
StartedInv == \A i \in 1..Len(fns) : fns[i].blocks # <<>> => fns[i].started

\* What a step does to the tables of bin_emit.
LinkSame == UNCHANGED <<fn_syms, entry_off, targets, begun, state>> /\ state = "running"
NoteFixup ==
    \/ fixups' = fixups
    \/ \E kind \in {"branch", "call"}, key \in Keys \cup Declared :
          /\ kind = "branch" => key \in Keys /\ key[1] = Current.fn
          /\ kind = "call" => key \in Declared
          /\ fixups' = Append(fixups, Fixup(kind, key))
NoteLabel ==
    \E key \in Keys : key[1] = Current.fn /\ labels' = Append(labels, Label(key))

EmitLink == EmitStep /\ NoteFixup /\ UNCHANGED labels /\ LinkSame
LabelLink == QuietStep /\ Current'.started /\ NoteLabel /\ UNCHANGED fixups /\ LinkSame
IncludeLink ==
    /\ IncludeStep /\ Current'.blocks = Current.blocks
    /\ UNCHANGED <<labels, fixups>> /\ LinkSame
FileLink == FileStep /\ UNCHANGED <<labels, fixups>> /\ LinkSame
FailLink == state = "running" /\ state' = "error" /\ UNCHANGED <<files, fns, begun, binVars>>

\* The keys of the labels of the function in progress
LEMMA OwnKey ==
    ASSUME UnitsInv, InFunction, NEW label \in LabelNames \cup {"lbb", "ret"}, NEW x \in Nat
    PROVE  Key(Current.fn, label, x) \in Keys /\ Key(Current.fn, label, x)[1] = Current.fn
<1>1. Current.fn \in Functions
    BY CurrentRecord DEF FnRecord
<1>2. QED
    BY <1>1 DEF Key, Keys

LEMMA LinkKinds ==
    ASSUME UnitsInv, StartedInv, EmittersNext
    PROVE  \/ \E f \in Functions : Begin(f)
           \/ EmitLink \/ LabelLink \/ IncludeLink \/ FileLink
           \/ \E size \in 0..MaxPrologue : End(size)
           \/ Write \/ FailLink \/ UNCHANGED emitterVars
<1> USE DEF LinkSame
<1>1. CASE EmitInstruction
    <2>1. Instruction /\ TextEmit /\ BinAppend /\ fixups' = fixups /\ labels' = labels
        BY <1>1 DEF EmitInstruction, BinEmit, BinAppend
    <2>2. LinkSame
        BY <1>1 DEF EmitInstruction, BinEmit, Instruction, HasRoom, AtLine, InFunction
    <2>3. QED
        BY <2>1, <2>2, EmittingLine DEF EmitLink, NoteFixup
<1>2. ASSUME NEW f \in Declared, EmitCall(f) PROVE EmitLink
    <2>1. /\ Instruction /\ TextEmit /\ BinAppend /\ fixups' = Append(fixups, Fixup("call", f))
          /\ labels' = labels
        BY <1>2 DEF EmitCall, Call, BinCall, BinEmitFixup, BinAppend
    <2>2. LinkSame
        BY <1>2 DEF EmitCall, Call, BinCall, BinEmitFixup, Instruction, HasRoom, AtLine, InFunction
    <2>3. NoteFixup
        BY <2>1 DEF NoteFixup
    <2>4. QED
        BY <2>1, <2>2, <2>3, EmittingLine DEF EmitLink
<1>3. ASSUME NEW label \in LabelNames \cup {"lbb", "ret"}, NEW x \in Nat,
             Instruction \/ Return \/ OpenBlock, TextEmit, BinBranch(label, x)
      PROVE  EmitLink
    <2> DEFINE key == Key(Current.fn, label, x)
    <2>1. /\ BinAppend /\ fixups' = Append(fixups, Fixup("branch", key)) /\ labels' = labels
          /\ UNCHANGED <<fn_syms, entry_off, targets>>
        BY <1>3 DEF BinBranch, BinEmitFixup, BinAppend
    <2>2. LinkSame /\ InFunction
        BY <1>3, <2>1 DEF Instruction, Return, OpenBlock, HasRoom, AtLine, InFunction
    <2>3. NoteFixup
        BY <2>1, <2>2, OwnKey DEF NoteFixup
    <2>4. QED
        BY <1>3, <2>1, <2>2, <2>3, EmittingLine DEF EmitLink
<1>4. CASE EmitReturn \/ EmitOpenBlock \/ \E label \in LabelNames : EmitGoto(label)
    <2>1. ASSUME EmitOpenBlock PROVE Current.unnamed \in Nat
        <3>1. InFunction
            BY <2>1 DEF EmitOpenBlock, OpenBlock, HasRoom, AtLine
        <3>2. QED
            BY <3>1, CurrentRecord DEF FnRecord
    <2>2. QED
        BY <1>3, <1>4, <2>1 DEF EmitReturn, EmitOpenBlock, EmitGoto, Goto
<1>5. ASSUME NEW label \in LabelNames \cup {"lbb", "ret"}, NEW x \in Nat, BinLabel(label, x),
             CloseBlock \/ \E named \in LabelNames : SetLabel(named),
             Current'.started, UNCHANGED textVars
      PROVE  LabelLink
    <2> DEFINE key == Key(Current.fn, label, x)
    <2>1. /\ labels' = Append(labels, Label(key)) /\ fixups' = fixups
          /\ UNCHANGED <<body, code, fn_syms, entry_off, targets>>
        BY <1>5 DEF BinLabel
    <2>2. LinkSame /\ InFunction
        BY <1>5, <2>1 DEF CloseBlock, SetLabel, AtLine, InFunction
    <2>3. NoteLabel
        BY <2>1, <2>2, OwnKey DEF NoteLabel
    <2>4. QuietStep
        BY <1>5, <2>1, LabelLine
    <2>5. QED
        BY <1>5, <2>1, <2>2, <2>3, <2>4 DEF LabelLink
<1>6. ASSUME NEW r, fns' = [fns EXCEPT ![Len(fns)] = r], InFunction
      PROVE  Current' = r
    <2>1. Len(fns) \in Nat \ {0} /\ fns \in Seq(FnRecord)
        BY <1>6, CurrentRecord DEF UnitsInv
    <2>2. QED
        BY <1>6, <2>1 DEF Current, Top
<1>7. ASSUME NEW label \in LabelNames, EmitLabel(label) PROVE LabelLink
    <2>1. SetLabel(label) /\ BinLabel(label, 0) /\ UNCHANGED textVars /\ InFunction
        BY <1>7 DEF EmitLabel, SetLabel, AtLine
    <2>2. Current' = [Current EXCEPT !.started = TRUE]
        BY <1>6, <2>1 DEF SetLabel, Becomes
    <2>3. Current \in FnRecord
        BY <2>1, CurrentRecord
    <2>4. Current'.started
        BY <2>2, <2>3 DEF FnRecord
    <2>5. QED
        BY <1>5, <2>1, <2>4
<1>8. CASE EmitCloseBlock
    <2>1. CloseBlock /\ BinLabel("lbb", Top(Current.blocks)) /\ UNCHANGED textVars /\ InFunction
          /\ Current.blocks # <<>>
        BY <1>8 DEF EmitCloseBlock, CloseBlock
    <2>2. Current \in FnRecord /\ Len(fns) \in Nat \ {0}
        BY <2>1, CurrentRecord
    <2>3. Current.started
        <3>1. Len(fns) \in 1..Len(fns) /\ Current = fns[Len(fns)]
            BY <2>2 DEF Current, Top
        <3>2. QED
            BY <2>1, <3>1 DEF StartedInv
    <2>4. Current'.started
        <3> DEFINE last == Current.closing /\ (Len(Current.blocks) > 1 \/ Current.fn # "main")
                   r == [Current EXCEPT !.blocks = Front(@), !.closing = last]
        <3>1. fns' = [fns EXCEPT ![Len(fns)] = r]
            BY <2>1 DEF CloseBlock, Becomes
        <3> HIDE DEF last
        <3>2. r.started = Current.started
            BY <2>2 DEF FnRecord
        <3>3. QED
            BY <1>6, <2>1, <2>3, <3>1, <3>2
    <2>5. Top(Current.blocks) \in Nat
        <3>1. Current.blocks \in Seq(Nat)
            BY <2>2 DEF FnRecord
        <3>2. QED
            BY <2>1, <3>1 DEF Top
    <2>6. QED
        BY <1>5, <2>1, <2>4, <2>5
<1>9. CASE Files
    <2>1. UNCHANGED <<body, code, textVars, labels, fixups>> /\ LinkSame
        BY <1>9 DEF Files, binVars, Include, IncludeSkipping, EndSkip, EndFile, AtLine,
                    InFunction, Skipping, Compiling, InFile
    <2>2. CASE Include
        <3>1. IncludeStep
            BY <2>1, <2>2, IncludeLine
        <3>2. InFunction /\ Current \in FnRecord /\ Len(fns) \in Nat \ {0}
            BY <2>2, CurrentRecord DEF Include, AtLine
        <3> DEFINE last == Current.blocks # <<>> \/ Current.fn # "main"
        <3>3. fns' = [fns EXCEPT ![Len(fns)] = [Current EXCEPT !.closing = last]]
            BY <2>2, <3>2 DEF Include, Current, Top
        <3> HIDE DEF last
        <3>4. Current' = [Current EXCEPT !.closing = last]
            BY <1>6, <3>2, <3>3
        <3>5. Current'.blocks = Current.blocks
            BY <3>2, <3>4 DEF FnRecord
        <3>6. QED
            BY <2>1, <3>1, <3>5 DEF IncludeLink
    <2>3. CASE ~Include
        BY <1>9, <2>1, <2>3 DEF Files, FileStep, FileLink
    <2>4. QED
        BY <2>2, <2>3
<1>10. CASE Diagnose
    BY <1>10 DEF Diagnose, Fail, FailLink
<1>11. CASE Done
    BY <1>11 DEF Done
<1>12. QED
    BY <1>1, <1>2, <1>4, <1>7, <1>8, <1>9, <1>10, <1>11 DEF EmittersNext

LEMMA StartedStep ==
    ASSUME UnitsInv, StartedInv, [EmittersNext]_emitterVars
    PROVE  StartedInv'
<1>1. ASSUME NEW k \in {0, 1}, Advance(k),
             Current'.started \/ (k = 0 /\ Current'.blocks = Current.blocks)
      PROVE  StartedInv'
    <2>1. /\ Len(fns) \in Nat \ {0} /\ Len(fns') = Len(fns) /\ Current' = fns'[Len(fns)]
          /\ Current'.started \/ (k = 0 /\ Current'.started = Current.started)
          /\ \A i \in 1..(Len(fns) - 1) : fns'[i] = fns[i]
        BY <1>1, AdvanceKeeps
    <2>2. Current = fns[Len(fns)] /\ Len(fns) \in 1..Len(fns)
        BY <2>1 DEF Current, Top
    <2>3. \A i \in 1..Len(fns) : i = Len(fns) \/ i \in 1..(Len(fns) - 1)
        BY <2>1
    <2>4. Current'.blocks # <<>> => Current'.started
        BY <1>1, <2>1, <2>2 DEF StartedInv
    <2>5. QED
        BY <2>1, <2>3, <2>4 DEF StartedInv
<1>2. CASE EmitLink
    <2>1. Advance(1)
        BY <1>2 DEF EmitLink, EmitStep
    <2>2. Current'.started
        BY <2>1, AdvanceKeeps
    <2>3. QED
        BY <1>1, <2>1, <2>2
<1>3. CASE LabelLink
    BY <1>1, <1>3 DEF LabelLink, QuietStep
<1>4. CASE IncludeLink
    BY <1>1, <1>4 DEF IncludeLink, IncludeStep
<1>5. ASSUME NEW f \in Functions, Begin(f) PROVE StartedInv'
    <2>1. /\ Len(fns') = Len(fns) + 1 /\ \A i \in 1..Len(fns) : fns'[i] = fns[i]
          /\ fns'[Len(fns) + 1] = Function(f)
        BY <1>5, BeginKeeps DEF Begin
    <2>2. \A i \in 1..(Len(fns) + 1) : i \in 1..Len(fns) \/ i = Len(fns) + 1
        BY DEF UnitsInv
    <2>3. QED
        BY <2>1, <2>2 DEF StartedInv, Function
<1>6. ASSUME NEW size \in 0..MaxPrologue, End(size) PROVE StartedInv'
    <2>1. /\ Len(fns) \in Nat \ {0} /\ Len(fns') = Len(fns) - 1
          /\ \A i \in 1..(Len(fns) - 1) : fns'[i] = fns[i]
        BY <1>6, EndKeeps DEF End
    <2>2. \A i \in 1..(Len(fns) - 1) : i \in 1..Len(fns)
        BY <2>1
    <2>3. QED
        BY <2>1, <2>2 DEF StartedInv
<1>7. CASE FileLink \/ Write \/ FailLink \/ UNCHANGED emitterVars
    <2>1. fns' = fns
        BY <1>7 DEF FileLink, FileStep, IncludeSkipping, EndSkip, EndFile, Write, EndProgram,
                    FailLink, emitterVars, vars
    <2>2. QED
        BY <2>1 DEF StartedInv
<1>8. QED
    BY LinkKinds, <1>2, <1>3, <1>4, <1>5, <1>6, <1>7

-----------------------------------------------------------------------------
(* The code that End puts out *)

HoldsIn(c, offset, instr) == offset \in 0..(Len(c) - 1) /\ c[offset + 1] = instr
FirstIn(c, f, offset) ==
    /\ offset \in 0..(Len(c) - 1) /\ c[offset + 1].fn = f
    /\ \A earlier \in 1..offset : c[earlier].fn # f
Extends(c, d) == Len(c) <= Len(d) /\ \A k \in 1..Len(c) : d[k] = c[k]

CodeRecord == [fn : Functions, n : Nat]

\* What code holds it still holds when more is put out.
LEMMA HeldOn ==
    ASSUME NEW c \in Seq(CodeRecord), NEW d \in Seq(CodeRecord), Extends(c, d)
    PROVE  /\ \A offset, instr : HoldsIn(c, offset, instr) => HoldsIn(d, offset, instr)
           /\ \A f, offset : FirstIn(c, f, offset) => FirstIn(d, f, offset)
<1>1. Len(c) \in Nat /\ Len(d) \in Nat /\ Len(c) <= Len(d)
    BY DEF Extends
<1>2. ASSUME NEW offset \in 0..(Len(c) - 1)
      PROVE  /\ offset \in 0..(Len(d) - 1) /\ d[offset + 1] = c[offset + 1]
             /\ \A earlier \in 1..offset : d[earlier] = c[earlier]
    <2>1. offset \in 0..(Len(d) - 1) /\ offset + 1 \in 1..Len(c)
          /\ \A earlier \in 1..offset : earlier \in 1..Len(c)
        BY <1>1
    <2>2. QED
        BY <2>1 DEF Extends
<1>3. QED
    BY <1>2 DEF HoldsIn, FirstIn

\* The instructions of the function in progress are in the body.
LEMMA BodyFacts ==
    ASSUME UnitsInv, CodeInv
    PROVE  /\ body \in Seq(CodeRecord) /\ Len(body) \in Nat
           /\ fns = <<>> => body = <<>>
           /\ fns # <<>> => /\ Current \in FnRecord /\ Len(body) = Current.emitted
                            /\ \A k \in 1..Len(body) : body[k] = Code(Current.fn, k)
<1>1. CASE fns = <<>>
    BY <1>1 DEF CodeInv
<1>2. CASE fns # <<>>
    <2>1. Current \in FnRecord
        BY <1>2 DEF UnitsInv, Current, Top
    <2>2. Current.fn \in Functions /\ Current.emitted \in Nat
        BY <2>1 DEF FnRecord
    <2>3. body = [k \in 1..Current.emitted |-> Code(Current.fn, k)]
        BY <1>2 DEF CodeInv, CodeOf, TextImage!Body, TextImage!Instr, Code
    <2>4. \A k \in 1..Current.emitted : Code(Current.fn, k) \in CodeRecord
        BY <2>2 DEF Code, CodeRecord
    <2>5. body \in Seq(CodeRecord) /\ Len(body) = Current.emitted
        BY <2>2, <2>3, <2>4
    <2>6. QED
        BY <1>2, <2>1, <2>2, <2>3, <2>5
<1>3. QED
    BY <1>1, <1>2

\* At the end of a function the prologue, the body and the return follow the code.
LEMMA EndCode ==
    ASSUME UnitsInv, CodeInv, EndFunction, NEW size \in 0..MaxPrologue, BinEnd(size)
    PROVE  /\ code \in Seq(CodeRecord) /\ code' \in Seq(CodeRecord) /\ Extends(code, code')
           /\ Len(code) \in Nat /\ size \in Nat
           /\ Len(code') = Len(code) + size + Len(body) + 1
           /\ \A k \in 1..(size + Len(body) + 1) : code'[Len(code) + k].fn = Current.fn
           /\ \A k \in 1..(Len(body) + 1) :
                 code'[Len(code) + size + k] = Code(Current.fn, k)
<1>1. fns # <<>> /\ Current \in FnRecord
    BY EndKeeps
<1>2. /\ body \in Seq(CodeRecord) /\ Len(body) \in Nat /\ Len(body) = Current.emitted
      /\ \A k \in 1..Len(body) : body[k] = Code(Current.fn, k)
    BY <1>1, BodyFacts
<1>3. size \in Nat /\ Current.fn \in Functions
    BY <1>1, BoundsAssumption DEF FnRecord
<1> DEFINE p == [i \in 1..size |-> Code(Current.fn, 0)]
           b == Append(body, NextCode)
<1>4. p \in Seq(CodeRecord) /\ Len(p) = size /\ \A k \in 1..size : p[k] = Code(Current.fn, 0)
    <2>1. Code(Current.fn, 0) \in CodeRecord
        BY <1>3 DEF Code, CodeRecord
    <2>2. QED
        BY <1>3, <2>1
<1>5. /\ b \in Seq(CodeRecord) /\ Len(b) = Len(body) + 1
      /\ \A k \in 1..(Len(body) + 1) : b[k] = Code(Current.fn, k)
    <2>1. NextCode = Code(Current.fn, Len(body) + 1) /\ NextCode \in CodeRecord
        BY <1>2, <1>3 DEF NextCode, Code, CodeRecord
    <2>2. \A k \in 1..(Len(body) + 1) : k \in 1..Len(body) \/ k = Len(body) + 1
        BY <1>2
    <2>3. QED
        BY <1>2, <2>1, <2>2
<1> HIDE DEF p, b
<1>6. code' = code \o (p \o b)
    BY DEF BinEnd, FunctionCode, p, b
<1>7. code \in Seq(CodeRecord) /\ Len(code) \in Nat
    BY DEF CodeInv, CodeRecord
<1>8. /\ p \o b \in Seq(CodeRecord) /\ Len(p \o b) = size + (Len(body) + 1)
      /\ \A k \in 1..size : (p \o b)[k] = p[k]
      /\ \A k \in 1..(Len(body) + 1) : (p \o b)[size + k] = b[k]
    <2>1. /\ p \o b \in Seq(CodeRecord) /\ Len(p \o b) = Len(p) + Len(b)
          /\ \A i \in 1..(Len(p) + Len(b)) :
                (p \o b)[i] = IF i <= Len(p) THEN p[i] ELSE b[i - Len(p)]
        BY <1>4, <1>5, ConcatProperties
    <2>2. ASSUME NEW k \in 1..size PROVE (p \o b)[k] = p[k]
        <3>1. k \in 1..(Len(p) + Len(b)) /\ k <= Len(p)
            BY <1>2, <1>3, <1>4, <1>5
        <3>2. QED
            BY <2>1, <3>1
    <2>3. ASSUME NEW k \in 1..(Len(body) + 1) PROVE (p \o b)[size + k] = b[k]
        <3>1. /\ size + k \in 1..(Len(p) + Len(b)) /\ ~(size + k <= Len(p))
              /\ size + k - Len(p) = k
            BY <1>2, <1>3, <1>4, <1>5
        <3>2. QED
            BY <2>1, <3>1
    <2>4. QED
        BY <1>4, <1>5, <2>1, <2>2, <2>3
<1>9. /\ code' \in Seq(CodeRecord) /\ Len(code') = Len(code) + (size + (Len(body) + 1))
      /\ \A k \in 1..Len(code) : code'[k] = code[k]
      /\ \A k \in 1..(size + (Len(body) + 1)) : code'[Len(code) + k] = (p \o b)[k]
    BY <1>2, <1>3, <1>6, <1>7, <1>8
<1>10. Extends(code, code') /\ Len(code') = Len(code) + size + Len(body) + 1
    BY <1>2, <1>3, <1>7, <1>9 DEF Extends
<1>11. ASSUME NEW k \in 1..(Len(body) + 1)
       PROVE  code'[Len(code) + size + k] = Code(Current.fn, k)
    <2>1. size + k \in 1..(size + (Len(body) + 1)) /\ Len(code) + size + k = Len(code) + (size + k)
        BY <1>2, <1>3, <1>7
    <2>2. QED
        BY <1>5, <1>8, <1>9, <2>1
<1>12. ASSUME NEW k \in 1..(size + Len(body) + 1)
       PROVE  code'[Len(code) + k].fn = Current.fn
    <2>1. CASE k \in 1..size
        <3>1. k \in 1..(size + (Len(body) + 1))
            BY <1>2, <1>3
        <3>2. code'[Len(code) + k] = Code(Current.fn, 0)
            BY <1>4, <1>8, <1>9, <2>1, <3>1
        <3>3. QED
            BY <3>2 DEF Code
    <2>2. CASE k \notin 1..size
        <3>1. k - size \in 1..(Len(body) + 1) /\ Len(code) + size + (k - size) = Len(code) + k
            BY <1>2, <1>3, <1>7, <2>2
        <3>2. code'[Len(code) + k] = Code(Current.fn, k - size)
            BY <1>11, <3>1
        <3>3. QED
            BY <3>2 DEF Code
    <2>3. QED
        BY <2>1, <2>2
<1>13. QED
    BY <1>3, <1>7, <1>9, <1>10, <1>11, <1>12

-----------------------------------------------------------------------------
(* Which functions have a symbol *)

NamesInv ==
    /\ files[1].inside = 0
    /\ begun \subseteq Functions /\ (begun # {} => "main" \in begun)
    /\ Cardinality(begun) = Len(fns) + Len(fn_syms)
    /\ \A i \in 1..Len(fns) : fns[i].fn \in begun
    /\ \A i \in 1..Len(fn_syms) : fn_syms[i].key \in begun
    /\ \A f \in begun : \/ \E i \in 1..Len(fns) : fns[i].fn = f
                        \/ \E i \in 1..Len(fn_syms) : fn_syms[i].key = f
    /\ \A i, j \in 1..Len(fns) : fns[i].fn = fns[j].fn => i = j
    /\ \A i \in 1..Len(fns), j \in 1..Len(fn_syms) : fns[i].fn # fn_syms[j].key

\* fn_syms has room for every function that the files may define.
LEMMA SymbolRoom ==
    ASSUME UnitsInv, TablesInv, NamesInv
    PROVE  /\ IsFiniteSet(begun) /\ Len(fns) + Len(fn_syms) <= LabelCap
           /\ Len(fns) \in Nat /\ Len(fn_syms) \in Nat /\ LabelCap \in Nat
<1>1. IsFiniteSet(Declared) /\ Cardinality(Declared) < LabelCap /\ LabelCap \in Nat
    BY CapsAssumption
<1>2. IsFiniteSet(Functions) /\ Cardinality(Functions) = Cardinality(Declared) + 1
    BY <1>1, NamesAssumption, FS_AddElement DEF Functions
<1>3. IsFiniteSet(begun) /\ Cardinality(begun) <= Cardinality(Functions)
    BY <1>2, FS_Subset DEF NamesInv
<1>4. Cardinality(Declared) \in Nat /\ Cardinality(begun) \in Nat
    BY <1>1, <1>3, FS_CardinalityType
<1>5. Len(fns) \in Nat /\ Len(fn_syms) \in Nat
    BY DEF UnitsInv, TablesInv
<1>6. QED
    BY <1>1, <1>2, <1>3, <1>4, <1>5 DEF NamesInv

\* The first file stays the outermost one.
LEMMA FirstFile ==
    ASSUME UnitsInv, files[1].inside = 0,
           files' = files \/ FileStep \/ IncludeStep
    PROVE  files'[1].inside = 0
<1>1. files \in Seq(FileRecord) /\ Len(files) \in Nat \ {0}
    BY TopFile DEF UnitsInv
<1>2. ASSUME NEW f, files' = Append(files, f) PROVE files'[1].inside = 0
    <2>1. files'[1] = files[1]
        BY <1>1, <1>2
    <2>2. QED
        BY <2>1
<1>3. CASE IncludeSkipping
    BY <1>2, <1>3 DEF IncludeSkipping, Open
<1>4. CASE EndSkip
    <2>1. files' = [files EXCEPT ![Len(files)].skipping = FALSE]
        BY <1>4 DEF EndSkip
    <2>2. files[1] \in FileRecord /\ 1 \in 1..Len(files)
        BY <1>1
    <2> DEFINE top == [files[Len(files)] EXCEPT !.skipping = FALSE]
    <2>3. files' = [files EXCEPT ![Len(files)] = top]
        BY <2>1
    <2>4. files[Len(files)] \in FileRecord
        BY <1>1
    <2>5. top.inside = files[Len(files)].inside
        BY <2>4 DEF FileRecord
    <2> HIDE DEF top
    <2>6. CASE Len(files) = 1
        BY <1>1, <2>3, <2>5, <2>6
    <2>7. CASE Len(files) # 1
        <3>1. files'[1] = files[1]
            BY <1>1, <2>2, <2>3, <2>7
        <3>2. QED
            BY <3>1
    <2>8. QED
        BY <2>6, <2>7
<1>5. CASE EndFile
    <2>1. files' = Front(files) /\ 1 \in 1..(Len(files) - 1)
        BY <1>1, <1>5 DEF EndFile
    <2>2. files'[1] = files[1]
        BY <1>1, <2>1, FrontStack DEF UnitsInv
    <2>3. QED
        BY <2>2
<1>6. QED
    BY <1>2, <1>3, <1>4, <1>5 DEF FileStep, IncludeStep

LEMMA NamesStep ==
    ASSUME UnitsInv, StartedInv, TablesInv, NamesInv, [EmittersNext]_emitterVars
    PROVE  NamesInv'
<1>1. ASSUME NEW k \in {0, 1}, Advance(k), files'[1].inside = 0, UNCHANGED <<fn_syms, begun>>
      PROVE  NamesInv'
    <2>1. /\ Len(fns) \in Nat \ {0} /\ Len(fns') = Len(fns)
          /\ Current' = fns'[Len(fns)] /\ Current'.fn = Current.fn
          /\ \A i \in 1..(Len(fns) - 1) : fns'[i] = fns[i]
        BY <1>1, AdvanceKeeps
    <2>2. \A i \in 1..Len(fns) : i = Len(fns) \/ i \in 1..(Len(fns) - 1)
        BY <2>1
    <2>3. \A i \in 1..Len(fns) : fns'[i].fn = fns[i].fn
        BY <2>1, <2>2 DEF Current, Top
    <2>4. QED
        BY <1>1, <2>1, <2>3 DEF NamesInv
<1>2. ASSUME files'[1].inside = 0, UNCHANGED <<fns, fn_syms, begun>> PROVE NamesInv'
    BY <1>2 DEF NamesInv
<1>3. files[1].inside = 0
    BY DEF NamesInv
<1>4. CASE EmitLink
    BY <1>1, <1>3, <1>4 DEF EmitLink, EmitStep, LinkSame
<1>5. CASE LabelLink
    BY <1>1, <1>3, <1>5 DEF LabelLink, QuietStep, LinkSame
<1>6. CASE IncludeLink
    BY <1>1, <1>3, <1>6, FirstFile DEF IncludeLink, IncludeStep, LinkSame
<1>7. CASE FileLink
    <2>1. fns' = fns
        BY <1>7 DEF FileLink, FileStep, IncludeSkipping, EndSkip, EndFile
    <2>2. QED
        BY <1>2, <1>3, <1>7, <2>1, FirstFile DEF FileLink, LinkSame
<1>8. ASSUME NEW f \in Functions, Begin(f) PROVE NamesInv'
    <2>1. /\ Len(fns') = Len(fns) + 1 /\ files' = files
          /\ \A i \in 1..Len(fns) : fns'[i] = fns[i]
          /\ fns'[Len(fns) + 1].fn = f
        <3>1. /\ Len(fns') = Len(fns) + 1 /\ files' = files
              /\ \A i \in 1..Len(fns) : fns'[i] = fns[i]
              /\ fns'[Len(fns) + 1] = Function(f)
            BY <1>8, BeginKeeps DEF Begin
        <3>2. Function(f).fn = f
            BY DEF Function
        <3>3. QED
            BY <3>1, <3>2
    <2>2. f \notin begun /\ (begun = {} => f = "main") /\ begun' = begun \cup {f}
        BY <1>8 DEF Begin, BeginFunction
    <2>3. fn_syms' = fn_syms
        BY <1>8 DEF Begin, BinBegin
    <2>4. Cardinality(begun') = Cardinality(begun) + 1
        BY <2>2, SymbolRoom, FS_AddElement
    <2>5. Len(fns) \in Nat /\ Len(fn_syms) \in Nat
        BY SymbolRoom
    <2>6. Cardinality(begun') = Len(fns') + Len(fn_syms')
        BY <2>1, <2>3, <2>4, <2>5 DEF NamesInv
    <2>7. \A i \in 1..(Len(fns) + 1) : i \in 1..Len(fns) \/ i = Len(fns) + 1
        BY <2>5
    <2>8. /\ \A i \in 1..Len(fns') : fns'[i].fn \in begun'
          /\ \A i \in 1..Len(fn_syms') : fn_syms'[i].key \in begun'
          /\ \A i \in 1..Len(fns'), j \in 1..Len(fn_syms') : fns'[i].fn # fn_syms'[j].key
        BY <2>1, <2>2, <2>3, <2>7 DEF NamesInv
    <2>9. \A i, j \in 1..Len(fns') : fns'[i].fn = fns'[j].fn => i = j
        BY <2>1, <2>2, <2>7 DEF NamesInv
    <2>10. \A g \in begun' : \/ \E i \in 1..Len(fns') : fns'[i].fn = g
                             \/ \E i \in 1..Len(fn_syms') : fn_syms'[i].key = g
        <3>1. \A i \in 1..Len(fns) : i \in 1..Len(fns') /\ fns'[i].fn = fns[i].fn
            BY <2>1, <2>5
        <3>2. Len(fns) + 1 \in 1..Len(fns')
            BY <2>1, <2>5
        <3>3. QED
            BY <2>1, <2>2, <2>3, <3>1, <3>2 DEF NamesInv
    <2>11. files'[1].inside = 0 /\ begun' \subseteq Functions /\ "main" \in begun'
        BY <1>3, <2>1, <2>2 DEF NamesInv
    <2>12. QED
        BY <2>6, <2>8, <2>9, <2>10, <2>11 DEF NamesInv
<1>9. ASSUME NEW size \in 0..MaxPrologue, End(size) PROVE NamesInv'
    <2> DEFINE n == Len(fns)
               m == Len(fn_syms)
               f == fns[Len(fns)].fn
    <2>1. /\ n \in Nat \ {0} /\ Current = fns[n] /\ Len(fns') = n - 1 /\ files' = files
          /\ \A i \in 1..(n - 1) : fns'[i] = fns[i]
        BY <1>9, EndKeeps DEF End, Current, Top
    <2>2. m \in Nat /\ m < LabelCap
        BY <2>1, SymbolRoom
    <2>3. fn_syms' = Append(fn_syms, Symbol(Len(code), size)) /\ begun' = begun
        BY <1>9, <2>2 DEF End, BinEnd, EndFunction
    <2>4. /\ Len(fn_syms') = m + 1 /\ fn_syms'[m + 1].key = f
          /\ \A i \in 1..m : fn_syms'[i] = fn_syms[i]
        BY <2>1, <2>3 DEF TablesInv, Symbol
    <2>5. (n - 1) + (m + 1) = n + m /\ n \in 1..n
          /\ (\A i \in 1..(n - 1) : i \in 1..n /\ i # n)
          /\ (\A i \in 1..n : i \in 1..(n - 1) \/ i = n)
          /\ (\A i \in 1..(m + 1) : i \in 1..m \/ i = m + 1)
          /\ (\A i \in 1..m : i \in 1..(m + 1)) /\ m + 1 \in 1..(m + 1)
        BY <2>1, <2>2
    <2> HIDE DEF n, m, f
    <2>6. /\ Cardinality(begun) = n + m /\ begun \subseteq Functions
          /\ (begun # {} => "main" \in begun)
          /\ \A i \in 1..n : fns[i].fn \in begun
          /\ \A i \in 1..m : fn_syms[i].key \in begun
          /\ \A g \in begun : \/ \E i \in 1..n : fns[i].fn = g
                              \/ \E i \in 1..m : fn_syms[i].key = g
          /\ \A i, j \in 1..n : fns[i].fn = fns[j].fn => i = j
          /\ \A i \in 1..n, j \in 1..m : fns[i].fn # fn_syms[j].key
          /\ f = fns[n].fn
        BY DEF NamesInv, n, m, f
    <2>7. /\ \A i \in 1..Len(fns') : fns'[i].fn \in begun'
          /\ \A i \in 1..Len(fn_syms') : fn_syms'[i].key \in begun'
          /\ \A i, j \in 1..Len(fns') : fns'[i].fn = fns'[j].fn => i = j
        BY <2>1, <2>3, <2>4, <2>5, <2>6
    <2>8. \A i \in 1..Len(fns'), j \in 1..Len(fn_syms') : fns'[i].fn # fn_syms'[j].key
        BY <2>1, <2>4, <2>5, <2>6
    <2>9. \A g \in begun' : \/ \E i \in 1..Len(fns') : fns'[i].fn = g
                            \/ \E i \in 1..Len(fn_syms') : fn_syms'[i].key = g
        <3> SUFFICES ASSUME NEW g \in begun
                     PROVE  \/ \E i \in 1..(n - 1) : fns'[i].fn = g
                            \/ \E i \in 1..(m + 1) : fn_syms'[i].key = g
            BY <2>1, <2>3, <2>4
        <3>1. CASE \E i \in 1..m : fn_syms[i].key = g
            BY <2>4, <2>5, <3>1
        <3>2. CASE \E i \in 1..n : fns[i].fn = g
            BY <2>1, <2>4, <2>5, <2>6, <3>2
        <3>3. QED
            BY <2>6, <3>1, <3>2
    <2>10. Cardinality(begun') = Len(fns') + Len(fn_syms')
        BY <2>1, <2>3, <2>4, <2>5, <2>6
    <2>11. QED
        BY <1>3, <2>1, <2>3, <2>6, <2>7, <2>8, <2>9, <2>10 DEF NamesInv
<1>10. CASE Write \/ FailLink \/ UNCHANGED emitterVars
    BY <1>2, <1>3, <1>10
       DEF Write, EndProgram, BinWrite, FailLink, binVars, emitterVars, vars
<1>11. QED
    BY LinkKinds, <1>4, <1>5, <1>6, <1>7, <1>8, <1>9, <1>10

-----------------------------------------------------------------------------
(* Labels and fixups *)

\* The function in progress is the only one with labels or fixups to move.
Placing == Len(fns) > Top(files).inside /\ Current.started

InBody(e) == e.key[1] = Current.fn /\ e.at \in 0..Len(body) /\ e.line = e.at
LabelAt(e) ==
    IF e.done THEN HoldsIn(code, e.at, Code(e.key[1], e.line + 1)) ELSE Placing /\ InBody(e)
LabelsInv == \A i \in 1..Len(labels) : LabelAt(labels[i])

InLine(e) == e.fn = Current.fn /\ e.at \in 0..(Len(body) - 1) /\ e.line = e.at + 1
FixupAt(e) ==
    IF e.done THEN HoldsIn(code, e.at, Code(e.fn, e.line)) ELSE Placing /\ InLine(e)
FixupKey(e) ==
    IF e.kind = "branch" THEN e.key \in Keys /\ e.key[1] = e.fn ELSE e.key \in Declared
FixupsInv == \A i \in 1..Len(fixups) : FixupAt(fixups[i]) /\ FixupKey(fixups[i])

\* Between functions everything is moved.
LEMMA AllPlaced ==
    ASSUME LabelsInv, FixupsInv, ~Placing
    PROVE  /\ \A i \in 1..Len(labels) : labels[i].done
           /\ \A i \in 1..Len(fixups) : fixups[i].done
    BY DEF LabelsInv, FixupsInv, LabelAt, FixupAt

LEMMA PlaceLabels ==
    ASSUME NEW table \in Seq(LabelRecord), NEW delta \in Nat
    PROVE  /\ Place(table, delta) \in Seq(LabelRecord)
           /\ Len(Place(table, delta)) = Len(table)
           /\ \A i \in 1..Len(table) :
                 LET e == table[i]
                     p == Place(table, delta)[i]
                 IN /\ p.done /\ p.key = e.key /\ p.line = e.line
                    /\ p.at = IF e.done THEN e.at ELSE e.at + delta
<1> DEFINE Moved(e) == IF e.done THEN e ELSE [e EXCEPT !.at = @ + delta, !.done = TRUE]
<1>1. ASSUME NEW e \in LabelRecord
      PROVE  /\ Moved(e) \in LabelRecord /\ Moved(e).done
             /\ Moved(e).key = e.key /\ Moved(e).line = e.line
             /\ Moved(e).at = IF e.done THEN e.at ELSE e.at + delta
    <2>1. ASSUME NEW a \in Nat
          PROVE  LET r == [e EXCEPT !.at = a, !.done = TRUE]
                 IN /\ r \in LabelRecord /\ r.done /\ r.key = e.key /\ r.line = e.line
                    /\ r.at = a
        BY DEF LabelRecord
    <2>2. e.at + delta \in Nat
        BY DEF LabelRecord
    <2>3. QED
        BY <2>1, <2>2
<1> HIDE DEF Moved
<1>2. Place(table, delta) = [i \in 1..Len(table) |-> Moved(table[i])]
    BY DEF Place, Moved
<1>3. QED
    BY <1>1, <1>2

LEMMA PlaceFixups ==
    ASSUME NEW table \in Seq(FixupRecord), NEW delta \in Nat
    PROVE  /\ Place(table, delta) \in Seq(FixupRecord)
           /\ Len(Place(table, delta)) = Len(table)
           /\ \A i \in 1..Len(table) :
                 LET e == table[i]
                     p == Place(table, delta)[i]
                 IN /\ p.done /\ p.key = e.key /\ p.line = e.line
                    /\ p.kind = e.kind /\ p.fn = e.fn
                    /\ p.at = IF e.done THEN e.at ELSE e.at + delta
<1> DEFINE Moved(e) == IF e.done THEN e ELSE [e EXCEPT !.at = @ + delta, !.done = TRUE]
<1>1. ASSUME NEW e \in FixupRecord
      PROVE  /\ Moved(e) \in FixupRecord /\ Moved(e).done
             /\ Moved(e).key = e.key /\ Moved(e).line = e.line
             /\ Moved(e).kind = e.kind /\ Moved(e).fn = e.fn
             /\ Moved(e).at = IF e.done THEN e.at ELSE e.at + delta
    <2>1. ASSUME NEW a \in Nat
          PROVE  LET r == [e EXCEPT !.at = a, !.done = TRUE]
                 IN /\ r \in FixupRecord /\ r.done /\ r.key = e.key /\ r.line = e.line
                    /\ r.kind = e.kind /\ r.fn = e.fn /\ r.at = a
        BY DEF FixupRecord
    <2>2. e.at + delta \in Nat
        BY DEF FixupRecord
    <2>3. QED
        BY <2>1, <2>2
<1> HIDE DEF Moved
<1>2. Place(table, delta) = [i \in 1..Len(table) |-> Moved(table[i])]
    BY DEF Place, Moved
<1>3. QED
    BY <1>1, <1>2

\* What is added to the tables is of the function in progress.
LEMMA NewEntries ==
    ASSUME UnitsInv, CodeInv, InFunction
    PROVE  /\ \A key \in Keys : key[1] = Current.fn =>
                 /\ Label(key) \in LabelRecord /\ ~Label(key).done
                 /\ InBody(Label(key))
           /\ \A kind \in {"branch", "call"}, key \in Keys \cup Declared :
                 /\ Fixup(kind, key) \in FixupRecord /\ ~Fixup(kind, key).done
                 /\ Fixup(kind, key).kind = kind /\ Fixup(kind, key).key = key
                 /\ Fixup(kind, key).fn = Current.fn
                 /\ Fixup(kind, key).at = Len(body) /\ Fixup(kind, key).line = Len(body) + 1
<1>1. Current \in FnRecord /\ Len(body) \in Nat /\ Len(body) = Current.emitted
    BY CurrentRecord, BodyFacts
<1>2. Current.fn \in Functions
    BY <1>1 DEF FnRecord
<1>3. QED
    BY <1>1, <1>2 DEF Label, Fixup, LabelRecord, FixupRecord, InBody

\* The end of a function moves its labels and fixups to where its body lands.
LEMMA PlacedAtEnd ==
    ASSUME UnitsInv, CodeInv, EndFunction, NEW size \in 0..MaxPrologue, BinEnd(size)
    PROVE  /\ \A e \in LabelRecord :
                 (IF e.done THEN HoldsIn(code, e.at, Code(e.key[1], e.line + 1)) ELSE InBody(e)) =>
                 HoldsIn(code', IF e.done THEN e.at ELSE e.at + (Len(code) + size),
                         Code(e.key[1], e.line + 1))
           /\ \A e \in FixupRecord :
                 (IF e.done THEN HoldsIn(code, e.at, Code(e.fn, e.line)) ELSE InLine(e)) =>
                 HoldsIn(code', IF e.done THEN e.at ELSE e.at + (Len(code) + size),
                         Code(e.fn, e.line))
<1>1. /\ code \in Seq(CodeRecord) /\ code' \in Seq(CodeRecord) /\ Extends(code, code')
      /\ Len(code) \in Nat /\ size \in Nat
      /\ Len(code') = Len(code) + size + Len(body) + 1
      /\ \A k \in 1..(Len(body) + 1) : code'[Len(code) + size + k] = Code(Current.fn, k)
    BY EndCode
<1>2. Len(body) \in Nat
    BY BodyFacts
<1>3. ASSUME NEW at \in 0..Len(body)
      PROVE  HoldsIn(code', at + (Len(code) + size), Code(Current.fn, at + 1))
    <2>1. /\ at + 1 \in 1..(Len(body) + 1)
          /\ at + (Len(code) + size) \in 0..(Len(code') - 1)
          /\ at + (Len(code) + size) + 1 = Len(code) + size + (at + 1)
        BY <1>1, <1>2
    <2>2. QED
        BY <1>1, <2>1 DEF HoldsIn
<1>4. \A offset, instr : HoldsIn(code, offset, instr) => HoldsIn(code', offset, instr)
    BY <1>1, HeldOn
<1>5. ASSUME NEW e \in LabelRecord, ~e.done, InBody(e)
      PROVE  HoldsIn(code', e.at + (Len(code) + size), Code(e.key[1], e.line + 1))
    BY <1>3, <1>5 DEF InBody
<1>6. ASSUME NEW e \in FixupRecord, ~e.done, InLine(e)
      PROVE  HoldsIn(code', e.at + (Len(code) + size), Code(e.fn, e.line))
    <2>1. e.at \in 0..Len(body)
        BY <1>2, <1>6 DEF InLine
    <2>2. QED
        BY <1>3, <1>6, <2>1 DEF InLine
<1>7. QED
    BY <1>4, <1>5, <1>6

LinksInv == TablesInv /\ LabelsInv /\ FixupsInv

\* A line of the function in progress.
LEMMA LinkAdvance ==
    ASSUME UnitsInv, CodeInv, LinksInv, NEW k \in {0, 1}, Advance(k), files' = files,
           Current'.started, IF k = 1 THEN BinAppend ELSE UNCHANGED <<body, code>>,
           labels' = labels \/ (k = 0 /\ NoteLabel),
           fixups' = fixups \/ (k = 1 /\ NoteFixup),
           UNCHANGED <<fn_syms, entry_off>>
    PROVE  LinksInv'
<1>1. /\ Len(fns) \in Nat \ {0} /\ Len(fns') = Len(fns) /\ Current'.fn = Current.fn
      /\ InFunction
    BY AdvanceKeeps DEF Advance
<1>2. Placing'
    <2>1. Top(files)' = Top(files) /\ Len(fns) > Top(files).inside
        BY <1>1 DEF Top, InFunction
    <2>2. QED
        BY <1>1, <2>1 DEF Placing
<1>3. Len(body) \in Nat /\ body \in Seq(CodeRecord) /\ Len(body') = Len(body) + k /\ code' = code
    BY BodyFacts DEF BinAppend
<1>4. ASSUME NEW e, LabelAt(e) PROVE LabelAt(e)'
    <2>1. InBody(e) => InBody(e)'
        BY <1>1, <1>3 DEF InBody
    <2>2. QED
        BY <1>2, <1>3, <1>4, <2>1 DEF LabelAt
<1>5. ASSUME NEW e, FixupAt(e) PROVE FixupAt(e)'
    <2>1. InLine(e) => InLine(e)'
        BY <1>1, <1>3 DEF InLine
    <2>2. QED
        BY <1>2, <1>3, <1>5, <2>1 DEF FixupAt
<1>6. labels' \in Seq(LabelRecord) /\ LabelsInv'
    <2>1. CASE labels' = labels
        BY <1>4, <2>1 DEF LinksInv, TablesInv, LabelsInv
    <2>2. CASE k = 0 /\ NoteLabel
        <3>1. PICK key \in Keys : key[1] = Current.fn /\ labels' = Append(labels, Label(key))
            BY <2>2 DEF NoteLabel
        <3>2. PICK e \in LabelRecord : ~e.done /\ InBody(e) /\ labels' = Append(labels, e)
            BY <1>1, <3>1, NewEntries
        <3>3. InBody(e)'
            BY <1>1, <1>3, <2>2, <3>2 DEF InBody
        <3>4. LabelAt(e)'
            BY <1>2, <3>2, <3>3 DEF LabelAt
        <3>5. /\ labels' \in Seq(LabelRecord) /\ Len(labels') = Len(labels) + 1
              /\ \A i \in 1..Len(labels) : labels'[i] = labels[i]
              /\ labels'[Len(labels) + 1] = e
            BY <3>2, AppendProperties DEF LinksInv, TablesInv
        <3>6. \A i \in 1..(Len(labels) + 1) : i \in 1..Len(labels) \/ i = Len(labels) + 1
            BY DEF LinksInv, TablesInv
        <3>7. \A i \in 1..Len(labels) : LabelAt(labels[i])
            BY DEF LinksInv, LabelsInv
        <3>8. ASSUME NEW i \in 1..Len(labels)' PROVE LabelAt(labels[i])'
            <4>1. PICK x : x = labels'[i]
                OBVIOUS
            <4>2. LabelAt(x)'
                <5>1. x = e \/ LabelAt(x)
                    BY <3>5, <3>6, <3>7, <4>1
                <5>2. QED
                    BY <1>4, <3>4, <5>1
            <4>3. QED
                BY <4>1, <4>2
        <3>9. QED
            BY <3>5, <3>8 DEF LabelsInv
    <2>3. QED
        BY <2>1, <2>2
<1>7. fixups' \in Seq(FixupRecord) /\ FixupsInv'
    <2>1. CASE fixups' = fixups
        BY <1>5, <2>1 DEF LinksInv, TablesInv, FixupsInv, FixupKey
    <2>2. CASE k = 1 /\ fixups' # fixups
        <3>1. PICK kind \in {"branch", "call"}, key \in Keys \cup Declared :
                 /\ kind = "branch" => key \in Keys /\ key[1] = Current.fn
                 /\ kind = "call" => key \in Declared
                 /\ fixups' = Append(fixups, Fixup(kind, key))
            BY <2>2 DEF NoteFixup
        <3>2. PICK e \in FixupRecord :
                 /\ ~e.done /\ e.kind = kind /\ e.key = key /\ e.fn = Current.fn
                 /\ e.at = Len(body) /\ e.line = Len(body) + 1
                 /\ fixups' = Append(fixups, e)
            BY <1>1, <3>1, NewEntries
        <3>3. InLine(e)'
            BY <1>1, <1>3, <2>2, <3>2 DEF InLine
        <3>4. FixupAt(e)' /\ FixupKey(e)
            BY <1>2, <3>1, <3>2, <3>3 DEF FixupAt, FixupKey
        <3>5. /\ fixups' \in Seq(FixupRecord) /\ Len(fixups') = Len(fixups) + 1
              /\ \A i \in 1..Len(fixups) : fixups'[i] = fixups[i]
              /\ fixups'[Len(fixups) + 1] = e
            BY <3>2, AppendProperties DEF LinksInv, TablesInv
        <3>6. \A i \in 1..(Len(fixups) + 1) : i \in 1..Len(fixups) \/ i = Len(fixups) + 1
            BY DEF LinksInv, TablesInv
        <3>7. \A i \in 1..Len(fixups) : FixupAt(fixups[i]) /\ FixupKey(fixups[i])
            BY DEF LinksInv, FixupsInv
        <3>8. ASSUME NEW i \in 1..Len(fixups)' PROVE FixupAt(fixups[i])' /\ FixupKey(fixups[i])'
            <4>1. PICK x : x = fixups'[i]
                OBVIOUS
            <4>2. FixupAt(x)' /\ FixupKey(x)
                <5>1. x = e \/ (FixupAt(x) /\ FixupKey(x))
                    BY <3>5, <3>6, <3>7, <4>1
                <5>2. QED
                    BY <1>5, <3>4, <5>1
            <4>3. FixupKey(x)' = FixupKey(x)
                BY DEF FixupKey
            <4>4. QED
                BY <4>1, <4>2, <4>3
        <3>9. QED
            BY <3>5, <3>8 DEF FixupsInv
    <2>3. QED
        BY <2>1, <2>2
<1>8. fn_syms' \in Seq(SymbolRecord) /\ entry_off' \in Nat
    BY DEF LinksInv, TablesInv
<1>9. QED
    BY <1>6, <1>7, <1>8 DEF LinksInv, TablesInv

\* Steps between functions, and those that change nothing.
LEMMA LinkIdles ==
    ASSUME LinksInv, UNCHANGED <<code, labels, fixups, fn_syms, entry_off>>,
           ~Placing \/ UNCHANGED <<fns, files, body>>
    PROVE  LinksInv'
<1>1. CASE ~Placing
    BY <1>1, AllPlaced
       DEF LinksInv, TablesInv, LabelsInv, FixupsInv, LabelAt, FixupAt, FixupKey
<1>2. CASE UNCHANGED <<fns, files, body>>
    BY <1>2 DEF LinksInv, TablesInv, LabelsInv, FixupsInv, LabelAt, FixupAt, FixupKey,
                Placing, InBody, InLine, Current, Top
<1>3. QED
    BY <1>1, <1>2

LEMMA LinkEnds ==
    ASSUME UnitsInv, CodeInv, LinksInv, NEW size \in 0..MaxPrologue, End(size)
    PROVE  LinksInv'
<1>1. EndFunction /\ BinEnd(size)
    BY DEF End
<1>2. InFunction /\ Current \in FnRecord
    BY <1>1, CurrentRecord DEF EndFunction
<1>3. Len(code) \in Nat /\ size \in Nat
    BY <1>1, EndCode
<1> DEFINE delta == Len(code) + size
           ret == Label(Key(Current.fn, "ret", 0))
           table == IF Current.branched THEN Append(labels, ret) ELSE labels
<1>4. ret \in LabelRecord /\ ~ret.done /\ InBody(ret)
    <2> DEFINE key == Key(Current.fn, "ret", 0)
    <2>1. key \in Keys /\ key[1] = Current.fn
        BY <1>2, OwnKey
    <2> HIDE DEF key
    <2>2. Label(key) \in LabelRecord /\ ~Label(key).done /\ InBody(Label(key))
        BY <1>2, <2>1, NewEntries
    <2>3. QED
        BY <2>2 DEF key
<1>5. /\ table \in Seq(LabelRecord)
      /\ \A i \in 1..Len(table) :
            IF table[i].done THEN HoldsIn(code, table[i].at, Code(table[i].key[1], table[i].line + 1))
            ELSE InBody(table[i])
    <2> HIDE DEF ret
    <2>1. /\ labels \in Seq(LabelRecord)
          /\ \A i \in 1..Len(labels) :
                IF labels[i].done
                THEN HoldsIn(code, labels[i].at, Code(labels[i].key[1], labels[i].line + 1))
                ELSE InBody(labels[i])
        BY DEF LinksInv, TablesInv, LabelsInv, LabelAt
    <2>2. CASE ~Current.branched
        BY <2>1, <2>2
    <2>3. CASE Current.branched
        <3>1. /\ table \in Seq(LabelRecord) /\ Len(table) = Len(labels) + 1
              /\ \A i \in 1..Len(labels) : table[i] = labels[i]
              /\ table[Len(labels) + 1] = ret
            BY <1>4, <2>1, <2>3, AppendProperties
        <3>2. \A i \in 1..(Len(labels) + 1) : i \in 1..Len(labels) \/ i = Len(labels) + 1
            BY <2>1
        <3> HIDE DEF table
        <3>3. QED
            BY <1>4, <2>1, <3>1, <3>2
    <2>4. QED
        BY <2>2, <2>3
<1>6. /\ labels' = Place(table, delta) /\ fixups' = Place(fixups, delta)
      /\ fn_syms' = fn_syms \/ fn_syms' = Append(fn_syms, Symbol(Len(code), size))
      /\ entry_off' \in {Len(code), entry_off}
    BY <1>1 DEF BinEnd, Entry
<1>7. delta \in Nat
    BY <1>3
<1> HIDE DEF table, ret
<1>8. labels' \in Seq(LabelRecord) /\ LabelsInv'
    <2>1. /\ labels' \in Seq(LabelRecord) /\ Len(labels') = Len(table)
          /\ \A i \in 1..Len(table) :
                LET e == table[i]
                    p == labels'[i]
                IN /\ p.done /\ p.key = e.key /\ p.line = e.line
                   /\ p.at = IF e.done THEN e.at ELSE e.at + delta
        <3> HIDE DEF delta
        <3>1. QED
            BY <1>5, <1>6, <1>7, PlaceLabels
    <2>2. ASSUME NEW i \in 1..Len(table)
          PROVE  /\ labels'[i].done
                 /\ HoldsIn(code', labels'[i].at, Code(labels'[i].key[1], labels'[i].line + 1))
        <3>1. table[i] \in LabelRecord
            BY <1>5
        <3>2. HoldsIn(code', IF table[i].done THEN table[i].at ELSE table[i].at + delta,
                      Code(table[i].key[1], table[i].line + 1))
            BY <1>1, <1>5, <3>1, PlacedAtEnd
        <3>3. QED
            BY <2>1, <3>2, Zenon
    <2>3. QED
        BY <2>1, <2>2 DEF LabelsInv, LabelAt
<1>9. fixups' \in Seq(FixupRecord) /\ FixupsInv'
    <2>1. fixups \in Seq(FixupRecord)
        BY DEF LinksInv, TablesInv
    <2>2. /\ fixups' \in Seq(FixupRecord) /\ Len(fixups') = Len(fixups)
          /\ \A i \in 1..Len(fixups) :
                LET e == fixups[i]
                    p == fixups'[i]
                IN /\ p.done /\ p.key = e.key /\ p.line = e.line
                   /\ p.kind = e.kind /\ p.fn = e.fn
                   /\ p.at = IF e.done THEN e.at ELSE e.at + delta
        <3> HIDE DEF delta
        <3>1. QED
            BY <1>6, <1>7, <2>1, PlaceFixups
    <2>3. ASSUME NEW i \in 1..Len(fixups)
          PROVE  /\ fixups'[i].done
                 /\ HoldsIn(code', fixups'[i].at, Code(fixups'[i].fn, fixups'[i].line))
        <3>1. fixups[i] \in FixupRecord
            BY <2>1
        <3>2. IF fixups[i].done THEN HoldsIn(code, fixups[i].at, Code(fixups[i].fn, fixups[i].line))
              ELSE InLine(fixups[i])
            BY DEF LinksInv, FixupsInv, FixupAt
        <3>3. HoldsIn(code', IF fixups[i].done THEN fixups[i].at ELSE fixups[i].at + delta,
                      Code(fixups[i].fn, fixups[i].line))
            BY <1>1, <3>1, <3>2, PlacedAtEnd
        <3>4. QED
            BY <2>2, <3>3, Zenon
    <2>4. ASSUME NEW i \in 1..Len(fixups) PROVE FixupKey(fixups[i])'
        <3>1. FixupKey(fixups[i])
            BY DEF LinksInv, FixupsInv
        <3>2. QED
            BY <2>2, <3>1 DEF FixupKey
    <2>5. QED
        BY <2>2, <2>3, <2>4 DEF FixupsInv, FixupAt
<1>10. fn_syms' \in Seq(SymbolRecord) /\ entry_off' \in Nat
    <2>1. Current.fn \in Functions
        BY <1>2 DEF FnRecord
    <2>2. PICK r \in SymbolRecord : r = Symbol(Len(code), size)
        BY <1>3, <2>1 DEF Symbol, SymbolRecord
    <2>3. fn_syms \in Seq(SymbolRecord) /\ entry_off \in Nat
        BY DEF LinksInv, TablesInv
    <2>4. fn_syms' = fn_syms \/ fn_syms' = Append(fn_syms, r)
        BY <1>6, <2>2
    <2>5. fn_syms' \in Seq(SymbolRecord)
        BY <2>2, <2>3, <2>4, AppendProperties
    <2>6. QED
        BY <1>3, <1>6, <2>3, <2>5
<1>11. QED
    BY <1>8, <1>9, <1>10 DEF LinksInv, TablesInv

LEMMA LinksStep ==
    ASSUME ~Late, UnitsInv, NestInv, CodeInv, StartedInv, LinksInv, [EmittersNext]_emitterVars
    PROVE  LinksInv'
<1>1. CASE EmitLink
    <2>1. Advance(1) /\ BinAppend /\ files' = files
        BY <1>1 DEF EmitLink, EmitStep
    <2>2. Current'.started
        BY <2>1, AdvanceKeeps
    <2>3. QED
        BY <1>1, <2>1, <2>2, LinkAdvance DEF EmitLink, LinkSame
<1>2. CASE LabelLink
    <2>1. Advance(0) /\ files' = files /\ UNCHANGED <<body, code>>
        BY <1>2 DEF LabelLink, QuietStep
    <2>2. QED
        BY <1>2, <2>1, LinkAdvance DEF LabelLink, LinkSame
<1>3. CASE IncludeLink
    <2>1. ~Placing
        BY <1>3 DEF IncludeLink, IncludeStep, Placing
    <2>2. QED
        BY <1>3, <2>1, LinkIdles DEF IncludeLink, IncludeStep, LinkSame
<1>4. Len(fns) = Top(files).inside => ~Placing
    BY TopFile DEF Placing
<1>5. CASE FileLink
    <2>1. Len(fns) = Top(files).inside
        BY <1>5 DEF FileLink, FileStep, IncludeSkipping, EndSkip, EndFile, Skipping, Compiling,
                    InFile
    <2>2. QED
        BY <1>4, <1>5, <2>1, LinkIdles DEF FileLink, FileStep, LinkSame
<1>6. ASSUME NEW f \in Functions, Begin(f) PROVE LinksInv'
    <2>1. Len(fns) = Top(files).inside
        BY <1>6 DEF Begin, BeginFunction, Compiling, InFile
    <2>2. UNCHANGED <<code, labels, fixups, fn_syms, entry_off>>
        BY <1>6 DEF Begin, BinBegin
    <2>3. QED
        BY <1>4, <2>1, <2>2, LinkIdles
<1>7. ASSUME NEW size \in 0..MaxPrologue, End(size) PROVE LinksInv'
    BY <1>7, LinkEnds
<1>8. CASE Write \/ FailLink \/ UNCHANGED emitterVars
    BY <1>8, LinkIdles
       DEF Write, EndProgram, BinWrite, FailLink, binVars, emitterVars, vars
<1>9. QED
    BY LinkKinds, <1>1, <1>2, <1>3, <1>5, <1>6, <1>7, <1>8

-----------------------------------------------------------------------------
(* Symbols *)

\* The functions that have ended are the ones with a symbol, which is where the
\* first instruction of each is, and the code has no others.
SymsInv ==
    /\ \A i \in 1..Len(fn_syms) : FirstIn(code, fn_syms[i].key, fn_syms[i].at)
    /\ \A k \in 1..Len(code) : \E i \in 1..Len(fn_syms) : code[k].fn = fn_syms[i].key
    /\ (\E i \in 1..Len(fn_syms) : fn_syms[i].key = "main") => FirstIn(code, "main", entry_off)

LEMMA SymsEnd ==
    ASSUME UnitsInv, CodeInv, TablesInv, NamesInv, SymsInv,
           NEW size \in 0..MaxPrologue, End(size)
    PROVE  SymsInv'
<1> DEFINE m == Len(fn_syms)
           f == Current.fn
<1>1. EndFunction /\ BinEnd(size) /\ Len(fns) \in Nat \ {0} /\ Current = fns[Len(fns)]
    BY EndKeeps DEF End, Current, Top
<1>2. /\ code \in Seq(CodeRecord) /\ code' \in Seq(CodeRecord) /\ Extends(code, code')
      /\ Len(code) \in Nat /\ size \in Nat /\ Len(body) \in Nat
      /\ Len(code') = Len(code) + size + Len(body) + 1
      /\ \A k \in 1..(size + Len(body) + 1) : code'[Len(code) + k].fn = f
    BY <1>1, EndCode, BodyFacts
<1>3. m \in Nat /\ m < LabelCap
    BY <1>1, SymbolRoom
<1>4. /\ fn_syms' = Append(fn_syms, [key |-> f, at |-> Len(code)])
      /\ entry_off' = IF f = "main" THEN Len(code) ELSE entry_off
    BY <1>1, <1>3 DEF BinEnd, Symbol, Entry
<1> DEFINE r == [key |-> f, at |-> Len(code)]
<1>5. r \in SymbolRecord /\ r.key = f /\ r.at = Len(code)
    <2>1. f \in Functions
        BY <1>1, EndKeeps DEF FnRecord
    <2>2. QED
        BY <1>2, <2>1 DEF SymbolRecord
<1> HIDE DEF r
<1>6. /\ Len(fn_syms') = m + 1 /\ \A i \in 1..m : fn_syms'[i] = fn_syms[i]
      /\ fn_syms'[m + 1] = r
    BY <1>4, <1>5, AppendProperties DEF TablesInv, r
<1>7. \A i \in 1..m : fn_syms[i].key # f
    BY <1>1 DEF NamesInv
<1>8. (\A i \in 1..(m + 1) : i \in 1..m \/ i = m + 1) /\ m + 1 \in 1..(m + 1)
      /\ \A i \in 1..m : i \in 1..(m + 1)
    BY <1>3
<1> HIDE DEF m, f
<1>9. FirstIn(code', f, Len(code))
    <2>1. Len(code) \in 0..(Len(code') - 1) /\ 1 \in 1..(size + Len(body) + 1)
        BY <1>2
    <2>2. ASSUME NEW earlier \in 1..Len(code) PROVE code'[earlier].fn # f
        <3>1. PICK i \in 1..m : code[earlier].fn = fn_syms[i].key
            BY DEF SymsInv, m
        <3>2. code'[earlier] = code[earlier]
            BY <1>2 DEF Extends
        <3>3. QED
            BY <1>7, <3>1, <3>2
    <2>3. QED
        BY <1>2, <2>1, <2>2 DEF FirstIn
<1>10. \A g, offset : FirstIn(code, g, offset) => FirstIn(code', g, offset)
    BY <1>2, HeldOn
<1>11. /\ \A i \in 1..m : FirstIn(code, fn_syms[i].key, fn_syms[i].at)
       /\ \A k \in 1..Len(code) : \E i \in 1..m : code[k].fn = fn_syms[i].key
       /\ (\E i \in 1..m : fn_syms[i].key = "main") => FirstIn(code, "main", entry_off)
    BY DEF SymsInv, m
<1>12. \A i \in 1..(m + 1) : FirstIn(code', fn_syms'[i].key, fn_syms'[i].at)
    BY <1>5, <1>6, <1>8, <1>9, <1>10, <1>11
<1>13. ASSUME NEW k \in 1..Len(code')
       PROVE  \E i \in 1..(m + 1) : code'[k].fn = fn_syms'[i].key
    <2>1. CASE k \in 1..Len(code)
        <3>1. code'[k] = code[k]
            BY <1>2, <2>1 DEF Extends
        <3>2. QED
            BY <1>6, <1>8, <1>11, <2>1, <3>1
    <2>2. CASE k \notin 1..Len(code)
        <3>1. k - Len(code) \in 1..(size + Len(body) + 1) /\ Len(code) + (k - Len(code)) = k
            BY <1>2, <2>2
        <3>2. code'[k].fn = f
            BY <1>2, <3>1
        <3>3. QED
            BY <1>5, <1>6, <1>8, <3>2
    <2>3. QED
        BY <2>1, <2>2
<1>14. (\E i \in 1..(m + 1) : fn_syms'[i].key = "main") => FirstIn(code', "main", entry_off')
    <2>1. CASE f = "main"
        BY <1>4, <1>9, <2>1
    <2>2. CASE f # "main"
        BY <1>4, <1>5, <1>6, <1>8, <1>10, <1>11, <2>2
    <2>3. QED
        BY <2>1, <2>2
<1>15. QED
    BY <1>6, <1>12, <1>13, <1>14 DEF SymsInv

LEMMA SymsStep ==
    ASSUME UnitsInv, StartedInv, CodeInv, TablesInv, NamesInv, SymsInv,
           [EmittersNext]_emitterVars
    PROVE  SymsInv'
<1>1. ASSUME UNCHANGED <<code, fn_syms, entry_off>> PROVE SymsInv'
    BY <1>1 DEF SymsInv
<1>2. ASSUME NEW f \in Functions, Begin(f) PROVE SymsInv'
    BY <1>1, <1>2 DEF Begin, BinBegin
<1>3. CASE EmitLink \/ LabelLink \/ IncludeLink \/ FileLink
    BY <1>1, <1>3 DEF EmitLink, LabelLink, IncludeLink, FileLink, LinkSame, EmitStep, BinAppend,
                      QuietStep, IncludeStep, FileStep
<1>4. CASE Write \/ FailLink \/ UNCHANGED emitterVars
    BY <1>1, <1>4 DEF Write, BinWrite, FailLink, binVars, emitterVars
<1>5. QED
    BY LinkKinds, <1>2, <1>3, <1>4, SymsEnd

-----------------------------------------------------------------------------
(* bin_emit *)

\* find_at finds an entry of its key, if there is one.
LEMMA Found ==
    ASSUME NEW table, Len(table) \in Nat, NEW key, Has(table, key)
    PROVE  \E i \in 1..Len(table) : table[i].key = key /\ FindAt(table, key) = table[i].at
<1> DEFINE S == {i \in 1..Len(table) : table[i].key = key}
<1>1. \E i \in S : \A j \in S : i =< j
    <2> DEFINE R == {ss \in Nat \X Nat : ss[1] < ss[2]}
    <2>1. IsWellFoundedOn(R, Nat)
        BY NatLessThanWellFounded, Zenon DEF OpToRel
    <2>2. S \subseteq Nat /\ S # {}
        BY DEF Has
    <2> HIDE DEF S, R
    <2>3. PICK i \in S : \A j \in S : <<j, i>> \notin R
        BY <2>1, <2>2, WFMin
    <2>4. \A j \in Nat : <<j, i>> \notin R => i =< j
        BY <2>2 DEF R
    <2>5. QED
        BY <2>2, <2>3, <2>4, Zenon
<1>2. Min(S) \in S
    <2> HIDE DEF S
    <2>1. QED
        BY <1>1 DEF Min
<1>3. QED
    BY <1>2 DEF FindAt

LinksLand == BranchesLand /\ CallsLand /\ EntryIsMain

\* The output is written when every function has ended.
LEMMA WriteLands ==
    ASSUME UnitsInv, LinksInv, NamesInv, SymsInv, Write
    PROVE  LinksLand'
<1>1. /\ Resolved /\ targets' = [i \in 1..Len(fixups) |-> Target(fixups[i])]
      /\ UNCHANGED <<code, labels, fixups, fn_syms, entry_off, begun>>
    BY DEF Write, BinWrite, EndProgram
<1>2. fns = <<>> /\ begun # {} /\ ~Placing
    <2>1. Len(fns) = Top(files).inside /\ Len(files) = 1 /\ begun # {}
        BY DEF Write, EndProgram, Compiling, InFile
    <2>2. Len(fns) = 0
        BY <2>1 DEF NamesInv, Top
    <2>3. QED
        BY <2>1, <2>2, TopFile DEF UnitsInv, Placing
<1>3. /\ \A i \in 1..Len(labels) :
            HoldsIn(code, labels[i].at, Code(labels[i].key[1], labels[i].line + 1))
      /\ \A i \in 1..Len(fixups) :
            /\ HoldsIn(code, fixups[i].at, Code(fixups[i].fn, fixups[i].line))
            /\ FixupKey(fixups[i])
    BY <1>2, AllPlaced DEF LinksInv, LabelsInv, FixupsInv, LabelAt, FixupAt
<1>4. Len(labels) \in Nat /\ Len(fn_syms) \in Nat
    BY DEF LinksInv, TablesInv
<1>5. \A offset, instr : Holds(offset, instr)' <=> HoldsIn(code, offset, instr)
    BY <1>1 DEF Holds, InCode, HoldsIn
<1>6. \A f, offset : FirstOf(f, offset)' <=> FirstIn(code, f, offset)
    BY <1>1 DEF FirstOf, InCode, FirstIn
<1>7. BranchesLand'
    <2> SUFFICES ASSUME NEW i \in 1..Len(fixups), fixups[i].kind = "branch"
                 PROVE  /\ HoldsIn(code, fixups[i].at, Code(fixups[i].fn, fixups[i].line))
                        /\ \E j \in 1..Len(labels) :
                              /\ labels[j].key = fixups[i].key
                              /\ HoldsIn(code, targets'[i], Code(fixups[i].fn, labels[j].line + 1))
        BY <1>1, <1>5 DEF BranchesLand
    <2>1. targets'[i] = FindAt(labels, fixups[i].key) /\ Has(labels, fixups[i].key)
        BY <1>1 DEF Target, Resolved
    <2>2. PICK j \in 1..Len(labels) :
             labels[j].key = fixups[i].key /\ targets'[i] = labels[j].at
        BY <1>4, <2>1, Found
    <2>3. fixups[i].key[1] = fixups[i].fn
        BY <1>3 DEF FixupKey
    <2>4. QED
        BY <1>3, <2>2, <2>3
<1>8. CallsLand'
    <2> SUFFICES ASSUME NEW i \in 1..Len(fixups), fixups[i].kind = "call"
                 PROVE  /\ HoldsIn(code, fixups[i].at, Code(fixups[i].fn, fixups[i].line))
                        /\ IF fixups[i].key \in begun
                           THEN FirstIn(code, fixups[i].key, targets'[i])
                           ELSE targets'[i] = Import
        BY <1>1, <1>5, <1>6 DEF CallsLand
    <2> DEFINE key == fixups[i].key
    <2>1. targets'[i] = IF Has(fn_syms, key) THEN FindAt(fn_syms, key) ELSE Import
        BY <1>1 DEF Target
    <2>2. Has(fn_syms, key) <=> key \in begun
        BY <1>2 DEF NamesInv, Has
    <2>3. ASSUME Has(fn_syms, key) PROVE FirstIn(code, key, targets'[i])
        <3>1. PICK j \in 1..Len(fn_syms) :
                 fn_syms[j].key = key /\ FindAt(fn_syms, key) = fn_syms[j].at
            BY <1>4, <2>3, Found
        <3>2. QED
            BY <2>1, <2>3, <3>1 DEF SymsInv
    <2>4. QED
        BY <1>3, <2>1, <2>2, <2>3
<1>9. EntryIsMain'
    <2>1. \E i \in 1..Len(fn_syms) : fn_syms[i].key = "main"
        BY <1>2 DEF NamesInv
    <2>2. QED
        BY <1>1, <1>6, <2>1 DEF EntryIsMain, SymsInv
<1>10. QED
    BY <1>7, <1>8, <1>9 DEF LinksLand

\* Nothing changes in what is written.
LEMMA LandStep ==
    ASSUME UnitsInv, StartedInv, LinksInv, NamesInv, SymsInv, LinksLand,
           [EmittersNext]_emitterVars
    PROVE  LinksLand'
<1>1. ASSUME state' # "written" PROVE LinksLand'
    BY <1>1 DEF LinksLand, BranchesLand, CallsLand, EntryIsMain, Written
<1>2. ASSUME NEW f \in Functions, Begin(f) PROVE state' # "written"
    BY <1>2 DEF Begin, BeginFunction, Compiling, InFile
<1>3. ASSUME NEW size \in 0..MaxPrologue, End(size) PROVE state' # "written"
    BY <1>3 DEF End, EndFunction, InFunction
<1>4. CASE EmitLink \/ LabelLink \/ IncludeLink \/ FileLink \/ FailLink
    BY <1>1, <1>4 DEF EmitLink, LabelLink, IncludeLink, FileLink, FailLink, LinkSame
<1>5. CASE UNCHANGED emitterVars
    BY <1>5 DEF LinksLand, BranchesLand, CallsLand, EntryIsMain, Written, Holds, FirstOf, InCode,
                emitterVars, vars, binVars
<1>6. QED
    BY LinkKinds, WriteLands, <1>1, <1>2, <1>3, <1>4, <1>5

LinkageInv ==
    /\ UnitsInv /\ NestInv /\ SilentInv /\ CodeInv
    /\ StartedInv /\ LinksInv /\ NamesInv /\ SymsInv /\ LinksLand

LEMMA LinkageInit == EmittersInit => LinkageInv
<1> SUFFICES ASSUME EmittersInit PROVE LinkageInv
    OBVIOUS
<1>1. /\ fns = <<>> /\ files = <<File(0, FALSE)>> /\ begun = {} /\ state = "running"
      /\ code = <<>> /\ body = <<>> /\ labels = <<>> /\ fixups = <<>> /\ fn_syms = <<>>
      /\ entry_off = 0
    BY DEF EmittersInit, Init, BinInit
<1>2. UnitsInv
    BY InitialUnits DEF EmittersInit
<1>3. NestInv /\ SilentInv /\ CodeInv /\ StartedInv
    BY <1>1 DEF NestInv, SilentInv, CodeInv, StartedInv, Top, File
<1>4. LinksInv /\ SymsInv
    BY <1>1 DEF LinksInv, TablesInv, LabelsInv, FixupsInv, SymsInv
<1>5. NamesInv
    BY <1>1, FS_EmptySet DEF NamesInv, File
<1>6. LinksLand
    BY <1>1 DEF LinksLand, BranchesLand, CallsLand, EntryIsMain, Written
<1>7. QED
    BY <1>2, <1>3, <1>4, <1>5, <1>6 DEF LinkageInv

LEMMA LinkageStep ==
    ASSUME ~Late, LinkageInv, [EmittersNext]_emitterVars
    PROVE  LinkageInv'
<1> USE DEF LinkageInv
<1>1. UnitsInv'
    BY UnitsStep
<1>2. NestInv' /\ SilentInv' /\ CodeInv'
    BY CodeStep
<1>3. StartedInv' /\ LinksInv'
    BY StartedStep, LinksStep
<1>4. NamesInv' /\ SymsInv' /\ LinksLand'
    BY NamesStep, SymsStep, LandStep DEF LinksInv
<1>5. QED
    BY <1>1, <1>2, <1>3, <1>4

\* The links of the machine code, under the same condition as its pieces.
LEMMA Linkage == ASSUME ~Late PROVE EmittersSpec => []LinkageInv
<1>1. LinkageInv /\ [EmittersNext]_emitterVars => LinkageInv'
    BY LinkageStep
<1>2. QED
    BY <1>1, LinkageInit, PTL DEF EmittersSpec

\* In the written code every branch goes to the instruction that follows its label
\* in its own function, and it is the branch whose target was filled in, if every
\* `#compile_all` comes before the other lines of its function.
THEOREM BranchesSound == ASSUME ~Late PROVE EmittersSpec => []BranchesLand
<1>1. LinkageInv => BranchesLand
    BY DEF LinkageInv, LinksLand
<1>2. QED
    BY <1>1, Linkage, PTL

\* In the written code a call of a function that some file defines goes to the
\* function's first instruction, and the other calls are left to the linker.
THEOREM CallsSound == ASSUME ~Late PROVE EmittersSpec => []CallsLand
<1>1. LinkageInv => CallsLand
    BY DEF LinkageInv, LinksLand
<1>2. QED
    BY <1>1, Linkage, PTL

\* The written program starts at main, wherever its code ends up.
THEOREM EntrySound == ASSUME ~Late PROVE EmittersSpec => []EntryIsMain
<1>1. LinkageInv => EntryIsMain
    BY DEF LinkageInv, LinksLand
<1>2. QED
    BY <1>1, Linkage, PTL

-----------------------------------------------------------------------------
(* Types and limits *)

SizesInv ==
    /\ locals \in Functions /\ state \in {"running", "written", "error"}
    /\ Len(contexts) <= MaxContexts
    /\ Len(code) <= CodeCap /\ Len(body) <= CodeCap
    /\ Len(labels) <= LabelCap /\ Len(fixups) <= FixupCap
    /\ entry_off \in 0..CodeCap

\* An emitter that puts out an instruction or notes a label has room for it.
LEMMA Appends ==
    ASSUME UnitsInv, CodeInv, LinksInv, SizesInv,
           UNCHANGED <<locals, state, contexts, code, entry_off>>,
           body' = body \/ (Len(body) < CodeCap /\ \E e : body' = Append(body, e)),
           labels' = labels \/ (Len(labels) < LabelCap /\ \E e : labels' = Append(labels, e)),
           fixups' = fixups \/ (Len(fixups) < FixupCap /\ \E e : fixups' = Append(fixups, e))
    PROVE  SizesInv'
<1>1. Len(body) \in Nat /\ Len(labels) \in Nat /\ Len(fixups) \in Nat
    BY BodyFacts DEF LinksInv, TablesInv
<1>2. CodeCap \in Nat /\ LabelCap \in Nat /\ FixupCap \in Nat
    BY CapsAssumption
<1>3. Len(body') <= CodeCap /\ Len(labels') <= LabelCap /\ Len(fixups') <= FixupCap
    BY <1>1, <1>2, BodyFacts DEF SizesInv, LinksInv, TablesInv
<1>4. QED
    BY <1>3 DEF SizesInv

LEMMA SizesStep ==
    ASSUME UnitsInv, TextInv, CodeInv, LinksInv, SizesInv, [EmittersNext]_emitterVars
    PROVE  SizesInv'
<1>1. Len(code) \in Nat /\ Len(contexts) = Len(fns) /\ Len(fns) \in Nat
    BY DEF CodeInv, TextInv, UnitsInv
<1>2. ASSUME NEW f \in Functions, Begin(f) PROVE SizesInv'
    <2>1. /\ locals' = f /\ state' = state /\ Len(contexts) < MaxContexts
          /\ contexts' = Append(contexts, context) /\ body' = <<>>
          /\ UNCHANGED <<code, labels, fixups, entry_off>>
        BY <1>2 DEF Begin, BeginFunction, TextBegin, BinBegin
    <2>2. Len(contexts') <= MaxContexts
        BY <1>1, <2>1, ContextsAssumption DEF TextInv
    <2>3. 0 <= CodeCap
        BY CapsAssumption
    <2>4. QED
        BY <2>1, <2>2, <2>3 DEF SizesInv
<1>3. ASSUME EmitInstruction \/ EmitReturn \/ EmitOpenBlock
             \/ (\E f \in Declared : EmitCall(f)) \/ (\E label \in LabelNames : EmitGoto(label))
      PROVE  SizesInv'
    <2>1. /\ BinEmit \/ \E kind, key : BinEmitFixup(kind, key)
          /\ UNCHANGED <<locals, state>> /\ TextEmit
        BY <1>3 DEF EmitInstruction, EmitCall, EmitGoto, EmitReturn, EmitOpenBlock, Call, Goto,
                    Instruction, Return, OpenBlock, BinCall, BinBranch
    <2>2. contexts' = contexts
        BY <2>1 DEF TextEmit
    <2>3. CASE BinEmit
        BY <2>1, <2>2, <2>3, Appends DEF BinEmit
    <2>4. CASE \E kind, key : BinEmitFixup(kind, key)
        BY <2>1, <2>2, <2>4, Appends DEF BinEmitFixup
    <2>5. QED
        BY <2>1, <2>3, <2>4
<1>4. ASSUME EmitCloseBlock \/ \E label \in LabelNames : EmitLabel(label)
      PROVE  SizesInv'
    <2>1. /\ \E label, x : BinLabel(label, x)
          /\ UNCHANGED <<locals, state, textVars>>
        BY <1>4 DEF EmitCloseBlock, EmitLabel, CloseBlock, SetLabel
    <2>2. QED
        BY <2>1, Appends DEF BinLabel, textVars
<1>5. CASE Files \/ UNCHANGED emitterVars
    <2>1. UNCHANGED <<locals, state, textVars, binVars>>
        BY <1>5 DEF Files, Include, IncludeSkipping, EndSkip, EndFile, emitterVars, vars
    <2>2. QED
        BY <2>1 DEF SizesInv, textVars, binVars
<1>6. ASSUME NEW size \in 0..MaxPrologue, End(size) PROVE SizesInv'
    <2>1. /\ EndFunction /\ BinEnd(size) /\ TextEnd(size) /\ UNCHANGED <<locals, state>>
        BY <1>6 DEF End, EndFunction
    <2>2. /\ Len(code') = Len(code) + size + Len(body) + 1 /\ size \in Nat
          /\ Len(code) + size + Len(body) + 1 <= CodeCap /\ body' = <<>>
          /\ Current.branched => Len(labels) < LabelCap
        BY <2>1, EndCode DEF BinEnd
    <2>3. entry_off' \in {Len(code), entry_off} /\ Len(code) <= CodeCap
          /\ CodeCap \in Nat
        BY <2>1, CapsAssumption DEF BinEnd, Entry, SizesInv
    <2>4. Len(fns) \in Nat \ {0} /\ contexts # <<>>
        BY <1>1, <2>1, EndKeeps
    <2>5. contexts' = Front(contexts) /\ Len(contexts') <= MaxContexts
        <3>1. contexts' = Front(contexts)
            BY <2>1, <2>4 DEF TextEnd
        <3>2. contexts \in Seq(Nat)
            BY <1>1, <2>4 DEF TextInv
        <3>3. Len(contexts') = Len(contexts) - 1
            BY <2>4, <3>1, <3>2, FrontStack
        <3>4. QED
            BY <1>1, <3>1, <3>3, ContextsAssumption DEF SizesInv
    <2>6. Len(labels') <= LabelCap /\ Len(fixups') <= FixupCap
        <3> DEFINE ret == Label(Key(Current.fn, "ret", 0))
                   table == IF Current.branched THEN Append(labels, ret) ELSE labels
        <3>1. labels' = Place(table, Len(code) + size) /\ fixups' = Place(fixups, Len(code) + size)
            BY <2>1 DEF BinEnd
        <3>2. Len(labels) \in Nat /\ Len(fixups) \in Nat /\ LabelCap \in Nat
              /\ labels \in Seq(LabelRecord)
            BY CapsAssumption DEF LinksInv, TablesInv
        <3>3. Len(table) \in Nat /\ Len(table) <= LabelCap
            <4> HIDE DEF ret
            <4>1. Len(Append(labels, ret)) = Len(labels) + 1
                BY <3>2
            <4>2. QED
                BY <2>2, <3>2, <4>1 DEF SizesInv
        <3> HIDE DEF table
        <3>4. Len(labels') = Len(table) /\ Len(fixups') = Len(fixups)
            <4>1. \A t, delta : Len(t) \in Nat => Len(Place(t, delta)) = Len(t)
                BY DEF Place
            <4>2. QED
                BY <3>1, <3>2, <3>3, <4>1
        <3>5. QED
            BY <3>3, <3>4 DEF SizesInv
    <2>7. Len(code') <= CodeCap /\ Len(body') <= CodeCap
        BY <2>2, <2>3
    <2>8. entry_off' \in 0..CodeCap
        BY <1>1, <2>3 DEF SizesInv
    <2>9. QED
        BY <2>1, <2>5, <2>6, <2>7, <2>8 DEF SizesInv
<1>7. CASE Write \/ Diagnose \/ Done
    <2>1. /\ state' \in {"running", "written", "error"}
          /\ UNCHANGED <<locals, textVars, body, code, labels, fixups, entry_off>>
        <3>1. CASE Write
            BY <3>1 DEF Write, EndProgram, BinWrite
        <3>2. CASE Diagnose
            BY <3>2 DEF Diagnose, Fail, binVars
        <3>3. CASE Done
            BY <3>3 DEF Done, emitterVars, vars, binVars, SizesInv
        <3>4. QED
            BY <1>7, <3>1, <3>2, <3>3
    <2>2. QED
        BY <2>1 DEF SizesInv, textVars
<1>8. QED
    BY <1>2, <1>3, <1>4, <1>5, <1>6, <1>7 DEF EmittersNext

LEMMA TypesHold ==
    ASSUME UnitsInv, TextInv, CodeInv, LinksInv, NamesInv, SizesInv
    PROVE  TypeOK
<1>1. /\ Len(fns) \in Nat /\ Len(bufs) = Len(fns) /\ Len(OpenFunctions) = Len(fns)
      /\ context = Len(fns) /\ contexts = [i \in 1..Len(fns) |-> i - 1]
    BY DEF UnitsInv, TextInv, OpenFunctions
<1>2. contexts \in Seq(0..Len(bufs))
    <2>1. \A i \in 1..Len(fns) : i - 1 \in 0..Len(fns)
        BY <1>1
    <2>2. QED
        BY <1>1, <2>1
<1>3. Len(code) \in Nat /\ Len(body) \in Nat /\ CodeCap \in Nat
    BY BodyFacts, CapsAssumption DEF CodeInv
<1>4. ASSUME NEW at, at \in 0..(Len(code) - 1) \/ at \in 0..Len(body) PROVE at \in 0..CodeCap
    BY <1>3, <1>4 DEF SizesInv
<1>5. \A i \in 1..Len(labels) : labels[i].at \in 0..CodeCap
    BY <1>4 DEF LinksInv, LabelsInv, LabelAt, HoldsIn, InBody
<1>6. \A i \in 1..Len(fixups) : fixups[i].at \in 0..CodeCap
    <2>1. \A at \in 0..(Len(body) - 1) : at \in 0..Len(body)
        BY <1>3
    <2>2. QED
        BY <1>4, <2>1 DEF LinksInv, FixupsInv, FixupAt, HoldsIn, InLine
<1>7. Len(fn_syms) <= LabelCap
    BY SymbolRoom DEF LinksInv
<1>8. begun \subseteq Functions /\ context \in 0..Len(bufs)
    BY <1>1 DEF NamesInv
<1>9. QED
    BY <1>1, <1>2, <1>5, <1>6, <1>7, <1>8 DEF TypeOK, SizesInv

\* The types of the driver and of both emitters.  No table grows past its
\* capacity, and no offset leaves the code, under the condition of CodeSound.
THEOREM EmitterTypes == ASSUME ~Late PROVE EmittersSpec => []TypeOK
<1>1. EmittersInit => TextInv /\ SizesInv
    BY CapsAssumption, ContextsAssumption
       DEF EmittersInit, Init, TextInit, BinInit, TextInv, SizesInv, Functions
<1>2. LinkageInv /\ TextInv /\ SizesInv /\ [EmittersNext]_emitterVars
         => TextInv' /\ SizesInv'
    BY TextStep, SizesStep DEF LinkageInv
<1>3. LinkageInv /\ TextInv /\ SizesInv => TypeOK
    BY TypesHold DEF LinkageInv
<1>4. QED
    BY <1>1, <1>2, <1>3, Linkage, PTL DEF EmittersSpec
=============================================================================
