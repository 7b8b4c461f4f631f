---------------------------- MODULE ParserProofs ----------------------------
(* Proofs about the parser of blocks and the checks of flow, for every set of *)
(* names, every register file and every program shape.  Of Blocks: the types  *)
(* of the parser's state, the discipline of named registers, the saving of    *)
(* the caller's registers; that when a line is parsed the tables and the      *)
(* pending blocks are those that enclose it, a pending declaration's target   *)
(* is its own entry, and the parser implements LexicalBlocks.  Of Flow: there *)
(* is one join for each open block, a function whose last line is a `ret` of  *)
(* its body returns on every path, and a read of a register that some path    *)
(* has not assigned is diagnosed but for two kinds of names.                  *)
EXTENDS Flow, SequenceTheorems, FiniteSetTheorems, TLAPS

-----------------------------------------------------------------------------
(* Sequences: what popping a stack and writing a name table leave alone. *)

\* Front, the pop of every stack of the parser, keeps what lies below the top.
LEMMA FrontSeq ==
    ASSUME NEW S, NEW s \in Seq(S)
    PROVE  /\ Front(s) \in Seq(S)
           /\ s # <<>> => Len(Front(s)) = Len(s) - 1
           /\ \A i \in 1..(Len(s) - 1) : Front(s)[i] = s[i]
<1>1. CASE s = <<>>
    BY <1>1 DEF Front
<1>2. CASE s # <<>>
    <2>1. Len(s) \in Nat \ {0}
        BY <1>2
    <2>2. \A i \in 1..(Len(s) - 1) : s[i] \in S
        BY <2>1
    <2>3. Front(s) \in Seq(S) /\ Len(Front(s)) = Len(s) - 1
        <3>1. Len(s) - 1 \in Int
            BY <2>1
        <3>2. /\ SubSeq(s, 1, Len(s) - 1) \in Seq(S)
              /\ Len(SubSeq(s, 1, Len(s) - 1)) =
                    IF 1 <= Len(s) - 1 THEN Len(s) - 1 - 1 + 1 ELSE 0
            BY <2>2, <3>1, SubSeqProperties
        <3>3. \A l \in Nat \ {0} : (IF 1 <= l - 1 THEN l - 1 - 1 + 1 ELSE 0) = l - 1
            OBVIOUS
        <3>4. Len(SubSeq(s, 1, Len(s) - 1)) = Len(s) - 1
            BY <2>1, <3>2, <3>3, Zenon
        <3>5. QED
            BY <3>2, <3>4, Zenon DEF Front
    <2>4. \A i \in 1..(Len(s) - 1) : SubSeq(s, 1, Len(s) - 1)[i] = s[i]
        BY <2>1
    <2>5. QED
        BY <2>3, <2>4 DEF Front
<1>3. QED
    BY <1>1, <1>2

\* overwrite_id changes one entry of one table.
LEMMA WriteEntry ==
    ASSUME NEW s \in Seq(Scope), NEW k \in 1..Len(s), NEW n \in Names, NEW b \in Entry
    PROVE  LET t == [s EXCEPT ![k][n] = b]
           IN /\ t \in Seq(Scope)
              /\ Len(t) = Len(s)
              /\ \A i \in 1..Len(s), m \in Names :
                    t[i][m] = IF i = k /\ m = n THEN b ELSE s[i][m]
<1> DEFINE t == [s EXCEPT ![k][n] = b]
<1>1. s[k] \in Scope
    OBVIOUS
<1>2. [s[k] EXCEPT ![n] = b] \in Scope
    BY <1>1 DEF Scope
<1>3. t = [s EXCEPT ![k] = [s[k] EXCEPT ![n] = b]]
    OBVIOUS
<1>4. t \in Seq(Scope) /\ Len(t) = Len(s)
    BY <1>2, <1>3
<1>5. \A i \in 1..Len(s), m \in Names :
         t[i][m] = IF i = k /\ m = n THEN b ELSE s[i][m]
    BY <1>1, <1>3 DEF Scope
<1>6. QED
    BY <1>4, <1>5

-----------------------------------------------------------------------------
(* Types *)

\* What the types need of the stacks: local_ids is never empty, and the
\* outermost call of parse_block is that of function().
TypeInv ==
    /\ TypeOK
    /\ scopes # <<>>
    /\ frames # <<>>
    /\ frames[1].kind = "function"

LEMMA InitTypeInv == Init => TypeInv
<1> SUFFICES ASSUME Init PROVE TypeInv
    OBVIOUS
<1>1. EmptyScope \in Scope
    BY DEF EmptyScope, Scope, Entry, Free
<1>2. [kind |-> "function", block_indent |-> Unset] \in Frame
    BY DEF Frame
<1>3. base \in {0, 1} /\ cur_indent \in Levels /\ indent \in Levels
    BY LevelAssumption DEF Init, Levels
<1>4. frames \in Seq(Frame) /\ frames # <<>> /\ frames[1].kind = "function"
    BY <1>2 DEF Init
<1>5. scopes \in Seq(Scope) /\ scopes # <<>>
    BY <1>1 DEF Init
<1>6. nreg_mark \in Seq(Nat) /\ targets \in Seq(Target)
    BY DEF Init
<1>7. phase \in Phases /\ eob \in {"NONE", "SOB", "EOB"}
    BY DEF Init, Phases, Terminal
<1>8. QED
    BY <1>3, <1>4, <1>5, <1>6, <1>7 DEF Init, TypeInv, TypeOK

\* The lexer's variables after a line.
LEMMA ReadLineTypes ==
    ASSUME TypeInv, NEW next \in Levels, NEW rest \in BOOLEAN, ReadLine(next, rest)
    PROVE  /\ cur_indent' \in Levels /\ indent' \in Levels
           /\ eob' \in {"NONE", "SOB", "EOB"} /\ more' \in BOOLEAN
BY DEF TypeInv, TypeOK, ReadLine

\* Parsing a line only sets the block_indent of the innermost frame.
LEMMA SeenFrames ==
    ASSUME TypeInv
    PROVE  /\ Seen \in Seq(Frame) /\ Seen # <<>> /\ Len(Seen) = Len(frames)
           /\ \A i \in 1..Len(frames) : Seen[i].kind = frames[i].kind
<1> DEFINE f == frames[Len(frames)]
           g == [f EXCEPT !.block_indent = IF @ = Unset THEN indent ELSE @]
<1>1. frames \in Seq(Frame) /\ Len(frames) \in Nat \ {0} /\ indent \in Levels
    BY DEF TypeInv, TypeOK
<1>2. f \in Frame
    BY <1>1
<1>3. g \in Frame /\ g.kind = f.kind
    BY <1>1, <1>2 DEF Frame
<1>4. Seen = [frames EXCEPT ![Len(frames)] = g]
    BY DEF Seen
<1>5. QED
    BY <1>1, <1>3, <1>4

\* A line in its block keeps the types of everything but the names, registers
\* and targets that its own handler changes.
LEMMA LineTypes ==
    ASSUME TypeInv, NEW next \in Levels, NEW rest \in BOOLEAN,
           Line(next, rest), ended' \in BOOLEAN, returns_on_exit' \in BOOLEAN,
           scopes' \in Seq(Scope), scopes' # <<>>,
           nreg_count' \in Nat, max_nreg_count' \in Nat, nreg_mark' \in Seq(Nat),
           targets' \in Seq(Target), written' \in SUBSET Nat
    PROVE  TypeInv'
<1>1. frames' = Seen /\ phase' = "parsed" /\ base' = base /\ saved' = saved
    BY DEF Line
<1>2. frames' \in Seq(Frame) /\ frames' # <<>> /\ frames'[1].kind = "function"
    <2>1. 1 \in 1..Len(frames)
        BY DEF TypeInv, TypeOK
    <2>2. Seen[1].kind = "function"
        BY <2>1, SeenFrames DEF TypeInv
    <2>3. QED
        BY <1>1, <2>2, SeenFrames
<1>3. phase' \in Phases
    BY <1>1 DEF Phases
<1>4. QED
    BY <1>1, <1>2, <1>3, ReadLineTypes DEF Line, TypeInv, TypeOK

\* The same for a line that opens a block.
LEMMA OpenTypes ==
    ASSUME TypeInv, NEW next \in Levels, NEW kind \in {"branch", "decl"},
           Open(kind, next), ended' \in BOOLEAN, returns_on_exit' \in BOOLEAN,
           scopes' \in Seq(Scope), scopes' # <<>>,
           nreg_count' \in Nat, max_nreg_count' \in Nat, nreg_mark' \in Seq(Nat),
           targets' \in Seq(Target), written' \in SUBSET Nat
    PROVE  TypeInv'
<1> DEFINE f == [kind |-> kind, block_indent |-> Unset]
<1>1. /\ frames' = Append(Seen, f)
      /\ phase' = "loop" /\ base' = base /\ saved' = saved
    BY DEF Open
<1>2. f \in Frame
    BY DEF Frame
<1>3. frames' \in Seq(Frame) /\ frames' # <<>> /\ frames'[1].kind = "function"
    <2>1. Len(frames) \in Nat \ {0}
        BY DEF TypeInv, TypeOK
    <2>2. 1 \in 1..Len(Seen) /\ Seen[1].kind = "function" /\ Seen \in Seq(Frame)
        BY <2>1, SeenFrames DEF TypeInv
    <2>3. Append(Seen, f)[1] = Seen[1]
        BY <2>2
    <2>4. QED
        BY <1>1, <1>2, <2>2, <2>3
<1>4. phase' \in Phases
    BY <1>1 DEF Phases
<1>5. QED
    BY <1>1, <1>3, <1>4, ReadLineTypes DEF Open, TypeInv, TypeOK

\* A declaration keeps the tables' type, and changes one entry of the innermost.
LEMMA DeclareTypes ==
    ASSUME TypeInv, NEW n \in Names, NEW b \in Entry, Declare(n, b)
    PROVE  /\ scopes' \in Seq(Scope) /\ Len(scopes') = Len(scopes) /\ scopes' # <<>>
           /\ \A i \in 1..Len(scopes), m \in Names :
                 scopes'[i][m] = IF i = Len(scopes) /\ m = n THEN b ELSE scopes[i][m]
<1>1. scopes \in Seq(Scope) /\ Len(scopes) \in 1..Len(scopes)
    BY DEF TypeInv, TypeOK
<1>2. QED
    BY <1>1, WriteEntry DEF Declare

LEMMA EntryWidth ==
    ASSUME NEW e \in Entry, NEW w \in -1..2
    PROVE  /\ [e EXCEPT !.w = w] \in Entry
           /\ [e EXCEPT !.w = w].off = e.off
           /\ [e EXCEPT !.w = w].w = w
BY DEF Entry

LEMMA WriteTypes ==
    ASSUME TypeInv, NEW b \in Entry, Write(b)
    PROVE  written' \in SUBSET Nat
<1>1. b.off \in Nat /\ b.w \in -1..2
    BY DEF Entry
<1>2. Regs(b) \subseteq Nat
    BY <1>1 DEF Regs
<1>3. QED
    BY <1>2 DEF TypeInv, TypeOK, Write

LEMMA FreshTypes ==
    ASSUME TypeInv, NEW w \in {1, 2}
    PROVE  /\ FreshReg(w) \in Entry
           /\ AddNreg(w) => nreg_count' \in Nat /\ max_nreg_count' \in Nat
                            /\ nreg_mark' \in Seq(Nat)
BY DEF TypeInv, TypeOK, FreshReg, Entry, AddNreg, Larger

\* Assigning to the innermost declaration.
LEMMA AssignedTypes ==
    ASSUME TypeInv, targets # <<>>, NEW b \in Entry, Assigned(Top(targets), b)
    PROVE  /\ targets' \in Seq(Target) /\ Len(targets') = Len(targets)
           /\ \A i \in 1..Len(targets) :
                 targets'[i].reg = IF i = Len(targets) THEN b ELSE targets[i].reg
           /\ scopes' \in Seq(Scope) /\ scopes' # <<>>
<1> DEFINE t == Top(targets)
           u == [t EXCEPT !.reg = b, !.assigned = TRUE]
<1>1. targets \in Seq(Target) /\ Len(targets) \in 1..Len(targets)
    BY DEF TypeInv, TypeOK
<1>2. t \in Target
    BY <1>1 DEF Top
<1>3. u \in Target /\ u.reg = b
    BY <1>2 DEF Target
<1>4. targets' = [targets EXCEPT ![Len(targets)] = u]
    BY DEF Assigned, Top
<1>5. scopes' \in Seq(Scope) /\ scopes' # <<>>
    <2>1. scopes \in Seq(Scope) /\ scopes # <<>>
        BY DEF TypeInv, TypeOK
    <2>2. CASE t.scope \in 1..Len(scopes)
        <3>1. t.name \in Names
            BY <1>2 DEF Target
        <3> DEFINE changed == [scopes EXCEPT ![t.scope][t.name] = b]
        <3>2. changed \in Seq(Scope) /\ Len(changed) = Len(scopes)
            BY <2>1, <2>2, <3>1, WriteEntry
        <3>3. changed # <<>>
            BY <2>1, <3>2
        <3>4. scopes' = IF TargetLive(t) THEN changed ELSE scopes
            BY DEF Assigned
        <3>5. QED
            BY <2>1, <3>2, <3>3, <3>4
    <2>3. CASE t.scope \notin 1..Len(scopes)
        <3>1. ~TargetLive(t)
            BY <1>2, <2>1, <2>3 DEF TargetLive, Target
        <3>2. QED
            BY <2>1, <3>1 DEF Assigned
    <2>4. QED
        BY <2>2, <2>3
<1>6. QED
    BY <1>1, <1>3, <1>4, <1>5

LEMMA NextTypeInv == TypeInv /\ [Next]_vars => TypeInv'
<1> SUFFICES ASSUME TypeInv, [Next]_vars PROVE TypeInv'
    OBVIOUS
<1> USE DEF TypeInv, TypeOK
<1>1. ASSUME NEW n \in Names, NEW w \in Widths, Param(n, w) PROVE TypeInv'
    <2>1. w \in {1, 2}
        BY WidthAssumption
    <2>2. written' \in SUBSET Nat
        BY <1>1, <2>1, FreshTypes, WriteTypes DEF Param
    <2>3. scopes' \in Seq(Scope) /\ scopes' # <<>>
        BY <1>1, <2>1, FreshTypes, DeclareTypes DEF Param
    <2>4. nreg_count' \in Nat /\ max_nreg_count' \in Nat /\ nreg_mark' \in Seq(Nat)
        BY <1>1, <2>1, FreshTypes DEF Param
    <2>5. QED
        BY <1>1, <2>2, <2>3, <2>4 DEF Param, lexer
<1>2. ASSUME BeginBody PROVE TypeInv'
    BY <1>2 DEF BeginBody, lexer, registers, Phases
<1>3. ASSUME StartOfBlock PROVE TypeInv'
    <2>1. EmptyScope \in Scope
        BY DEF EmptyScope, Scope, Entry, Free
    <2>2. /\ scopes' \in Seq(Scope) /\ scopes' # <<>>
          /\ nreg_mark' \in Seq(Nat) /\ phase' \in Phases
        <3>1. CASE Len(scopes) = MaxDepth
            BY <1>3, <3>1 DEF StartOfBlock, Phases, Terminal
        <3>2. CASE Len(scopes) # MaxDepth
            <4>1. /\ scopes' = Append(scopes, EmptyScope)
                  /\ nreg_mark' = Append(nreg_mark, nreg_count)
                  /\ phase' = "line"
                BY <1>3, <3>2 DEF StartOfBlock
            <4>2. scopes' \in Seq(Scope) /\ Len(scopes') = Len(scopes) + 1
                BY <2>1, <4>1
            <4>3. scopes' # <<>>
                BY <4>2
            <4>4. nreg_mark' \in Seq(Nat) /\ phase' \in Phases
                BY <4>1 DEF Phases
            <4>5. QED
                BY <4>2, <4>3, <4>4
        <3>3. QED
            BY <3>1, <3>2
    <2>3. QED
        BY <1>3, <2>2 DEF StartOfBlock, lexer
<1>4. ASSUME NextLine PROVE TypeInv'
    BY <1>4 DEF NextLine, lexer, registers, Phases
<1>5. ASSUME NEW next \in Levels, NEW rest \in BOOLEAN, LineStep(next, rest)
      PROVE  TypeInv'
    <2>1. CASE Plain(next, rest) \/ RetIf(next, rest)
        BY <2>1, LineTypes DEF Plain, RetIf, Ends, EndsBody, registers
    <2>2. CASE Ret(next, rest)
        BY <2>2, LineTypes DEF Ret, EndsBody, registers
    <2>3. ASSUME NEW n \in Names, NEW w \in Widths, Let(n, w, next, rest)
          PROVE  TypeInv'
        <3>1. w \in {1, 2}
            BY WidthAssumption
        <3>2. written' \in SUBSET Nat
            BY <2>3, <3>1, FreshTypes, WriteTypes DEF Let
        <3>3. scopes' \in Seq(Scope) /\ scopes' # <<>>
            BY <2>3, <3>1, FreshTypes, DeclareTypes DEF Let
        <3>4. nreg_count' \in Nat /\ max_nreg_count' \in Nat /\ nreg_mark' \in Seq(Nat)
            BY <2>3, <3>1, FreshTypes DEF Let
        <3>5. QED
            BY <2>3, <3>2, <3>3, <3>4, LineTypes DEF Let, Ends, EndsBody
    <2>4. ASSUME NEW n \in Names, LetStack(n, next, rest) PROVE TypeInv'
        <3>1. StackEntry \in Entry
            BY DEF StackEntry, Entry
        <3>2. scopes' \in Seq(Scope) /\ scopes' # <<>>
            BY <2>4, <3>1, DeclareTypes DEF LetStack
        <3>3. QED
            BY <2>4, <3>2, LineTypes DEF LetStack, Ends, EndsBody, registers
    <2>5. ASSUME NEW n \in Names, AssignTo(n, next, rest) PROVE TypeInv'
        <3>1. PICK i \in 1..Len(scopes) : Write([scopes[i][n] EXCEPT !.w = 1])
            BY <2>5 DEF AssignTo
        <3>2. scopes[i][n] \in Entry
            BY DEF Scope
        <3>3. [scopes[i][n] EXCEPT !.w = 1] \in Entry
            <4>1. 1 \in -1..2
                OBVIOUS
            <4>2. QED
                BY <3>2, <4>1, EntryWidth
        <3>4. written' \in SUBSET Nat
            BY <3>1, <3>3, WriteTypes
        <3>5. QED
            BY <2>5, <3>4, LineTypes DEF AssignTo, Ends, EndsBody, registers
    <2>6. ASSUME NEW w \in BlockWidths, Assign(w, next, rest) PROVE TypeInv'
        <3> DEFINE t == Top(targets)
                   b == [t.reg EXCEPT !.w = IF t.assigned THEN @ ELSE w]
        <3>1. targets # <<>> /\ Write([b EXCEPT !.w = 1]) /\ Assigned(t, b)
            BY <2>6 DEF Assign
        <3>2. t \in Target
            BY <3>1 DEF Top
        <3>3. b \in Entry /\ [b EXCEPT !.w = 1] \in Entry
            <4>1. w \in {1, 2}
                BY WidthAssumption
            <4>2. t.reg \in Entry
                BY <3>2 DEF Target
            <4>3. (IF t.assigned THEN t.reg.w ELSE w) \in -1..2
                BY <4>1, <4>2 DEF Entry
            <4>4. b = [t.reg EXCEPT !.w = IF t.assigned THEN t.reg.w ELSE w]
                BY <4>2 DEF Entry
            <4>5. b \in Entry
                BY <4>2, <4>3, <4>4, EntryWidth
            <4>6. 1 \in -1..2
                OBVIOUS
            <4>7. QED
                BY <4>5, <4>6, EntryWidth
        <3>4. written' \in SUBSET Nat
            BY <3>1, <3>3, WriteTypes
        <3>5. targets' \in Seq(Target) /\ scopes' \in Seq(Scope) /\ scopes' # <<>>
            BY <3>1, <3>3, AssignedTypes
        <3>6. QED
            BY <2>6, <3>4, <3>5, LineTypes DEF Assign, Ends, EndsBody, registers
    <2>7. CASE Store(next, rest)
        <3>1. StackEntry \in Entry
            BY DEF StackEntry, Entry
        <3>2. targets' \in Seq(Target) /\ scopes' \in Seq(Scope) /\ scopes' # <<>>
            BY <2>7, <3>1, AssignedTypes DEF Store
        <3>3. QED
            BY <2>7, <3>2, LineTypes DEF Store, Ends, EndsBody, registers
    <2>8. QED
        BY <1>5, <2>1, <2>2, <2>3, <2>4, <2>5, <2>6, <2>7 DEF LineStep
<1>6. ASSUME NEW next \in Levels, OpenStep(next) PROVE TypeInv'
    <2>1. CASE OpenBranch(next)
        BY <2>1, OpenTypes DEF OpenBranch, Ends, EndsBody, registers
    <2>2. ASSUME NEW n \in Names, NEW b \in Entry, Declare(n, b)
          PROVE  /\ scopes' \in Seq(Scope) /\ scopes' # <<>>
                 /\ Append(targets, NewTarget(n, b)) \in Seq(Target)
        <3>1. NewTarget(n, b) \in Target
            BY DEF NewTarget, Target
        <3>2. QED
            BY <2>2, <3>1, DeclareTypes
    <2>3. ASSUME NEW n \in Names, OpenLet(n, next) PROVE TypeInv'
        <3>1. FreshReg(1) \in Entry /\ nreg_count' \in Nat
              /\ max_nreg_count' \in Nat /\ nreg_mark' \in Seq(Nat)
            BY <2>3, FreshTypes DEF OpenLet
        <3>2. QED
            BY <2>2, <2>3, <3>1, OpenTypes DEF OpenLet, Ends, EndsBody
    <2>4. ASSUME NEW n \in Names, OpenStack(n, next) PROVE TypeInv'
        <3>1. StackEntry \in Entry
            BY DEF StackEntry, Entry
        <3>2. QED
            BY <2>2, <2>4, <3>1, OpenTypes DEF OpenStack, Ends, EndsBody, registers
    <2>5. QED
        BY <1>6, <2>1, <2>3, <2>4 DEF OpenStep
<1>7. ASSUME LineError PROVE TypeInv'
    BY <1>7 DEF LineError, lexer, registers, Phases, Terminal
<1>8. ASSUME EndOfBlock PROVE TypeInv'
    <2>1. scopes' \in Seq(Scope) /\ scopes' # <<>>
        <3>1. CASE Len(scopes) = 1
            BY <1>8, <3>1 DEF EndOfBlock
        <3>2. CASE Len(scopes) # 1
            <4>1. scopes' = Front(scopes) /\ Len(scopes) \in Nat \ {0, 1}
                <5>1. Len(scopes) \in Nat \ {0}
                    OBVIOUS
                <5>2. QED
                    BY <1>8, <3>2, <5>1 DEF EndOfBlock
            <4>2. scopes' \in Seq(Scope) /\ Len(scopes') = Len(scopes) - 1
                BY <4>1, FrontSeq
            <4>3. QED
                BY <4>1, <4>2
        <3>3. QED
            BY <3>1, <3>2
    <2>2. nreg_count' \in Nat /\ nreg_mark' \in Seq(Nat)
        BY <1>8, FrontSeq DEF EndOfBlock, Top
    <2>3. QED
        BY <1>8, <2>1, <2>2 DEF EndOfBlock, lexer, Phases
<1>9. ASSUME Continue PROVE TypeInv'
    BY <1>9 DEF Continue, lexer, registers, Phases
<1>10. ASSUME Top(frames).kind # "function", frames' = Front(frames)
       PROVE  frames' \in Seq(Frame) /\ frames' # <<>> /\ frames'[1].kind = "function"
    <2>1. Len(frames) \in Nat /\ Len(frames) > 1
        BY <1>10 DEF Top
    <2>2. /\ frames' \in Seq(Frame) /\ Len(frames') = Len(frames) - 1
          /\ \A i \in 1..(Len(frames) - 1) : frames'[i] = frames[i]
        BY <1>10, FrontSeq
    <2>3. frames'[1] = frames[1]
        BY <2>1, <2>2
    <2>4. QED
        BY <2>1, <2>2, <2>3
<1>11. ASSUME ReturnBranch PROVE TypeInv'
    BY <1>10, <1>11 DEF ReturnBranch, lexer, registers, Phases
<1>12. ASSUME ReturnDecl PROVE TypeInv'
    <2>1. targets' \in Seq(Target) /\ phase' \in Phases
        BY <1>12, FrontSeq DEF ReturnDecl, Phases, Terminal
    <2>2. frames' \in Seq(Frame) /\ frames' # <<>> /\ frames'[1].kind = "function"
        BY <1>10, <1>12 DEF ReturnDecl
    <2>3. QED
        BY <1>12, <2>1, <2>2 DEF ReturnDecl, lexer, registers
<1>13. ASSUME ReturnFunction PROVE TypeInv'
    <2>1. phase' \in Phases /\ saved' \in SUBSET Nat
        <3>1. \A k \in Nat : 0..(k - 1) \subseteq Nat
            OBVIOUS
        <3>2. (IF SaveMax THEN max_nreg_count ELSE nreg_count) \in Nat
            OBVIOUS
        <3>3. saved' \in SUBSET Nat
            BY <1>13, <3>1, <3>2 DEF ReturnFunction
        <3>4. QED
            BY <1>13, <3>3 DEF ReturnFunction, Phases, Terminal
    <2>2. QED
        BY <1>13, <2>1 DEF ReturnFunction, lexer, registers
<1>14. CASE UNCHANGED vars
    BY <1>14 DEF vars, lexer, registers
<1>15. QED
    BY <1>1, <1>2, <1>3, <1>4, <1>5, <1>6, <1>7, <1>8, <1>9, <1>11, <1>12,
       <1>13, <1>14 DEF Next, Terminated

\* The variables keep their types: the stacks of the parser hold frames, tables,
\* marks and targets, whatever the program.
THEOREM TypeCorrect == Spec => []TypeOK
<1>1. Init => TypeInv
    BY InitTypeInv
<1>2. TypeInv /\ [Next]_vars => TypeInv'
    BY NextTypeInv
<1>3. TypeInv => TypeOK
    BY DEF TypeInv
<1>4. QED
    BY <1>1, <1>2, <1>3, PTL DEF Spec

-----------------------------------------------------------------------------
(* Named registers.  A declaration's registers lie between the count its block *)
(* started at and the count the next block started at; leaving a block goes    *)
(* back to the count it started at.  So the shares of the open blocks follow    *)
(* one another, and only the declarations of one block could overlap.           *)

\* Declarations of one block do not overlap.
OwnRegisters ==
    \A i \in 1..Len(scopes), n, m \in Names :
        n # m => Regs(scopes[i][n]) \cap Regs(scopes[i][m]) = {}

\* A pending declaration holds at most one register.
TargetRegisters == \A k \in 1..Len(targets) : targets[k].reg.w <= 1

RegInv ==
    /\ TypeInv
    /\ NestedRegisters
    /\ OwnRegisters
    /\ TargetRegisters

LEMMA InitRegInv == Init => RegInv
<1> SUFFICES ASSUME Init PROVE RegInv
    OBVIOUS
<1>1. TypeInv
    BY InitTypeInv
<1>2. \A n \in Names : Regs(EmptyScope[n]) = {}
    BY DEF EmptyScope, Regs, Free
<1>3. MarksOrdered
    BY DEF Init, MarksOrdered
<1>4. NestedRegisters /\ OwnRegisters
    BY <1>2, <1>3 DEF Init, NestedRegisters, OwnRegisters
<1>5. TargetRegisters
    BY DEF Init, TargetRegisters
<1>6. QED
    BY <1>1, <1>4, <1>5 DEF RegInv

\* Steps that touch no declaration.
LEMMA SameRegisters ==
    ASSUME RegInv, UNCHANGED <<scopes, registers>>
    PROVE  NestedRegisters' /\ OwnRegisters'
BY DEF RegInv, NestedRegisters, MarksOrdered, OwnRegisters, Floor, Ceil, registers

\* A table entry replaced by one that holds no more registers.
LEMMA NarrowEntry ==
    ASSUME RegInv, NEW k \in 1..Len(scopes), NEW n \in Names, NEW b \in Entry,
           Regs(b) \subseteq Regs(scopes[k][n]),
           scopes' = [scopes EXCEPT ![k][n] = b], UNCHANGED registers
    PROVE  NestedRegisters' /\ OwnRegisters'
<1>1. scopes \in Seq(Scope)
    BY DEF RegInv, TypeInv, TypeOK
<1>2. /\ Len(scopes') = Len(scopes)
      /\ \A i \in 1..Len(scopes), m \in Names :
            scopes'[i][m] = IF i = k /\ m = n THEN b ELSE scopes[i][m]
    BY <1>1, WriteEntry
<1>3. \A i \in 1..Len(scopes), m \in Names :
         Regs(scopes'[i][m]) \subseteq Regs(scopes[i][m])
    BY <1>2
<1>4. MarksOrdered' /\ \A i \in 1..Len(scopes) : Floor(i)' = Floor(i) /\ Ceil(i)' = Ceil(i)
    BY <1>2 DEF RegInv, NestedRegisters, MarksOrdered, Floor, Ceil, registers
<1>5. NestedRegisters'
    BY <1>2, <1>3, <1>4 DEF RegInv, NestedRegisters
<1>6. OwnRegisters'
    BY <1>2, <1>3 DEF RegInv, OwnRegisters
<1>7. QED
    BY <1>5, <1>6

\* A declaration in the registers that follow those already counted.
LEMMA FreshEntry ==
    ASSUME RegInv, NEW n \in Names, NEW w \in {1, 2},
           Declare(n, FreshReg(w)), AddNreg(w)
    PROVE  NestedRegisters' /\ OwnRegisters'
<1> DEFINE L == Len(scopes)
           b == FreshReg(w)
<1>1. /\ TypeInv /\ scopes \in Seq(Scope) /\ nreg_mark \in Seq(Nat)
      /\ nreg_count \in Nat /\ max_nreg_count \in Nat /\ L \in Nat \ {0}
    BY DEF RegInv, TypeInv, TypeOK
<1>2. b \in Entry
    BY <1>1, FreshTypes
<1>3. /\ Len(scopes') = L
      /\ \A i \in 1..L, m \in Names :
            scopes'[i][m] = IF i = L /\ m = n THEN b ELSE scopes[i][m]
    BY <1>1, <1>2, DeclareTypes
<1>4. /\ nreg_count' = nreg_count + w /\ nreg_mark' = nreg_mark
      /\ max_nreg_count' \in Nat /\ max_nreg_count <= max_nreg_count'
      /\ nreg_count' <= max_nreg_count'
    BY <1>1 DEF AddNreg, Larger
<1>5. Regs(b) = nreg_count .. (nreg_count' - 1)
    BY <1>1, <1>4 DEF FreshReg, Regs
<1>6. MarksOrdered'
    <2>1. MarksOrdered
        BY DEF RegInv, NestedRegisters
    <2>2. \A i \in 1..Len(nreg_mark) : nreg_mark[i] \in Nat /\ nreg_mark[i] <= nreg_count
        BY <1>1, <2>1 DEF MarksOrdered
    <2>3. \A i \in 1..Len(nreg_mark) : nreg_mark[i] <= nreg_count'
        BY <1>1, <1>4, <2>2
    <2>4. QED
        BY <1>3, <1>4, <2>1, <2>3 DEF MarksOrdered
<1>7. \A i \in 1..L : /\ Floor(i)' = Floor(i)
                      /\ i # L => Ceil(i)' = Ceil(i)
    BY <1>3, <1>4 DEF Floor, Ceil
<1>8. Ceil(L) = nreg_count /\ Ceil(L)' = nreg_count' /\ Floor(L) \in Nat /\ Floor(L) <= nreg_count
    BY <1>1, <1>3 DEF Ceil, Floor, RegInv, NestedRegisters, MarksOrdered
<1>0. \A q \in Names : Regs(scopes[L][q]) \subseteq Floor(L)..(nreg_count - 1)
    <2>1. L \in 1..L
        BY <1>1
    <2>2. \A q \in Names : Regs(scopes[L][q]) \subseteq Floor(L)..(Ceil(L) - 1)
        BY <2>1 DEF RegInv, NestedRegisters
    <2>3. QED
        BY <1>8, <2>2
<1>9. \A i \in 1..L, m \in Names : Regs(scopes'[i][m]) \subseteq Floor(i)'..(Ceil(i)' - 1)
    <2> SUFFICES ASSUME NEW i \in 1..L, NEW m \in Names
                 PROVE  Regs(scopes'[i][m]) \subseteq Floor(i)'..(Ceil(i)' - 1)
        OBVIOUS
    <2>1. CASE i # L
        BY <1>3, <1>7, <2>1 DEF RegInv, NestedRegisters
    <2>2. CASE i = L /\ m = n
        BY <1>1, <1>3, <1>4, <1>5, <1>7, <1>8, <2>2
    <2>3. CASE i = L /\ m # n
        <3>1. Regs(scopes[L][m]) \subseteq Floor(L)..(nreg_count - 1)
            BY <1>0
        <3>2. QED
            BY <1>1, <1>3, <1>4, <1>7, <1>8, <2>3, <3>1
    <2>4. QED
        BY <2>1, <2>2, <2>3
<1>10. OwnRegisters'
    <2> SUFFICES ASSUME NEW i \in 1..L, NEW m \in Names, NEW p \in Names, m # p
                 PROVE  Regs(scopes'[i][m]) \cap Regs(scopes'[i][p]) = {}
        BY <1>3 DEF OwnRegisters
    <2>1. \A q \in Names : Regs(scopes[L][q]) \cap Regs(b) = {}
        <3>1. \A q \in Names : Regs(scopes[L][q]) \subseteq Floor(L)..(nreg_count - 1)
            BY <1>0
        <3>2. (Floor(L)..(nreg_count - 1)) \cap (nreg_count..(nreg_count' - 1)) = {}
            BY <1>1, <1>4, <1>8
        <3>3. QED
            BY <1>5, <3>1, <3>2
    <2>2. Regs(scopes[i][m]) \cap Regs(scopes[i][p]) = {}
        BY DEF RegInv, OwnRegisters
    <2>3. QED
        BY <1>3, <2>1, <2>2
<1>11. NestedRegisters'
    BY <1>3, <1>6, <1>9 DEF NestedRegisters
<1>12. QED
    BY <1>10, <1>11

\* A new block: an empty table whose share starts at the count.
LEMMA OpenedBlock ==
    ASSUME RegInv, scopes' = Append(scopes, EmptyScope),
           nreg_mark' = Append(nreg_mark, nreg_count),
           UNCHANGED <<nreg_count, max_nreg_count>>
    PROVE  NestedRegisters' /\ OwnRegisters'
<1> DEFINE L == Len(scopes)
<1>1. /\ scopes \in Seq(Scope) /\ nreg_mark \in Seq(Nat) /\ L \in Nat \ {0}
      /\ nreg_count \in Nat /\ max_nreg_count \in Nat /\ EmptyScope \in Scope
    <2>1. EmptyScope \in Scope
        BY DEF EmptyScope, Scope, Entry, Free
    <2>2. QED
        BY <2>1 DEF RegInv, TypeInv, TypeOK
<1>2. MarksOrdered /\ Len(nreg_mark) = L - 1
    BY DEF RegInv, NestedRegisters, MarksOrdered
<1>3. /\ Len(scopes') = L + 1 /\ scopes'[L + 1] = EmptyScope
      /\ \A i \in 1..L : scopes'[i] = scopes[i]
    BY <1>1
<1>4. /\ Len(nreg_mark') = L /\ nreg_mark'[L] = nreg_count
      /\ \A i \in 1..(L - 1) : nreg_mark'[i] = nreg_mark[i]
    BY <1>1, <1>2
<1>5. \A n \in Names : Regs(EmptyScope[n]) = {}
    BY DEF EmptyScope, Regs, Free
<1>6. MarksOrdered'
    <2>1. \A i \in 1..(L - 1) : nreg_mark[i] \in Nat /\ nreg_mark[i] <= nreg_count
        BY <1>1, <1>2 DEF MarksOrdered
    <2>2. \A i \in 1..L : nreg_mark'[i] <= nreg_count'
        BY <1>1, <1>4, <2>1
    <2>3. \A i, j \in 1..L : i <= j => nreg_mark'[i] <= nreg_mark'[j]
        <3> SUFFICES ASSUME NEW i \in 1..L, NEW j \in 1..L, i <= j
                     PROVE  nreg_mark'[i] <= nreg_mark'[j]
            OBVIOUS
        <3>1. CASE j = L
            <4>1. nreg_mark'[i] <= nreg_count'
                BY <2>2
            <4>2. nreg_mark'[j] = nreg_count'
                BY <1>4, <3>1
            <4>3. QED
                BY <4>1, <4>2
        <3>2. CASE j # L
            <4>1. i \in 1..(L - 1) /\ j \in 1..(L - 1)
                BY <1>1, <3>2
            <4>2. nreg_mark[i] <= nreg_mark[j]
                BY <1>2, <4>1 DEF MarksOrdered
            <4>3. QED
                BY <1>4, <4>1, <4>2
        <3>3. QED
            BY <3>1, <3>2
    <2>4. QED
        BY <1>1, <1>2, <1>3, <1>4, <2>2, <2>3 DEF MarksOrdered
<1>7. \A i \in 1..L : Floor(i)' = Floor(i) /\ Ceil(i)' = Ceil(i)
    BY <1>1, <1>3, <1>4 DEF Floor, Ceil
<1>8. \A i \in 1..(L + 1), n \in Names :
         Regs(scopes'[i][n]) \subseteq Floor(i)'..(Ceil(i)' - 1)
    <2> SUFFICES ASSUME NEW i \in 1..(L + 1), NEW n \in Names
                 PROVE  Regs(scopes'[i][n]) \subseteq Floor(i)'..(Ceil(i)' - 1)
        OBVIOUS
    <2>1. CASE i = L + 1
        BY <1>3, <1>5, <2>1
    <2>2. CASE i \in 1..L
        BY <1>3, <1>7, <2>2 DEF RegInv, NestedRegisters
    <2>3. QED
        BY <1>1, <2>1, <2>2
<1>9. OwnRegisters'
    <2> SUFFICES ASSUME NEW i \in 1..(L + 1), NEW n \in Names, NEW m \in Names, n # m
                 PROVE  Regs(scopes'[i][n]) \cap Regs(scopes'[i][m]) = {}
        BY <1>3 DEF OwnRegisters
    <2>1. CASE i = L + 1
        <3>1. Regs(scopes'[i][n]) = {}
            BY <1>3, <1>5, <2>1
        <3>2. QED
            BY <3>1
    <2>2. CASE i \in 1..L
        <3>1. scopes'[i] = scopes[i]
            BY <1>3, <2>2
        <3>2. Regs(scopes[i][n]) \cap Regs(scopes[i][m]) = {}
            BY <2>2 DEF RegInv, OwnRegisters
        <3>3. QED
            BY <3>1, <3>2
    <2>3. i = L + 1 \/ i \in 1..L
        BY <1>1
    <2>4. QED
        BY <2>1, <2>2, <2>3
<1>10. QED
    BY <1>3, <1>6, <1>8, <1>9 DEF NestedRegisters

\* The end of a block: its table and its share are dropped together.
LEMMA ClosedBlock ==
    ASSUME RegInv, EndOfBlock
    PROVE  NestedRegisters' /\ OwnRegisters'
<1> DEFINE L == Len(scopes)
<1>1. /\ scopes \in Seq(Scope) /\ nreg_mark \in Seq(Nat) /\ L \in Nat \ {0}
      /\ nreg_count \in Nat /\ max_nreg_count \in Nat
    BY DEF RegInv, TypeInv, TypeOK
<1>2. MarksOrdered /\ Len(nreg_mark) = L - 1
    BY DEF RegInv, NestedRegisters, MarksOrdered
<1>3. CASE L = 1
    <2>1. nreg_mark = <<>>
        BY <1>1, <1>2, <1>3
    <2>2. UNCHANGED <<scopes, registers>>
        BY <1>3, <2>1 DEF EndOfBlock, registers
    <2>3. QED
        BY <2>2 DEF RegInv, NestedRegisters, MarksOrdered, OwnRegisters, Floor, Ceil, registers
<1>4. CASE L # 1
    <2>1. L \in Nat \ {0, 1} /\ nreg_mark # <<>>
        BY <1>1, <1>2, <1>4
    <2>2. /\ scopes' = Front(scopes) /\ nreg_mark' = Front(nreg_mark)
          /\ nreg_count' = nreg_mark[L - 1] /\ max_nreg_count' = max_nreg_count
        BY <1>2, <1>4, <2>1 DEF EndOfBlock, Top
    <2>3. /\ Len(scopes') = L - 1
          /\ \A i \in 1..(L - 1) : scopes'[i] = scopes[i]
        BY <1>1, <2>1, <2>2, FrontSeq
    <2>4. /\ Len(nreg_mark') = L - 2
          /\ \A i \in 1..(L - 2) : nreg_mark'[i] = nreg_mark[i]
        <3>1. Len(nreg_mark') = Len(nreg_mark) - 1
            BY <1>1, <2>1, <2>2, FrontSeq
        <3>2. \A i \in 1..(Len(nreg_mark) - 1) : nreg_mark'[i] = nreg_mark[i]
            BY <1>1, <2>1, <2>2, FrontSeq
        <3>3. QED
            BY <1>1, <1>2, <3>1, <3>2
    <2>5. \A i \in 1..(L - 1) : nreg_mark[i] \in Nat
        BY <1>1, <1>2
    <2>6. MarksOrdered'
        <3>1. nreg_count' \in Nat /\ nreg_count' <= nreg_count /\ nreg_count <= max_nreg_count
            BY <1>2, <2>1, <2>2, <2>5 DEF MarksOrdered
        <3>2. nreg_count' <= max_nreg_count'
            BY <1>1, <2>2, <3>1
        <3>3. \A i \in 1..(L - 2) : nreg_mark'[i] <= nreg_count'
            BY <1>2, <2>1, <2>2, <2>4 DEF MarksOrdered
        <3>4. \A i, j \in 1..(L - 2) : i <= j => nreg_mark'[i] <= nreg_mark'[j]
            BY <1>2, <2>1, <2>4 DEF MarksOrdered
        <3>5. QED
            BY <2>1, <2>3, <2>4, <3>2, <3>3, <3>4 DEF MarksOrdered
    <2>7. \A i \in 1..(L - 1) : Floor(i)' = Floor(i) /\ Ceil(i)' = Ceil(i)
        BY <2>1, <2>2, <2>3, <2>4 DEF Floor, Ceil
    <2>8. NestedRegisters'
        BY <2>1, <2>3, <2>6, <2>7 DEF RegInv, NestedRegisters
    <2>9. OwnRegisters'
        <3> SUFFICES ASSUME NEW i \in 1..(L - 1), NEW n \in Names, NEW m \in Names, n # m
                     PROVE  Regs(scopes'[i][n]) \cap Regs(scopes'[i][m]) = {}
            BY <2>3 DEF OwnRegisters
        <3>1. i \in 1..L /\ scopes'[i] = scopes[i]
            BY <1>1, <2>3
        <3>2. Regs(scopes[i][n]) \cap Regs(scopes[i][m]) = {}
            BY <3>1 DEF RegInv, OwnRegisters
        <3>3. QED
            BY <3>1, <3>2
    <2>10. QED
        BY <2>8, <2>9
<1>5. QED
    BY <1>3, <1>4

\* Every step keeps the shares of the blocks apart, as long as the value of a
\* multi-line declaration takes the one register counted for it.
LEMMA NextRegInv ==
    ASSUME BlockWidths = {1}, RegInv, [Next]_vars
    PROVE  RegInv'
<1>1. TypeInv /\ TypeInv'
    BY NextTypeInv DEF RegInv
<1>2. TargetRegisters
    BY DEF RegInv
<1> DEFINE Kept == NestedRegisters' /\ OwnRegisters' /\ TargetRegisters'
<1>3. ASSUME UNCHANGED <<scopes, registers, targets>> PROVE Kept
    BY <1>2, <1>3, SameRegisters DEF TargetRegisters
<1>4. ASSUME NEW n \in Names, NEW w \in Widths, Param(n, w) PROVE Kept
    <2>1. w \in {1, 2}
        BY WidthAssumption
    <2>2. QED
        BY <1>2, <1>4, <2>1, FreshEntry DEF Param, TargetRegisters
<1>5. ASSUME StartOfBlock PROVE Kept
    <2>1. CASE Len(scopes) = MaxDepth
        BY <1>3, <1>5, <2>1 DEF StartOfBlock, registers
    <2>2. CASE Len(scopes) # MaxDepth
        BY <1>2, <1>5, <2>2, OpenedBlock DEF StartOfBlock, TargetRegisters
    <2>3. QED
        BY <2>1, <2>2
<1>6. ASSUME NEW n \in Names, Declare(n, StackEntry), UNCHANGED registers
      PROVE  NestedRegisters' /\ OwnRegisters'
    <2>1. StackEntry \in Entry /\ Regs(StackEntry) = {}
        BY DEF StackEntry, Entry, Regs
    <2>2. Len(scopes) \in 1..Len(scopes)
        BY <1>1 DEF TypeInv, TypeOK
    <2>3. QED
        BY <1>6, <2>1, <2>2, NarrowEntry DEF Declare
<1>7. ASSUME NEW next \in Levels, NEW rest \in BOOLEAN, LineStep(next, rest) PROVE Kept
    <2>1. CASE Plain(next, rest) \/ Ret(next, rest) \/ RetIf(next, rest)
        BY <1>3, <2>1 DEF Plain, Ret, RetIf
    <2>2. ASSUME NEW n \in Names, NEW w \in Widths, Let(n, w, next, rest) PROVE Kept
        <3>1. w \in {1, 2}
            BY WidthAssumption
        <3>2. QED
            BY <1>2, <2>2, <3>1, FreshEntry DEF Let, TargetRegisters
    <2>3. ASSUME NEW n \in Names, LetStack(n, next, rest) PROVE Kept
        BY <1>2, <1>6, <2>3 DEF LetStack, TargetRegisters
    <2>4. ASSUME NEW n \in Names, AssignTo(n, next, rest) PROVE Kept
        BY <1>3, <2>4 DEF AssignTo
    <2>5. ASSUME NEW b \in Entry, b.w <= 1, targets # <<>>, Assigned(Top(targets), b),
                 Regs(b) \subseteq Regs(Top(targets).reg), UNCHANGED registers
          PROVE  Kept
        <3>1. Top(targets) \in Target
            BY <1>1, <2>5 DEF Top, TypeInv, TypeOK
        <3>2. TargetRegisters'
            BY <1>1, <1>2, <2>5, AssignedTypes DEF TargetRegisters
        <3>3. CASE TargetLive(Top(targets))
            <4>1. Top(targets).scope \in 1..Len(scopes) /\ Top(targets).name \in Names
                BY <1>1, <3>1, <3>3 DEF TargetLive, Target, TypeInv, TypeOK
            <4>2. scopes' = [scopes EXCEPT ![Top(targets).scope][Top(targets).name] = b]
                BY <2>5, <3>3 DEF Assigned
            <4>3. Regs(b) \subseteq Regs(scopes[Top(targets).scope][Top(targets).name])
                BY <2>5, <3>3 DEF TargetLive
            <4>4. NestedRegisters' /\ OwnRegisters'
                BY <2>5, <4>1, <4>2, <4>3, NarrowEntry
            <4>5. QED
                BY <3>2, <4>4
        <3>4. CASE ~TargetLive(Top(targets))
            BY <2>5, <3>2, <3>4, SameRegisters DEF Assigned
        <3>5. QED
            BY <3>3, <3>4
    <2>6. ASSUME NEW w \in BlockWidths, Assign(w, next, rest) PROVE Kept
        <3> DEFINE t == Top(targets)
                   b == [t.reg EXCEPT !.w = IF t.assigned THEN @ ELSE w]
        <3>1. /\ targets # <<>> /\ t.reg.w > 0 /\ Assigned(t, b)
              /\ UNCHANGED registers
            BY <2>6 DEF Assign
        <3>2. t \in Target /\ Len(targets) \in 1..Len(targets)
            BY <1>1, <3>1 DEF Top, TypeInv, TypeOK
        <3>3. t.reg \in Entry /\ t.reg.w = 1
            BY <1>2, <3>1, <3>2 DEF Top, Target, Entry, TargetRegisters
        <3>4. b = t.reg
            <4>1. w = 1
                OBVIOUS
            <4>2. b = [t.reg EXCEPT !.w = 1]
                BY <3>3, <4>1 DEF Entry
            <4>3. QED
                BY <3>3, <4>2 DEF Entry
        <3>5. QED
            BY <2>5, <3>1, <3>3, <3>4
    <2>7. CASE Store(next, rest)
        <3>1. StackEntry \in Entry /\ StackEntry.w <= 1 /\ Regs(StackEntry) = {}
            BY DEF StackEntry, Entry, Regs
        <3>2. QED
            BY <2>5, <2>7, <3>1 DEF Store
    <2>8. QED
        BY <1>7, <2>1, <2>2, <2>3, <2>4, <2>6, <2>7 DEF LineStep
<1>8. ASSUME NEW next \in Levels, OpenStep(next) PROVE Kept
    <2>1. CASE OpenBranch(next)
        BY <1>3, <2>1 DEF OpenBranch
    <2>2. ASSUME NEW n \in Names, NEW b \in Entry, b.w <= 1,
                 targets' = Append(targets, NewTarget(n, b))
          PROVE  TargetRegisters'
        <3>1. targets \in Seq(Target) /\ NewTarget(n, b).reg = b
            BY <1>1 DEF NewTarget, TypeInv, TypeOK
        <3>2. QED
            BY <1>2, <2>2, <3>1 DEF TargetRegisters
    <2>3. ASSUME NEW n \in Names, OpenLet(n, next) PROVE Kept
        <3>1. FreshReg(1) \in Entry /\ FreshReg(1).w <= 1 /\ 1 \in {1, 2}
            BY <1>1, FreshTypes DEF FreshReg
        <3>2. QED
            BY <2>2, <2>3, <3>1, FreshEntry DEF OpenLet
    <2>4. ASSUME NEW n \in Names, OpenStack(n, next) PROVE Kept
        <3>1. StackEntry \in Entry /\ StackEntry.w <= 1
            BY DEF StackEntry, Entry
        <3>2. QED
            BY <1>6, <2>2, <2>4, <3>1 DEF OpenStack
    <2>5. QED
        BY <1>8, <2>1, <2>3, <2>4 DEF OpenStep
<1>9. ASSUME EndOfBlock PROVE Kept
    BY <1>2, <1>9, ClosedBlock DEF EndOfBlock, TargetRegisters
<1>10. ASSUME ReturnDecl PROVE Kept
    <2>1. UNCHANGED <<scopes, registers>>
        BY <1>10 DEF ReturnDecl
    <2>2. TargetRegisters'
        <3>1. targets \in Seq(Target)
            BY <1>1 DEF TypeInv, TypeOK
        <3>2. CASE targets = <<>>
            BY <1>2, <1>10, <3>2 DEF ReturnDecl, TargetRegisters, Front
        <3>3. CASE targets # <<>> /\ targets' = Front(targets)
            <4>1. /\ Len(targets') = Len(targets) - 1 /\ Len(targets) \in Nat
                  /\ \A k \in 1..(Len(targets) - 1) : targets'[k] = targets[k]
                BY <3>1, <3>3, FrontSeq
            <4>2. QED
                BY <1>2, <4>1 DEF TargetRegisters
        <3>4. CASE targets' = targets
            BY <1>2, <3>4 DEF TargetRegisters
        <3>5. QED
            BY <1>10, <3>2, <3>3, <3>4 DEF ReturnDecl
    <2>3. QED
        BY <2>1, <2>2, SameRegisters
<1>11. ASSUME BeginBody \/ NextLine \/ LineError \/ Continue PROVE Kept
    BY <1>3, <1>11 DEF BeginBody, NextLine, LineError, Continue
<1>12. ASSUME ReturnBranch \/ ReturnFunction PROVE Kept
    BY <1>3, <1>12 DEF ReturnBranch, ReturnFunction
<1>13. ASSUME UNCHANGED vars PROVE Kept
    BY <1>3, <1>13 DEF vars
<1>14. Kept
    BY <1>4, <1>5, <1>7, <1>8, <1>9, <1>10, <1>11, <1>12, <1>13 DEF Next, Terminated
<1>15. QED
    BY <1>1, <1>14 DEF RegInv

\* The registers of a block end where those of the next one start, so
\* declarations of different blocks cannot overlap either.
LEMMA SharesDisjoint == RegInv => RegistersDisjoint
<1> SUFFICES ASSUME RegInv, NEW i \in 1..Len(scopes), NEW j \in 1..Len(scopes),
                    NEW n \in Names, NEW m \in Names, <<i, n>> # <<j, m>>
             PROVE  Regs(scopes[i][n]) \cap Regs(scopes[j][m]) = {}
    BY DEF RegistersDisjoint
<1>1. /\ Len(scopes) \in Nat \ {0} /\ Len(nreg_mark) = Len(scopes) - 1
      /\ nreg_mark \in Seq(Nat) /\ nreg_count \in Nat
    BY DEF RegInv, TypeInv, TypeOK, NestedRegisters, MarksOrdered
<1>2. \A k \in 1..Len(scopes) : Floor(k) \in Nat /\ Ceil(k) \in Nat
    BY <1>1 DEF Floor, Ceil
<1>3. \A k, l \in 1..Len(scopes) : k < l => Ceil(k) <= Floor(l)
    <2> SUFFICES ASSUME NEW k \in 1..Len(scopes), NEW l \in 1..Len(scopes), k < l
                 PROVE  Ceil(k) <= Floor(l)
        OBVIOUS
    <2>1. Ceil(k) = nreg_mark[k] /\ Floor(l) = nreg_mark[l - 1]
        BY <1>1 DEF Ceil, Floor
    <2>2. k \in 1..Len(nreg_mark) /\ l - 1 \in 1..Len(nreg_mark) /\ k <= l - 1
        BY <1>1
    <2>3. QED
        BY <2>1, <2>2 DEF RegInv, NestedRegisters, MarksOrdered
<1>4. \A k, l \in 1..Len(scopes), p, q \in Names :
         k < l => Regs(scopes[k][p]) \cap Regs(scopes[l][q]) = {}
    <2> SUFFICES ASSUME NEW k \in 1..Len(scopes), NEW l \in 1..Len(scopes),
                        NEW p \in Names, NEW q \in Names, k < l
                 PROVE  Regs(scopes[k][p]) \cap Regs(scopes[l][q]) = {}
        OBVIOUS
    <2>1. /\ Regs(scopes[k][p]) \subseteq Floor(k)..(Ceil(k) - 1)
          /\ Regs(scopes[l][q]) \subseteq Floor(l)..(Ceil(l) - 1)
        BY DEF RegInv, NestedRegisters
    <2>2. \A w, x, y, z \in Nat : x <= y => (w..(x - 1)) \cap (y..(z - 1)) = {}
        OBVIOUS
    <2>3. (Floor(k)..(Ceil(k) - 1)) \cap (Floor(l)..(Ceil(l) - 1)) = {}
        BY <1>2, <1>3, <2>2
    <2>4. QED
        BY <2>1, <2>3
<1>5. CASE i = j
    BY <1>5 DEF RegInv, OwnRegisters
<1>6. CASE i # j
    <2>1. i < j \/ j < i
        BY <1>1, <1>6
    <2>2. QED
        BY <1>4, <2>1
<1>7. QED
    BY <1>5, <1>6

\* In every program whose multi-line declarations hold a value of one register,
\* the blocks hold separate shares of the named registers and no two live
\* declarations overlap.
THEOREM RegistersSound ==
    BlockWidths = {1} => (Spec => [](NestedRegisters /\ RegistersDisjoint))
<1> SUFFICES ASSUME BlockWidths = {1}
             PROVE  Spec => [](NestedRegisters /\ RegistersDisjoint)
    OBVIOUS
<1>1. Init => RegInv
    BY InitRegInv
<1>2. RegInv /\ [Next]_vars => RegInv'
    BY NextRegInv
<1>3. RegInv => NestedRegisters /\ RegistersDisjoint
    BY SharesDisjoint DEF RegInv
<1>4. QED
    BY <1>1, <1>2, <1>3, PTL DEF Spec

\* The blocks' shares of the named registers follow one another: start_of_block
\* and end_of_block keep the tables and the register marks in step.
THEOREM SharesSound == BlockWidths = {1} => (Spec => []NestedRegisters)
<1>1. [](NestedRegisters /\ RegistersDisjoint) => []NestedRegisters
    BY PTL
<1>2. QED
    BY <1>1, RegistersSound

-----------------------------------------------------------------------------
(* Saved registers.  This argument needs no bound on the value of a            *)
(* declaration: a fat one is written through the register it was given.        *)

\* The first register of every declaration, pending or in a table, has been
\* counted: a block that ends gives back nreg_count, never max_nreg_count.
HeldBelow(b, m) == b.w > 0 => b.off < m
MarksBelow ==
    /\ nreg_count <= max_nreg_count
    /\ \A i \in 1..Len(nreg_mark) : nreg_mark[i] <= max_nreg_count
EntriesBelow ==
    \A i \in 1..Len(scopes), n \in Names : HeldBelow(scopes[i][n], max_nreg_count)
TargetsBelow ==
    \A k \in 1..Len(targets) : HeldBelow(targets[k].reg, max_nreg_count)
WrittenBelow == \A r \in written : r < max_nreg_count
PrologueSaves == phase = "done" => saved = 0..(max_nreg_count - 1)

SaveInv ==
    /\ TypeInv
    /\ MarksBelow /\ EntriesBelow /\ TargetsBelow /\ WrittenBelow
    /\ PrologueSaves

LEMMA InitSaveInv == Init => SaveInv
<1> SUFFICES ASSUME Init PROVE SaveInv
    OBVIOUS
<1>1. TypeInv
    BY InitTypeInv
<1>2. MarksBelow /\ TargetsBelow /\ WrittenBelow /\ PrologueSaves
    BY DEF Init, MarksBelow, TargetsBelow, WrittenBelow, PrologueSaves
<1>3. EntriesBelow
    BY DEF Init, EntriesBelow, EmptyScope, Free, HeldBelow
<1>4. QED
    BY <1>1, <1>2, <1>3 DEF SaveInv

\* A new declaration: its registers are counted before they are written.
LEMMA FreshSaved ==
    ASSUME SaveInv, NEW n \in Names, NEW w \in {1, 2},
           Declare(n, FreshReg(w)), AddNreg(w)
    PROVE  /\ MarksBelow' /\ EntriesBelow'
           /\ max_nreg_count <= max_nreg_count'
           /\ \A r \in Regs(FreshReg(w)) : r < max_nreg_count'
<1>1. /\ TypeInv /\ scopes \in Seq(Scope) /\ nreg_mark \in Seq(Nat)
      /\ nreg_count \in Nat /\ max_nreg_count \in Nat
    BY DEF SaveInv, TypeInv, TypeOK
<1>2. /\ max_nreg_count' \in Nat /\ max_nreg_count <= max_nreg_count'
      /\ nreg_count' = nreg_count + w /\ nreg_count' <= max_nreg_count'
      /\ nreg_mark' = nreg_mark
    BY <1>1 DEF AddNreg, Larger
<1>3. MarksBelow'
    <2>1. \A i \in 1..Len(nreg_mark) : nreg_mark[i] \in Nat /\ nreg_mark[i] <= max_nreg_count
        BY <1>1 DEF SaveInv, MarksBelow
    <2>2. QED
        BY <1>1, <1>2, <2>1 DEF MarksBelow
<1>4. FreshReg(w) \in Entry /\ HeldBelow(FreshReg(w), max_nreg_count')
    BY <1>1, <1>2, FreshTypes DEF FreshReg, HeldBelow
<1>5. EntriesBelow'
    <2> SUFFICES ASSUME NEW i \in 1..Len(scopes), NEW m \in Names
                 PROVE  HeldBelow(scopes'[i][m], max_nreg_count')
        BY <1>1, <1>4, DeclareTypes DEF EntriesBelow
    <2>1. scopes'[i][m] = IF i = Len(scopes) /\ m = n THEN FreshReg(w) ELSE scopes[i][m]
        BY <1>1, <1>4, DeclareTypes
    <2>2. scopes[i][m] \in Entry /\ HeldBelow(scopes[i][m], max_nreg_count)
        BY <1>1 DEF SaveInv, EntriesBelow, Scope
    <2>3. HeldBelow(scopes[i][m], max_nreg_count')
        BY <1>1, <1>2, <2>2 DEF HeldBelow, Entry
    <2>4. QED
        BY <1>4, <2>1, <2>3
<1>6. \A r \in Regs(FreshReg(w)) : r < max_nreg_count'
    BY <1>1, <1>2 DEF FreshReg, Regs
<1>7. QED
    BY <1>2, <1>3, <1>5, <1>6

\* What was counted stays counted.
LEMMA TargetsStayBelow ==
    ASSUME SaveInv, max_nreg_count' \in Nat, max_nreg_count <= max_nreg_count'
    PROVE  /\ \A k \in 1..Len(targets) : HeldBelow(targets[k].reg, max_nreg_count')
           /\ \A r \in written : r < max_nreg_count'
<1>1. /\ max_nreg_count \in Nat /\ written \subseteq Nat
      /\ \A k \in 1..Len(targets) : targets[k].reg \in Entry
    <2>1. targets \in Seq(Target) /\ max_nreg_count \in Nat /\ written \subseteq Nat
        BY DEF SaveInv, TypeInv, TypeOK
    <2>2. \A k \in 1..Len(targets) : targets[k] \in Target
        BY <2>1
    <2>3. QED
        BY <2>1, <2>2 DEF Target
<1>2. \A k \in 1..Len(targets) : HeldBelow(targets[k].reg, max_nreg_count')
    <2> SUFFICES ASSUME NEW k \in 1..Len(targets)
                 PROVE  HeldBelow(targets[k].reg, max_nreg_count')
        OBVIOUS
    <2>1. targets[k].reg.off \in Nat /\ HeldBelow(targets[k].reg, max_nreg_count)
        BY <1>1 DEF SaveInv, TargetsBelow, Entry
    <2>2. QED
        BY <1>1, <2>1 DEF HeldBelow
<1>3. QED
    BY <1>1, <1>2 DEF SaveInv, WrittenBelow

LEMMA NextSaveInv ==
    ASSUME SaveMax, SaveInv, [Next]_vars
    PROVE  SaveInv'
<1>1. TypeInv /\ TypeInv'
    BY NextTypeInv DEF SaveInv
<1>2. /\ scopes \in Seq(Scope) /\ targets \in Seq(Target) /\ nreg_mark \in Seq(Nat)
      /\ nreg_count \in Nat /\ max_nreg_count \in Nat /\ written \subseteq Nat
    BY <1>1 DEF TypeInv, TypeOK
<1> DEFINE Below == MarksBelow' /\ EntriesBelow' /\ TargetsBelow' /\ WrittenBelow'
<1>3. ASSUME UNCHANGED <<scopes, registers, targets, written>> PROVE Below
    BY <1>3 DEF SaveInv, MarksBelow, EntriesBelow, TargetsBelow, WrittenBelow, registers
<1>4. ASSUME UNCHANGED registers PROVE MarksBelow'
    BY <1>4 DEF SaveInv, MarksBelow, registers
<1>5. ASSUME NEW k \in 1..Len(scopes), NEW n \in Names, NEW b \in Entry,
             HeldBelow(b, max_nreg_count), UNCHANGED registers,
             scopes' = [scopes EXCEPT ![k][n] = b]
      PROVE  EntriesBelow'
    <2>1. /\ Len(scopes') = Len(scopes)
          /\ \A i \in 1..Len(scopes), m \in Names :
                scopes'[i][m] = IF i = k /\ m = n THEN b ELSE scopes[i][m]
        BY <1>2, <1>5, WriteEntry
    <2>2. \A i \in 1..Len(scopes), m \in Names : HeldBelow(scopes'[i][m], max_nreg_count)
        BY <1>5, <2>1 DEF SaveInv, EntriesBelow
    <2>3. QED
        BY <1>5, <2>1, <2>2 DEF EntriesBelow, registers
<1>6. StackEntry \in Entry /\ HeldBelow(StackEntry, max_nreg_count)
    BY DEF StackEntry, Entry, HeldBelow
<1>7. ASSUME NEW n \in Names, Declare(n, StackEntry), UNCHANGED registers
      PROVE  EntriesBelow'
    <2>1. Len(scopes) \in 1..Len(scopes)
        BY <1>1, <1>2 DEF TypeInv
    <2>2. QED
        BY <1>5, <1>6, <1>7, <2>1 DEF Declare
<1>8. ASSUME NEW b \in Entry, HeldBelow(b, max_nreg_count), targets # <<>>,
             Assigned(Top(targets), b), UNCHANGED registers
      PROVE  EntriesBelow' /\ TargetsBelow'
    <2>1. Top(targets) \in Target
        BY <1>2, <1>8 DEF Top
    <2>2. TargetsBelow'
        <3>1. /\ Len(targets') = Len(targets)
              /\ \A i \in 1..Len(targets) :
                    targets'[i].reg = IF i = Len(targets) THEN b ELSE targets[i].reg
            BY <1>1, <1>8, AssignedTypes
        <3>2. \A i \in 1..Len(targets) : HeldBelow(targets'[i].reg, max_nreg_count)
            BY <1>8, <3>1 DEF SaveInv, TargetsBelow
        <3>3. QED
            BY <1>8, <3>1, <3>2 DEF TargetsBelow, registers
    <2>3. CASE TargetLive(Top(targets))
        <3>1. Top(targets).scope \in 1..Len(scopes) /\ Top(targets).name \in Names
            BY <1>2, <2>1, <2>3 DEF TargetLive, Target
        <3>2. scopes' = [scopes EXCEPT ![Top(targets).scope][Top(targets).name] = b]
            BY <1>8, <2>3 DEF Assigned
        <3>3. QED
            BY <1>5, <1>8, <2>2, <3>1, <3>2
    <2>4. CASE ~TargetLive(Top(targets))
        BY <1>8, <2>2, <2>4 DEF Assigned, SaveInv, EntriesBelow, registers
    <2>5. QED
        BY <2>3, <2>4
<1>9. ASSUME NEW b \in Entry, b.w > 0, HeldBelow(b, max_nreg_count), UNCHANGED registers,
             Write([b EXCEPT !.w = 1])
      PROVE  WrittenBelow'
    <2>1. b.off \in Nat /\ b.off < max_nreg_count
        BY <1>9 DEF HeldBelow, Entry
    <2>2. [b EXCEPT !.w = 1].off = b.off /\ [b EXCEPT !.w = 1].w = 1
        BY <1>9 DEF Entry
    <2>3. \A r \in Regs([b EXCEPT !.w = 1]) : r < max_nreg_count
        BY <1>2, <2>1, <2>2 DEF Regs
    <2>4. QED
        BY <1>9, <2>3 DEF Write, WrittenBelow, SaveInv, registers
<1>10. ASSUME NEW n \in Names, NEW w \in {1, 2}, Declare(n, FreshReg(w)), AddNreg(w),
              Write(FreshReg(w)), UNCHANGED targets
       PROVE  Below
    <2>1. max_nreg_count' \in Nat
        BY <1>1 DEF TypeInv, TypeOK
    <2>2. TargetsBelow'
        BY <1>10, <2>1, FreshSaved, TargetsStayBelow DEF TargetsBelow
    <2>3. WrittenBelow'
        BY <1>10, <2>1, FreshSaved, TargetsStayBelow DEF WrittenBelow, Write
    <2>4. QED
        BY <1>10, <2>2, <2>3, FreshSaved
<1>11. ASSUME NEW n \in Names, NEW b \in Entry, HeldBelow(b, max_nreg_count'),
              targets' = Append(targets, NewTarget(n, b)),
              max_nreg_count <= max_nreg_count'
       PROVE  TargetsBelow'
    <2>1. NewTarget(n, b).reg = b
        BY DEF NewTarget
    <2>2. \A k \in 1..Len(targets) : HeldBelow(targets[k].reg, max_nreg_count')
        BY <1>1, <1>11, TargetsStayBelow DEF TypeInv, TypeOK
    <2>3. QED
        BY <1>2, <1>11, <2>1, <2>2 DEF TargetsBelow
<1>12. ASSUME NEW n \in Names, NEW w \in Widths, Param(n, w) PROVE Below
    <2>1. w \in {1, 2}
        BY WidthAssumption
    <2>2. QED
        BY <1>10, <1>12, <2>1 DEF Param
<1>13. ASSUME StartOfBlock PROVE Below
    <2>1. CASE Len(scopes) = MaxDepth
        BY <1>3, <1>13, <2>1 DEF StartOfBlock, registers
    <2>2. CASE Len(scopes) # MaxDepth
        <3>1. /\ scopes' = Append(scopes, EmptyScope)
              /\ nreg_mark' = Append(nreg_mark, nreg_count)
              /\ UNCHANGED <<nreg_count, max_nreg_count, targets, written>>
            BY <1>13, <2>2 DEF StartOfBlock
        <3>2. MarksBelow'
            BY <1>2, <3>1 DEF SaveInv, MarksBelow
        <3>3. \A n \in Names : HeldBelow(EmptyScope[n], max_nreg_count)
            BY DEF HeldBelow, EmptyScope, Free
        <3>4. EntriesBelow'
            BY <1>2, <3>1, <3>3 DEF SaveInv, EntriesBelow
        <3>5. QED
            BY <3>1, <3>2, <3>4 DEF SaveInv, TargetsBelow, WrittenBelow
    <2>3. QED
        BY <2>1, <2>2
<1>14. ASSUME NEW next \in Levels, NEW rest \in BOOLEAN, LineStep(next, rest) PROVE Below
    <2>1. CASE Plain(next, rest) \/ Ret(next, rest) \/ RetIf(next, rest)
        BY <1>3, <2>1 DEF Plain, Ret, RetIf
    <2>2. ASSUME NEW n \in Names, NEW w \in Widths, Let(n, w, next, rest) PROVE Below
        <3>1. w \in {1, 2}
            BY WidthAssumption
        <3>2. QED
            BY <1>10, <2>2, <3>1 DEF Let
    <2>3. ASSUME NEW n \in Names, LetStack(n, next, rest) PROVE Below
        BY <1>4, <1>7, <2>3 DEF LetStack, SaveInv, TargetsBelow, WrittenBelow, registers
    <2>4. ASSUME NEW n \in Names, AssignTo(n, next, rest) PROVE Below
        <3>1. PICK i \in 1..Len(scopes) :
                 scopes[i][n].w > 0 /\ Write([scopes[i][n] EXCEPT !.w = 1])
            BY <2>4 DEF AssignTo
        <3>2. scopes[i] \in Scope
            BY <1>2
        <3>3. scopes[i][n] \in Entry /\ HeldBelow(scopes[i][n], max_nreg_count)
            BY <3>2 DEF SaveInv, EntriesBelow, Scope
        <3>4. WrittenBelow'
            BY <1>9, <2>4, <3>1, <3>3 DEF AssignTo
        <3>5. QED
            BY <1>4, <2>4, <3>4 DEF AssignTo, SaveInv, TargetsBelow, EntriesBelow, registers
    <2>5. ASSUME NEW w \in BlockWidths, Assign(w, next, rest) PROVE Below
        <3> DEFINE t == Top(targets)
                   v == IF t.assigned THEN t.reg.w ELSE w
                   b == [t.reg EXCEPT !.w = IF t.assigned THEN @ ELSE w]
        <3>1. /\ targets # <<>> /\ t.reg.w > 0 /\ UNCHANGED registers
              /\ Write([b EXCEPT !.w = 1]) /\ Assigned(t, b)
            BY <2>5 DEF Assign
        <3>2. t \in Target /\ Len(targets) \in 1..Len(targets)
            BY <1>2, <3>1 DEF Top
        <3>3. t.reg \in Entry /\ HeldBelow(t.reg, max_nreg_count)
            BY <3>2 DEF Top, Target, SaveInv, TargetsBelow
        <3>4. w \in {1, 2}
            BY WidthAssumption
        <3>5. v \in -1..2 /\ v > 0
            BY <3>1, <3>3, <3>4 DEF Entry
        <3>6. b = [t.reg EXCEPT !.w = v]
            BY <3>3 DEF Entry
        <3>7. b \in Entry /\ b.w = v /\ b.off = t.reg.off
            BY <3>3, <3>5, <3>6 DEF Entry
        <3>8. b.w > 0 /\ HeldBelow(b, max_nreg_count)
            BY <3>1, <3>3, <3>5, <3>7 DEF HeldBelow
        <3>9. QED
            BY <1>4, <1>8, <1>9, <3>1, <3>7, <3>8
    <2>6. CASE Store(next, rest)
        BY <1>4, <1>6, <1>8, <2>6 DEF Store, SaveInv, WrittenBelow, registers
    <2>7. QED
        BY <1>14, <2>1, <2>2, <2>3, <2>4, <2>5, <2>6 DEF LineStep
<1>15. ASSUME NEW next \in Levels, OpenStep(next) PROVE Below
    <2>1. CASE OpenBranch(next)
        BY <1>3, <2>1 DEF OpenBranch
    <2>2. ASSUME NEW n \in Names, OpenLet(n, next) PROVE Below
        <3>1. FreshReg(1) \in Entry /\ 1 \in {1, 2} /\ max_nreg_count' \in Nat
            BY <1>1, FreshTypes DEF TypeInv, TypeOK
        <3>2. /\ MarksBelow' /\ EntriesBelow' /\ max_nreg_count <= max_nreg_count'
              /\ \A r \in Regs(FreshReg(1)) : r < max_nreg_count'
            BY <2>2, <3>1, FreshSaved DEF OpenLet
        <3>3. HeldBelow(FreshReg(1), max_nreg_count')
            <4>1. nreg_count \in Regs(FreshReg(1)) /\ FreshReg(1).off = nreg_count
                BY <1>2 DEF FreshReg, Regs
            <4>2. QED
                BY <3>2, <4>1 DEF HeldBelow
        <3>4. TargetsBelow'
            BY <1>11, <2>2, <3>1, <3>2, <3>3 DEF OpenLet
        <3>5. WrittenBelow'
            BY <2>2, <3>1, <3>2, TargetsStayBelow DEF OpenLet, WrittenBelow
        <3>6. QED
            BY <3>2, <3>4, <3>5
    <2>3. ASSUME NEW n \in Names, OpenStack(n, next) PROVE Below
        <3>1. UNCHANGED registers /\ UNCHANGED written /\ Declare(n, StackEntry)
              /\ targets' = Append(targets, NewTarget(n, StackEntry))
            BY <2>3 DEF OpenStack
        <3>2. max_nreg_count' = max_nreg_count
            BY <3>1 DEF registers
        <3>3. TargetsBelow'
            BY <1>2, <1>6, <1>11, <3>1, <3>2
        <3>4. QED
            BY <1>4, <1>7, <3>1, <3>2, <3>3 DEF SaveInv, WrittenBelow
    <2>4. QED
        BY <1>15, <2>1, <2>2, <2>3 DEF OpenStep
<1>16. ASSUME EndOfBlock PROVE Below
    <2>1. UNCHANGED <<targets, written, max_nreg_count>>
        BY <1>16 DEF EndOfBlock
    <2>2. MarksBelow'
        <3>1. CASE nreg_mark = <<>>
            BY <1>16, <3>1 DEF EndOfBlock, SaveInv, MarksBelow
        <3>2. CASE nreg_mark # <<>>
            <4>1. Len(nreg_mark) \in 1..Len(nreg_mark)
                BY <1>2, <3>2
            <4>2. nreg_count' <= max_nreg_count'
                BY <1>16, <3>2, <4>1 DEF EndOfBlock, Top, SaveInv, MarksBelow
            <4>3. nreg_mark' = Front(nreg_mark)
                BY <1>16, <3>2 DEF EndOfBlock
            <4>4. /\ Len(nreg_mark') = Len(nreg_mark) - 1
                  /\ \A i \in 1..(Len(nreg_mark) - 1) : nreg_mark'[i] = nreg_mark[i]
                BY <1>2, <3>2, <4>3, FrontSeq
            <4>5. \A i \in 1..(Len(nreg_mark) - 1) : i \in 1..Len(nreg_mark)
                BY <4>1
            <4>6. QED
                BY <2>1, <4>2, <4>4, <4>5 DEF SaveInv, MarksBelow
        <3>3. QED
            BY <3>1, <3>2
    <2>3. EntriesBelow'
        <3>1. CASE scopes' = scopes
            BY <2>1, <3>1 DEF SaveInv, EntriesBelow
        <3>2. CASE scopes' = Front(scopes)
            <4>1. /\ Len(scopes') = Len(scopes) - 1 /\ Len(scopes) \in Nat
                  /\ \A i \in 1..(Len(scopes) - 1) : scopes'[i] = scopes[i]
                BY <1>1, <1>2, <3>2, FrontSeq DEF TypeInv
            <4>2. \A i \in 1..(Len(scopes) - 1) : i \in 1..Len(scopes)
                BY <4>1
            <4>3. QED
                BY <2>1, <4>1, <4>2 DEF SaveInv, EntriesBelow
        <3>3. QED
            BY <1>16, <3>1, <3>2 DEF EndOfBlock
    <2>4. QED
        BY <2>1, <2>2, <2>3 DEF SaveInv, TargetsBelow, WrittenBelow
<1>17. ASSUME ReturnDecl PROVE Below
    <2>1. UNCHANGED <<scopes, registers, written>>
        BY <1>17 DEF ReturnDecl
    <2>2. TargetsBelow'
        <3>1. CASE targets' = targets
            BY <2>1, <3>1 DEF SaveInv, TargetsBelow, registers
        <3>2. CASE targets = <<>> /\ targets' = Front(targets)
            BY <2>1, <3>2 DEF Front, TargetsBelow
        <3>3. CASE targets # <<>> /\ targets' = Front(targets)
            <4>1. /\ Len(targets') = Len(targets) - 1 /\ Len(targets) \in Nat
                  /\ \A i \in 1..(Len(targets) - 1) : targets'[i] = targets[i]
                BY <1>2, <3>3, FrontSeq
            <4>2. \A i \in 1..(Len(targets) - 1) : i \in 1..Len(targets)
                BY <4>1
            <4>3. QED
                BY <2>1, <4>1, <4>2 DEF SaveInv, TargetsBelow, registers
        <3>4. QED
            BY <1>17, <3>1, <3>2, <3>3 DEF ReturnDecl
    <2>3. QED
        BY <1>4, <2>1, <2>2 DEF SaveInv, EntriesBelow, WrittenBelow, registers
<1>18. ASSUME BeginBody \/ NextLine \/ LineError \/ Continue PROVE Below
    BY <1>3, <1>18 DEF BeginBody, NextLine, LineError, Continue
<1>19. ASSUME ReturnBranch \/ ReturnFunction PROVE Below
    BY <1>3, <1>19 DEF ReturnBranch, ReturnFunction
<1>20. ASSUME UNCHANGED vars PROVE Below
    BY <1>3, <1>20 DEF vars
<1>21. Below
    BY <1>12, <1>13, <1>14, <1>15, <1>16, <1>17, <1>18, <1>19, <1>20 DEF Next, Terminated
<1>22. PrologueSaves'
    <2>1. ASSUME ReturnFunction PROVE PrologueSaves'
        BY <2>1 DEF ReturnFunction, PrologueSaves, registers
    <2>2. ASSUME UNCHANGED vars PROVE PrologueSaves'
        BY <2>2 DEF vars, registers, SaveInv, PrologueSaves
    <2>3. ASSUME NEW next \in Levels, NEW rest \in BOOLEAN, LineStep(next, rest)
          PROVE  phase' # "done"
        BY <2>3 DEF LineStep, Plain, Ret, RetIf, Let, LetStack, AssignTo, Assign, Store, Line
    <2>4. ASSUME NEW next \in Levels, OpenStep(next) PROVE phase' # "done"
        BY <2>4 DEF OpenStep, OpenBranch, OpenLet, OpenStack, Open
    <2>5. ASSUME NEW n \in Names, NEW w \in Widths, Param(n, w) PROVE phase' # "done"
        BY <2>5 DEF Param
    <2>6. ASSUME BeginBody \/ StartOfBlock \/ NextLine \/ LineError \/ EndOfBlock
                 \/ Continue \/ ReturnBranch \/ ReturnDecl
          PROVE  phase' # "done"
        BY <2>6 DEF BeginBody, StartOfBlock, NextLine, LineError, EndOfBlock, Continue,
                    ReturnBranch, ReturnDecl
    <2>7. QED
        BY <2>1, <2>2, <2>3, <2>4, <2>5, <2>6 DEF Next, Terminated, PrologueSaves
<1>23. QED
    BY <1>1, <1>21, <1>22 DEF SaveInv

\* A prologue built from max_nreg_count saves every named register the function
\* writes, in whatever blocks and however wide its declarations are.
THEOREM PrologueSound == SaveMax => (Spec => []CalleeSaved)
<1> SUFFICES ASSUME SaveMax PROVE Spec => []CalleeSaved
    OBVIOUS
<1>1. Init => SaveInv
    BY InitSaveInv
<1>2. SaveInv /\ [Next]_vars => SaveInv'
    BY NextSaveInv
<1>3. SaveInv => CalleeSaved
    <2> SUFFICES ASSUME SaveInv, phase = "done" PROVE written \subseteq saved
        BY DEF CalleeSaved
    <2>1. written \subseteq Nat /\ max_nreg_count \in Nat
        BY DEF SaveInv, TypeInv, TypeOK
    <2>2. saved = 0..(max_nreg_count - 1)
        BY DEF SaveInv, PrologueSaves
    <2>3. QED
        BY <2>1, <2>2 DEF SaveInv, WrittenBelow
<1>4. QED
    BY <1>1, <1>2, <1>3, PTL DEF Spec

-----------------------------------------------------------------------------
(* The lines and the blocks that enclose them.                                *)

\* A line end that does not end the function or the source closes at most one
\* block: specs/grammar.md has no token that would close two.
OneAtATime == MaxDedent <= 1

Over == ended \/ ~more

\* The indentation of a call's block: that of its first line, read or yet to come.
Block(f) == IF f.block_indent = Unset THEN indent ELSE f.block_indent

\* The calls of parse_block are nested as their blocks are, and every call but
\* the innermost has read a line.
CallsNested ==
    /\ \A i, j \in 1..Len(frames) : i < j => Block(frames[i]) < Block(frames[j])
    /\ Block(frames[1]) = base
    /\ \A i \in 2..Len(frames) : frames[i].kind # "function"
    /\ \A i \in 1..Len(frames) : frames[i].block_indent = Unset =>
          /\ i = Len(frames)
          /\ phase \in {"params", "loop", "line"} /\ ~Over
          /\ i = 1 \/ indent = cur_indent + 1

\* How many tables there are, in each phase of parse_block.
InParams ==
    phase = "params" => /\ base = 1 /\ indent = 1 /\ eob = "SOB" /\ ~Over
                        /\ Len(scopes) = 1 /\ Len(frames) = 1
InLoop ==
    phase = "loop" =>
        /\ ~ended
        /\ more => /\ Len(scopes) = IF eob = "SOB" THEN indent ELSE indent + 1
                   /\ Block(Top(frames)) <= indent
        /\ ~more => Block(Top(frames)) < Len(scopes)
        /\ Top(frames).block_indent = Unset /\ Len(frames) > 1 => eob = "SOB"
InLine ==
    phase = "line" => ~Over /\ Len(scopes) = indent + 1 /\ Block(Top(frames)) <= indent
AfterLine ==
    phase = "parsed" =>
        /\ Block(Top(frames)) < Len(scopes)
        /\ eob = "EOB" => AtOwnIndent \/ Block(Top(frames)) < Len(scopes) - 1
        /\ ~Over => /\ Len(scopes) = cur_indent + 1
                    /\ eob = "SOB" => indent = cur_indent + 1
                    /\ eob = "NONE" => indent = cur_indent
                    /\ eob = "EOB" => indent = cur_indent - 1
AfterPop ==
    phase = "popped" => /\ eob = "EOB" /\ Block(Top(frames)) < Len(scopes)
                        /\ ~Over => Len(scopes) = indent + 1

StructInv ==
    phase \notin Terminal =>
        /\ CallsNested
        /\ InParams /\ InLoop /\ InLine /\ AfterLine /\ AfterPop
        /\ ~ended => base <= indent
        /\ Over /\ eob # "EOB" => Len(frames) = 1

-----------------------------------------------------------------------------
(* The calls of parse_block *)

\* What the types say of the calls.
LEMMA FrameFacts ==
    ASSUME TypeInv
    PROVE  /\ frames \in Seq(Frame) /\ Len(frames) \in Nat \ {0}
           /\ indent \in Nat /\ cur_indent \in Nat /\ base \in {0, 1}
           /\ Len(scopes) \in Nat \ {0}
           /\ \A i \in 1..Len(frames) : /\ frames[i].block_indent \in Int
                                        /\ Block(frames[i]) \in Int
<1>1. /\ frames \in Seq(Frame) /\ frames # <<>> /\ scopes \in Seq(Scope) /\ scopes # <<>>
      /\ indent \in Levels /\ cur_indent \in Levels /\ base \in {0, 1}
    BY DEF TypeInv, TypeOK
<1>2. Levels \subseteq Nat
    BY LevelAssumption DEF Levels
<1>3. \A i \in 1..Len(frames) : frames[i] \in Frame
    BY <1>1
<1>4. \A i \in 1..Len(frames) : frames[i].block_indent \in Levels \cup {Unset}
    BY <1>3 DEF Frame
<1>5. \A i \in 1..Len(frames) : frames[i].block_indent \in Int /\ Block(frames[i]) \in Int
    <2> SUFFICES ASSUME NEW i \in 1..Len(frames)
                 PROVE  frames[i].block_indent \in Int /\ Block(frames[i]) \in Int
        OBVIOUS
    <2>1. frames[i].block_indent \in Levels \cup {Unset}
        BY <1>4
    <2>2. Unset \in Int /\ Levels \cup {Unset} \subseteq Int
        BY LevelAssumption DEF Unset, Levels
    <2>3. frames[i].block_indent \in Int /\ indent \in Int
        BY <1>1, <2>1, <2>2, Zenon
    <2>4. QED
        BY <2>3 DEF Block
<1>6. Len(frames) \in Nat \ {0} /\ Len(scopes) \in Nat \ {0}
    BY <1>1
<1>7. QED
    BY <1>1, <1>2, <1>5, <1>6

\* The first line of a call's block fixes its indentation, which it already had.
LEMMA SeenBlocks ==
    ASSUME TypeInv, CallsNested
    PROVE  /\ Len(Seen) = Len(frames)
           /\ \A i \in 1..Len(frames) :
                 /\ Seen[i].kind = frames[i].kind
                 /\ Seen[i].block_indent = Block(frames[i])
                 /\ Seen[i].block_indent # Unset
<1> DEFINE F == Len(frames)
           g == [frames[F] EXCEPT !.block_indent = IF @ = Unset THEN indent ELSE @]
<1>1. frames \in Seq(Frame) /\ F \in Nat \ {0} /\ indent \in Nat
    BY FrameFacts
<1>2. frames[F] \in Frame
    BY <1>1
<1>3. g.block_indent = Block(frames[F]) /\ g.kind = frames[F].kind
    BY <1>2 DEF Frame, Block
<1>4. Seen = [frames EXCEPT ![F] = g]
    BY DEF Seen
<1>5. Len(Seen) = F /\ \A i \in 1..F : Seen[i] = IF i = F THEN g ELSE frames[i]
    BY <1>1, <1>4
<1>6. \A i \in 1..F : i # F => Block(frames[i]) = frames[i].block_indent
    BY DEF CallsNested, Block
<1>7. \A i \in 1..F : Block(frames[i]) # Unset
    BY <1>1 DEF Block, Unset
<1>8. QED
    BY <1>3, <1>5, <1>6, <1>7, SeenFrames

\* The blocks lie one within the other, the function's own outermost.
LEMMA BlocksOrdered ==
    ASSUME TypeInv, CallsNested
    PROVE  /\ Block(Top(frames)) \in Int
           /\ \A i \in 1..Len(frames) : /\ base <= Block(frames[i])
                                        /\ Block(frames[i]) <= Block(Top(frames))
                                        /\ i # 1 => base < Block(frames[i])
<1> DEFINE F == Len(frames)
<1>1. F \in Nat \ {0} /\ \A i \in 1..F : Block(frames[i]) \in Int
    BY FrameFacts
<1>2. base = Block(frames[1])
    BY DEF CallsNested
<1>3. Top(frames) = frames[F] /\ 1 \in 1..F /\ F \in 1..F
    BY <1>1 DEF Top
<1>4. \A i \in 1..F : i # 1 => Block(frames[1]) < Block(frames[i])
    BY <1>1, <1>3 DEF CallsNested
<1>5. \A i \in 1..F : i # F => Block(frames[i]) < Block(frames[F])
    BY <1>1, <1>3 DEF CallsNested
<1>6. ASSUME NEW i \in 1..F
      PROVE  /\ base <= Block(frames[i]) /\ Block(frames[i]) <= Block(frames[F])
             /\ i # 1 => base < Block(frames[i])
    BY <1>1, <1>2, <1>3, <1>4, <1>5
<1>7. QED
    BY <1>1, <1>3, <1>6

\* Where the parser is when a line is due.
LEMMA LineFacts ==
    ASSUME TypeInv, StructInv, phase = "line"
    PROVE  /\ CallsNested /\ ~ended /\ more /\ Len(scopes) = indent + 1
           /\ Block(Top(frames)) <= indent /\ base <= indent
<1>1. CallsNested /\ InLine
    BY DEF StructInv, Terminal
<1>2. ~ended /\ more /\ Len(scopes) = indent + 1 /\ Block(Top(frames)) <= indent
    BY <1>1 DEF InLine, Over
<1>3. base <= indent
    BY <1>2 DEF StructInv, Terminal
<1>4. QED
    BY <1>1, <1>2, <1>3

\* A line that opens no block.  `returns` is a `ret` at the indentation of main.
LEMMA LineStruct ==
    ASSUME OneAtATime, TypeInv, StructInv, TypeInv',
           NEW next \in Levels, NEW rest \in BOOLEAN, NEW returns \in BOOLEAN,
           Line(next, rest), Len(scopes') = Len(scopes),
           ended' = (ended \/ EndsBody(next) \/ (returns /\ base = 0 /\ indent = 0))
    PROVE  StructInv'
<1> DEFINE F == Len(frames)
           B(i) == Block(frames[i])
<1>1. /\ phase = "line" /\ next <= indent + 1 /\ next \in Nat /\ (~rest => next = 0)
      /\ indent - next <= MaxDedent \/ EndsBody(next) \/ ~rest
      /\ cur_indent' = indent /\ indent' = next /\ more' = rest
      /\ eob' = IF next > indent THEN "SOB" ELSE IF next < indent THEN "EOB" ELSE "NONE"
      /\ frames' = Seen /\ phase' = "parsed" /\ base' = base
    BY LevelAssumption DEF Line, ReadLine, Levels
<1>2. /\ CallsNested /\ ~ended /\ more /\ Len(scopes) = indent + 1
      /\ Block(Top(frames)) <= indent /\ base <= indent
    BY <1>1, LineFacts
<1>3. /\ F \in Nat \ {0} /\ indent \in Nat /\ base \in {0, 1} /\ \A i \in 1..F : B(i) \in Int
    BY FrameFacts
<1>4. /\ Len(frames') = F
      /\ \A i \in 1..F : /\ frames'[i].kind = frames[i].kind
                         /\ frames'[i].block_indent = B(i)
                         /\ frames'[i].block_indent # Unset
    BY <1>1, <1>2, SeenBlocks
<1>5. \A i \in 1..F : Block(frames[i])' = B(i)
    BY <1>4 DEF Block
<1>6. CallsNested'
    <2>1. \A i, j \in 1..F : i < j => Block(frames[i])' < Block(frames[j])'
        BY <1>2, <1>5 DEF CallsNested
    <2>2. Block(frames[1])' = base'
        BY <1>1, <1>2, <1>3, <1>5 DEF CallsNested
    <2>3. \A i \in 2..F : frames'[i].kind # "function"
        BY <1>2, <1>3, <1>4 DEF CallsNested
    <2>4. QED
        BY <1>4, <2>1, <2>2, <2>3 DEF CallsNested
<1>7. /\ Block(Top(frames))' = B(F) /\ Block(Top(frames)) = B(F)
      /\ Top(frames').block_indent = B(F)
    BY <1>3, <1>4, <1>5 DEF Top
<1>8. ended' => next < base \/ (base = 0 /\ indent = 0)
    <2>1. ended' => EndsBody(next) \/ (base = 0 /\ indent = 0)
        BY <1>2, Zenon
    <2>2. EndsBody(next) => next < base
        BY <1>1, <1>2, <1>3 DEF EndsBody
    <2>3. QED
        BY <2>1, <2>2
<1>9. AfterLine'
    <2>1. B(F) \in Int /\ B(F) <= indent
        BY <1>2, <1>3, <1>7
    <2>2. Block(Top(frames))' < Len(scopes')
        BY <1>2, <1>3, <1>7, <2>1
    <2>3. AtOwnIndent' \/ Block(Top(frames))' < Len(scopes') - 1
        <3>1. AtOwnIndent' <=> indent = B(F)
            BY <1>1, <1>7 DEF AtOwnIndent
        <3>2. QED
            BY <1>2, <1>3, <1>7, <2>1, <3>1
    <2>4. ASSUME ~Over' PROVE /\ next >= base
                              /\ eob' = "SOB" => next = indent + 1
                              /\ eob' = "NONE" => next = indent
                              /\ eob' = "EOB" => next = indent - 1
        <3>1. ~EndsBody(next) /\ rest
            BY <1>1, <2>4 DEF Over
        <3>2. indent - next <= 1
            BY <1>1, <1>3, <3>1, LevelAssumption DEF OneAtATime
        <3>3. next >= base
            BY <1>1, <1>3, <3>1 DEF EndsBody
        <3>4. QED
            BY <1>1, <1>3, <3>2, <3>3
    <2>5. QED
        BY <1>1, <1>2, <2>2, <2>3, <2>4 DEF AfterLine
<1>10. ~ended' => base' <= indent'
    <2>1. ~ended' => ~EndsBody(next)
        BY Zenon
    <2>2. ~EndsBody(next) => base <= next
        BY <1>1, <1>3 DEF EndsBody
    <2>3. QED
        BY <1>1, <2>1, <2>2
<1>11. Over' /\ eob' # "EOB" => Len(frames') = 1
    <2> SUFFICES ASSUME Over', eob' # "EOB" PROVE F = 1
        BY <1>4
    <2>1. next >= indent
        BY <1>1, <1>3
    <2>2. indent = 0
        BY <1>1, <1>2, <1>3, <1>8, <2>1 DEF Over
    <2>3. \A i \in 1..F : i # 1 => base < B(i) /\ B(i) <= 0
        BY <1>2, <1>3, <2>2, BlocksOrdered
    <2>4. F # 1 => base < B(F) /\ B(F) <= 0
        <3>1. F \in 1..F
            BY <1>3
        <3> HIDE DEF F, B
        <3>2. QED
            BY <2>3, <3>1, Zenon
    <2>5. QED
        BY <1>3, <2>4
<1>12. InParams' /\ InLoop' /\ InLine' /\ AfterPop'
    BY <1>1 DEF InParams, InLoop, InLine, AfterPop
<1>13. QED
    BY <1>6, <1>9, <1>10, <1>11, <1>12 DEF StructInv

\* A line that opens a block: parse_block is entered for the deeper line.
LEMMA OpenStruct ==
    ASSUME TypeInv, StructInv, NEW next \in Levels, NEW kind \in {"branch", "decl"},
           Open(kind, next), Len(scopes') = Len(scopes), Ends(next)
    PROVE  /\ StructInv'
           /\ frames' = Append(Seen, [kind |-> kind, block_indent |-> Unset])
           /\ Len(frames') = Len(frames) + 1
           /\ \A i \in 1..Len(frames) : /\ frames'[i].kind = frames[i].kind
                                        /\ Block(frames[i])' = Block(frames[i])
           /\ Block(Top(frames))' = indent + 1
<1> DEFINE F == Len(frames)
           new == [kind |-> kind, block_indent |-> Unset]
           B(i) == Block(frames[i])
<1>1. /\ phase = "line" /\ next \in Nat /\ next = indent + 1
      /\ cur_indent' = indent /\ indent' = next /\ more' = TRUE /\ eob' = "SOB"
      /\ frames' = Append(Seen, new) /\ phase' = "loop" /\ base' = base
    <2>1. indent \in Nat /\ next \in Nat
        BY FrameFacts, LevelAssumption DEF Levels
    <2>2. next > indent /\ next <= indent + 1
        BY DEF Open, ReadLine
    <2>3. eob' = "SOB"
        BY <2>2 DEF Open, ReadLine
    <2>4. QED
        BY <2>1, <2>2, <2>3 DEF Open, ReadLine
<1>2. /\ CallsNested /\ ~ended /\ more /\ Len(scopes) = indent + 1
      /\ Block(Top(frames)) <= indent /\ base <= indent
    BY <1>1, LineFacts
<1>3. /\ F \in Nat \ {0} /\ indent \in Nat /\ base \in {0, 1} /\ \A i \in 1..F : B(i) \in Int
    BY FrameFacts
<1>4. ~ended'
    <2>1. ~EndsBody(next)
        BY <1>1, <1>2, <1>3 DEF EndsBody
    <2>2. QED
        BY <1>2, <2>1, Zenon DEF Ends
<1>5. /\ Seen \in Seq(Frame) /\ Len(Seen) = F
      /\ \A i \in 1..F : /\ Seen[i].kind = frames[i].kind
                         /\ Seen[i].block_indent = B(i)
                         /\ Seen[i].block_indent # Unset
    BY <1>2, SeenFrames, SeenBlocks
<1>6. new \in Frame
    BY DEF Frame
<1>7. Len(frames') = F + 1 /\ frames'[F + 1] = new /\ \A i \in 1..F : frames'[i] = Seen[i]
    BY <1>1, <1>3, <1>5, <1>6
<1>8. \A i \in 1..F : Block(frames[i])' = B(i)
    BY <1>5, <1>7 DEF Block
<1>9. \A i \in {F + 1} : Block(frames[i])' = indent + 1
    BY <1>1, <1>7 DEF Block
<1>10. \A i \in 1..F : B(i) <= indent
    <2>1. Block(Top(frames)) \in Int /\ \A i \in 1..F : B(i) <= Block(Top(frames))
        BY <1>2, BlocksOrdered
    <2>2. QED
        BY <1>2, <1>3, <2>1
<1>11. CallsNested'
    <2>1. ASSUME NEW i \in 1..(F + 1), NEW j \in 1..(F + 1), i < j
          PROVE  Block(frames[i])' < Block(frames[j])'
        <3>1. i \in 1..F
            BY <1>3, <2>1
        <3>2. CASE j = F + 1
            <4>1. B(i) <= indent /\ B(i) \in Int /\ Block(frames[i])' = B(i)
                BY <1>3, <1>8, <1>10, <3>1
            <4>2. Block(frames[j])' = indent + 1
                BY <1>9, <3>2
            <4>3. QED
                BY <1>3, <4>1, <4>2
        <3>3. CASE j \in 1..F
            <4>1. B(i) < B(j)
                BY <1>2, <2>1, <3>1, <3>3 DEF CallsNested
            <4>2. QED
                BY <1>8, <3>1, <3>3, <4>1
        <3>4. QED
            BY <1>3, <3>2, <3>3
    <2>2. Block(frames[1])' = base'
        BY <1>1, <1>2, <1>3, <1>8 DEF CallsNested
    <2>3. \A i \in 2..(F + 1) : frames'[i].kind # "function"
        <3>1. \A i \in 2..F : frames[i].kind # "function"
            BY <1>2 DEF CallsNested
        <3>2. new.kind # "function"
            OBVIOUS
        <3>3. \A i \in 2..(F + 1) : i = F + 1 \/ (i \in 2..F /\ i \in 1..F)
            BY <1>3
        <3>4. QED
            BY <1>5, <1>7, <3>1, <3>2, <3>3
    <2>4. \A i \in 1..(F + 1) : frames'[i].block_indent = Unset => i = F + 1
        BY <1>3, <1>5, <1>7
    <2>5. ~Over' /\ indent' = cur_indent' + 1
        BY <1>1, <1>4 DEF Over
    <2>6. QED
        BY <1>1, <1>7, <2>1, <2>2, <2>3, <2>4, <2>5 DEF CallsNested
<1>12. Block(Top(frames))' = indent + 1
    BY <1>1, <1>7 DEF Top, Block
<1>13. InLoop'
    BY <1>1, <1>2, <1>4, <1>12 DEF InLoop
<1>14. InParams' /\ InLine' /\ AfterLine' /\ AfterPop'
    BY <1>1 DEF InParams, InLine, AfterLine, AfterPop
<1>15. base' <= indent' /\ eob' = "SOB" /\ ~Over'
    BY <1>1, <1>2, <1>3, <1>4 DEF Over
<1>16. StructInv'
    BY <1>11, <1>13, <1>14, <1>15 DEF StructInv
<1>17. QED
    BY <1>1, <1>5, <1>7, <1>8, <1>12, <1>16

\* The calls stay as they are when neither they nor the lexer move.
LEMMA SameCalls ==
    ASSUME CallsNested, UNCHANGED <<base, lexer, frames>>,
           phase' \in {"params", "loop", "line"} \/
               \A i \in 1..Len(frames) : frames[i].block_indent # Unset
    PROVE  CallsNested'
BY DEF CallsNested, lexer, Over, Block

\* The head of the loop.
LEMMA LoopHeadStruct ==
    ASSUME TypeInv, StructInv, StartOfBlock \/ NextLine
    PROVE  StructInv'
<1>1. /\ phase = "loop" /\ more /\ UNCHANGED <<base, lexer, frames>>
      /\ phase' \in {"line", "abort"}
    BY DEF StartOfBlock, NextLine
<1>2. CallsNested /\ InLoop /\ (~ended => base <= indent)
    BY <1>1 DEF StructInv, Terminal
<1>3. /\ ~ended /\ Block(Top(frames)) <= indent /\ base <= indent
      /\ Len(scopes) = IF eob = "SOB" THEN indent ELSE indent + 1
    BY <1>1, <1>2 DEF InLoop
<1>4. CASE phase' = "line"
    <2>1. Len(scopes') = indent + 1
        <3>1. CASE StartOfBlock
            <4>1. eob = "SOB" /\ scopes' = Append(scopes, EmptyScope)
                BY <1>4, <3>1 DEF StartOfBlock
            <4>2. scopes \in Seq(Scope)
                BY DEF TypeInv, TypeOK
            <4>3. Len(scopes') = Len(scopes) + 1
                BY <4>1, <4>2
            <4>4. QED
                BY <1>3, <4>1, <4>3
        <3>2. CASE NextLine
            BY <1>3, <3>2 DEF NextLine
        <3>3. QED
            BY <3>1, <3>2
    <2>2. CallsNested'
        BY <1>1, <1>2, <1>4, SameCalls
    <2>3. ~Over' /\ indent' = indent /\ base' = base /\ Block(Top(frames))' = Block(Top(frames))
        BY <1>1, <1>3 DEF Over, lexer, Top, Block
    <2>4. InLine'
        BY <1>3, <2>1, <2>3 DEF InLine
    <2>5. InParams' /\ InLoop' /\ AfterLine' /\ AfterPop'
        BY <1>4 DEF InParams, InLoop, AfterLine, AfterPop
    <2>6. QED
        BY <1>3, <2>2, <2>3, <2>4, <2>5 DEF StructInv
<1>5. CASE phase' = "abort"
    BY <1>5 DEF StructInv, Terminal
<1>6. QED
    BY <1>1, <1>4, <1>5

\* The end of a block: the calls that are left stand in the blocks around it.
LEMMA EndOfBlockStruct ==
    ASSUME TypeInv, StructInv, EndOfBlock
    PROVE  /\ StructInv'
           /\ Block(Top(frames)) < Len(scopes) - 1
           /\ ~Over => Len(scopes) = indent + 2
<1>1. /\ phase = "parsed" /\ eob = "EOB" /\ ~AtOwnIndent /\ phase' = "popped"
      /\ UNCHANGED <<base, lexer, frames>>
      /\ scopes' = IF Len(scopes) = 1 THEN scopes ELSE Front(scopes)
    BY DEF EndOfBlock
<1>2. CallsNested /\ AfterLine /\ (~ended => base <= indent)
    BY <1>1 DEF StructInv, Terminal
<1>3. /\ Block(Top(frames)) < Len(scopes) - 1
      /\ ~Over => Len(scopes) = cur_indent + 1 /\ indent = cur_indent - 1
    BY <1>1, <1>2 DEF AfterLine
<1>4. /\ scopes \in Seq(Scope) /\ Len(scopes) \in Nat \ {0} /\ indent \in Nat
      /\ cur_indent \in Nat /\ base \in {0, 1} /\ Len(frames) \in Nat \ {0}
    BY FrameFacts DEF TypeInv, TypeOK
<1>5. /\ Block(Top(frames)) \in Int /\ 0 <= Block(Top(frames))
    <2>1. 1 \in 1..Len(frames) /\ base \in Int /\ 0 <= base
        BY <1>4
    <2>2. base <= Block(Top(frames)) /\ Block(Top(frames)) \in Int
        <3>1. base <= Block(frames[1]) /\ Block(frames[1]) <= Block(Top(frames))
            BY <1>2, <2>1, BlocksOrdered
        <3>2. Block(frames[1]) \in Int /\ Block(Top(frames)) \in Int
            BY <1>2, <2>1, BlocksOrdered, FrameFacts
        <3>3. QED
            BY <2>1, <3>1, <3>2
    <2>3. QED
        BY <2>1, <2>2
<1>6. Len(scopes') = Len(scopes) - 1
    <2>1. Len(scopes) # 1
        <3>1. \A b, l \in Int : 0 <= b /\ b < l - 1 => l # 1
            OBVIOUS
        <3>2. Block(Top(frames)) < Len(scopes) - 1 /\ Len(scopes) \in Int
            BY <1>3, <1>4
        <3>3. QED
            BY <1>5, <3>1, <3>2
    <2>2. scopes # <<>>
        BY <1>4
    <2>3. QED
        BY <1>1, <1>4, <2>1, <2>2, FrontSeq
<1>7. \A i \in 1..Len(frames) : frames[i].block_indent # Unset
    BY <1>1, <1>2 DEF CallsNested
<1>8. CallsNested'
    BY <1>1, <1>2, <1>7, SameCalls
<1>9. /\ Block(Top(frames))' = Block(Top(frames)) /\ Over' = Over /\ ended' = ended
      /\ indent' = indent /\ base' = base /\ eob' = eob
    BY <1>1 DEF lexer, Block, Top, Over
<1>10. AfterPop'
    <2>1. ~Over => Len(scopes') = indent' + 1
        BY <1>3, <1>4, <1>6, <1>9
    <2>2. Block(Top(frames))' < Len(scopes')
        BY <1>3, <1>4, <1>5, <1>6, <1>9
    <2>3. QED
        BY <1>1, <1>9, <2>1, <2>2 DEF AfterPop
<1>11. InParams' /\ InLoop' /\ InLine' /\ AfterLine'
    BY <1>1 DEF InParams, InLoop, InLine, AfterLine
<1>12. StructInv'
    BY <1>1, <1>2, <1>8, <1>9, <1>10, <1>11 DEF StructInv
<1>13. ~Over => Len(scopes) = indent + 2
    BY <1>3, <1>4
<1>14. QED
    BY <1>3, <1>12, <1>13

\* The end of a turn of the loop of parse_block.
LEMMA ContinueStruct ==
    ASSUME TypeInv, StructInv, Continue
    PROVE  StructInv'
<1>1. /\ LoopTail /\ ~ended /\ phase' = "loop" /\ UNCHANGED <<base, lexer, frames, scopes>>
      /\ phase \in {"parsed", "popped"}
    BY DEF Continue, LoopTail
<1>2. /\ CallsNested /\ AfterLine /\ AfterPop /\ base <= indent
      /\ (Over /\ eob # "EOB" => Len(frames) = 1)
    BY <1>1 DEF StructInv, Terminal
<1>3. \A i \in 1..Len(frames) : frames[i].block_indent # Unset
    BY <1>1, <1>2 DEF CallsNested
<1>4. CallsNested'
    BY <1>1, <1>2, SameCalls
<1>5. /\ Block(Top(frames))' = Block(Top(frames)) /\ Over' = Over /\ ended' = ended
      /\ indent' = indent /\ base' = base /\ eob' = eob /\ more' = more
      /\ frames' = frames /\ scopes' = scopes
    BY <1>1 DEF lexer, Block, Top, Over
<1>6. Len(frames) \in 1..Len(frames)
    BY FrameFacts
<1>7. Top(frames').block_indent # Unset
    BY <1>3, <1>5, <1>6 DEF Top
<1>8. Block(Top(frames)) < Len(scopes)
    BY <1>1, <1>2 DEF AfterLine, AfterPop
<1>9. more => Len(scopes) = IF eob = "SOB" THEN indent ELSE indent + 1
    <2> SUFFICES ASSUME more PROVE Len(scopes) = IF eob = "SOB" THEN indent ELSE indent + 1
        OBVIOUS
    <2>1. ~Over
        BY <1>1 DEF Over
    <2>2. eob \in {"NONE", "SOB", "EOB"} /\ indent \in Nat /\ cur_indent \in Nat
        BY FrameFacts DEF TypeInv, TypeOK
    <2>3. CASE phase = "popped"
        BY <1>2, <2>1, <2>3 DEF AfterPop
    <2>4. CASE phase = "parsed"
        <3>1. eob # "EOB"
            BY <1>1, <2>4 DEF LoopTail
        <3>2. QED
            BY <1>2, <2>1, <2>2, <2>4, <3>1 DEF AfterLine
    <2>5. QED
        BY <1>1, <2>3, <2>4
<1>10. more => Block(Top(frames)) <= indent
    <2>1. /\ Len(scopes) \in Int /\ indent \in Int /\ Block(Top(frames)) \in Int
        BY <1>2, FrameFacts, BlocksOrdered
    <2>2. more => Len(scopes) <= indent + 1
        BY <1>9, <2>1
    <2>3. QED
        BY <1>8, <2>1, <2>2
<1>11. InLoop'
    BY <1>1, <1>5, <1>7, <1>8, <1>9, <1>10 DEF InLoop
<1>12. InParams' /\ AfterPop' /\ InLine' /\ AfterLine'
    BY <1>1 DEF InParams, AfterPop, InLine, AfterLine
<1>13. QED
    BY <1>2, <1>4, <1>5, <1>11, <1>12 DEF StructInv

\* When parse_block returns, its block lies within the tables there are; it
\* returns at its own indentation, or because no line is left.
LEMMA LeavingFacts ==
    ASSUME TypeInv, StructInv, Leaving
    PROVE  /\ CallsNested /\ phase \in {"loop", "parsed", "popped"}
           /\ \A i \in 1..Len(frames) : frames[i].block_indent # Unset
           /\ Block(Top(frames)) < Len(scopes)
           /\ ~Over => /\ phase = "parsed" /\ AtOwnIndent
                       /\ Len(scopes) = cur_indent + 1 /\ indent = cur_indent - 1
           /\ eob # "EOB" => Len(frames) = 1
           /\ ~ended => base <= indent
<1>1. phase \in {"loop", "parsed", "popped"} /\ (phase = "loop" => ~more)
    BY DEF Leaving, LoopTail
<1>2. /\ CallsNested /\ InLoop /\ AfterLine /\ AfterPop
      /\ (Over /\ eob # "EOB" => Len(frames) = 1)
      /\ ~ended => base <= indent
    BY <1>1 DEF StructInv, Terminal
<1>3. Over \/ (phase = "parsed" /\ eob = "EOB" /\ AtOwnIndent)
    BY DEF Leaving, Over
<1>4. \A i \in 1..Len(frames) : frames[i].block_indent # Unset
    BY <1>1, <1>2 DEF CallsNested, Over
<1>5. Block(Top(frames)) < Len(scopes)
    BY <1>1, <1>2 DEF InLoop, AfterLine, AfterPop
<1>6. ~Over => Len(scopes) = cur_indent + 1 /\ indent = cur_indent - 1
    BY <1>2, <1>3 DEF AfterLine
<1>7. QED
    BY <1>1, <1>2, <1>3, <1>4, <1>5, <1>6

\* parse_block returns to the line that opened its block.
LEMMA ReturnStruct ==
    ASSUME TypeInv, StructInv, Leaving, Top(frames).kind # "function",
           frames' = Front(frames), phase' = "parsed", UNCHANGED <<base, lexer, scopes>>
    PROVE  /\ StructInv'
           /\ Len(frames) > 1 /\ Len(frames') = Len(frames) - 1
           /\ \A i \in 1..(Len(frames) - 1) : /\ frames'[i] = frames[i]
                                              /\ Block(frames[i])' = Block(frames[i])
<1> DEFINE F == Len(frames)
<1>1. F \in Nat \ {0, 1} /\ frames # <<>> /\ frames \in Seq(Frame)
    BY FrameFacts DEF Top, TypeInv
<1>2. Len(frames') = F - 1 /\ \A i \in 1..(F - 1) : frames'[i] = frames[i]
    BY <1>1, FrontSeq
<1>3. /\ CallsNested /\ eob = "EOB" /\ Block(Top(frames)) < Len(scopes)
      /\ \A i \in 1..F : frames[i].block_indent # Unset
      /\ ~Over => Len(scopes) = cur_indent + 1 /\ indent = cur_indent - 1
      /\ ~ended => base <= indent
    BY <1>1, LeavingFacts
<1>4. \A i \in 1..(F - 1) : i \in 1..F
    BY <1>1
<1>5. \A i \in 1..(F - 1) : Block(frames[i])' = Block(frames[i])
    BY <1>2, <1>3, <1>4 DEF Block
<1>6. /\ Over' = Over /\ ended' = ended /\ indent' = indent /\ base' = base /\ eob' = eob
      /\ cur_indent' = cur_indent /\ scopes' = scopes
    BY DEF lexer, Over
<1>7. CallsNested'
    <2>1. \A i, j \in 1..(F - 1) : i < j => Block(frames[i])' < Block(frames[j])'
        BY <1>3, <1>4, <1>5 DEF CallsNested
    <2>2. Block(frames[1])' = base'
        <3>1. 1 \in 1..(F - 1)
            BY SMTT(30), <1>1
        <3>2. QED
            BY <1>3, <1>5, <1>6, <3>1 DEF CallsNested
    <2>3. \A i \in 2..(F - 1) : frames'[i].kind # "function"
        <3>1. \A i \in 2..(F - 1) : i \in 2..F /\ i \in 1..(F - 1)
            BY <1>1
        <3>2. QED
            BY <1>2, <1>3, <3>1 DEF CallsNested
    <2>4. \A i \in 1..(F - 1) : frames'[i].block_indent # Unset
        BY <1>2, <1>3, <1>4
    <2>5. QED
        BY <1>2, <2>1, <2>2, <2>3, <2>4 DEF CallsNested
<1>8. /\ Block(Top(frames))' \in Int /\ Len(scopes) \in Int
      /\ Block(Top(frames))' < Len(scopes) - 1
    <2>1. F - 1 \in 1..F /\ F \in 1..F /\ F - 1 \in 1..(F - 1) /\ F - 1 < F
        <3>1. \A f \in Nat \ {0, 1} : /\ f - 1 \in 1..f /\ f \in 1..f
                                       /\ f - 1 \in 1..(f - 1) /\ f - 1 < f
            OBVIOUS
        <3>2. QED
            BY <1>1, <3>1
    <2>2. Block(Top(frames))' = Block(frames[F - 1])
        <3>1. Top(frames') = frames[F - 1]
            BY <1>2, <2>1 DEF Top
        <3>2. frames[F - 1].block_indent # Unset
            BY <1>3, <2>1
        <3>3. QED
            BY <3>1, <3>2 DEF Block, Top
    <2>3. Block(frames[F - 1]) < Block(Top(frames))
        BY <1>3, <2>1 DEF CallsNested, Top
    <2>4. Block(frames[F - 1]) \in Int /\ Block(Top(frames)) \in Int /\ Len(scopes) \in Int
        BY <1>3, <2>1, FrameFacts, BlocksOrdered
    <2>5. QED
        BY <1>3, <2>2, <2>3, <2>4
<1>9. AfterLine'
    <2>1. Block(Top(frames))' < Len(scopes)
        BY <1>8
    <2>2. QED
        BY <1>3, <1>6, <1>8, <2>1 DEF AfterLine
<1>10. InParams' /\ InLoop' /\ InLine' /\ AfterPop'
    BY DEF InParams, InLoop, InLine, AfterPop
<1>11. StructInv'
    BY <1>3, <1>6, <1>7, <1>9, <1>10 DEF StructInv
<1>12. QED
    BY <1>1, <1>2, <1>5, <1>11

-----------------------------------------------------------------------------
(* Every step *)

LEMMA InitStruct == Init => StructInv
<1> SUFFICES ASSUME Init PROVE StructInv
    OBVIOUS
<1>1. /\ Len(frames) = 1 /\ frames[1].kind = "function" /\ frames[1].block_indent = Unset
      /\ Len(scopes) = 1 /\ base \in {0, 1} /\ indent = base /\ ~Over /\ Top(frames) = frames[1]
    BY DEF Init, Over, Top
<1>2. Block(frames[1]) = base
    BY <1>1 DEF Block
<1>3. phase = (IF base = 1 THEN "params" ELSE "loop") /\ eob = (IF base = 1 THEN "SOB" ELSE "NONE")
    BY DEF Init
<1>4. CallsNested
    BY <1>1, <1>2, <1>3 DEF CallsNested
<1>5. InParams /\ InLoop /\ InLine /\ AfterLine /\ AfterPop
    BY <1>1, <1>2, <1>3 DEF InParams, InLoop, InLine, AfterLine, AfterPop, Over
<1>6. QED
    BY <1>1, <1>4, <1>5 DEF StructInv, Over

\* A parameter, a diagnostic and a step that changes nothing leave the structure.
LEMMA SameStruct ==
    ASSUME TypeInv, StructInv, Len(scopes') = Len(scopes),
           UNCHANGED <<base, lexer, frames>>, UNCHANGED phase \/ phase' \in Terminal
    PROVE  StructInv'
<1>1. /\ Over' = Over /\ ended' = ended /\ indent' = indent /\ base' = base /\ eob' = eob
      /\ more' = more /\ cur_indent' = cur_indent /\ frames' = frames
      /\ Block(Top(frames))' = Block(Top(frames)) /\ AtOwnIndent' = AtOwnIndent
    BY DEF lexer, Over, Block, Top, AtOwnIndent
<1>2. \A i \in 1..Len(frames) : Block(frames[i])' = Block(frames[i])
    BY <1>1 DEF Block
<1>3. ASSUME phase \notin Terminal, UNCHANGED phase PROVE StructInv'
    <2>1. CallsNested'
        <3>1. CallsNested
            BY <1>3 DEF StructInv
        <3>2. 1 \in 1..Len(frames)
            BY FrameFacts
        <3>3. QED
            BY <1>1, <1>2, <1>3, <3>1, <3>2 DEF CallsNested
    <2>2. InParams' /\ InLoop' /\ InLine' /\ AfterLine' /\ AfterPop'
        BY <1>1, <1>3 DEF StructInv, InParams, InLoop, InLine, AfterLine, AfterPop
    <2>3. QED
        BY <1>1, <1>3, <2>1, <2>2 DEF StructInv
<1>4. ASSUME phase' \in Terminal PROVE StructInv'
    BY <1>4 DEF StructInv
<1>5. ASSUME phase \in Terminal, UNCHANGED phase PROVE StructInv'
    BY <1>5 DEF StructInv
<1>6. QED
    BY <1>3, <1>4, <1>5

LEMMA BeginBodyStruct ==
    ASSUME TypeInv, StructInv, BeginBody
    PROVE  StructInv'
<1>1. phase = "params" /\ phase' = "loop" /\ UNCHANGED <<base, lexer, frames, scopes>>
    BY DEF BeginBody
<1>2. CallsNested /\ InParams
    BY <1>1 DEF StructInv, Terminal
<1>3. /\ base = 1 /\ indent = 1 /\ eob = "SOB" /\ ~Over /\ Len(scopes) = 1 /\ Len(frames) = 1
    BY <1>1, <1>2 DEF InParams
<1>4. CallsNested'
    BY <1>1, <1>2, SameCalls
<1>5. /\ Over' = Over /\ ended' = ended /\ indent' = indent /\ base' = base /\ eob' = eob
      /\ more' = more /\ frames' = frames /\ scopes' = scopes
      /\ Block(Top(frames))' = Block(Top(frames))
    BY <1>1 DEF lexer, Over, Block, Top
<1>6. Block(Top(frames)) = 1
    BY <1>2, <1>3 DEF CallsNested, Top
<1>7. ~ended /\ more
    BY <1>3 DEF Over
<1>8. InLoop'
    BY <1>1, <1>3, <1>5, <1>6, <1>7 DEF InLoop
<1>9. InParams' /\ AfterPop' /\ InLine' /\ AfterLine'
    BY <1>1 DEF InParams, AfterPop, InLine, AfterLine
<1>10. QED
    BY <1>3, <1>4, <1>5, <1>8, <1>9 DEF StructInv

\* What a declaration, an assignment or neither does to the name tables leaves
\* their number alone.
LEMMA SameTables ==
    ASSUME TypeInv, NEW n \in Names, NEW b
    PROVE  /\ Declare(n, b) => Len(scopes') = Len(scopes)
           /\ \A t : Assigned(t, b) => Len(scopes') = Len(scopes)
<1>1. scopes \in Seq(Scope)
    BY DEF TypeInv, TypeOK
<1>2. QED
    BY <1>1 DEF Declare, Assigned

LEMMA LineStepStruct ==
    ASSUME OneAtATime, TypeInv, StructInv, TypeInv',
           NEW next \in Levels, NEW rest \in BOOLEAN, LineStep(next, rest)
    PROVE  StructInv'
<1>1. ASSUME NEW r \in BOOLEAN, Line(next, rest), Len(scopes') = Len(scopes),
             ended' = (ended \/ EndsBody(next) \/ (r /\ base = 0 /\ indent = 0))
      PROVE  StructInv'
    BY <1>1, LineStruct
<1>2. ASSUME Line(next, rest), Len(scopes') = Len(scopes), Ends(next)
      PROVE  StructInv'
    <2>1. ended' = (ended \/ EndsBody(next) \/ (FALSE /\ base = 0 /\ indent = 0))
        BY <1>2 DEF Ends
    <2>2. QED
        BY <1>1, <1>2, <2>1
<1>3. CASE Plain(next, rest) \/ RetIf(next, rest)
    BY <1>2, <1>3 DEF Plain, RetIf
<1>4. CASE Ret(next, rest)
    <2>1. ended' = (ended \/ EndsBody(next) \/ (TRUE /\ base = 0 /\ indent = 0))
        BY <1>4 DEF Ret
    <2>2. Line(next, rest) /\ Len(scopes') = Len(scopes)
        BY <1>4 DEF Ret
    <2>3. QED
        BY <1>1, <2>1, <2>2
<1>5. ASSUME NEW n \in Names, NEW w \in Widths, Let(n, w, next, rest) PROVE StructInv'
    BY <1>2, <1>5, SameTables DEF Let
<1>6. ASSUME NEW n \in Names, LetStack(n, next, rest) PROVE StructInv'
    BY <1>2, <1>6, SameTables DEF LetStack
<1>7. ASSUME NEW n \in Names, AssignTo(n, next, rest) PROVE StructInv'
    BY <1>2, <1>7 DEF AssignTo
<1>8. ASSUME NEW w \in BlockWidths, Assign(w, next, rest) PROVE StructInv'
    <2>1. PICK b : Assigned(Top(targets), b)
        BY <1>8 DEF Assign
    <2>2. Len(scopes') = Len(scopes)
        BY <2>1 DEF TypeInv, TypeOK, Assigned
    <2>3. QED
        BY <1>2, <1>8, <2>2 DEF Assign
<1>9. CASE Store(next, rest)
    <2>1. Len(scopes') = Len(scopes)
        BY <1>9 DEF TypeInv, TypeOK, Assigned, Store
    <2>2. QED
        BY <1>2, <1>9, <2>1 DEF Store
<1>10. QED
    BY <1>3, <1>4, <1>5, <1>6, <1>7, <1>8, <1>9 DEF LineStep

LEMMA NextStruct ==
    ASSUME OneAtATime, TypeInv, StructInv, TypeInv', [Next]_vars
    PROVE  StructInv'
<1>1. ASSUME NEW n \in Names, NEW w \in Widths, Param(n, w) PROVE StructInv'
    <2>1. UNCHANGED <<base, lexer, frames>> /\ UNCHANGED phase /\ Len(scopes') = Len(scopes)
        BY <1>1, SameTables DEF Param
    <2>2. QED
        BY <2>1, SameStruct
<1>2. ASSUME NEW next \in Levels, OpenStep(next) PROVE StructInv'
    <2>1. CASE OpenBranch(next)
        BY <2>1, OpenStruct DEF OpenBranch
    <2>2. ASSUME NEW n \in Names, OpenLet(n, next) PROVE StructInv'
        BY <2>2, OpenStruct, SameTables DEF OpenLet
    <2>3. ASSUME NEW n \in Names, OpenStack(n, next) PROVE StructInv'
        BY <2>3, OpenStruct, SameTables DEF OpenStack
    <2>4. QED
        BY <1>2, <2>1, <2>2, <2>3 DEF OpenStep
<1>3. CASE LineError
    BY <1>3, SameStruct DEF LineError, Terminal
<1>4. CASE ReturnBranch
    BY <1>4, ReturnStruct DEF ReturnBranch
<1>5. CASE ReturnDecl
    <2>1. CASE phase' = "error"
        BY <2>1 DEF StructInv, Terminal
    <2>2. CASE phase' = "parsed"
        BY <1>5, <2>2, ReturnStruct DEF ReturnDecl
    <2>3. QED
        BY <1>5, <2>1, <2>2 DEF ReturnDecl
<1>6. CASE ReturnFunction
    BY <1>6 DEF ReturnFunction, StructInv, Terminal
<1>7. CASE UNCHANGED vars
    BY <1>7, SameStruct DEF vars
<1>8. QED
    BY <1>1, <1>2, <1>3, <1>4, <1>5, <1>6, <1>7, BeginBodyStruct, LoopHeadStruct,
       LineStepStruct, EndOfBlockStruct, ContinueStruct DEF Next, Terminated

\* specs/grammar.md: with one block closed at a time, a line is parsed with the
\* tables, and under the pending blocks, of exactly the blocks that enclose it.
THEOREM LinesSound == OneAtATime => (Spec => []LinesInTheirBlock)
<1> SUFFICES ASSUME OneAtATime PROVE Spec => []LinesInTheirBlock
    OBVIOUS
<1>1. Init => TypeInv /\ StructInv
    BY InitTypeInv, InitStruct
<1>2. TypeInv /\ StructInv /\ [Next]_vars => TypeInv' /\ StructInv'
    BY NextTypeInv, NextStruct
<1>3. TypeInv /\ StructInv => LinesInTheirBlock
    <2> SUFFICES ASSUME TypeInv, StructInv, phase = "line"
                 PROVE  /\ Len(scopes) = indent + 1
                        /\ \A i \in 1..Len(frames) : frames[i].block_indent <= indent
        BY DEF LinesInTheirBlock
    <2>1. CallsNested /\ Len(scopes) = indent + 1 /\ Block(Top(frames)) <= indent
        BY LineFacts
    <2>2. ASSUME NEW i \in 1..Len(frames) PROVE frames[i].block_indent <= indent
        <3>1. indent \in Nat /\ Block(frames[i]) \in Int /\ Block(Top(frames)) \in Int
            BY <2>1, FrameFacts, BlocksOrdered
        <3>2. Block(frames[i]) <= indent
            BY <2>1, <3>1, BlocksOrdered
        <3>3. CASE frames[i].block_indent = Unset
            BY <3>1, <3>3 DEF Unset
        <3>4. CASE frames[i].block_indent # Unset
            BY <3>2, <3>4 DEF Block
        <3>5. QED
            BY <3>3, <3>4
    <2>3. QED
        BY <2>1, <2>2
<1>4. QED
    BY <1>1, <1>2, <1>3, PTL DEF Spec

-----------------------------------------------------------------------------
(* Declaration targets *)

\* The targets are those of the calls of decl_vars, at the tables around their
\* blocks.
TargetsOwned ==
    /\ \A k \in 1..Len(targets) : \E i \in 2..Len(frames) :
          frames[i].kind = "decl" /\ targets[k].scope = Block(frames[i])
    /\ \A i \in 2..Len(frames) : frames[i].kind = "decl" =>
          \E k \in 1..Len(targets) : targets[k].scope = Block(frames[i])
TargetInv == TargetsLive /\ (phase \notin Terminal => TargetsOwned)

LEMMA TargetFacts ==
    ASSUME TypeInv, NEW k \in 1..Len(targets)
    PROVE  /\ targets \in Seq(Target) /\ targets[k] \in Target
           /\ targets[k].scope \in Nat \ {0} /\ targets[k].name \in Names
           /\ targets[k].reg \in Entry /\ targets[k].assigned \in BOOLEAN
<1>1. targets \in Seq(Target)
    BY DEF TypeInv, TypeOK
<1>2. targets[k] \in Target
    BY <1>1
<1>3. QED
    BY <1>1, <1>2 DEF Target

\* A target's table lies around the innermost block.
LEMMA TargetsBelowTop ==
    ASSUME TypeInv, CallsNested, TargetsOwned, NEW k \in 1..Len(targets)
    PROVE  targets[k].scope <= Block(Top(frames))
<1>1. PICK i \in 2..Len(frames) : targets[k].scope = Block(frames[i])
    BY DEF TargetsOwned
<1>2. i \in 1..Len(frames)
    BY FrameFacts
<1>3. QED
    BY <1>1, <1>2, BlocksOrdered

\* Calls and targets stay, and every target's table with them.
LEMMA SameTargets ==
    ASSUME TypeInv, TargetsLive, TargetsOwned, phase \notin Terminal,
           targets' = targets, Len(frames') = Len(frames),
           \A i \in 1..Len(frames) : /\ frames'[i].kind = frames[i].kind
                                     /\ Block(frames[i])' = Block(frames[i]),
           \A k \in 1..Len(targets) :
              /\ targets[k].scope <= Len(scopes')
              /\ scopes'[targets[k].scope][targets[k].name] =
                    scopes[targets[k].scope][targets[k].name]
    PROVE  TargetInv'
<1>1. \A i \in 2..Len(frames) : i \in 1..Len(frames)
    BY FrameFacts
<1>2. TargetsOwned'
    BY <1>1 DEF TargetsOwned
<1>3. TargetsLive'
    BY DEF TargetsLive, TargetLive
<1>4. QED
    BY <1>2, <1>3 DEF TargetInv

\* Nothing that the targets depend on moves.
LEMMA SameFramesTargets ==
    ASSUME TypeInv, TargetInv, phase \notin Terminal,
           UNCHANGED <<frames, indent, scopes, targets>>
    PROVE  TargetInv'
<1>1. TargetsOwned /\ TargetsLive
    BY DEF TargetInv
<1>2. \A i \in 1..Len(frames) : Block(frames[i])' = Block(frames[i])
    BY DEF Block
<1>3. \A k \in 1..Len(targets) : targets[k].scope <= Len(scopes')
    BY <1>1 DEF TargetsLive, TargetLive
<1>4. QED
    BY <1>1, <1>2, <1>3, SameTargets

\* A line leaves the calls and their blocks.
LEMMA LineBlocks ==
    ASSUME TypeInv, StructInv, NEW next \in Levels, NEW rest \in BOOLEAN, Line(next, rest)
    PROVE  /\ phase = "line" /\ CallsNested /\ Len(scopes) = indent + 1
           /\ Block(Top(frames)) <= indent
           /\ Len(frames') = Len(frames)
           /\ \A i \in 1..Len(frames) : /\ frames'[i].kind = frames[i].kind
                                        /\ Block(frames[i])' = Block(frames[i])
<1>1. phase = "line" /\ frames' = Seen
    BY DEF Line, ReadLine
<1>2. CallsNested /\ Len(scopes) = indent + 1 /\ Block(Top(frames)) <= indent
    BY <1>1, LineFacts
<1>3. /\ Len(frames') = Len(frames)
      /\ \A i \in 1..Len(frames) : /\ frames'[i].kind = frames[i].kind
                                   /\ Block(frames[i])' = Block(frames[i])
    BY <1>1, <1>2, SeenBlocks DEF Block
<1>4. QED
    BY <1>1, <1>2, <1>3

\* When a line is due, the targets' tables are not the innermost one.
LEMMA TargetsBelowLine ==
    ASSUME TypeInv, StructInv, TargetInv, phase = "line", NEW k \in 1..Len(targets)
    PROVE  targets[k].scope \in 1..(Len(scopes) - 1)
<1>1. CallsNested /\ Len(scopes) = indent + 1 /\ Block(Top(frames)) <= indent
    BY LineFacts
<1>2. targets[k].scope <= Block(Top(frames)) /\ targets[k].scope \in Nat \ {0}
    BY <1>1, TargetsBelowTop, TargetFacts DEF TargetInv, Terminal
<1>3. Block(Top(frames)) \in Int /\ indent \in Nat
    BY <1>1, BlocksOrdered, FrameFacts
<1>4. QED
    BY <1>1, <1>2, <1>3

\* A declaration in the innermost table touches no target's entry.
LEMMA DeclareBeside ==
    ASSUME TypeInv, StructInv, TargetInv, phase = "line",
           NEW n \in Names, NEW b, Declare(n, b)
    PROVE  \A k \in 1..Len(targets) :
              /\ targets[k].scope <= Len(scopes')
              /\ scopes'[targets[k].scope] = scopes[targets[k].scope]
<1> SUFFICES ASSUME NEW k \in 1..Len(targets)
             PROVE  /\ targets[k].scope <= Len(scopes')
                    /\ scopes'[targets[k].scope] = scopes[targets[k].scope]
    OBVIOUS
<1>1. targets[k].scope \in 1..(Len(scopes) - 1)
    BY TargetsBelowLine
<1>2. scopes \in Seq(Scope) /\ Len(scopes) \in Nat \ {0}
    BY FrameFacts DEF TypeInv, TypeOK
<1>3. Len(scopes') = Len(scopes)
    BY SameTables
<1>4. targets[k].scope \in 1..Len(scopes) /\ targets[k].scope # Len(scopes)
    BY <1>1, <1>2
<1>5. scopes'[targets[k].scope] = scopes[targets[k].scope]
    BY <1>2, <1>4 DEF Declare
<1>6. QED
    BY <1>2, <1>3, <1>4, <1>5

\* An assignment writes the innermost declaration's own entry.
LEMMA AssignTargets ==
    ASSUME TypeInv, StructInv, TargetInv, NEW next \in Levels, NEW rest \in BOOLEAN,
           Line(next, rest), targets # <<>>, NEW b \in Entry, Assigned(Top(targets), b)
    PROVE  TargetInv'
<1> DEFINE K == Len(targets)
           t == targets[K]
<1>1. K \in Nat \ {0} /\ K \in 1..K /\ targets \in Seq(Target) /\ Top(targets) = t
    BY DEF TypeInv, TypeOK, Top
<1>2. /\ phase = "line" /\ Len(frames') = Len(frames)
      /\ \A i \in 1..Len(frames) : /\ frames'[i].kind = frames[i].kind
                                   /\ Block(frames[i])' = Block(frames[i])
    BY LineBlocks
<1>3. TargetsOwned /\ TargetsLive /\ phase \notin Terminal
    BY <1>2 DEF TargetInv, Terminal
<1>4. TargetLive(t)
    BY <1>1, <1>3 DEF TargetsLive
<1>5. /\ t \in Target /\ t.scope \in Nat \ {0} /\ t.name \in Names /\ t.scope <= Len(scopes)
      /\ scopes \in Seq(Scope)
    BY <1>1, <1>4, TargetFacts DEF TargetLive, TypeInv, TypeOK
<1>6. /\ Len(targets') = K
      /\ \A k \in 1..K : /\ targets'[k].scope = targets[k].scope
                         /\ targets'[k].name = targets[k].name
                         /\ targets'[k].reg = IF k = K THEN b ELSE targets[k].reg
    <2> DEFINE u == [t EXCEPT !.reg = b, !.assigned = TRUE]
    <2>1. targets' = [targets EXCEPT ![K] = u]
        BY <1>1 DEF Assigned
    <2>2. u.scope = t.scope /\ u.name = t.name /\ u.reg = b
        BY <1>5 DEF Target
    <2> HIDE DEF u
    <2>3. Len(targets') = K /\ \A k \in 1..K : targets'[k] = IF k = K THEN u ELSE targets[k]
        BY <1>1, <2>1
    <2>4. QED
        BY <2>2, <2>3
<1>7. /\ Len(scopes') = Len(scopes)
      /\ \A i \in 1..Len(scopes), m \in Names :
            scopes'[i][m] = IF i = t.scope /\ m = t.name THEN b ELSE scopes[i][m]
    <2>1. scopes' = [scopes EXCEPT ![t.scope][t.name] = b] /\ t.scope \in 1..Len(scopes)
        BY <1>1, <1>4, <1>5 DEF Assigned
    <2>2. QED
        BY <1>5, <2>1, WriteEntry
<1>8. \A k \in 1..K : /\ targets[k].scope \in 1..Len(scopes)
                      /\ scopes[targets[k].scope][targets[k].name] = targets[k].reg
                      /\ targets[k].name \in Names
    BY <1>3, TargetFacts, FrameFacts DEF TargetsLive, TargetLive
<1>9. \A j, k \in 1..K : j < k => targets[j].scope < targets[k].scope
    BY <1>3 DEF TargetsLive
<1>10. ASSUME NEW k \in 1..K
       PROVE  /\ targets'[k].scope <= Len(scopes')
              /\ scopes'[targets'[k].scope][targets'[k].name] = targets'[k].reg
    <2>1. targets'[k].scope <= Len(scopes')
        BY <1>6, <1>7, <1>8
    <2>2. CASE k = K
        BY <1>5, <1>6, <1>7, <1>8, <2>2
    <2>3. CASE k # K
        <3>1. k < K
            BY <1>1, <2>3
        <3>2. targets[k].scope # t.scope
            BY <1>1, <1>8, <1>9, <3>1
        <3>3. scopes'[targets[k].scope][targets[k].name] = scopes[targets[k].scope][targets[k].name]
            BY <1>7, <1>8, <3>2
        <3>4. /\ targets'[k].scope = targets[k].scope /\ targets'[k].name = targets[k].name
              /\ targets'[k].reg = targets[k].reg
            BY <1>6, <2>3
        <3>5. scopes[targets[k].scope][targets[k].name] = targets[k].reg
            BY <1>8
        <3>6. QED
            BY <2>1, <3>3, <3>4, <3>5, Zenon
    <2>4. QED
        BY <2>1, <2>2, <2>3
<1>11. TargetsLive'
    BY <1>6, <1>9, <1>10 DEF TargetsLive, TargetLive
<1>12. TargetsOwned'
    <2>1. \A i \in 2..Len(frames) : i \in 1..Len(frames)
        BY FrameFacts
    <2>2. ASSUME NEW k \in 1..K
          PROVE  \E i \in 2..Len(frames) : /\ frames'[i].kind = "decl"
                                           /\ targets'[k].scope = Block(frames[i])'
        BY SMTT(30), <1>2, <1>3, <1>6, <2>1 DEF TargetsOwned
    <2>3. ASSUME NEW i \in 2..Len(frames), frames'[i].kind = "decl"
          PROVE  \E k \in 1..K : targets'[k].scope = Block(frames[i])'
        BY SMTT(30), <1>2, <1>3, <1>6, <2>1, <2>3 DEF TargetsOwned
    <2>4. QED
        BY <1>2, <1>6, <2>2, <2>3 DEF TargetsOwned, Block
<1>13. QED
    BY <1>11, <1>12 DEF TargetInv

\* A declaration with a block adds its own target, innermost.
LEMMA OpenTargets ==
    ASSUME TypeInv, StructInv, TargetInv, NEW next \in Levels, NEW n \in Names,
           NEW b \in Entry, Open("decl", next), Ends(next), Declare(n, b),
           targets' = Append(targets, NewTarget(n, b))
    PROVE  TargetInv'
<1> DEFINE K == Len(targets)
           F == Len(frames)
           t == NewTarget(n, b)
<1>1. phase = "line"
    BY DEF Open, ReadLine
<1>2. CallsNested /\ Len(scopes) = indent + 1 /\ TargetsOwned /\ TargetsLive
    BY <1>1, LineFacts DEF TargetInv, Terminal
<1>3. Len(scopes') = Len(scopes)
    BY SameTables
<1>4. /\ frames' = Append(Seen, [kind |-> "decl", block_indent |-> Unset])
      /\ Len(frames') = F + 1
      /\ \A i \in 1..F : /\ frames'[i].kind = frames[i].kind
                         /\ Block(frames[i])' = Block(frames[i])
      /\ Block(Top(frames))' = indent + 1
    BY <1>3, OpenStruct
<1>5. F \in Nat \ {0} /\ indent \in Nat /\ K \in Nat /\ scopes \in Seq(Scope)
    BY FrameFacts DEF TypeInv, TypeOK
<1>6. \A i \in {F + 1} : Block(frames[i])' = indent + 1 /\ frames'[i].kind = "decl"
    <2>1. Len(Seen) = F /\ Seen \in Seq(Frame)
        BY <1>2, SeenFrames, SeenBlocks
    <2>2. frames'[F + 1].kind = "decl" /\ Top(frames') = frames'[F + 1]
        BY <1>4, <1>5, <2>1 DEF Top, Frame
    <2>3. QED
        BY <1>4, <2>2 DEF Top, Block
<1>7. t.scope = indent + 1 /\ t.name = n /\ t.reg = b /\ t \in Target
    BY <1>2, <1>5 DEF NewTarget, Target
<1>8. /\ Len(targets') = K + 1 /\ targets'[K + 1] = t
      /\ \A k \in 1..K : targets'[k] = targets[k]
    BY <1>7 DEF TypeInv, TypeOK
<1>9. \A k \in 1..K : /\ targets[k].scope \in 1..(Len(scopes) - 1)
                      /\ targets[k].scope <= Len(scopes')
                      /\ scopes'[targets[k].scope] = scopes[targets[k].scope]
    BY <1>1, DeclareBeside, TargetsBelowLine
<1>10. TargetsLive'
    <2> DEFINE Live(k) == /\ targets'[k].scope <= Len(scopes')
                          /\ scopes'[targets'[k].scope][targets'[k].name] = targets'[k].reg
    <2>1. ASSUME NEW k \in 1..K PROVE Live(k)
        <3>1. TargetLive(targets[k])
            BY <1>1, <1>2 DEF TargetsLive, Terminal
        <3>2. QED
            BY <1>8, <1>9, <3>1 DEF TargetLive
    <2>2. Live(K + 1)
        <3>1. scopes'[Len(scopes)][n] = b
            BY <1>2, <1>5, WriteEntry DEF Declare
        <3>2. QED
            BY <1>2, <1>3, <1>5, <1>7, <1>8, <3>1
    <2>3. \A k \in 1..(K + 1) : k \in 1..K \/ k = K + 1
        BY <1>5
    <2>4. \A j, k \in 1..(K + 1) : j < k => targets'[j].scope < targets'[k].scope
        <3> SUFFICES ASSUME NEW j \in 1..(K + 1), NEW k \in 1..(K + 1), j < k
                     PROVE  targets'[j].scope < targets'[k].scope
            OBVIOUS
        <3>1. j \in 1..K
            BY <1>5
        <3>2. CASE k \in 1..K
            BY <1>1, <1>2, <1>8, <3>1, <3>2 DEF TargetsLive, Terminal
        <3>3. CASE k = K + 1
            <4>1. targets'[k].scope = indent + 1 /\ targets'[j].scope = targets[j].scope
                BY <1>7, <1>8, <3>1, <3>3
            <4>2. targets[j].scope \in 1..(Len(scopes) - 1)
                BY <1>9, <3>1
            <4>3. QED
                BY <1>2, <1>5, <4>1, <4>2
        <3>4. QED
            BY <2>3, <3>2, <3>3
    <2>5. QED
        BY <1>8, <2>1, <2>2, <2>3, <2>4 DEF TargetsLive, TargetLive
<1>11. TargetsOwned'
    <2>1. \A i \in 2..F : i \in 1..F /\ i \in 2..(F + 1)
        BY <1>5
    <2>2. F + 1 \in 2..(F + 1) /\ K + 1 \in 1..(K + 1)
        BY <1>5
    <2>3. ASSUME NEW k \in 1..(K + 1)
          PROVE  \E i \in 2..(F + 1) : /\ frames'[i].kind = "decl"
                                       /\ targets'[k].scope = Block(frames[i])'
        <3>1. CASE k = K + 1
            BY <1>6, <1>7, <1>8, <2>2, <3>1
        <3>2. CASE k \in 1..K
            BY <1>2, <1>4, <1>8, <2>1, <3>2 DEF TargetsOwned
        <3>3. QED
            BY <1>5, <3>1, <3>2
    <2>4. ASSUME NEW i \in 2..(F + 1), frames'[i].kind = "decl"
          PROVE  \E k \in 1..(K + 1) : targets'[k].scope = Block(frames[i])'
        <3>1. CASE i = F + 1
            BY <1>6, <1>7, <1>8, <2>2, <3>1
        <3>2. CASE i \in 2..F
            <4>1. \E k \in 1..K : targets[k].scope = Block(frames[i])
                BY <1>2, <1>4, <2>1, <2>4, <3>2 DEF TargetsOwned
            <4>2. \A k \in 1..K : k \in 1..(K + 1)
                BY <1>5
            <4>3. QED
                BY <1>4, <1>8, <2>1, <3>2, <4>1, <4>2
        <3>3. QED
            BY <1>5, <3>1, <3>2
    <2>5. QED
        <3>1. \A k \in 1..Len(targets') : \E i \in 2..Len(frames') :
                 frames'[i].kind = "decl" /\ targets'[k].scope = Block(frames[i])'
            BY <1>4, <1>8, <2>3, Zenon
        <3>2. \A i \in 2..Len(frames') : frames'[i].kind = "decl" =>
                 \E k \in 1..Len(targets') : targets'[k].scope = Block(frames[i])'
            BY <1>4, <1>8, <2>4, Zenon
        <3>3. QED
            BY <3>1, <3>2 DEF TargetsOwned, Block
<1>12. QED
    BY <1>10, <1>11 DEF TargetInv

\* A line that assigns nothing to the innermost declaration.
LEMMA LineTargets ==
    ASSUME TypeInv, StructInv, TargetInv, NEW next \in Levels, NEW rest \in BOOLEAN,
           Line(next, rest), targets' = targets,
           scopes' = scopes \/ \E n \in Names, b \in Entry : Declare(n, b)
    PROVE  TargetInv'
<1>1. /\ phase = "line" /\ Len(frames') = Len(frames)
      /\ \A i \in 1..Len(frames) : /\ frames'[i].kind = frames[i].kind
                                   /\ Block(frames[i])' = Block(frames[i])
    BY LineBlocks
<1>2. TargetsOwned /\ TargetsLive /\ phase \notin Terminal
    BY <1>1 DEF TargetInv, Terminal
<1>3. \A k \in 1..Len(targets) :
         /\ targets[k].scope <= Len(scopes')
         /\ scopes'[targets[k].scope][targets[k].name] =
               scopes[targets[k].scope][targets[k].name]
    <2>1. CASE scopes' = scopes
        BY <1>2, <2>1 DEF TargetsLive, TargetLive
    <2>2. CASE \E n \in Names, b \in Entry : Declare(n, b)
        BY <1>1, <2>2, DeclareBeside
    <2>3. QED
        BY <2>1, <2>2
<1>4. QED
    BY <1>1, <1>2, <1>3, SameTargets

\* The innermost call returns: to anonymous_bcond, and no target is dropped, or to
\* decl_vars, and the target that is dropped is its own.
LEMMA ReturnTargets ==
    ASSUME TypeInv, StructInv, TargetInv, ReturnBranch \/ ReturnDecl
    PROVE  TargetInv'
<1> DEFINE K == Len(targets)
           F == Len(frames)
<1>1. Leaving /\ UNCHANGED <<base, lexer, scopes>> /\ Top(frames).kind \in {"branch", "decl"}
    BY DEF ReturnBranch, ReturnDecl
<1>2. CASE phase' = "error"
    BY <1>2 DEF TargetInv, TargetsLive, Terminal
<1>3. CASE phase' = "parsed"
    <2>1. frames' = Front(frames)
        BY <1>3 DEF ReturnBranch, ReturnDecl
    <2>2. /\ F > 1 /\ Len(frames') = F - 1
          /\ \A i \in 1..(F - 1) : /\ frames'[i] = frames[i]
                                   /\ Block(frames[i])' = Block(frames[i])
        BY <1>1, <1>3, <2>1, ReturnStruct
    <2>3. CallsNested /\ phase \notin Terminal
        BY <1>1, LeavingFacts DEF Terminal
    <2>4. TargetsOwned /\ TargetsLive
        BY <2>3 DEF TargetInv
    <2>5. F \in Nat \ {0, 1} /\ K \in Nat /\ targets \in Seq(Target)
        <3>1. F \in Nat \ {0} /\ F # 1
            BY <2>2, FrameFacts
        <3>2. K \in Nat /\ targets \in Seq(Target)
            BY DEF TypeInv, TypeOK
        <3>3. QED
            BY <3>1, <3>2
    <2>6. \A i \in 2..(F - 1) : i \in 2..F /\ i \in 1..(F - 1) /\ i < F /\ i \in 1..F
        BY <2>5
    <2>7. F \in 2..F /\ F \in 1..F /\ Top(frames) = frames[F]
        <3>1. \A f \in Nat \ {0, 1} : f \in 2..f /\ f \in 1..f
            OBVIOUS
        <3>2. QED
            BY <2>5, <3>1 DEF Top
    <2>8. \A i \in 2..(F - 1) : Block(frames[i]) < Block(frames[F])
        BY <2>3, <2>6, <2>7 DEF CallsNested
    <2>9. \A i \in 2..F : Block(frames[i]) \in Int
        BY <2>5, FrameFacts
    <2>10. \A k \in 1..K : /\ targets[k].scope \in Int /\ targets[k].scope <= Len(scopes)
                           /\ scopes[targets[k].scope][targets[k].name] = targets[k].reg
        BY <2>3, <2>4, TargetFacts DEF TargetsLive, TargetLive
    <2>11. \A j, k \in 1..K : j < k => targets[j].scope < targets[k].scope
        BY <2>3, <2>4 DEF TargetsLive
    <2>12. ASSUME NEW J \in Nat, J <= K, Len(targets') = J,
                  \A k \in 1..J : targets'[k] = targets[k],
                  \A k \in 1..J : targets[k].scope # Block(frames[F]) \/ frames[F].kind # "decl",
                  \A k \in 1..K : k \in 1..J \/ targets[k].scope = Block(frames[F])
           PROVE  TargetInv'
        <3>1. \A k \in 1..J : k \in 1..K
            BY <2>5, <2>12
        <3>2. \A k \in 1..J : \E i \in 2..(F - 1) :
                 frames'[i].kind = "decl" /\ targets'[k].scope = Block(frames[i])'
            <4> SUFFICES ASSUME NEW k \in 1..J
                         PROVE  \E i \in 2..(F - 1) :
                                   frames[i].kind = "decl" /\ targets[k].scope = Block(frames[i])
                BY <2>2, <2>6, <2>12
            <4>1. PICK i \in 2..F : frames[i].kind = "decl" /\ targets[k].scope = Block(frames[i])
                BY <2>4, <3>1 DEF TargetsOwned
            <4>2. i # F
                BY <2>12, <4>1
            <4>3. i \in 2..(F - 1)
                BY <2>5, <4>2
            <4>4. QED
                BY <4>1, <4>3
        <3>3. \A i \in 2..(F - 1) : frames'[i].kind = "decl" =>
                 \E k \in 1..J : targets'[k].scope = Block(frames[i])'
            <4> SUFFICES ASSUME NEW i \in 2..(F - 1), frames[i].kind = "decl"
                         PROVE  \E k \in 1..J : targets[k].scope = Block(frames[i])
                BY <2>2, <2>6, <2>12
            <4>1. PICK k \in 1..K : targets[k].scope = Block(frames[i])
                BY <2>4, <2>6 DEF TargetsOwned
            <4>2. Block(frames[i]) # Block(frames[F])
                BY <2>6, <2>7, <2>8, <2>9
            <4>3. QED
                BY <2>12, <4>1, <4>2
        <3>4. TargetsOwned'
            <4>1. \A k \in 1..Len(targets') : \E i \in 2..Len(frames') :
                     frames'[i].kind = "decl" /\ targets'[k].scope = Block(frames[i])'
                BY <2>2, <2>12, <3>2, Zenon
            <4>2. \A i \in 2..Len(frames') : frames'[i].kind = "decl" =>
                     \E k \in 1..Len(targets') : targets'[k].scope = Block(frames[i])'
                BY <2>2, <2>12, <3>3, Zenon
            <4>3. QED
                BY <4>1, <4>2 DEF TargetsOwned, Block
        <3>5. scopes' = scopes
            BY <1>1
        <3>6. TargetsLive'
            BY <2>10, <2>11, <2>12, <3>1, <3>5 DEF TargetsLive, TargetLive
        <3>7. QED
            BY <3>4, <3>6 DEF TargetInv
    <2>13. CASE ReturnBranch
        <3>1. targets' = targets /\ frames[F].kind # "decl"
            BY <2>7, <2>13 DEF ReturnBranch
        <3>2. QED
            BY <2>5, <2>12, <3>1
    <2>14. CASE ReturnDecl
        <3>1. frames[F].kind = "decl" /\ targets' = Front(targets)
            BY <1>3, <2>7, <2>14 DEF ReturnDecl
        <3>2. PICK m \in 1..K : targets[m].scope = Block(frames[F])
            BY <2>4, <2>7, <3>1 DEF TargetsOwned
        <3>3. K \in Nat \ {0} /\ targets # <<>> /\ K \in 1..K
            BY <2>5, <3>2
        <3>4. \A k \in 1..K : targets[k].scope <= Block(frames[F])
            BY <2>3, <2>4, <2>7, TargetsBelowTop
        <3>5. m = K
            <4>1. m < K => targets[m].scope < targets[K].scope
                BY <2>11, <3>3
            <4>2. targets[K].scope <= Block(frames[F]) /\ targets[K].scope \in Int
                BY <2>10, <3>3, <3>4
            <4>3. ~(m < K)
                BY <2>7, <2>9, <3>2, <4>1, <4>2
            <4>4. QED
                BY <2>5, <4>3
        <3>6. Len(targets') = K - 1 /\ \A k \in 1..(K - 1) : targets'[k] = targets[k]
            BY <2>5, <3>1, <3>3, FrontSeq
        <3>7. \A k \in 1..(K - 1) : targets[k].scope # Block(frames[F])
            <4> SUFFICES ASSUME NEW k \in 1..(K - 1)
                         PROVE  targets[k].scope # Block(frames[F])
                OBVIOUS
            <4>1. k \in 1..K /\ k < K
                BY <2>5
            <4>2. targets[k].scope < targets[K].scope /\ targets[k].scope \in Int
                BY <2>10, <2>11, <3>3, <4>1
            <4>3. QED
                BY <2>7, <2>9, <3>2, <3>5, <4>2
        <3>8. K - 1 \in Nat /\ K - 1 <= K /\ \A k \in 1..K : k \in 1..(K - 1) \/ k = K
            BY <3>3
        <3>9. QED
            BY <2>12, <3>2, <3>5, <3>6, <3>7, <3>8
    <2>15. QED
        BY <2>13, <2>14
<1>4. QED
    BY <1>2, <1>3 DEF ReturnBranch, ReturnDecl

LEMMA InitTargets == Init => TargetInv
<1> SUFFICES ASSUME Init PROVE TargetInv
    OBVIOUS
<1>1. Len(targets) = 0 /\ Len(frames) = 1
    BY DEF Init
<1>2. QED
    BY <1>1 DEF TargetInv, TargetsLive, TargetsOwned

LEMMA LineStepTargets ==
    ASSUME TypeInv, StructInv, TargetInv,
           NEW next \in Levels, NEW rest \in BOOLEAN, LineStep(next, rest)
    PROVE  TargetInv'
<1>1. CASE Plain(next, rest) \/ Ret(next, rest) \/ RetIf(next, rest)
    BY <1>1, LineTargets DEF Plain, Ret, RetIf
<1>2. ASSUME NEW n \in Names, NEW w \in Widths, Let(n, w, next, rest) PROVE TargetInv'
    <2>1. FreshReg(w) \in Entry
        BY WidthAssumption, FreshTypes
    <2>2. QED
        BY <1>2, <2>1, LineTargets DEF Let
<1>3. ASSUME NEW n \in Names, LetStack(n, next, rest) PROVE TargetInv'
    <2>1. StackEntry \in Entry
        BY DEF StackEntry, Entry
    <2>2. QED
        BY <1>3, <2>1, LineTargets DEF LetStack
<1>4. ASSUME NEW n \in Names, AssignTo(n, next, rest) PROVE TargetInv'
    BY <1>4, LineTargets DEF AssignTo
<1>5. ASSUME NEW w \in BlockWidths, Assign(w, next, rest) PROVE TargetInv'
    <2> DEFINE t == Top(targets)
               v == IF t.assigned THEN t.reg.w ELSE w
               b == [t.reg EXCEPT !.w = IF t.assigned THEN @ ELSE w]
    <2>1. Line(next, rest) /\ targets # <<>> /\ Assigned(t, b)
        BY <1>5 DEF Assign
    <2>2. t.reg \in Entry
        <3>1. Len(targets) \in 1..Len(targets)
            BY <2>1 DEF TypeInv, TypeOK
        <3>2. QED
            BY <3>1, TargetFacts DEF Top
    <2>3. w \in {1, 2}
        BY WidthAssumption
    <2>4. v \in -1..2
        BY <2>2, <2>3 DEF Entry
    <2>5. b = [t.reg EXCEPT !.w = v]
        BY <2>2 DEF Entry
    <2>6. b \in Entry
        BY <2>2, <2>4, <2>5 DEF Entry
    <2>7. QED
        BY <2>1, <2>6, AssignTargets
<1>6. CASE Store(next, rest)
    <2>1. StackEntry \in Entry
        BY DEF StackEntry, Entry
    <2>2. QED
        BY <1>6, <2>1, AssignTargets DEF Store
<1>7. QED
    BY <1>1, <1>2, <1>3, <1>4, <1>5, <1>6 DEF LineStep

LEMMA OpenStepTargets ==
    ASSUME TypeInv, StructInv, TargetInv, NEW next \in Levels, OpenStep(next)
    PROVE  TargetInv'
<1>1. ASSUME OpenBranch(next) PROVE TargetInv'
    <2> DEFINE F == Len(frames)
    <2>1. /\ Open("branch", next) /\ Ends(next) /\ UNCHANGED scopes /\ UNCHANGED targets
          /\ phase = "line"
        BY <1>1 DEF OpenBranch, Open, ReadLine
    <2>2. CallsNested /\ TargetsOwned /\ TargetsLive
        BY <2>1, LineFacts DEF TargetInv, Terminal
    <2>3. /\ frames' = Append(Seen, [kind |-> "branch", block_indent |-> Unset])
          /\ Len(frames') = F + 1
          /\ \A i \in 1..F : /\ frames'[i].kind = frames[i].kind
                             /\ Block(frames[i])' = Block(frames[i])
        BY <2>1, OpenStruct
    <2>4. F \in Nat \ {0} /\ Len(Seen) = F /\ Seen \in Seq(Frame)
        BY <2>2, FrameFacts, SeenFrames, SeenBlocks
    <2>5. frames'[F + 1].kind = "branch"
        BY <2>3, <2>4 DEF Frame
    <2>6. \A i \in 2..F : i \in 1..F /\ i \in 2..(F + 1)
        BY <2>4
    <2>7. \A i \in 2..(F + 1) : i \in 2..F \/ i = F + 1
        BY <2>4
    <2>8. TargetsOwned'
        <3>1. \A k \in 1..Len(targets') : \E i \in 2..Len(frames') :
                 frames'[i].kind = "decl" /\ targets'[k].scope = Block(frames[i])'
            <4> SUFFICES ASSUME NEW k \in 1..Len(targets)
                         PROVE  \E i \in 2..(F + 1) : /\ frames'[i].kind = "decl"
                                                      /\ targets[k].scope = Block(frames[i])'
                BY <2>1, <2>3
            <4>1. PICK i \in 2..F : frames[i].kind = "decl" /\ targets[k].scope = Block(frames[i])
                BY <2>2 DEF TargetsOwned
            <4>2. QED
                BY <2>3, <2>6, <4>1
        <3>2. \A i \in 2..Len(frames') : frames'[i].kind = "decl" =>
                 \E k \in 1..Len(targets') : targets'[k].scope = Block(frames[i])'
            <4> SUFFICES ASSUME NEW i \in 2..(F + 1), frames'[i].kind = "decl"
                         PROVE  \E k \in 1..Len(targets) : targets[k].scope = Block(frames[i])'
                BY <2>1, <2>3
            <4>1. i \in 2..F
                BY <2>5, <2>7
            <4>2. PICK k \in 1..Len(targets) : targets[k].scope = Block(frames[i])
                BY <2>2, <2>3, <2>6, <4>1 DEF TargetsOwned
            <4>3. QED
                BY <2>3, <2>6, <4>1, <4>2
        <3>3. QED
            BY <3>1, <3>2 DEF TargetsOwned, Block
    <2>9. TargetsLive'
        BY <2>1, <2>2 DEF TargetsLive, TargetLive, Terminal
    <2>10. QED
        BY <2>8, <2>9 DEF TargetInv
<1>2. ASSUME NEW n \in Names, OpenLet(n, next) PROVE TargetInv'
    <2>1. FreshReg(1) \in Entry
        BY FreshTypes
    <2>2. QED
        BY <1>2, <2>1, OpenTargets DEF OpenLet
<1>3. ASSUME NEW n \in Names, OpenStack(n, next) PROVE TargetInv'
    <2>1. StackEntry \in Entry
        BY DEF StackEntry, Entry
    <2>2. QED
        BY <1>3, <2>1, OpenTargets DEF OpenStack
<1>4. QED
    BY <1>1, <1>2, <1>3 DEF OpenStep

LEMMA NextTargets ==
    ASSUME TypeInv, StructInv, TargetInv, [Next]_vars
    PROVE  TargetInv'
<1>1. ASSUME phase' \in Terminal PROVE TargetInv'
    BY <1>1 DEF TargetInv, TargetsLive
<1>2. ASSUME NEW n \in Names, NEW w \in Widths, Param(n, w) PROVE TargetInv'
    <2>1. phase = "params" /\ UNCHANGED <<targets, frames, phase>>
        BY <1>2 DEF Param
    <2>2. Len(frames) = 1 /\ TargetsOwned
        BY <2>1 DEF StructInv, InParams, TargetInv, Terminal
    <2>3. Len(targets) = 0
        <3>1. \A k \in 1..Len(targets) : FALSE
            BY <2>2 DEF TargetsOwned
        <3>2. Len(targets) \in Nat
            BY DEF TypeInv, TypeOK
        <3>3. QED
            BY <3>1, <3>2
    <2>4. QED
        BY <2>1, <2>2, <2>3 DEF TargetInv, TargetsLive, TargetsOwned
<1>3. CASE StartOfBlock
    <2>1. phase = "loop" /\ UNCHANGED <<lexer, frames, targets>> /\ phase' \in {"line", "abort"}
        BY <1>3 DEF StartOfBlock
    <2>2. CASE phase' = "line"
        <3>1. scopes' = Append(scopes, EmptyScope) /\ scopes \in Seq(Scope)
            BY <1>3, <2>2 DEF StartOfBlock, TypeInv, TypeOK
        <3>2. TargetsOwned /\ TargetsLive /\ phase \notin Terminal
            BY <2>1 DEF TargetInv, Terminal
        <3>3. \A i \in 1..Len(frames) : Block(frames[i])' = Block(frames[i])
            BY <2>1 DEF Block, lexer
        <3>4. Len(scopes') = Len(scopes) + 1 /\ \A i \in 1..Len(scopes) : scopes'[i] = scopes[i]
            BY <3>1
        <3>5. \A k \in 1..Len(targets) : targets[k].scope \in 1..Len(scopes)
            BY <3>2, TargetFacts, FrameFacts DEF TargetsLive, TargetLive
        <3>6. \A k \in 1..Len(targets) :
                 /\ targets[k].scope <= Len(scopes')
                 /\ scopes'[targets[k].scope][targets[k].name] =
                       scopes[targets[k].scope][targets[k].name]
            BY <3>4, <3>5, FrameFacts
        <3>7. QED
            BY <2>1, <3>2, <3>3, <3>6, SameTargets
    <2>3. QED
        BY <1>1, <2>1, <2>2 DEF Terminal
<1>4. CASE EndOfBlock
    <2>1. /\ phase = "parsed" /\ UNCHANGED <<lexer, frames, targets>>
          /\ scopes' = IF Len(scopes) = 1 THEN scopes ELSE Front(scopes)
        BY <1>4 DEF EndOfBlock
    <2>2. CallsNested /\ Block(Top(frames)) < Len(scopes) - 1
        BY <1>4, <2>1, EndOfBlockStruct DEF StructInv, Terminal
    <2>3. TargetsOwned /\ TargetsLive /\ phase \notin Terminal
        BY <2>1 DEF TargetInv, Terminal
    <2>4. \A i \in 1..Len(frames) : Block(frames[i])' = Block(frames[i])
        BY <2>1 DEF Block, lexer
    <2>5. scopes \in Seq(Scope) /\ scopes # <<>> /\ Len(scopes) \in Nat \ {0}
        BY FrameFacts DEF TypeInv, TypeOK
    <2>6. \A k \in 1..Len(targets) : targets[k].scope \in 1..(Len(scopes) - 1)
        <3> SUFFICES ASSUME NEW k \in 1..Len(targets)
                     PROVE  targets[k].scope \in 1..(Len(scopes) - 1)
            OBVIOUS
        <3>1. targets[k].scope <= Block(Top(frames)) /\ targets[k].scope \in Nat \ {0}
            BY <2>2, <2>3, TargetsBelowTop, TargetFacts
        <3>2. Block(Top(frames)) \in Int
            BY <2>2, BlocksOrdered
        <3>3. QED
            BY <2>2, <2>5, <3>1, <3>2
    <2>7. \A k \in 1..Len(targets) :
             /\ targets[k].scope <= Len(scopes')
             /\ scopes'[targets[k].scope] = scopes[targets[k].scope]
        <3>1. CASE Len(scopes) = 1
            BY <2>1, <2>6, <3>1
        <3>2. CASE Len(scopes) # 1
            <4>1. Len(scopes') = Len(scopes) - 1
                BY <2>1, <2>5, <3>2, FrontSeq
            <4>2. \A i \in 1..(Len(scopes) - 1) : scopes'[i] = scopes[i]
                BY <2>1, <2>5, <3>2, FrontSeq
            <4>3. QED
                BY <2>5, <2>6, <4>1, <4>2
        <3>3. QED
            BY <3>1, <3>2
    <2>8. QED
        BY <2>1, <2>3, <2>4, <2>7, SameTargets
<1>5. CASE BeginBody \/ NextLine \/ Continue
    <2>1. UNCHANGED <<frames, indent, scopes, targets>> /\ phase \notin Terminal
        BY <1>5 DEF BeginBody, NextLine, Continue, LoopTail, lexer, Terminal
    <2>2. QED
        BY <2>1, SameFramesTargets
<1>6. CASE LineError \/ ReturnFunction
    BY <1>1, <1>6 DEF LineError, ReturnFunction, Terminal
<1>7. CASE UNCHANGED vars
    <2>1. CASE phase \in Terminal
        BY <1>1, <1>7, <2>1 DEF vars
    <2>2. CASE phase \notin Terminal
        BY <1>7, <2>2, SameFramesTargets DEF vars, lexer
    <2>3. QED
        BY <2>1, <2>2
<1>8. QED
    BY <1>2, <1>3, <1>4, <1>5, <1>6, <1>7, LineStepTargets, OpenStepTargets, ReturnTargets
       DEF Next, Terminated

\* A pending declaration's target is the declaration's own entry, in a table that
\* is still open, however the blocks inside it were opened, left and reopened.
THEOREM TargetsSound == OneAtATime => (Spec => []TargetsLive)
<1> SUFFICES ASSUME OneAtATime PROVE Spec => []TargetsLive
    OBVIOUS
<1>1. Init => TypeInv /\ StructInv /\ TargetInv
    BY InitTypeInv, InitStruct, InitTargets
<1>2. TypeInv /\ StructInv /\ TargetInv /\ [Next]_vars => TypeInv' /\ StructInv' /\ TargetInv'
    BY NextTypeInv, NextStruct, NextTargets
<1>3. TargetInv => TargetsLive
    BY DEF TargetInv
<1>4. QED
    BY <1>1, <1>2, <1>3, PTL DEF Spec

-----------------------------------------------------------------------------
(* The number of waiting calls *)

\* The calls of one kind: of anonymous_bcond or of decl_vars.
Calls(fs, kind) == {i \in 1..Len(fs) : fs[i].kind = kind}

LEMMA CallsFinite ==
    ASSUME NEW fs \in Seq(Frame), NEW kind
    PROVE  IsFiniteSet(Calls(fs, kind)) /\ Cardinality(Calls(fs, kind)) \in Nat
<1>1. Len(fs) \in Nat
    OBVIOUS
<1>2. IsFiniteSet(1..Len(fs))
    BY <1>1, FS_Interval
<1>3. Calls(fs, kind) \subseteq 1..Len(fs)
    BY DEF Calls
<1>4. QED
    BY <1>2, <1>3, FS_Subset, FS_CardinalityType

\* A call is added, or the innermost one returns.
LEMMA CallAdded ==
    ASSUME NEW fs \in Seq(Frame), NEW gs \in Seq(Frame), NEW kind, NEW f \in Frame,
           Len(gs) = Len(fs), \A i \in 1..Len(fs) : gs[i].kind = fs[i].kind
    PROVE  Cardinality(Calls(Append(gs, f), kind)) =
              Cardinality(Calls(fs, kind)) + (IF f.kind = kind THEN 1 ELSE 0)
<1> DEFINE F == Len(fs)
           hs == Append(gs, f)
<1>1. F \in Nat /\ Len(hs) = F + 1 /\ hs[F + 1] = f /\ \A i \in 1..F : hs[i] = gs[i]
    OBVIOUS
<1>2. F + 1 \notin Calls(fs, kind)
    BY <1>1 DEF Calls
<1>3. CASE f.kind = kind
    <2>1. Calls(hs, kind) = Calls(fs, kind) \cup {F + 1}
        BY <1>1, <1>3 DEF Calls
    <2>2. QED
        BY <1>2, <1>3, <2>1, CallsFinite, FS_AddElement
<1>4. CASE f.kind # kind
    <2>1. Calls(hs, kind) = Calls(fs, kind)
        BY <1>1, <1>4 DEF Calls
    <2>2. QED
        BY <1>4, <2>1, CallsFinite
<1>5. QED
    BY <1>3, <1>4

LEMMA CallReturned ==
    ASSUME NEW fs \in Seq(Frame), NEW kind, fs # <<>>
    PROVE  Cardinality(Calls(Front(fs), kind)) =
              Cardinality(Calls(fs, kind)) - (IF Top(fs).kind = kind THEN 1 ELSE 0)
<1> DEFINE F == Len(fs)
           hs == Front(fs)
<1>1. F \in Nat \ {0} /\ Len(hs) = F - 1 /\ \A i \in 1..(F - 1) : hs[i] = fs[i]
    BY FrontSeq
<1>2. \A i : i \in 1..F <=> i \in 1..(F - 1) \/ i = F
    BY <1>1
<1>3. F \notin 1..(F - 1)
    BY <1>1
<1>4. CASE Top(fs).kind = kind
    <2>1. F \in Calls(fs, kind)
        BY <1>1, <1>4 DEF Calls, Top
    <2>2. Calls(hs, kind) = Calls(fs, kind) \ {F}
        BY <1>1, <1>2, <1>3 DEF Calls
    <2>3. QED
        BY <1>4, <2>1, <2>2, CallsFinite, FS_RemoveElement
<1>5. CASE Top(fs).kind # kind
    <2>1. Calls(hs, kind) = Calls(fs, kind)
        BY <1>1, <1>2, <1>3, <1>5 DEF Calls, Top
    <2>2. QED
        BY <1>5, <2>1, CallsFinite
<1>6. QED
    BY <1>4, <1>5

\* A line adds the call of the block it opens, and no other.
LEMMA LineCalls ==
    ASSUME TypeInv, NEW next \in Levels, NEW rest \in BOOLEAN, Line(next, rest), NEW kind
    PROVE  Calls(frames', kind) = Calls(frames, kind)
BY SeenFrames DEF Line, Calls

LEMMA OpenCalls ==
    ASSUME TypeInv, NEW next \in Levels, NEW opened \in {"branch", "decl"},
           Open(opened, next), NEW kind
    PROVE  /\ Cardinality(Calls(frames, kind)) \in Nat
           /\ Cardinality(Calls(frames', kind)) =
                 Cardinality(Calls(frames, kind)) + (IF opened = kind THEN 1 ELSE 0)
<1> DEFINE f == [kind |-> opened, block_indent |-> Unset]
<1>1. f \in Frame /\ f.kind = opened
    BY DEF Frame
<1>2. frames' = Append(Seen, f) /\ frames \in Seq(Frame)
    BY DEF Open, TypeInv, TypeOK
<1>3. /\ Seen \in Seq(Frame) /\ Len(Seen) = Len(frames)
      /\ \A i \in 1..Len(frames) : Seen[i].kind = frames[i].kind
    BY SeenFrames
<1> HIDE DEF f
<1>4. QED
    BY <1>1, <1>2, <1>3, CallAdded, CallsFinite

LEMMA ReturnCalls ==
    ASSUME TypeInv, frames' = Front(frames), NEW kind
    PROVE  /\ Cardinality(Calls(frames, kind)) \in Nat
           /\ Cardinality(Calls(frames', kind)) =
                 Cardinality(Calls(frames, kind)) - (IF Top(frames).kind = kind THEN 1 ELSE 0)
BY CallReturned, CallsFinite DEF TypeInv, TypeOK

LEMMA NextCounted ==
    ASSUME TypeInv, TargetsAreDeclarations, [Next]_vars
    PROVE  TargetsAreDeclarations'
<1> DEFINE decls == Cardinality(Calls(frames, "decl"))
<1> USE DEF Terminal
<1>1. TargetsAreDeclarations <=> (phase \notin Terminal => Len(targets) = decls)
    BY DEF TargetsAreDeclarations, Calls
<1>2. TargetsAreDeclarations' <=> (phase' \notin Terminal => Len(targets') = decls')
    BY DEF TargetsAreDeclarations, Calls
<1>3. targets \in Seq(Target)
    BY DEF TypeInv, TypeOK
<1>4. ASSUME phase \notin Terminal, Len(targets') = Len(targets), decls' = decls
      PROVE  TargetsAreDeclarations'
    BY <1>1, <1>2, <1>4
<1>5. ASSUME phase' \in Terminal PROVE TargetsAreDeclarations'
    BY <1>2, <1>5
<1>6. ASSUME phase \notin Terminal, UNCHANGED <<frames, targets>>
      PROVE  TargetsAreDeclarations'
    BY <1>4, <1>6
<1>7. ASSUME NEW next \in Levels, NEW rest \in BOOLEAN, LineStep(next, rest)
      PROVE  TargetsAreDeclarations'
    <2>1. ASSUME Line(next, rest), Len(targets') = Len(targets) PROVE TargetsAreDeclarations'
        <3>1. phase = "line"
            BY <2>1 DEF Line, ReadLine
        <3>2. decls' = decls
            BY <2>1, LineCalls
        <3>3. QED
            BY <1>4, <2>1, <3>1, <3>2
    <2>2. CASE Plain(next, rest) \/ Ret(next, rest) \/ RetIf(next, rest)
        BY <2>1, <2>2 DEF Plain, Ret, RetIf
    <2>3. ASSUME NEW n \in Names, NEW w \in Widths, Let(n, w, next, rest)
          PROVE  TargetsAreDeclarations'
        BY <2>1, <2>3 DEF Let
    <2>4. ASSUME NEW n \in Names, LetStack(n, next, rest) \/ AssignTo(n, next, rest)
          PROVE  TargetsAreDeclarations'
        BY <2>1, <2>4 DEF LetStack, AssignTo
    <2>5. ASSUME NEW w \in BlockWidths, Assign(w, next, rest) PROVE TargetsAreDeclarations'
        <3>1. PICK b : Assigned(Top(targets), b)
            BY <2>5 DEF Assign
        <3>2. Len(targets') = Len(targets)
            BY <1>3, <3>1 DEF Assigned
        <3>3. QED
            BY <2>1, <2>5, <3>2 DEF Assign
    <2>6. CASE Store(next, rest)
        <3>1. Len(targets') = Len(targets)
            BY <1>3, <2>6 DEF Store, Assigned
        <3>2. QED
            BY <2>1, <2>6, <3>1 DEF Store
    <2>7. QED
        BY <1>7, <2>2, <2>3, <2>4, <2>5, <2>6 DEF LineStep
<1>8. ASSUME NEW next \in Levels, OpenStep(next) PROVE TargetsAreDeclarations'
    <2>1. ASSUME OpenBranch(next) PROVE TargetsAreDeclarations'
        <3>1. Open("branch", next) /\ targets' = targets /\ phase = "line"
            BY <2>1 DEF OpenBranch, Open, ReadLine
        <3>2. decls \in Nat /\ decls' = decls + 0
            BY <3>1, OpenCalls
        <3>3. QED
            BY <1>4, <3>1, <3>2
    <2>2. ASSUME NEW t \in Target, Open("decl", next), targets' = Append(targets, t)
          PROVE  TargetsAreDeclarations'
        <3>1. phase = "line"
            BY <2>2 DEF Open, ReadLine
        <3>2. decls \in Nat /\ decls' = decls + 1
            BY <2>2, OpenCalls
        <3>3. Len(targets') = Len(targets) + 1
            BY <1>3, <2>2
        <3>4. QED
            BY <1>1, <1>2, <3>1, <3>2, <3>3
    <2>3. \A n \in Names, b \in Entry : NewTarget(n, b) \in Target
        <3>1. Len(scopes) \in Nat \ {0}
            BY FrameFacts
        <3>2. QED
            BY <3>1 DEF NewTarget, Target
    <2>4. FreshReg(1) \in Entry /\ StackEntry \in Entry
        BY FreshTypes DEF StackEntry, Entry
    <2>5. ASSUME NEW n \in Names, OpenLet(n, next) \/ OpenStack(n, next)
          PROVE  TargetsAreDeclarations'
        BY <2>2, <2>3, <2>4, <2>5 DEF OpenLet, OpenStack
    <2>6. QED
        BY <1>8, <2>1, <2>5 DEF OpenStep
<1>9. CASE ReturnBranch
    <2>1. /\ phase \notin Terminal /\ frames' = Front(frames) /\ targets' = targets
          /\ Top(frames).kind = "branch"
        BY <1>9 DEF ReturnBranch, Leaving, LoopTail
    <2>2. decls \in Nat /\ decls' = decls - 0
        BY <2>1, ReturnCalls
    <2>3. QED
        BY <1>4, <2>1, <2>2
<1>10. CASE ReturnDecl
    <2>1. CASE phase' = "error"
        BY <1>5, <2>1
    <2>2. CASE phase' # "error"
        <3>1. /\ phase \notin Terminal /\ frames' = Front(frames) /\ targets' = Front(targets)
              /\ Top(frames).kind = "decl"
            BY <1>10, <2>2 DEF ReturnDecl, Leaving, LoopTail
        <3>2. decls \in Nat /\ decls' = decls - 1
            BY <3>1, ReturnCalls
        <3>3. decls # 0
            <4>1. Len(frames) \in Calls(frames, "decl")
                BY <3>1, FrameFacts DEF Calls, Top
            <4>2. frames \in Seq(Frame)
                BY FrameFacts
            <4>3. QED
                BY <4>1, <4>2, CallsFinite, FS_EmptySet
        <3>4. targets # <<>> /\ Len(targets) = decls
            BY <1>1, <3>1, <3>3
        <3>5. Len(targets') = Len(targets) - 1
            BY <1>3, <3>1, <3>4, FrontSeq
        <3>6. QED
            BY <1>2, <3>2, <3>4, <3>5
    <2>3. QED
        BY <2>1, <2>2
<1>11. ASSUME NEW n \in Names, NEW w \in Widths, Param(n, w) PROVE TargetsAreDeclarations'
    BY <1>6, <1>11 DEF Param
<1>12. CASE StartOfBlock \/ NextLine \/ BeginBody \/ EndOfBlock \/ Continue
    BY <1>6, <1>12 DEF StartOfBlock, NextLine, BeginBody, EndOfBlock, Continue, LoopTail
<1>13. CASE LineError \/ ReturnFunction
    BY <1>5, <1>13 DEF LineError, ReturnFunction
<1>14. CASE UNCHANGED vars
    BY <1>5, <1>6, <1>14 DEF vars
<1>15. QED
    BY <1>7, <1>8, <1>9, <1>10, <1>11, <1>12, <1>13, <1>14 DEF Next, Terminated

\* Each pending declaration is one call of decl_vars that waits for its block,
\* however many blocks a line end closes.
THEOREM DeclarationsCounted == Spec => []TargetsAreDeclarations
<1>1. Init => TypeInv /\ TargetsAreDeclarations
    <2> SUFFICES ASSUME Init PROVE TargetsAreDeclarations
        BY InitTypeInv
    <2>1. Len(frames) = 1 /\ frames[1].kind = "function" /\ Len(targets) = 0
        BY DEF Init
    <2>2. {i \in 1..Len(frames) : frames[i].kind = "decl"} = {}
        BY <2>1
    <2>3. QED
        BY <2>1, <2>2, FS_EmptySet DEF TargetsAreDeclarations
<1>2. TypeInv /\ TargetsAreDeclarations /\ [Next]_vars => TypeInv' /\ TargetsAreDeclarations'
    BY NextTypeInv, NextCounted
<1>3. QED
    BY <1>1, <1>2, PTL DEF Spec

-----------------------------------------------------------------------------
(* The parser implements lexical blocks *)

\* The refinement mapping of Lexical, by name.
NamesOf == [i \in 1..Len(scopes) |-> Declared(scopes[i])]
OpenOf == [i \in 1..(Len(frames) - 1) |-> OpenedAt(frames[i + 1])]
StateOf == IF phase = "done" THEN "finished"
           ELSE IF phase \in Terminal THEN "stopped"
           ELSE IF phase = "params" THEN "signature"
           ELSE IF ended \/ ~more THEN "over" ELSE "body"

\* A block is opened by a line one unit out of it.
LEMMA OpenedOutside ==
    ASSUME TypeInv, CallsNested
    PROVE  \A i \in 2..Len(frames) : OpenedAt(frames[i]) = Block(frames[i]) - 1
<1> SUFFICES ASSUME NEW i \in 2..Len(frames)
             PROVE  OpenedAt(frames[i]) = Block(frames[i]) - 1
    OBVIOUS
<1>1. i \in 1..Len(frames) /\ i # 1 /\ indent \in Nat /\ cur_indent \in Nat
    BY FrameFacts
<1>2. frames[i].block_indent = Unset => indent = cur_indent + 1
    BY <1>1 DEF CallsNested
<1>3. QED
    BY <1>1, <1>2 DEF OpenedAt, Block

\* One table of names per name table, one open block per call inside the function.
LEMMA MappedShape ==
    ASSUME TypeInv
    PROVE  /\ Len(NamesOf) = Len(scopes) /\ Len(OpenOf) = Len(frames) - 1
           /\ NamesOf \in Seq(SUBSET Names) /\ NamesOf # <<>>
           /\ OpenOf \in Seq(Int)
<1>1. /\ Len(scopes) \in Nat \ {0} /\ Len(frames) \in Nat \ {0}
      /\ cur_indent \in Int /\ \A i \in 1..Len(frames) : frames[i].block_indent \in Int
    BY FrameFacts
<1>2. Len(NamesOf) = Len(scopes) /\ Len(OpenOf) = Len(frames) - 1
    BY <1>1 DEF NamesOf, OpenOf
<1>3. \A i \in 1..Len(scopes) : Declared(scopes[i]) \in SUBSET Names
    BY DEF Declared
<1>4. \A i \in 1..(Len(frames) - 1) : OpenedAt(frames[i + 1]) \in Int
    BY <1>1 DEF OpenedAt
<1>5. QED
    BY <1>1, <1>2, <1>3, <1>4 DEF NamesOf, OpenOf

LEMMA MappedShapeNext ==
    ASSUME TypeInv'
    PROVE  /\ NamesOf' \in Seq(SUBSET Names) /\ OpenOf' \in Seq(Int)
<1>1. TypeInv' => (NamesOf \in Seq(SUBSET Names) /\ OpenOf \in Seq(Int))'
    BY MappedShape, PTL
<1>2. QED
    BY <1>1

\* The blocks that are open lie within the innermost one that is read.
LEMMA OpenBelow ==
    ASSUME TypeInv, CallsNested
    PROVE  /\ \A i \in 1..Len(OpenOf) : OpenOf[i] < Block(Top(frames))
           /\ OpenOf # <<>> => Top(OpenOf) = Block(Top(frames)) - 1
<1>1. /\ Len(frames) \in Nat \ {0} /\ \A i \in 1..Len(frames) : Block(frames[i]) \in Int
      /\ Len(OpenOf) = Len(frames) - 1
    BY FrameFacts, MappedShape
<1>2. \A i \in 1..(Len(frames) - 1) : OpenOf[i] = OpenedAt(frames[i + 1]) /\ i + 1 \in 2..Len(frames)
    BY <1>1 DEF OpenOf
<1>3. \A i \in 1..(Len(frames) - 1) : OpenOf[i] = Block(frames[i + 1]) - 1
    BY <1>2, OpenedOutside
<1>4. ASSUME NEW i \in 1..(Len(frames) - 1) PROVE OpenOf[i] < Block(Top(frames))
    <2>1. i + 1 \in 1..Len(frames)
        BY <1>1
    <2>2. Block(frames[i + 1]) <= Block(Top(frames)) /\ Block(Top(frames)) \in Int
        BY <2>1, BlocksOrdered
    <2>3. QED
        BY <1>1, <1>3, <2>1, <2>2
<1>5. OpenOf # <<>> => Len(OpenOf) # 0
    BY MappedShape
<1>6. ASSUME Len(OpenOf) # 0 PROVE Top(OpenOf) = Block(Top(frames)) - 1
    <2>1. Len(frames) - 1 \in 1..(Len(frames) - 1) /\ Len(frames) - 1 + 1 = Len(frames)
        BY <1>1, <1>6
    <2>2. QED
        BY <1>1, <1>3, <2>1 DEF Top
<1>7. QED
    BY <1>1, <1>4, <1>5, <1>6

\* A declaration adds its name to the innermost table, an assignment none.
LEMMA DeclareNames ==
    ASSUME TypeInv, NEW n \in Names, NEW b \in Entry, b # Free, Declare(n, b)
    PROVE  NamesOf' = [NamesOf EXCEPT ![Len(NamesOf)] = @ \cup {n}]
<1>1. /\ Len(scopes') = Len(scopes) /\ Len(scopes) \in Nat \ {0} /\ Len(NamesOf) = Len(scopes)
      /\ \A i \in 1..Len(scopes), m \in Names :
            scopes'[i][m] = IF i = Len(scopes) /\ m = n THEN b ELSE scopes[i][m]
    BY DeclareTypes, FrameFacts, MappedShape
<1>2. \A i \in 1..Len(scopes) : Declared(scopes'[i]) =
         IF i = Len(scopes) THEN Declared(scopes[i]) \cup {n} ELSE Declared(scopes[i])
    BY <1>1 DEF Declared
<1>3. QED
    BY <1>1, <1>2 DEF NamesOf

LEMMA AssignNames ==
    ASSUME TypeInv, targets # <<>>, Top(targets).reg # Free, NEW b \in Entry, b # Free,
           Assigned(Top(targets), b)
    PROVE  NamesOf' = NamesOf
<1> DEFINE t == Top(targets)
<1>1. scopes \in Seq(Scope) /\ targets \in Seq(Target) /\ Len(targets) \in 1..Len(targets)
    BY DEF TypeInv, TypeOK
<1>2. t \in Target /\ t.name \in Names /\ t.scope \in Nat \ {0}
    <2>1. t = targets[Len(targets)]
        BY DEF Top
    <2>2. QED
        BY <1>1, <2>1, TargetFacts
<1>3. scopes' = IF TargetLive(t) THEN [scopes EXCEPT ![t.scope][t.name] = b] ELSE scopes
    BY DEF Assigned
<1>4. CASE TargetLive(t)
    <2>1. t.scope \in 1..Len(scopes) /\ scopes[t.scope][t.name] # Free
        BY <1>1, <1>2, <1>4 DEF TargetLive
    <2>2. Len(scopes') = Len(scopes) /\ \A i \in 1..Len(scopes), m \in Names :
             scopes'[i][m] = IF i = t.scope /\ m = t.name THEN b ELSE scopes[i][m]
        BY <1>1, <1>2, <1>3, <1>4, <2>1, WriteEntry
    <2>3. \A i \in 1..Len(scopes) : Declared(scopes'[i]) = Declared(scopes[i])
        BY <2>1, <2>2 DEF Declared
    <2>4. QED
        BY <2>2, <2>3 DEF NamesOf
<1>5. CASE ~TargetLive(t)
    BY <1>3, <1>5 DEF NamesOf
<1>6. QED
    BY <1>4, <1>5

\* The open blocks stay when the calls and their blocks do.
LEMMA SameOpen ==
    ASSUME TypeInv, CallsNested, TypeInv', CallsNested', Len(frames') = Len(frames),
           \A i \in 1..Len(frames) : Block(frames[i])' = Block(frames[i])
    PROVE  OpenOf' = OpenOf
<1>1. \A i \in 2..Len(frames) : OpenedAt(frames[i]) = Block(frames[i]) - 1
    BY OpenedOutside
<1>2. \A i \in 2..Len(frames') : OpenedAt(frames[i])' = Block(frames[i])' - 1
    <2>1. (TypeInv /\ CallsNested)' => 
             (\A i \in 2..Len(frames) : OpenedAt(frames[i]) = Block(frames[i]) - 1)'
        BY OpenedOutside, PTL
    <2>2. QED
        BY <2>1
<1>3. \A i \in 1..(Len(frames) - 1) : i + 1 \in 2..Len(frames) /\ i + 1 \in 1..Len(frames)
    BY FrameFacts
<1>4. \A i \in 1..(Len(frames) - 1) : OpenedAt(frames[i + 1])' = OpenedAt(frames[i + 1])
    BY <1>1, <1>2, <1>3
<1>5. QED
    BY <1>4 DEF OpenOf

\* A line that opens no block.
LEMMA LineRefines ==
    ASSUME TypeInv, StructInv, TypeInv', StructInv',
           NEW next \in Levels, NEW rest \in BOOLEAN, Line(next, rest),
           NEW declared \in {{}} \cup {{n} : n \in Names},
           NamesOf' = [NamesOf EXCEPT ![Len(NamesOf)] = @ \cup declared]
    PROVE  Lexical!Next
<1>1. /\ phase = "line" /\ next <= indent + 1 /\ indent' = next /\ phase' = "parsed"
      /\ next \in Nat
    BY LevelAssumption DEF Line, ReadLine, Levels
<1>2. CallsNested /\ CallsNested' /\ ~ended /\ more /\ Len(scopes) = indent + 1
    BY <1>1, LineFacts DEF StructInv, Terminal
<1>3. /\ Len(frames') = Len(frames)
      /\ \A i \in 1..Len(frames) : Block(frames[i])' = Block(frames[i])
      /\ Block(Top(frames)) <= indent
    BY LineBlocks
<1>4. OpenOf' = OpenOf
    BY <1>2, <1>3, SameOpen
<1>5. \A i \in 1..Len(OpenOf) : OpenOf[i] < indent
    <2>1. Block(Top(frames)) \in Int /\ indent \in Int /\ \A i \in 1..Len(OpenOf) : OpenOf[i] \in Int
        BY <1>2, BlocksOrdered, FrameFacts, MappedShape
    <2>2. \A i \in 1..Len(OpenOf) : OpenOf[i] < Block(Top(frames))
        BY <1>2, OpenBelow
    <2>3. QED
        BY <1>3, <2>1, <2>2
<1>6. StateOf = "body" /\ StateOf' \in {"body", "over"}
    BY <1>1, <1>2 DEF StateOf, Terminal
<1>7. Len(NamesOf) = indent + 1
    BY <1>2, MappedShape
<1>8. Lexical!Line(declared, next, FALSE)
    BY <1>1, <1>4, <1>5, <1>6, <1>7 DEF Lexical!Line, NamesOf, OpenOf, StateOf
<1>9. next \in 0..(indent + 1) /\ FALSE \in BOOLEAN
    BY <1>1, FrameFacts
<1>10. QED
    BY <1>8, <1>9 DEF Lexical!Next

\* A line that opens a block.
LEMMA OpenRefines ==
    ASSUME TypeInv, StructInv, TypeInv', StructInv',
           NEW next \in Levels, NEW kind \in {"branch", "decl"}, Open(kind, next),
           Len(scopes') = Len(scopes), Ends(next),
           NEW declared \in {{}} \cup {{n} : n \in Names},
           NamesOf' = [NamesOf EXCEPT ![Len(NamesOf)] = @ \cup declared]
    PROVE  Lexical!Next
<1> DEFINE F == Len(frames)
<1>1. /\ phase = "line" /\ next <= indent + 1 /\ next > indent /\ indent' = next
      /\ phase' = "loop" /\ next \in Nat
    BY LevelAssumption DEF Open, ReadLine, Levels
<1>2. CallsNested /\ CallsNested' /\ ~ended /\ more /\ Len(scopes) = indent + 1
      /\ Block(Top(frames)) <= indent
    BY <1>1, LineFacts DEF StructInv, Terminal
<1>3. /\ Len(frames') = F + 1
      /\ \A i \in 1..F : Block(frames[i])' = Block(frames[i])
      /\ Block(Top(frames))' = indent + 1
    BY OpenStruct
<1>4. /\ F \in Nat \ {0} /\ indent \in Nat
      /\ \A i \in 1..F : Block(frames[i]) \in Int
      /\ Len(OpenOf) = F - 1 /\ OpenOf \in Seq(Int)
    BY FrameFacts, MappedShape
<1>5. OpenOf' = Append(OpenOf, indent)
    <2>1. \A i \in 2..F : OpenedAt(frames[i]) = Block(frames[i]) - 1
        BY <1>2, OpenedOutside
    <2>2. \A i \in 2..Len(frames') : OpenedAt(frames[i])' = Block(frames[i])' - 1
        <3>1. (TypeInv /\ CallsNested)' =>
                 (\A i \in 2..Len(frames) : OpenedAt(frames[i]) = Block(frames[i]) - 1)'
            BY OpenedOutside, PTL
        <3>2. QED
            BY <1>2, <3>1
    <2>3. \A i \in 1..(F - 1) : OpenedAt(frames[i + 1])' = OpenOf[i]
        <3>1. \A i \in 1..(F - 1) : i + 1 \in 2..F /\ i + 1 \in 1..F /\ i + 1 \in 2..Len(frames')
            BY <1>3, <1>4
        <3>2. \A i \in 1..(F - 1) : OpenOf[i] = OpenedAt(frames[i + 1])
            BY DEF OpenOf
        <3>3. QED
            BY <1>3, <2>1, <2>2, <3>1, <3>2
    <2>4. \A i \in {F} : OpenedAt(frames[i + 1])' = indent
        <3>1. \A i \in {F} : i + 1 = Len(frames') /\ i + 1 \in 2..Len(frames')
            BY <1>3, <1>4
        <3>2. \A i \in {F} : Block(frames[i + 1])' = indent + 1
            BY <1>3, <3>1 DEF Top, Block
        <3>3. \A i \in {F} : OpenedAt(frames[i + 1])' = Block(frames[i + 1])' - 1
            BY <2>2, <3>1
        <3>4. QED
            BY <1>4, <3>2, <3>3
    <2>5. Len(OpenOf') = F /\ \A i \in 1..F : OpenOf'[i] = OpenedAt(frames[i + 1])'
        BY <1>3, <1>4 DEF OpenOf
    <2>6. \A i \in 1..F : OpenOf'[i] = IF i = F THEN indent ELSE OpenOf[i]
        BY <1>4, <2>3, <2>4, <2>5
    <2>7. OpenOf' \in Seq(Int) /\ Len(OpenOf') = F
        BY <2>5, MappedShapeNext
    <2>8. /\ Append(OpenOf, indent) \in Seq(Int) /\ Len(Append(OpenOf, indent)) = F
          /\ \A i \in 1..F : Append(OpenOf, indent)[i] = IF i = F THEN indent ELSE OpenOf[i]
        BY <1>4, AppendProperties
    <2>9. QED
        BY <2>6, <2>7, <2>8, SeqEqual
<1>6. \A i \in 1..Len(OpenOf) : OpenOf[i] < indent
    <2>1. Block(Top(frames)) \in Int /\ \A i \in 1..Len(OpenOf) : OpenOf[i] \in Int
        BY <1>2, <1>4, BlocksOrdered
    <2>2. \A i \in 1..Len(OpenOf) : OpenOf[i] < Block(Top(frames))
        BY <1>2, OpenBelow
    <2>3. QED
        BY <1>2, <1>4, <2>1, <2>2
<1>7. StateOf = "body" /\ StateOf' \in {"body", "over"}
    BY <1>1, <1>2 DEF StateOf, Terminal
<1>8. Len(NamesOf) = indent + 1
    BY <1>2, MappedShape
<1>9. next = indent + 1
    BY <1>1, <1>4
<1>10. Lexical!Line(declared, next, TRUE)
    BY <1>1, <1>5, <1>6, <1>7, <1>8, <1>9 DEF Lexical!Line, NamesOf, OpenOf, StateOf
<1>11. next \in 0..(indent + 1) /\ TRUE \in BOOLEAN
    BY <1>4, <1>9
<1>12. QED
    BY <1>10, <1>11 DEF Lexical!Next

\* The lexer, the calls and the tables stay: the mapped state may only change
\* with the phase.
LEMMA SameMapped ==
    ASSUME UNCHANGED <<lexer, frames>>
    PROVE  /\ OpenOf' = OpenOf /\ indent' = indent
           /\ UNCHANGED scopes => NamesOf' = NamesOf
BY DEF OpenOf, NamesOf, OpenedAt, lexer

\* The first diagnostic ends a behaviour.
LEMMA GiveUpRefines ==
    ASSUME UNCHANGED <<lexer, frames, scopes>>, phase \notin Terminal,
           phase' \in {"error", "abort"}
    PROVE  Lexical!Next
<1>1. OpenOf' = OpenOf /\ indent' = indent /\ NamesOf' = NamesOf
    BY SameMapped
<1>2. StateOf \notin {"finished", "stopped"} /\ StateOf' = "stopped"
    BY DEF StateOf, Terminal
<1>3. Lexical!GiveUp
    BY <1>1, <1>2 DEF Lexical!GiveUp, NamesOf, OpenOf, StateOf
<1>4. QED
    BY <1>3 DEF Lexical!Next

\* Steps between the phases of parse_block are invisible.
LEMMA StutterRefines ==
    ASSUME UNCHANGED <<lexer, frames, scopes>>, UNCHANGED StateOf
    PROVE  UNCHANGED Lexical!vars
<1>1. OpenOf' = OpenOf /\ indent' = indent /\ NamesOf' = NamesOf
    BY SameMapped
<1>2. QED
    BY <1>1 DEF Lexical!vars, NamesOf, OpenOf, StateOf

\* A register is an entry.
LEMMA FreshEntryDeclared ==
    ASSUME TypeInv, NEW w \in Widths
    PROVE  FreshReg(w) \in Entry /\ FreshReg(w) # Free
<1>1. w \in {1, 2}
    BY WidthAssumption
<1>2. QED
    BY <1>1, FreshTypes DEF FreshReg, Free

\* The signature line, the head of the loop and the end of a block.
LEMMA ParamRefines ==
    ASSUME TypeInv, StructInv, NEW n \in Names, NEW w \in Widths, Param(n, w)
    PROVE  Lexical!Next
<1>1. phase = "params" /\ phase' = phase /\ UNCHANGED <<lexer, frames>> /\ Declare(n, FreshReg(w))
    BY DEF Param
<1>2. Len(scopes) = 1 /\ ~Over
    BY <1>1 DEF StructInv, InParams, Terminal
<1>3. FreshReg(w) \in Entry /\ FreshReg(w) # Free
    BY FreshEntryDeclared
<1>4. NamesOf' = [NamesOf EXCEPT ![Len(NamesOf)] = @ \cup {n}] /\ Len(NamesOf) = 1
      /\ NamesOf \in Seq(SUBSET Names)
    BY <1>1, <1>2, <1>3, DeclareNames, MappedShape
<1>5. NamesOf' = <<NamesOf[1] \cup {n}>>
    BY <1>4
<1>6. OpenOf' = OpenOf /\ indent' = indent
    BY <1>1, SameMapped
<1>7. StateOf = "signature" /\ StateOf' = "signature"
    BY <1>1 DEF StateOf, Terminal
<1>8. Lexical!Parameter(n)
    BY <1>5, <1>6, <1>7 DEF Lexical!Parameter, NamesOf, OpenOf, StateOf
<1>9. QED
    BY <1>8 DEF Lexical!Next

LEMMA BeginBodyRefines ==
    ASSUME TypeInv, StructInv, BeginBody
    PROVE  Lexical!Next
<1>1. phase = "params" /\ phase' = "loop" /\ UNCHANGED <<lexer, frames, scopes>>
    BY DEF BeginBody
<1>2. ~Over /\ ended' = ended /\ more' = more
    BY <1>1 DEF StructInv, InParams, Terminal, lexer
<1>3. OpenOf' = OpenOf /\ indent' = indent /\ NamesOf' = NamesOf
    BY <1>1, SameMapped
<1>4. StateOf = "signature" /\ StateOf' = "body"
    BY <1>1, <1>2 DEF StateOf, Terminal, Over
<1>5. Lexical!StartBody
    BY <1>3, <1>4 DEF Lexical!StartBody, NamesOf, OpenOf, StateOf
<1>6. QED
    BY <1>5 DEF Lexical!Next

LEMMA StartOfBlockRefines ==
    ASSUME TypeInv, StructInv, StartOfBlock
    PROVE  Lexical!Next
<1>1. phase = "loop" /\ more /\ eob = "SOB" /\ UNCHANGED <<lexer, frames>>
    BY DEF StartOfBlock
<1>2. ~ended /\ Len(scopes) = indent /\ ended' = ended /\ more' = more
    BY <1>1 DEF StructInv, InLoop, Terminal, lexer
<1>3. CASE phase' = "abort"
    BY <1>1, <1>3, GiveUpRefines DEF StartOfBlock, Terminal
<1>4. CASE phase' = "line"
    <2>1. scopes' = Append(scopes, EmptyScope)
        BY <1>4 DEF StartOfBlock
    <2>2. NamesOf' = Append(NamesOf, {})
        <3>1. scopes \in Seq(Scope) /\ Len(scopes) \in Nat \ {0}
            BY FrameFacts DEF TypeInv, TypeOK
        <3>2. Declared(EmptyScope) = {}
            BY DEF Declared, EmptyScope
        <3>3. /\ Len(scopes') = Len(scopes) + 1
              /\ \A i \in 1..(Len(scopes) + 1) :
                    scopes'[i] = IF i = Len(scopes) + 1 THEN EmptyScope ELSE scopes[i]
            BY <2>1, <3>1
        <3>4. \A i \in 1..(Len(scopes) + 1) : Declared(scopes'[i]) =
                 IF i = Len(scopes) + 1 THEN {} ELSE Declared(scopes[i])
            BY <3>2, <3>3
        <3>5. Len(NamesOf) = Len(scopes) /\ NamesOf \in Seq(SUBSET Names)
            BY MappedShape
        <3>6. NamesOf' = [i \in 1..(Len(scopes) + 1) |-> Declared(scopes'[i])]
            BY <3>3 DEF NamesOf
        <3>7. Append(NamesOf, {}) = [i \in 1..(Len(scopes) + 1) |->
                 IF i = Len(scopes) + 1 THEN {} ELSE Declared(scopes[i])]
            BY <3>1, <3>5 DEF NamesOf
        <3>8. QED
            BY <3>4, <3>6, <3>7
    <2>3. OpenOf' = OpenOf /\ indent' = indent
        BY <1>1, SameMapped
    <2>4. StateOf = "body" /\ StateOf' = "body" /\ Len(NamesOf) = indent
        BY <1>1, <1>2, <1>4, MappedShape DEF StateOf, Terminal
    <2>5. Lexical!EnterBlock
        BY <2>2, <2>3, <2>4 DEF Lexical!EnterBlock, NamesOf, OpenOf, StateOf
    <2>6. QED
        BY <2>5 DEF Lexical!Next
<1>5. QED
    BY <1>3, <1>4 DEF StartOfBlock

LEMMA EndOfBlockRefines ==
    ASSUME TypeInv, StructInv, EndOfBlock
    PROVE  Lexical!Next
<1>1. /\ phase = "parsed" /\ phase' = "popped" /\ UNCHANGED <<lexer, frames>>
      /\ scopes' = IF Len(scopes) = 1 THEN scopes ELSE Front(scopes)
    BY DEF EndOfBlock
<1>2. Block(Top(frames)) < Len(scopes) - 1 /\ (~Over => Len(scopes) = indent + 2) /\ CallsNested
    BY <1>1, EndOfBlockStruct DEF StructInv, Terminal
<1>3. /\ Block(Top(frames)) \in Int /\ Len(scopes) \in Nat \ {0} /\ indent \in Nat
      /\ 0 <= Block(Top(frames)) /\ scopes \in Seq(Scope)
    <2>1. 1 \in 1..Len(frames) /\ base \in {0, 1}
        BY FrameFacts
    <2>2. base <= Block(frames[1]) /\ Block(frames[1]) <= Block(Top(frames))
          /\ Block(frames[1]) \in Int /\ Block(Top(frames)) \in Int
        BY <1>2, <2>1, BlocksOrdered, FrameFacts
    <2>3. QED
        BY <2>1, <2>2, FrameFacts DEF TypeInv, TypeOK
<1>4. Len(scopes) > 1
    <2>1. \A b \in Int, l \in Nat : 0 <= b /\ b < l - 1 => l > 1
        OBVIOUS
    <2>2. QED
        BY <1>2, <1>3, <2>1
<1>5. NamesOf' = Front(NamesOf)
    <2>1. scopes' = Front(scopes) /\ scopes # <<>>
        <3>1. \A l \in Nat : l > 1 => l # 1 /\ l # 0
            OBVIOUS
        <3>2. Len(scopes) # 1 /\ Len(scopes) # 0
            BY <1>3, <1>4, <3>1
        <3>3. QED
            BY <1>1, <3>2
    <2>2. Len(scopes') = Len(scopes) - 1 /\ \A i \in 1..(Len(scopes) - 1) : scopes'[i] = scopes[i]
        BY <1>3, <2>1, FrontSeq
    <2>3. NamesOf \in Seq(SUBSET Names) /\ NamesOf # <<>> /\ Len(NamesOf) = Len(scopes)
        BY MappedShape
    <2>4. /\ Front(NamesOf) \in Seq(SUBSET Names) /\ Len(Front(NamesOf)) = Len(scopes) - 1
          /\ \A i \in 1..(Len(scopes) - 1) : Front(NamesOf)[i] = NamesOf[i]
        BY <2>3, FrontSeq
    <2>5. /\ Len(NamesOf') = Len(scopes) - 1 /\ NamesOf' \in Seq(SUBSET Names)
          /\ \A i \in 1..(Len(scopes) - 1) : NamesOf'[i] = NamesOf[i]
        <3>1. \A i \in 1..(Len(scopes) - 1) : i \in 1..Len(scopes)
            BY <1>3
        <3>2. NamesOf' = [i \in 1..(Len(scopes) - 1) |-> Declared(scopes[i])]
            BY <2>2 DEF NamesOf
        <3>3. \A i \in 1..(Len(scopes) - 1) : Declared(scopes[i]) \in SUBSET Names
            BY DEF Declared
        <3>4. Len(scopes) - 1 \in Nat
            BY <1>3
        <3>5. /\ Len(NamesOf') = Len(scopes) - 1 /\ NamesOf' \in Seq(SUBSET Names)
              /\ \A i \in 1..(Len(scopes) - 1) : NamesOf'[i] = Declared(scopes[i])
            BY <3>2, <3>3, <3>4
        <3>6. QED
            BY <3>1, <3>5 DEF NamesOf
    <2>6. QED
        BY <1>3, <2>4, <2>5, SeqEqual
<1>6. OpenOf' = OpenOf /\ indent' = indent
    BY <1>1, SameMapped
<1>7. \A i \in 1..Len(OpenOf) : OpenOf[i] < Len(NamesOf) - 2
    <2>1. OpenOf \in Seq(Int) /\ Len(NamesOf) = Len(scopes)
        BY MappedShape
    <2>2. OpenOf # <<>> => Top(OpenOf) = Block(Top(frames)) - 1
        BY <1>2, OpenBelow
    <2>3. \A i \in 1..Len(OpenOf) : OpenOf[i] <= Block(Top(frames)) - 1
        <3>1. \A i \in 1..Len(OpenOf) : OpenOf[i] < Block(Top(frames)) /\ OpenOf[i] \in Int
            BY <1>2, <2>1, OpenBelow
        <3>2. QED
            BY <1>3, <3>1
    <2>4. QED
        BY <1>2, <1>3, <2>1, <2>3
<1>8. /\ StateOf \in {"body", "over"} /\ StateOf' = StateOf
      /\ StateOf = "body" => Len(NamesOf) > indent + 1
    <2>1. ended' = ended /\ more' = more
        BY <1>1 DEF lexer
    <2>2. StateOf = IF Over THEN "over" ELSE "body"
        BY <1>1 DEF StateOf, Terminal, Over
    <2>3. StateOf' = StateOf
        BY <1>1, <2>1, <2>2 DEF StateOf, Terminal, Over
    <2>4. ~Over => Len(NamesOf) > indent + 1
        BY <1>2, <1>3, MappedShape
    <2>5. QED
        BY <2>2, <2>3, <2>4
<1>9. Len(NamesOf) > 1
    BY <1>4, MappedShape
<1>10. Lexical!LeaveBlock
    BY <1>5, <1>6, <1>7, <1>8, <1>9
       DEF Lexical!LeaveBlock, NamesOf, OpenOf, StateOf, Front, Lexical!Front
<1>11. QED
    BY <1>10 DEF Lexical!Next

\* What stays and where the innermost block was opened when parse_block returns.
LEMMA LeavingMapped ==
    ASSUME TypeInv, StructInv, Leaving, Len(frames) > 1
    PROVE  /\ OpenOf # <<>> /\ StateOf \in {"body", "over"}
           /\ StateOf = "body" => Top(OpenOf) >= indent
<1>1. /\ CallsNested /\ phase \in {"loop", "parsed", "popped"}
      /\ \A i \in 1..Len(frames) : frames[i].block_indent # Unset
      /\ ~Over => AtOwnIndent /\ indent = cur_indent - 1
    BY LeavingFacts
<1>2. OpenOf # <<>> /\ Len(frames) \in 1..Len(frames)
    BY FrameFacts, MappedShape
<1>3. Top(OpenOf) = Block(Top(frames)) - 1
    BY <1>1, <1>2, OpenBelow
<1>4. AtOwnIndent => Block(Top(frames)) = cur_indent
    BY <1>1, <1>2 DEF AtOwnIndent, Block, Top
<1>5. StateOf = IF Over THEN "over" ELSE "body"
    BY <1>1 DEF StateOf, Terminal, Over
<1>6. indent \in Int /\ cur_indent \in Int
    BY FrameFacts
<1>7. ~Over => Top(OpenOf) >= indent
    BY <1>1, <1>3, <1>4, <1>6
<1>8. QED
    BY <1>2, <1>5, <1>7

\* parse_block returns to the line that opened its block: the block is ended.
LEMMA ReturnRefines ==
    ASSUME TypeInv, StructInv, Leaving, Top(frames).kind # "function",
           frames' = Front(frames), phase' = "parsed", UNCHANGED <<base, lexer, scopes>>
    PROVE  Lexical!Next
<1> DEFINE F == Len(frames)
<1>1. /\ F > 1 /\ Len(frames') = F - 1 /\ \A i \in 1..(F - 1) : frames'[i] = frames[i]
      /\ F \in Nat /\ cur_indent' = cur_indent
    BY ReturnStruct, FrameFacts DEF lexer
<1>2. /\ OpenOf # <<>> /\ StateOf \in {"body", "over"}
      /\ StateOf = "body" => Top(OpenOf) >= indent
    BY <1>1, LeavingMapped
<1>3. OpenOf' = Front(OpenOf)
    <2>1. OpenOf \in Seq(Int) /\ Len(OpenOf) = F - 1
        BY MappedShape
    <2>2. /\ Front(OpenOf) \in Seq(Int) /\ Len(Front(OpenOf)) = F - 2
          /\ \A i \in 1..(F - 2) : Front(OpenOf)[i] = OpenOf[i]
        <3>1. /\ Front(OpenOf) \in Seq(Int) /\ Len(Front(OpenOf)) = Len(OpenOf) - 1
              /\ \A i \in 1..(Len(OpenOf) - 1) : Front(OpenOf)[i] = OpenOf[i]
            BY <1>2, <2>1, FrontSeq
        <3>2. Len(OpenOf) - 1 = F - 2
            BY <1>1, <2>1
        <3>3. QED
            BY <3>1, <3>2
    <2>3. \A i \in 1..(F - 2) : OpenedAt(frames[i + 1])' = OpenedAt(frames[i + 1])
        <3>1. \A i \in 1..(F - 2) : i + 1 \in 1..(F - 1)
            BY <1>1
        <3>2. QED
            BY <1>1, <3>1 DEF OpenedAt
    <2>4. F - 2 \in Nat /\ Len(frames') - 1 = F - 2
        <3>1. \A f \in Nat : f > 1 => f - 2 \in Nat /\ (f - 1) - 1 = f - 2
            OBVIOUS
        <3>2. QED
            BY <1>1, <3>1
    <2>5. OpenOf' = [i \in 1..(F - 2) |-> OpenedAt(frames[i + 1])]
        BY <2>3, <2>4 DEF OpenOf
    <2>6. \A i \in 1..(F - 2) : OpenOf[i] = OpenedAt(frames[i + 1]) /\ OpenOf[i] \in Int
        <3>1. \A i \in 1..(F - 2) : i \in 1..(F - 1)
            BY <1>1
        <3>2. QED
            BY <2>1, <3>1 DEF OpenOf
    <2>7. /\ OpenOf' \in Seq(Int) /\ Len(OpenOf') = F - 2
          /\ \A i \in 1..(F - 2) : OpenOf'[i] = OpenOf[i]
        BY <2>4, <2>5, <2>6
    <2>8. QED
        BY <2>2, <2>7, SeqEqual
<1>4. NamesOf' = NamesOf /\ indent' = indent /\ StateOf' = StateOf
    <2>1. ended' = ended /\ more' = more /\ scopes' = scopes /\ indent' = indent
        BY DEF lexer
    <2>2. phase \in {"loop", "parsed", "popped"}
        BY LeavingFacts
    <2>3. QED
        BY <2>1, <2>2 DEF NamesOf, StateOf, Terminal
<1>5. Lexical!EndOpened
    <2>1. StateOf = "over" \/ (StateOf = "body" /\ OpenOf[Len(OpenOf)] >= indent)
        BY <1>2 DEF Top
    <2>2. QED
        BY <1>2, <1>3, <1>4, <2>1 DEF Lexical!EndOpened, NamesOf, OpenOf, StateOf, Front, Lexical!Front
<1>6. QED
    BY <1>5 DEF Lexical!Next

\* function() is left with every block ended.
LEMMA ReturnFunctionRefines ==
    ASSUME TypeInv, StructInv, ReturnFunction
    PROVE  Lexical!Next
<1>1. /\ Leaving /\ Top(frames).kind = "function" /\ phase' \in {"done", "error"}
      /\ UNCHANGED <<lexer, frames, scopes>>
    BY DEF ReturnFunction
<1>2. /\ CallsNested /\ phase \in {"loop", "parsed", "popped"}
      /\ ~Over => AtOwnIndent /\ indent = cur_indent - 1
      /\ ~ended => base <= indent
      /\ \A i \in 1..Len(frames) : frames[i].block_indent # Unset
    BY <1>1, LeavingFacts
<1>3. CASE phase' = "error"
    BY <1>1, <1>2, <1>3, GiveUpRefines DEF Terminal
<1>4. CASE phase' = "done"
    <2>1. Len(frames) = 1
        <3>1. Len(frames) \in Nat \ {0}
            BY FrameFacts
        <3>2. \A f \in Nat \ {0} : f # 1 => f \in 2..f
            OBVIOUS
        <3>3. Len(frames) # 1 => Len(frames) \in 2..Len(frames)
            BY <3>1, <3>2
        <3>4. QED
            BY <1>1, <1>2, <3>3 DEF CallsNested, Top
    <2>2. Over
        <3>1. base = Block(frames[1]) /\ frames[1].block_indent # Unset
            BY <1>2, <2>1 DEF CallsNested
        <3>2. AtOwnIndent => base = cur_indent
            BY <2>1, <3>1 DEF AtOwnIndent, Top, Block
        <3>3. base \in Int /\ indent \in Int /\ cur_indent \in Int
            BY FrameFacts
        <3>4. ~Over => ~ended
            BY DEF Over
        <3>5. QED
            BY <1>2, <3>2, <3>3, <3>4
    <2>3. OpenOf = <<>>
        BY <2>1, MappedShape
    <2>4. StateOf = "over" /\ StateOf' = "finished"
        BY <1>2, <1>4, <2>2 DEF StateOf, Terminal, Over
    <2>5. OpenOf' = OpenOf /\ NamesOf' = NamesOf /\ indent' = indent
        BY <1>1, SameMapped
    <2>6. Lexical!Finish
        BY <2>3, <2>4, <2>5 DEF Lexical!Finish, NamesOf, OpenOf, StateOf
    <2>7. QED
        BY <2>6 DEF Lexical!Next
<1>5. QED
    BY <1>1, <1>3, <1>4

LEMMA LineStepRefines ==
    ASSUME TypeInv, StructInv, TypeInv', StructInv',
           NEW next \in Levels, NEW rest \in BOOLEAN, LineStep(next, rest)
    PROVE  Lexical!Next
<1>1. ASSUME Line(next, rest), UNCHANGED NamesOf PROVE Lexical!Next
    <2>1. NamesOf' = [NamesOf EXCEPT ![Len(NamesOf)] = @ \cup {}]
        BY <1>1, MappedShape
    <2>2. QED
        BY <1>1, <2>1, LineRefines
<1>2. ASSUME NEW n \in Names, NEW b \in Entry, b # Free, Line(next, rest), Declare(n, b)
      PROVE  Lexical!Next
    <2>1. NamesOf' = [NamesOf EXCEPT ![Len(NamesOf)] = @ \cup {n}]
        BY <1>2, DeclareNames
    <2>2. QED
        BY <1>2, <2>1, LineRefines
<1>3. CASE Plain(next, rest) \/ Ret(next, rest) \/ RetIf(next, rest)
    BY <1>1, <1>3 DEF Plain, Ret, RetIf, NamesOf
<1>4. ASSUME NEW n \in Names, NEW w \in Widths, Let(n, w, next, rest) PROVE Lexical!Next
    <2>1. FreshReg(w) \in Entry /\ FreshReg(w) # Free
        BY FreshEntryDeclared
    <2>2. QED
        BY <1>2, <1>4, <2>1 DEF Let
<1>5. ASSUME NEW n \in Names, LetStack(n, next, rest) PROVE Lexical!Next
    BY <1>2, <1>5 DEF LetStack, StackEntry, Entry, Free
<1>6. ASSUME NEW n \in Names, AssignTo(n, next, rest) PROVE Lexical!Next
    BY <1>1, <1>6 DEF AssignTo, NamesOf
<1>7. ASSUME NEW w \in BlockWidths, Assign(w, next, rest) PROVE Lexical!Next
    <2> DEFINE t == Top(targets)
               b == [t.reg EXCEPT !.w = IF t.assigned THEN @ ELSE w]
    <2>1. Line(next, rest) /\ targets # <<>> /\ t.reg.w > 0 /\ Assigned(t, b)
        BY <1>7 DEF Assign
    <2>2. t.reg \in Entry
        <3>1. Len(targets) \in 1..Len(targets) /\ t = targets[Len(targets)]
            BY <2>1 DEF TypeInv, TypeOK, Top
        <3>2. QED
            BY <3>1, TargetFacts
    <2>3. w \in {1, 2}
        BY WidthAssumption
    <2>4. b \in Entry /\ b # Free /\ t.reg # Free
        BY <2>1, <2>2, <2>3 DEF Entry, Free
    <2>5. QED
        BY <1>1, <2>1, <2>4, AssignNames
<1>8. CASE Store(next, rest)
    <2>1. /\ Line(next, rest) /\ targets # <<>> /\ Top(targets).reg.w = 0
          /\ Assigned(Top(targets), StackEntry)
        BY <1>8 DEF Store
    <2>2. StackEntry \in Entry /\ StackEntry # Free /\ Top(targets).reg # Free
        BY <2>1 DEF StackEntry, Entry, Free
    <2>3. QED
        BY <1>1, <2>1, <2>2, AssignNames
<1>9. QED
    BY <1>3, <1>4, <1>5, <1>6, <1>7, <1>8 DEF LineStep

LEMMA OpenStepRefines ==
    ASSUME TypeInv, StructInv, TypeInv', StructInv', NEW next \in Levels, OpenStep(next)
    PROVE  Lexical!Next
<1>1. ASSUME NEW n \in Names, NEW b \in Entry, b # Free, Open("decl", next), Ends(next),
             Declare(n, b)
      PROVE  Lexical!Next
    <2>1. NamesOf' = [NamesOf EXCEPT ![Len(NamesOf)] = @ \cup {n}] /\ Len(scopes') = Len(scopes)
        BY <1>1, DeclareNames, SameTables
    <2>2. QED
        BY <1>1, <2>1, OpenRefines
<1>2. CASE OpenBranch(next)
    <2>1. Open("branch", next) /\ Ends(next) /\ scopes' = scopes
        BY <1>2 DEF OpenBranch
    <2>2. NamesOf' = [NamesOf EXCEPT ![Len(NamesOf)] = @ \cup {}]
        <3>1. NamesOf' = NamesOf
            BY <2>1 DEF NamesOf
        <3>2. QED
            BY <3>1, MappedShape
    <2>3. QED
        BY <2>1, <2>2, OpenRefines
<1>3. ASSUME NEW n \in Names, OpenLet(n, next) PROVE Lexical!Next
    <2>1. FreshReg(1) \in Entry /\ FreshReg(1) # Free
        BY FreshTypes DEF FreshReg, Free
    <2>2. QED
        BY <1>1, <1>3, <2>1 DEF OpenLet
<1>4. ASSUME NEW n \in Names, OpenStack(n, next) PROVE Lexical!Next
    BY <1>1, <1>4 DEF OpenStack, StackEntry, Entry, Free
<1>5. QED
    BY <1>2, <1>3, <1>4 DEF OpenStep

\* Every step of the parser is a step of LexicalBlocks or leaves it alone.
LEMMA StepRefines ==
    ASSUME TypeInv, StructInv, TypeInv', StructInv', [Next]_vars
    PROVE  [Lexical!Next]_(Lexical!vars)
<1>1. CASE NextLine \/ Continue
    <2>1. /\ UNCHANGED <<lexer, frames, scopes>> /\ phase \in {"loop", "parsed", "popped"}
          /\ phase' \in {"loop", "line"}
        BY <1>1 DEF NextLine, Continue, LoopTail
    <2>2. UNCHANGED StateOf
        BY <2>1 DEF StateOf, lexer, Terminal
    <2>3. QED
        BY <2>1, <2>2, StutterRefines
<1>2. CASE LineError
    BY <1>2, GiveUpRefines DEF LineError, Terminal
<1>3. CASE ReturnBranch
    BY <1>3, ReturnRefines DEF ReturnBranch
<1>4. CASE ReturnDecl
    <2>1. CASE phase' = "error"
        <3>1. UNCHANGED <<lexer, frames, scopes>> /\ Leaving
            BY <1>4, <2>1 DEF ReturnDecl
        <3>2. phase \notin Terminal
            BY <3>1, LeavingFacts DEF Terminal
        <3>3. QED
            BY <2>1, <3>1, <3>2, GiveUpRefines
    <2>2. CASE phase' = "parsed"
        BY <1>4, <2>2, ReturnRefines DEF ReturnDecl
    <2>3. QED
        BY <1>4, <2>1, <2>2 DEF ReturnDecl
<1>5. CASE UNCHANGED vars
    <2>1. UNCHANGED <<lexer, frames, scopes>> /\ UNCHANGED StateOf
        BY <1>5 DEF vars, StateOf, lexer
    <2>2. QED
        BY <2>1, StutterRefines
<1>6. ASSUME NEW n \in Names, NEW w \in Widths, Param(n, w) PROVE Lexical!Next
    BY <1>6, ParamRefines
<1>7. ASSUME NEW next \in Levels, NEW rest \in BOOLEAN, LineStep(next, rest) PROVE Lexical!Next
    BY <1>7, LineStepRefines
<1>8. ASSUME NEW next \in Levels, OpenStep(next) PROVE Lexical!Next
    BY <1>8, OpenStepRefines
<1>9. CASE BeginBody \/ StartOfBlock \/ EndOfBlock \/ ReturnFunction
    BY <1>9, BeginBodyRefines, StartOfBlockRefines, EndOfBlockRefines, ReturnFunctionRefines
<1>10. QED
    BY <1>1, <1>2, <1>3, <1>4, <1>5, <1>6, <1>7, <1>8, <1>9 DEF Next, Terminated

LEMMA InitRefines == Init => Lexical!Init
<1> SUFFICES ASSUME Init PROVE Lexical!Init
    OBVIOUS
<1>1. /\ base \in {0, 1} /\ indent = base /\ ended = FALSE /\ more = TRUE
      /\ phase = (IF base = 1 THEN "params" ELSE "loop") /\ Len(frames) = 1
      /\ scopes = <<EmptyScope>>
    BY DEF Init
<1>2. Declared(EmptyScope) = {}
    BY DEF Declared, EmptyScope
<1>3. NamesOf = <<{}>>
    BY <1>1, <1>2 DEF NamesOf
<1>4. OpenOf = <<>>
    BY <1>1 DEF OpenOf
<1>5. StateOf = IF indent = 0 THEN "body" ELSE "signature"
    BY <1>1 DEF StateOf, Terminal
<1>6. QED
    BY <1>1, <1>3, <1>4, <1>5 DEF Lexical!Init, NamesOf, OpenOf, StateOf

\* specs/grammar.md, "Indentation": with one block closed at a time, parse_block
\* and its stacks open and close blocks as the indentation says.
THEOREM LexicalSound == OneAtATime => (Spec => ImplementsLexicalBlocks)
<1> SUFFICES ASSUME OneAtATime PROVE Spec => ImplementsLexicalBlocks
    OBVIOUS
<1>1. Init => TypeInv /\ StructInv
    BY InitTypeInv, InitStruct
<1>2. TypeInv /\ StructInv /\ [Next]_vars => TypeInv' /\ StructInv'
    BY NextTypeInv, NextStruct
<1>3. TypeInv /\ StructInv /\ TypeInv' /\ StructInv' /\ [Next]_vars
      => [Lexical!Next]_(Lexical!vars)
    BY StepRefines
<1>4. QED
    BY <1>1, <1>2, <1>3, InitRefines, PTL DEF Spec, ImplementsLexicalBlocks, Lexical!Spec

-----------------------------------------------------------------------------
(* The checks of flow.                                                        *)

\* Flow only watches: every step is one of the parser.
LEMMA FlowSteps == [FlowNext]_flowVars => [Next]_vars
<1> SUFFICES ASSUME [FlowNext]_flowVars PROVE [Next]_vars
    OBVIOUS
<1>1. ASSUME NEW next \in Levels, NEW rest \in BOOLEAN,
             FlowLine(next, rest) \/ ReturnsIf(next, rest)
      PROVE  LineStep(next, rest)
    BY <1>1 DEF FlowLine, Declares, Gives, Returns, ReturnsIf, LineStep
<1>2. ASSUME NEW next \in Levels,
             Branches(next) \/ \E n \in Names : Pending(n, next) \/ PendingStack(n, next)
      PROVE  OpenStep(next)
    BY <1>2 DEF Pending, PendingStack, Branches, OpenStep
<1>3. QED
    BY <1>1, <1>2 DEF FlowNext, Next, Joins, Settles, flowVars

-----------------------------------------------------------------------------
(* Types *)

JoinRecord == [reached : BOOLEAN, unset : SUBSET Nat]

\* No path passes the block of a declaration by, so that none is unset there.
DeclJoins == \A k \in 1..Len(joins) : frames[k + 1].kind = "decl" => joins[k].unset = {}

FlowTypes ==
    /\ reached \in BOOLEAN /\ last_if \in BOOLEAN
    /\ unset \in SUBSET Nat /\ partly \in SUBSET Nat
    /\ joins \in Seq(JoinRecord)
    /\ Len(joins) = Len(frames) - 1
    /\ DeclJoins

LEMMA InitFlowTypes == FlowInit => FlowTypes
<1> SUFFICES ASSUME FlowInit PROVE FlowTypes
    OBVIOUS
<1>1. Len(frames) = 1
    BY DEF FlowInit, Init
<1>2. joins = <<>> /\ joins \in Seq(JoinRecord) /\ Len(joins) = 0
    BY DEF FlowInit
<1>3. DeclJoins
    BY <1>2 DEF DeclJoins
<1>4. /\ reached \in BOOLEAN /\ last_if \in BOOLEAN
      /\ unset \in SUBSET Nat /\ partly \in SUBSET Nat
    BY DEF FlowInit
<1>5. QED
    BY <1>1, <1>2, <1>3, <1>4 DEF FlowTypes

\* What a line that opens no block does to the flow.
LineFlow ==
    /\ joins' = joins /\ reached' \in BOOLEAN /\ last_if' \in BOOLEAN
    /\ unset' \in SUBSET Nat /\ partly' \in SUBSET Nat

LEMMA FlowLineFlow ==
    ASSUME TypeInv, FlowTypes, NEW next \in Levels, NEW rest \in BOOLEAN,
           FlowLine(next, rest) \/ ReturnsIf(next, rest)
    PROVE  LineFlow /\ Line(next, rest)
<1> USE DEF LineFlow, FlowTypes
<1>1. CASE ReturnsIf(next, rest)
    BY <1>1 DEF ReturnsIf, RetIf
<1>2. CASE FlowLine(next, rest)
    <2>1. joins' = joins /\ last_if' = FALSE
        BY <1>2 DEF FlowLine
    <2>2. ASSUME UNCHANGED <<reached, unset, partly>> PROVE LineFlow
        BY <2>1, <2>2
    <2>3. ASSUME NEW offs, Sets(offs) PROVE unset' \in SUBSET Nat /\ reached' = reached
        BY <2>3 DEF Sets
    <2>4. ASSUME Plain(next, rest) \/ Store(next, rest), UNCHANGED <<reached, unset, partly>>
          PROVE  LineFlow /\ Line(next, rest)
        BY <2>2, <2>4 DEF Plain, Store
    <2>5. ASSUME NEW n \in Names, LetStack(n, next, rest), UNCHANGED <<reached, unset, partly>>
          PROVE  LineFlow /\ Line(next, rest)
        BY <2>2, <2>5 DEF LetStack
    <2>6. ASSUME NEW n \in Names, AssignTo(n, next, rest), Sets({Resolve(n).off}),
                 UNCHANGED partly
          PROVE  LineFlow /\ Line(next, rest)
        BY <2>1, <2>3, <2>6 DEF AssignTo
    <2>7. ASSUME NEW n \in Names, NEW w \in Widths, Declares(n, w, next, rest)
          PROVE  LineFlow /\ Line(next, rest)
        BY <2>1, <2>3, <2>7 DEF Declares, Let
    <2>8. ASSUME NEW w \in BlockWidths, Gives(w, next, rest)
          PROVE  LineFlow /\ Line(next, rest)
        <3>1. Assign(w, next, rest) /\ targets # <<>> /\ Line(next, rest)
            BY <2>8 DEF Gives, Assign
        <3>2. Top(targets).reg.off \in Nat
            <4>1. Len(targets) \in 1..Len(targets)
                BY <3>1 DEF TypeInv, TypeOK
            <4>2. Top(targets).reg \in Entry
                BY <4>1, TargetFacts DEF Top
            <4>3. QED
                BY <4>2 DEF Entry
        <3>3. partly' \in SUBSET Nat
            BY <2>8, <3>2 DEF Gives
        <3>4. QED
            BY <2>1, <2>3, <2>8, <3>1, <3>3 DEF Gives
    <2>9. ASSUME Returns(next, rest) PROVE LineFlow /\ Line(next, rest)
        BY <2>1, <2>9 DEF Returns, Ret
    <2>10. QED
        BY <1>2, <2>4, <2>5, <2>6, <2>7, <2>8, <2>9 DEF FlowLine
<1>3. QED
    BY <1>1, <1>2

\* What a line that opens a block does to the flow.
OpenFlow(kind) ==
    /\ \E j \in JoinRecord : joins' = Append(joins, j) /\ (kind = "decl" => j.unset = {})
    /\ reached' = reached /\ last_if' = FALSE
    /\ unset' \in SUBSET Nat /\ partly' \in SUBSET Nat

LEMMA FlowOpenFlow ==
    ASSUME TypeInv, FlowTypes, NEW next \in Levels,
           Branches(next) \/ \E n \in Names : Pending(n, next) \/ PendingStack(n, next)
    PROVE  \E kind \in {"branch", "decl"} : Open(kind, next) /\ OpenFlow(kind)
<1> USE DEF FlowTypes
<1>1. NonePassing \in JoinRecord /\ NonePassing.unset = {} /\ Passing \in JoinRecord
    BY DEF NonePassing, Passing, JoinRecord
<1>2. ASSUME NEW n \in Names, Pending(n, next) PROVE Open("decl", next) /\ OpenFlow("decl")
    <2>1. nreg_count \in Nat
        BY DEF TypeInv, TypeOK
    <2>2. unset' \in SUBSET Nat /\ partly' \in SUBSET Nat
        BY <1>2, <2>1 DEF Pending
    <2>3. QED
        BY <1>1, <1>2, <2>2 DEF Pending, Enters, OpenFlow, OpenLet
<1>3. ASSUME NEW n \in Names, PendingStack(n, next) PROVE Open("decl", next) /\ OpenFlow("decl")
    BY <1>1, <1>3 DEF PendingStack, Enters, OpenFlow, OpenStack
<1>4. CASE Branches(next)
    BY <1>1, <1>4 DEF Branches, Enters, OpenFlow, OpenBranch
<1>5. QED
    BY <1>2, <1>3, <1>4

\* The calls that a line leaves, and those that an opening line adds to.
LEMMA OpenedCalls ==
    ASSUME TypeInv, NEW next \in Levels, NEW kind \in {"branch", "decl"}, Open(kind, next)
    PROVE  /\ Len(frames') = Len(frames) + 1 /\ Top(frames') = frames'[Len(frames) + 1]
           /\ frames'[Len(frames) + 1] = [kind |-> kind, block_indent |-> Unset]
           /\ \A i \in 1..Len(frames) : frames'[i] = Seen[i] /\ frames'[i].kind = frames[i].kind
<1>1. frames' = Append(Seen, [kind |-> kind, block_indent |-> Unset])
    BY DEF Open
<1>2. /\ Seen \in Seq(Frame) /\ Len(Seen) = Len(frames) /\ Len(frames) \in Nat
      /\ \A i \in 1..Len(frames) : Seen[i].kind = frames[i].kind
    BY SeenFrames, FrameFacts
<1>3. /\ Len(frames') = Len(frames) + 1
      /\ frames'[Len(frames) + 1] = [kind |-> kind, block_indent |-> Unset]
      /\ \A i \in 1..Len(frames) : frames'[i] = Seen[i]
    BY <1>1, <1>2
<1>4. QED
    BY <1>2, <1>3 DEF Top

\* A block's entry of joins goes with its call.
LEMMA ClosedCall ==
    ASSUME TypeInv, FlowTypes, Top(frames).kind # "function",
           frames' = Front(frames), joins' = Front(joins)
    PROVE  /\ Len(frames) > 1 /\ Len(joins) \in Nat \ {0} /\ joins \in Seq(JoinRecord)
           /\ Len(frames) = Len(joins) + 1 /\ Len(frames') = Len(frames) - 1
           /\ Top(joins) = joins[Len(joins)] /\ Top(joins) \in JoinRecord
           /\ joins' \in Seq(JoinRecord) /\ Len(joins') = Len(joins) - 1
           /\ \A k \in 1..(Len(joins) - 1) : joins'[k] = joins[k] /\ frames'[k + 1] = frames[k + 1]
<1>1. /\ frames \in Seq(Frame) /\ Len(frames) \in Nat \ {0} /\ frames # <<>>
      /\ frames[1].kind = "function"
    BY FrameFacts DEF TypeInv
<1>2. Len(frames) # 1
    BY <1>1 DEF Top
<1>3. joins \in Seq(JoinRecord) /\ Len(joins) = Len(frames) - 1 /\ Len(joins) \in Nat \ {0}
    BY <1>1, <1>2 DEF FlowTypes
<1>4. joins # <<>> /\ Len(joins) \in 1..Len(joins)
    BY <1>3
<1>5. /\ joins' \in Seq(JoinRecord) /\ Len(joins') = Len(joins) - 1
      /\ \A k \in 1..(Len(joins) - 1) : joins'[k] = joins[k]
    BY <1>3, <1>4, FrontSeq
<1>6. Len(frames') = Len(frames) - 1 /\ \A i \in 1..(Len(frames) - 1) : frames'[i] = frames[i]
    BY <1>1, FrontSeq
<1>7. \A k \in 1..(Len(joins) - 1) : k + 1 \in 1..(Len(frames) - 1)
    BY <1>1, <1>3
<1>8. Top(joins) = joins[Len(joins)] /\ Top(joins) \in JoinRecord
    BY <1>3, <1>4 DEF Top
<1>9. Len(frames) > 1 /\ Len(frames) = Len(joins) + 1
    BY <1>1, <1>2, <1>3
<1>10. QED
    BY <1>3, <1>5, <1>6, <1>7, <1>8, <1>9

LEMMA NextFlowTypes ==
    ASSUME TypeInv, FlowTypes, [FlowNext]_flowVars
    PROVE  FlowTypes'
<1>1. /\ reached \in BOOLEAN /\ last_if \in BOOLEAN /\ unset \in SUBSET Nat
      /\ partly \in SUBSET Nat /\ joins \in Seq(JoinRecord) /\ Len(joins) = Len(frames) - 1
      /\ Len(frames) \in Nat \ {0} /\ DeclJoins
    BY FrameFacts DEF FlowTypes
<1>2. \A k \in 1..Len(joins) : k + 1 \in 1..Len(frames)
    BY <1>1
<1>3. ASSUME UNCHANGED <<flow, frames>> PROVE FlowTypes'
    BY <1>1, <1>3 DEF flow, FlowTypes, DeclJoins
<1>4. ASSUME NEW n \in Names, NEW w \in Widths, Param(n, w), UNCHANGED flow PROVE FlowTypes'
    BY <1>3, <1>4 DEF Param
<1>5. CASE (BeginBody \/ StartOfBlock \/ NextLine \/ LineError \/ EndOfBlock \/ Continue
               \/ ReturnFunction) /\ UNCHANGED flow
    BY <1>3, <1>5 DEF BeginBody, StartOfBlock, NextLine, LineError, EndOfBlock, Continue,
                      ReturnFunction
<1>6. ASSUME NEW next \in Levels, NEW rest \in BOOLEAN,
             FlowLine(next, rest) \/ ReturnsIf(next, rest)
      PROVE  FlowTypes'
    <2>1. LineFlow /\ Line(next, rest)
        BY <1>6, FlowLineFlow
    <2>2. Len(frames') = Len(frames) /\ \A i \in 1..Len(frames) : frames'[i].kind = frames[i].kind
        BY <2>1, SeenFrames DEF Line
    <2>3. DeclJoins'
        BY <1>1, <1>2, <2>1, <2>2 DEF LineFlow, DeclJoins
    <2>4. QED
        BY <1>1, <2>1, <2>2, <2>3 DEF LineFlow, FlowTypes
<1>7. ASSUME NEW next \in Levels,
             Branches(next) \/ \E n \in Names : Pending(n, next) \/ PendingStack(n, next)
      PROVE  FlowTypes'
    <2>1. PICK kind \in {"branch", "decl"} : Open(kind, next) /\ OpenFlow(kind)
        BY <1>7, FlowOpenFlow
    <2>2. PICK j \in JoinRecord : joins' = Append(joins, j) /\ (kind = "decl" => j.unset = {})
        BY <2>1 DEF OpenFlow
    <2>3. /\ Len(frames') = Len(frames) + 1 /\ frames'[Len(frames) + 1].kind = kind
          /\ \A i \in 1..Len(frames) : frames'[i].kind = frames[i].kind
        BY <2>1, OpenedCalls
    <2>4. /\ joins' \in Seq(JoinRecord) /\ Len(joins') = Len(joins) + 1
          /\ joins'[Len(joins) + 1] = j /\ \A k \in 1..Len(joins) : joins'[k] = joins[k]
        BY <1>1, <2>2
    <2>5. ASSUME NEW k \in 1..(Len(joins) + 1), frames'[k + 1].kind = "decl"
          PROVE  joins'[k].unset = {}
        <3>1. CASE k \in 1..Len(joins)
            BY <1>1, <1>2, <2>3, <2>4, <2>5, <3>1 DEF DeclJoins
        <3>2. CASE k = Len(joins) + 1
            <4>1. k + 1 = Len(frames) + 1
                BY <1>1, <3>2
            <4>2. QED
                BY <2>2, <2>3, <2>4, <2>5, <3>2, <4>1
        <3>3. QED
            BY <1>1, <3>1, <3>2
    <2>6. DeclJoins'
        BY <2>4, <2>5 DEF DeclJoins
    <2>7. Len(joins') = Len(frames') - 1
        BY <1>1, <2>3, <2>4
    <2>8. /\ reached' \in BOOLEAN /\ last_if' \in BOOLEAN
          /\ unset' \in SUBSET Nat /\ partly' \in SUBSET Nat
        BY <1>1, <2>1 DEF OpenFlow
    <2>9. QED
        BY <2>4, <2>6, <2>7, <2>8 DEF FlowTypes
<1>8. ASSUME frames' = Front(frames), joins' = Front(joins), Top(frames).kind # "function"
      PROVE  /\ joins' \in Seq(JoinRecord) /\ Len(joins') = Len(frames') - 1 /\ DeclJoins'
             /\ Top(joins) \in JoinRecord
    <2>1. /\ Len(joins') = Len(joins) - 1 /\ Len(joins) \in Nat
          /\ \A k \in 1..(Len(joins) - 1) : joins'[k] = joins[k] /\ frames'[k + 1] = frames[k + 1]
        BY <1>8, ClosedCall
    <2>2. \A k \in 1..(Len(joins) - 1) : k \in 1..Len(joins)
        BY <2>1
    <2>3. DeclJoins'
        BY <1>1, <2>1, <2>2 DEF DeclJoins
    <2>4. QED
        BY <1>1, <1>8, <2>1, <2>3, ClosedCall
<1>9. CASE Joins
    <2>1. /\ frames' = Front(frames) /\ Top(frames).kind = "branch" /\ joins' = Front(joins)
          /\ reached' = (reached \/ Top(joins).reached) /\ unset' = unset \cup Top(joins).unset
          /\ UNCHANGED <<partly, last_if>>
        BY <1>9 DEF Joins, ReturnBranch
    <2>2. Top(joins).reached \in BOOLEAN /\ Top(joins).unset \in SUBSET Nat
        BY <1>8, <2>1 DEF JoinRecord
    <2>3. reached' \in BOOLEAN /\ unset' \in SUBSET Nat
        BY <1>1, <2>1, <2>2
    <2>4. QED
        BY <1>1, <1>8, <2>1, <2>3 DEF FlowTypes
<1>10. CASE Settles
    <2>1. CASE frames' = frames
        BY <1>3, <1>10, <2>1 DEF Settles, flow
    <2>2. CASE frames' # frames
        <3>1. /\ frames' = Front(frames) /\ Top(frames).kind = "decl" /\ joins' = Front(joins)
              /\ UNCHANGED <<reached, unset, partly, last_if>>
            BY <1>10, <2>2 DEF Settles, ReturnDecl
        <3>2. QED
            BY <1>1, <1>8, <3>1 DEF FlowTypes
    <2>3. QED
        BY <2>1, <2>2
<1>11. CASE UNCHANGED flowVars
    BY <1>3, <1>11 DEF flowVars, vars
<1>12. QED
    BY <1>4, <1>5, <1>6, <1>7, <1>9, <1>10, <1>11 DEF FlowNext, Terminated, flowVars, vars

\* The flow state has its types, and there is one join for each call of
\* parse_block that waits for its block.
THEOREM FlowTypesSound == FlowSpec => []FlowTypeOK
<1>1. FlowInit => TypeInv /\ FlowTypes
    BY InitTypeInv, InitFlowTypes DEF FlowInit
<1>2. TypeInv /\ FlowTypes /\ [FlowNext]_flowVars => TypeInv' /\ FlowTypes'
    BY NextTypeInv, NextFlowTypes, FlowSteps
<1>3. FlowTypes => FlowTypeOK
    BY DEF FlowTypes, FlowTypeOK
<1>4. QED
    BY <1>1, <1>2, <1>3, PTL DEF FlowSpec

-----------------------------------------------------------------------------
(* The path through the last line *)

\* After a `ret` at the indentation of the body no branch is open whose label
\* could be reached round it, and no path goes on but past a `condition -> ret`.
TailInv ==
    /\ returns_on_exit => cur_indent > base \/ (Len(frames) = 1 /\ ~reached) \/ last_if
    /\ phase = "done" /\ RetAirity > 0 => returns_on_exit

LEMMA NextTailInv ==
    ASSUME TypeInv, StructInv, TailInv, [FlowNext]_flowVars
    PROVE  TailInv'
<1>1. ASSUME UNCHANGED <<base, lexer, frames, returns_on_exit, reached, last_if>>,
             phase' # "done" \/ UNCHANGED phase
      PROVE  TailInv'
    BY <1>1 DEF TailInv, lexer
<1>2. ASSUME returns_on_exit' = FALSE, phase' # "done" PROVE TailInv'
    BY <1>2 DEF TailInv
<1>3. ASSUME NEW n \in Names, NEW w \in Widths, Param(n, w), UNCHANGED flow PROVE TailInv'
    BY <1>1, <1>3 DEF Param, flow
<1>4. CASE (BeginBody \/ StartOfBlock \/ NextLine \/ EndOfBlock \/ Continue \/ LineError) /\ UNCHANGED flow
    BY <1>1, <1>4 DEF BeginBody, StartOfBlock, NextLine, EndOfBlock, Continue, LineError, flow
<1>5. ASSUME NEW next \in Levels, NEW rest \in BOOLEAN, FlowLine(next, rest) PROVE TailInv'
    <2>1. CASE Returns(next, rest)
        <3>1. /\ Line(next, rest) /\ reached' = FALSE /\ phase' = "parsed"
              /\ cur_indent' = indent /\ base' = base
            BY <2>1 DEF Returns, Ret, Line, ReadLine
        <3>2. /\ CallsNested /\ Block(Top(frames)) <= indent /\ Len(frames') = Len(frames)
              /\ phase = "line"
            BY <3>1, LineBlocks
        <3>3. Len(frames) \in Nat \ {0} /\ indent \in Nat /\ base \in Nat /\ base <= indent
            BY <3>2, FrameFacts, LineFacts
        <3>4. ASSUME indent = base PROVE Len(frames) = 1
            <4>1. ASSUME Len(frames) # 1 PROVE FALSE
                <5>1. Len(frames) \in 1..Len(frames) /\ Top(frames) = frames[Len(frames)]
                    BY <3>3 DEF Top
                <5>2. base < Block(Top(frames)) /\ Block(Top(frames)) \in Int
                    BY <3>2, <4>1, <5>1, BlocksOrdered
                <5>3. QED
                    BY <3>2, <3>3, <3>4, <5>2
            <4>2. QED
                BY <4>1
        <3>5. cur_indent' > base' \/ (Len(frames') = 1 /\ ~reached')
            BY <3>1, <3>2, <3>3, <3>4
        <3>6. QED
            BY <3>1, <3>5 DEF TailInv
    <2>2. CASE ~Returns(next, rest)
        <3>1. ASSUME NEW n \in Names, NEW w \in Widths, Declares(n, w, next, rest)
              PROVE  returns_on_exit' = FALSE /\ phase' = "parsed"
            BY <3>1 DEF Declares, Let, Line
        <3>2. ASSUME NEW w \in BlockWidths, Gives(w, next, rest)
              PROVE  returns_on_exit' = FALSE /\ phase' = "parsed"
            BY <3>2 DEF Gives, Assign, Line
        <3>3. ASSUME NEW n \in Names, LetStack(n, next, rest) \/ AssignTo(n, next, rest)
              PROVE  returns_on_exit' = FALSE /\ phase' = "parsed"
            BY <3>3 DEF LetStack, AssignTo, Line
        <3>4. ASSUME Plain(next, rest) \/ Store(next, rest)
              PROVE  returns_on_exit' = FALSE /\ phase' = "parsed"
            BY <3>4 DEF Plain, Store, Line
        <3>5. returns_on_exit' = FALSE /\ phase' = "parsed"
            BY <1>5, <2>2, <3>1, <3>2, <3>3, <3>4 DEF FlowLine
        <3>6. QED
            BY <1>2, <3>5
    <2>3. QED
        BY <2>1, <2>2
<1>6. ASSUME NEW next \in Levels, NEW rest \in BOOLEAN, ReturnsIf(next, rest) PROVE TailInv'
    BY <1>6 DEF ReturnsIf, RetIf, Line, TailInv
<1>7. ASSUME NEW next \in Levels,
             Branches(next) \/ \E n \in Names : Pending(n, next) \/ PendingStack(n, next)
      PROVE  TailInv'
    <2>1. returns_on_exit' = FALSE /\ phase' = "loop"
        BY <1>7 DEF Pending, PendingStack, Branches, OpenLet, OpenStack, OpenBranch, Open
    <2>2. QED
        BY <1>2, <2>1
<1>8. ASSUME Joins \/ (Settles /\ frames' # frames) PROVE TailInv'
    <2>1. /\ Leaving /\ Top(frames).kind # "function" /\ phase' = "parsed"
          /\ frames' = Front(frames) /\ UNCHANGED <<base, lexer, scopes, returns_on_exit, last_if>>
        BY <1>8 DEF Joins, ReturnBranch, Settles, ReturnDecl
    <2>2. Len(frames) # 1
        BY <2>1, ReturnStruct, FrameFacts
    <2>3. QED
        BY <2>1, <2>2 DEF TailInv, lexer
<1>9. CASE Settles /\ frames' = frames
    BY <1>1, <1>9 DEF Settles, ReturnDecl, flow
<1>10. CASE ReturnFunction /\ UNCHANGED flow
    <2>1. /\ phase' = "done" => returns_on_exit \/ RetAirity = 0
          /\ UNCHANGED <<base, lexer, frames, returns_on_exit, reached, last_if>>
        BY <1>10 DEF ReturnFunction, flow
    <2>2. RetAirity > 0 => RetAirity # 0
        BY AirityAssumption
    <2>3. QED
        BY <2>1, <2>2 DEF TailInv, lexer
<1>11. CASE UNCHANGED flowVars
    BY <1>1, <1>11 DEF flowVars, vars, flow
<1>12. QED
    BY <1>3, <1>4, <1>5, <1>6, <1>7, <1>8, <1>9, <1>10, <1>11
       DEF FlowNext, Terminated, flowVars, vars

\* The airity check at the end of function() is right about every function but
\* one whose last line stands deeper than its body or is a `condition -> ret`.
THEOREM TailSound == OneAtATime => (FlowSpec => []TailReturns)
<1> SUFFICES ASSUME OneAtATime PROVE FlowSpec => []TailReturns
    OBVIOUS
<1>1. FlowInit => TypeInv /\ StructInv /\ TailInv
    <2>1. FlowInit => TailInv
        BY DEF FlowInit, Init, TailInv
    <2>2. QED
        BY <2>1, InitTypeInv, InitStruct DEF FlowInit
<1>2. TypeInv /\ StructInv /\ TailInv /\ [FlowNext]_flowVars => TypeInv' /\ StructInv' /\ TailInv'
    BY NextTypeInv, NextStruct, NextTailInv, FlowSteps
<1>3. TailInv => TailReturns
    BY DEF TailInv, TailReturns
<1>4. QED
    BY <1>1, <1>2, <1>3, PTL DEF FlowSpec

-----------------------------------------------------------------------------
(* Reads of unset registers.  The lines of a function are followed in the order *)
(* the parser reads them: a register that some path has not assigned is free   *)
(* (at or above nreg_count), or it is a declaration's that has no value yet or *)
(* only values of branches.                                                    *)

\* A nonempty set of indices has a largest element.
LEMMA LastIndex ==
    ASSUME NEW m \in Nat, NEW T \in SUBSET (1..m), T # {}
    PROVE  \E i \in T : \A j \in T : j <= i
<1> DEFINE R == {ss \in Nat \X Nat : ss[1] < ss[2]}
           D == {m - i : i \in T}
<1>1. IsWellFoundedOn(R, Nat)
    BY NatLessThanWellFounded, Zenon DEF OpToRel
<1>2. D \subseteq Nat /\ D # {}
    <2>1. \A i \in T : m - i \in Nat /\ m - i \in D
        <3>1. \A i \in 1..m : m - i \in Nat
            OBVIOUS
        <3>2. QED
            BY <3>1
    <2>2. QED
        BY <2>1, Zenon
<1>3. PICK d \in D : \A e \in D : ~ (<<e, d>> \in R)
    <2> HIDE DEF R, D
    <2>1. QED
        BY <1>1, <1>2, WFMin
<1>4. \A e \in D : d <= e
    <2>1. \A e \in Nat : ~ (<<e, d>> \in R) => d <= e
        BY <1>2
    <2>2. QED
        BY <1>2, <1>3, <2>1, Zenon
<1>5. PICK i \in T : d = m - i
    BY <1>3
<1>6. ASSUME NEW j \in T PROVE j <= i
    <2>1. m - j \in D /\ i \in 1..m /\ j \in 1..m
        OBVIOUS
    <2>2. m - i <= m - j
        BY <1>4, <1>5, <2>1
    <2>3. QED
        BY <2>1, <2>2
<1>7. QED
    BY <1>6

\* find_id finds a visible name in the innermost table that holds it.
LEMMA ResolveEntry ==
    ASSUME TypeInv, NEW n \in Names, n \in Visible
    PROVE  \E i \in 1..Len(scopes) : Innermost(i, n) /\ Resolve(n) = scopes[i][n]
<1> DEFINE T == {i \in 1..Len(scopes) : n \in Declared(scopes[i])}
<1>1. T # {} /\ T \in SUBSET (1..Len(scopes)) /\ Len(scopes) \in Nat
    BY FrameFacts DEF Visible
<1>2. PICK i \in T : \A j \in T : j <= i
    <2> HIDE DEF T
    <2>1. QED
        BY <1>1, LastIndex
<1>3. \A j \in (i + 1)..Len(scopes) : n \notin Declared(scopes[j])
    <2> SUFFICES ASSUME NEW j \in (i + 1)..Len(scopes), n \in Declared(scopes[j])
                 PROVE  FALSE
        OBVIOUS
    <2>1. i \in 1..Len(scopes) /\ Len(scopes) \in Nat
        BY <1>1
    <2>2. j \in T
        BY <2>1
    <2>3. QED
        BY <1>2, <2>1, <2>2
<1>4. \E k \in 1..Len(scopes) : Innermost(k, n)
    BY <1>2, <1>3 DEF Innermost
<1>5. DEFINE c == CHOOSE k \in 1..Len(scopes) : Innermost(k, n)
<1>6. c \in 1..Len(scopes) /\ Innermost(c, n)
    BY <1>4
<1>7. QED
    BY <1>6 DEF Resolve

\* nreg_count once the block at indentation b is left
CountAt(b) == IF b \in 1..Len(nreg_mark) THEN nreg_mark[b] ELSE nreg_count
\* The registers in use when the line's block, if it ends here, has been left
InUse == IF phase = "parsed" /\ eob = "EOB" /\ ~AtOwnIndent
         THEN CountAt(Len(scopes) - 1) ELSE nreg_count
\* The registers of the declarations that are waiting for their value, and of
\* those that only branches have given one
PendingRegs == {targets[k].reg.off : k \in {i \in 1..Len(targets) : Unassigned(targets[i])}}
Excused == PendingRegs \cup partly

UsedAreSet == \A r \in unset : r < InUse => r \in Excused
JoinsAreSet ==
    \A k \in 1..Len(joins) :
        \A r \in joins[k].unset : r < CountAt(Block(frames[k + 1])) => r \in Excused
UnsetInv ==
    phase \notin Terminal /\ ~Over =>
        /\ phase = "params" => unset = {}
        /\ UsedAreSet
        /\ JoinsAreSet

AllInv == RegInv /\ StructInv /\ TargetInv /\ FlowTypes

\* The counts that leaving blocks goes back to are at most the present one.
LEMMA CountFacts ==
    ASSUME RegInv
    PROVE  /\ nreg_count \in Nat /\ nreg_mark \in Seq(Nat)
           /\ Len(scopes) \in Nat \ {0} /\ Len(nreg_mark) = Len(scopes) - 1
           /\ \A b : CountAt(b) \in Nat /\ CountAt(b) <= nreg_count
           /\ InUse \in Nat /\ InUse <= nreg_count
<1>1. nreg_count \in Nat /\ nreg_mark \in Seq(Nat) /\ Len(scopes) \in Nat \ {0}
    BY FrameFacts DEF RegInv, TypeInv, TypeOK
<1>2. Len(nreg_mark) = Len(scopes) - 1
    BY DEF RegInv, NestedRegisters, MarksOrdered
<1>3. \A b \in 1..Len(nreg_mark) : nreg_mark[b] \in Nat /\ nreg_mark[b] <= nreg_count
    BY <1>1 DEF RegInv, NestedRegisters, MarksOrdered
<1>4. \A b : CountAt(b) \in Nat /\ CountAt(b) <= nreg_count
    BY <1>1, <1>3 DEF CountAt
<1>5. InUse \in Nat /\ InUse <= nreg_count
    BY <1>1, <1>4 DEF InUse
<1>6. QED
    BY <1>1, <1>2, <1>4, <1>5

LEMMA CountFactsNext ==
    ASSUME RegInv'
    PROVE  InUse' \in Nat /\ InUse' <= nreg_count' /\ nreg_count' \in Nat
<1>1. RegInv' => (InUse \in Nat /\ InUse <= nreg_count /\ nreg_count \in Nat)'
    BY CountFacts, PTL
<1>2. QED
    BY <1>1

\* A block that is waited for lies in the function's body and round the line.
LEMMA BranchBlocks ==
    ASSUME AllInv, CallsNested, NEW k \in 1..Len(joins)
    PROVE  /\ k + 1 \in 2..Len(frames) /\ k + 1 \in 1..Len(frames)
           /\ Block(frames[k + 1]) \in Nat \ {0}
           /\ Block(frames[k + 1]) <= Block(Top(frames)) /\ Block(Top(frames)) \in Int
<1>1. /\ Len(frames) \in Nat \ {0} /\ base \in Nat
      /\ \A i \in 1..Len(frames) : Block(frames[i]) \in Int
    BY FrameFacts DEF AllInv, RegInv
<1>2. Len(joins) = Len(frames) - 1
    BY DEF AllInv, FlowTypes
<1>3. k + 1 \in 2..Len(frames) /\ k + 1 \in 1..Len(frames)
    BY <1>1, <1>2
<1>4. /\ Block(Top(frames)) \in Int /\ Block(frames[k + 1]) <= Block(Top(frames))
      /\ base < Block(frames[k + 1])
    BY <1>1, <1>3, BlocksOrdered DEF AllInv, RegInv
<1>5. QED
    BY <1>1, <1>3, <1>4

\* The joins stay as they are while no block is left, if the registers that they
\* are about stay excused.
LEMMA SameJoins ==
    ASSUME AllInv, JoinsAreSet, CallsNested,
           nreg_mark' = nreg_mark, Block(Top(frames)) <= Len(nreg_mark),
           \A i \in 1..Len(frames) : Block(frames[i])' = Block(frames[i]),
           \A k \in 1..Len(joins) : \A r \in joins[k].unset :
              r < CountAt(Block(frames[k + 1])) /\ r \in Excused => r \in Excused'
    PROVE  \A k \in 1..Len(joins) : \A r \in joins[k].unset :
              r < CountAt(Block(frames[k + 1]))' => r \in Excused'
<1> SUFFICES ASSUME NEW k \in 1..Len(joins), NEW r \in joins[k].unset,
                    r < CountAt(Block(frames[k + 1]))'
             PROVE  r \in Excused'
    OBVIOUS
<1> DEFINE b == Block(frames[k + 1])
<1>1. /\ k + 1 \in 1..Len(frames) /\ b \in Nat \ {0} /\ b <= Block(Top(frames))
      /\ Block(Top(frames)) \in Int
    BY BranchBlocks
<1>2. b' = b
    BY <1>1
<1>3. Len(nreg_mark) \in Nat
    BY CountFacts DEF AllInv
<1>4. b \in 1..Len(nreg_mark)
    BY <1>1, <1>3
<1>5. CountAt(b) = nreg_mark[b] /\ CountAt(b)' = nreg_mark[b]
    BY <1>2, <1>4 DEF CountAt
<1>6. r \in Excused
    BY <1>5 DEF JoinsAreSet
<1>7. QED
    BY <1>5, <1>6

\* What holds when a line is due.
LEMMA LineDue ==
    ASSUME AllInv, UnsetInv, phase = "line"
    PROVE  /\ CallsNested /\ ~Over /\ InUse = nreg_count /\ UsedAreSet /\ JoinsAreSet
           /\ Block(Top(frames)) <= Len(nreg_mark) /\ Len(nreg_mark) = indent
           /\ indent \in Nat /\ nreg_count \in Nat
<1>1. /\ CallsNested /\ ~ended /\ more /\ Len(scopes) = indent + 1
      /\ Block(Top(frames)) <= indent
    BY LineFacts DEF AllInv, RegInv
<1>2. Len(nreg_mark) = Len(scopes) - 1 /\ indent \in Nat /\ nreg_count \in Nat
    BY CountFacts, FrameFacts DEF AllInv, RegInv
<1>3. InUse = nreg_count
    BY DEF InUse
<1>4. UsedAreSet /\ JoinsAreSet
    BY <1>1 DEF UnsetInv, Over, Terminal
<1>5. QED
    BY <1>1, <1>2, <1>3, <1>4 DEF Over

\* A line that opens no block.
LEMMA LineUnset ==
    ASSUME AllInv, AllInv', UnsetInv, NEW next \in Levels, NEW rest \in BOOLEAN,
           Line(next, rest), joins' = joins, nreg_mark' = nreg_mark,
           \A r \in unset' : r < nreg_count' => r \in Excused',
           \A k \in 1..Len(joins) : \A r \in joins[k].unset :
              r < CountAt(Block(frames[k + 1])) /\ r \in Excused => r \in Excused'
    PROVE  UnsetInv'
<1>1. phase = "line" /\ phase' = "parsed"
    BY DEF Line, ReadLine
<1>2. \A i \in 1..Len(frames) : Block(frames[i])' = Block(frames[i])
    BY LineBlocks DEF AllInv, RegInv
<1>3. JoinsAreSet'
    <2>1. \A k \in 1..Len(joins) : \A r \in joins[k].unset :
             r < CountAt(Block(frames[k + 1]))' => r \in Excused'
        BY <1>1, <1>2, LineDue, SameJoins
    <2>2. QED
        BY <2>1 DEF JoinsAreSet
<1>4. UsedAreSet'
    <2> SUFFICES ASSUME NEW r \in unset', r < InUse' PROVE r \in Excused'
        BY DEF UsedAreSet
    <2>1. r \in Nat
        BY DEF AllInv, FlowTypes
    <2>2. InUse' \in Nat /\ InUse' <= nreg_count' /\ nreg_count' \in Nat
        BY CountFactsNext DEF AllInv
    <2>3. QED
        BY <2>1, <2>2
<1>5. QED
    BY <1>1, <1>3, <1>4 DEF UnsetInv

\* A step that reads no line and ends no block.
LEMMA SameUnset ==
    ASSUME AllInv, UnsetInv, phase \notin Terminal, phase' # "params" \/ phase = "params",
           UNCHANGED <<lexer, frames, scopes, registers, targets, flow>>,
           phase = "parsed" /\ eob = "EOB" => AtOwnIndent,
           phase' = "parsed" /\ eob = "EOB" => AtOwnIndent
    PROVE  UnsetInv'
<1>1. /\ UNCHANGED <<nreg_count, nreg_mark, indent, ended, more, cur_indent, eob>>
      /\ UNCHANGED <<unset, joins, partly>> /\ Over' = Over
    BY DEF lexer, registers, Over, flow
<1>2. InUse = nreg_count /\ InUse' = nreg_count
    BY <1>1 DEF InUse, AtOwnIndent
<1>3. Excused' = Excused
    BY <1>1 DEF Excused, PendingRegs
<1>4. ASSUME ~Over, UsedAreSet PROVE UsedAreSet'
    BY <1>1, <1>2, <1>3, <1>4 DEF UsedAreSet
<1>5. ASSUME JoinsAreSet PROVE JoinsAreSet'
    BY <1>1, <1>3, <1>5 DEF JoinsAreSet, CountAt, Block
<1>6. QED
    BY <1>1, <1>4, <1>5 DEF UnsetInv

\* An entry with a register, and the registers that a join is about
LEMMA FirstReg ==
    ASSUME NEW e \in Entry, e.w > 0
    PROVE  e.off \in Nat /\ e.off \in Regs(e)
BY DEF Entry, Regs

LEMMA JoinRegs ==
    ASSUME FlowTypes, NEW k \in 1..Len(joins)
    PROVE  joins[k].unset \subseteq Nat
<1>1. joins[k] \in JoinRecord
    BY DEF FlowTypes
<1>2. QED
    BY <1>1 DEF JoinRecord

\* The table round a block starts at the count that an outer block goes back to,
\* or above it.
LEMMA FloorBeyond ==
    ASSUME RegInv, NEW b \in Nat \ {0}, NEW i \in 1..Len(scopes), b < i
    PROVE  CountAt(b) \in Nat /\ Floor(i) \in Nat /\ CountAt(b) <= Floor(i)
<1>1. /\ Len(nreg_mark) = Len(scopes) - 1 /\ nreg_mark \in Seq(Nat) /\ Len(scopes) \in Nat
    BY CountFacts
<1>2. i - 1 \in 1..Len(nreg_mark) /\ b \in 1..Len(nreg_mark) /\ b <= i - 1 /\ i # 1
    BY <1>1
<1>3. nreg_mark[b] <= nreg_mark[i - 1]
    BY <1>2 DEF RegInv, NestedRegisters, MarksOrdered
<1>4. Floor(i) = nreg_mark[i - 1] /\ CountAt(b) = nreg_mark[b]
    BY <1>2 DEF Floor, CountAt
<1>5. nreg_mark[b] \in Nat /\ nreg_mark[i - 1] \in Nat
    <2>1. \A m \in 1..Len(nreg_mark) : nreg_mark[m] \in Nat
        BY <1>1
    <2>2. QED
        BY <1>2, <2>1, Zenon
<1>6. QED
    BY <1>3, <1>4, <1>5

\* A visible name with a register has one in use.
LEMMA VisibleInUse ==
    ASSUME RegInv, NEW n \in Visible, n \in Names, Resolve(n).w > 0
    PROVE  Resolve(n).off \in Nat /\ Resolve(n).off < nreg_count
<1>1. PICK i \in 1..Len(scopes) : Resolve(n) = scopes[i][n]
    BY ResolveEntry DEF RegInv
<1> DEFINE e == scopes[i][n]
<1>2. e \in Entry
    <2>1. scopes \in Seq(Scope)
        BY DEF RegInv, TypeInv, TypeOK
    <2>2. scopes[i] \in Scope
        BY <2>1
    <2>3. QED
        BY <2>2 DEF Scope
<1>3. e.off \in Nat /\ e.off \in Regs(e)
    BY <1>1, <1>2, FirstReg
<1>4. e.off \in Floor(i) .. (Ceil(i) - 1)
    BY <1>3 DEF RegInv, NestedRegisters
<1>5. Ceil(i) \in Nat /\ Ceil(i) <= nreg_count
    <2>1. CASE i = Len(scopes)
        BY <2>1, CountFacts DEF Ceil
    <2>2. CASE i # Len(scopes)
        <3>1. i \in 1..Len(nreg_mark)
            BY <2>2, CountFacts
        <3>2. CountAt(i) = Ceil(i)
            BY <2>2, <3>1 DEF CountAt, Ceil
        <3>3. QED
            BY <3>2, CountFacts
    <2>3. QED
        BY <2>1, <2>2
<1>6. Floor(i) \in Int /\ nreg_count \in Nat
    BY CountFacts DEF Floor
<1>7. QED
    BY <1>1, <1>3, <1>4, <1>5, <1>6

\* The declaration that an opening line adds to the targets takes no other out of
\* the pending registers.
LEMMA AddedTarget ==
    ASSUME NEW t, targets \in Seq(Target), targets' = Append(targets, t)
    PROVE  /\ PendingRegs \subseteq PendingRegs'
           /\ Unassigned(t) => t.reg.off \in PendingRegs'
<1>1. /\ Len(targets') = Len(targets) + 1 /\ Len(targets) \in Nat
      /\ targets'[Len(targets) + 1] = t
      /\ \A i \in 1..Len(targets) : targets'[i] = targets[i]
    OBVIOUS
<1>2. \A i \in 1..Len(targets) : i \in 1..Len(targets')
    BY <1>1
<1>3. Len(targets) + 1 \in 1..Len(targets')
    BY <1>1
<1>4. PendingRegs \subseteq PendingRegs'
    BY <1>1, <1>2 DEF PendingRegs, Unassigned
<1>5. Unassigned(t) => t.reg.off \in PendingRegs'
    BY <1>1, <1>3 DEF PendingRegs, Unassigned
<1>6. QED
    BY <1>4, <1>5

\* The first value of the innermost declaration takes its register from them.
LEMMA AssignedTarget ==
    ASSUME targets \in Seq(Target), targets # <<>>, NEW b,
           targets' = [targets EXCEPT ![Len(targets)].reg = b, ![Len(targets)].assigned = TRUE]
    PROVE  /\ \A r \in PendingRegs : r \in PendingRegs' \/ r = Top(targets).reg.off
           /\ Top(targets).assigned \/ ~(Top(targets).reg.w > 0) => PendingRegs \subseteq PendingRegs'
           /\ Unassigned(Top(targets)) => Top(targets).reg.off \in PendingRegs
<1> DEFINE K == Len(targets)
<1>1. /\ K \in 1..K /\ K \in Nat /\ Len(targets') = K /\ Top(targets) = targets[K]
      /\ \A i \in 1..K : i # K => targets'[i] = targets[i]
    BY DEF Top
<1>2. ASSUME NEW i \in 1..K, i # K, Unassigned(targets[i])
      PROVE  targets[i].reg.off \in PendingRegs'
    BY <1>1, <1>2 DEF PendingRegs, Unassigned
<1>3. ASSUME NEW r \in PendingRegs
      PROVE  \/ r \in PendingRegs'
             \/ r = targets[K].reg.off /\ Unassigned(targets[K])
    <2>1. PICK i \in 1..K : r = targets[i].reg.off /\ Unassigned(targets[i])
        BY <1>3 DEF PendingRegs
    <2>2. QED
        BY <1>2, <2>1
<1>4. Unassigned(targets[K]) => targets[K].reg.off \in PendingRegs
    BY <1>1 DEF PendingRegs
<1>5. QED
    BY <1>1, <1>3, <1>4 DEF Unassigned

\* A declaration whose block is parsed at its own level was counted after every
\* block that still waits further out was opened.
LEMMA OwnBlockBeyondJoins ==
    ASSUME AllInv, phase = "line", targets # <<>>, Top(targets).reg.w > 0,
           Top(frames).kind # "branch",
           NEW k \in 1..Len(joins), NEW r \in joins[k].unset,
           r < CountAt(Block(frames[k + 1]))
    PROVE  r # Top(targets).reg.off
<1> DEFINE K == Len(targets)
           F == Len(frames)
           t == targets[K]
           b == Block(frames[k + 1])
<1>1. /\ CallsNested /\ TargetsOwned /\ TargetsLive /\ TypeInv /\ NestedRegisters
      /\ Len(scopes) = indent + 1 /\ Block(Top(frames)) <= indent
    BY LineFacts DEF AllInv, RegInv, TargetInv, Terminal
<1>2. /\ F \in Nat \ {0} /\ Top(frames) = frames[F] /\ frames[F].kind \in {"function", "branch", "decl"}
      /\ \A i \in 1..F : Block(frames[i]) \in Int
    <2>1. frames \in Seq(Frame) /\ F \in Nat \ {0} /\ \A i \in 1..F : Block(frames[i]) \in Int
        BY <1>1, FrameFacts
    <2>2. frames[F] \in Frame
        BY <2>1
    <2>3. QED
        BY <2>1, <2>2 DEF Frame, Top
<1>3. K \in 1..K /\ K \in Nat /\ Top(targets) = t /\ targets \in Seq(Target)
    BY <1>1 DEF TypeInv, TypeOK, Top
<1>4. /\ k + 1 \in 2..F /\ b \in Nat \ {0} /\ b <= Block(frames[F])
    BY <1>1, <1>2, BranchBlocks
<1>5. F \in 2..F /\ frames[F].kind = "decl"
    <2>1. F \in 2..F
        BY <1>2, <1>4
    <2>2. QED
        BY <1>1, <1>2, <2>1 DEF CallsNested
<1>6. t.scope = Block(frames[F])
    <2>1. PICK m \in 1..K : targets[m].scope = Block(frames[F])
        BY <1>1, <1>5 DEF TargetsOwned
    <2>2. t.scope <= Block(frames[F]) /\ t.scope \in Int
        BY <1>1, <1>2, <1>3, TargetsBelowTop, TargetFacts
    <2>3. m < K => targets[m].scope < t.scope
        BY <1>1, <1>3, <2>1 DEF TargetsLive, Terminal
    <2>4. ~(m < K)
        BY <1>2, <1>5, <2>1, <2>2, <2>3
    <2>5. m = K
        BY <1>3, <2>4
    <2>6. QED
        BY <2>1, <2>5
<1>7. b < Block(frames[F])
    <2>1. k + 1 # F
        <3> SUFFICES ASSUME k + 1 = F PROVE FALSE
            OBVIOUS
        <3>1. joins[k].unset = {}
            BY <1>5 DEF AllInv, FlowTypes, DeclJoins
        <3>2. QED
            BY <3>1
    <2>2. k + 1 < F /\ k + 1 \in 1..F /\ F \in 1..F
        BY <1>2, <1>4, <2>1
    <2>3. QED
        BY <1>1, <2>2 DEF CallsNested
<1>8. t.reg = scopes[t.scope][t.name] /\ t.scope \in 1..Len(scopes) /\ t.name \in Names
      /\ t.reg \in Entry
    <2>1. TargetLive(t)
        BY <1>1, <1>3 DEF TargetsLive, Terminal
    <2>2. t.scope \in Nat \ {0} /\ t.name \in Names /\ t.reg \in Entry
        BY <1>1, <1>3, TargetFacts
    <2>3. Len(scopes) \in Nat
        BY <1>1, FrameFacts
    <2>4. QED
        BY <2>1, <2>2, <2>3 DEF TargetLive
<1>9. t.reg.off \in Nat /\ t.reg.off >= Floor(t.scope)
    <2>1. t.reg.off \in Nat /\ t.reg.off \in Regs(t.reg)
        BY <1>3, <1>8, FirstReg
    <2>2. Regs(t.reg) \subseteq Floor(t.scope) .. (Ceil(t.scope) - 1)
        BY <1>1, <1>8 DEF NestedRegisters
    <2>3. QED
        BY <2>1, <2>2
<1>10. b < t.scope
    BY <1>6, <1>7
<1>11. CountAt(b) \in Nat /\ Floor(t.scope) \in Nat /\ CountAt(b) <= Floor(t.scope)
    BY <1>4, <1>8, <1>10, FloorBeyond DEF AllInv
<1>12. r \in Nat
    BY JoinRegs DEF AllInv
<1>13. QED
    <2> HIDE DEF t, b
    <2>1. r # t.reg.off
        BY <1>9, <1>11, <1>12 DEF b
    <2>2. QED
        BY <1>3, <2>1

\* `value =`: in a branch the register stays excused, at the block's own level it
\* is set on every path and free in every block that waits further out.
LEMMA GivesUnset ==
    ASSUME AllInv, AllInv', UnsetInv, NEW next \in Levels, NEW rest \in BOOLEAN,
           NEW w \in BlockWidths, Gives(w, next, rest), joins' = joins
    PROVE  UnsetInv'
<1> DEFINE t == Top(targets)
           b == [t.reg EXCEPT !.w = IF t.assigned THEN @ ELSE w]
<1>1. /\ Line(next, rest) /\ targets # <<>> /\ t.reg.w > 0 /\ UNCHANGED registers
      /\ Assigned(t, b) /\ unset' = unset \ {t.reg.off} /\ phase = "line"
    BY DEF Gives, Assign, Sets, Line, ReadLine
<1>2. /\ \A r \in unset : r < nreg_count => r \in Excused
      /\ targets \in Seq(Target)
    BY <1>1, LineDue DEF UsedAreSet, AllInv, RegInv, TypeInv, TypeOK
<1>3. targets' = [targets EXCEPT ![Len(targets)].reg = b, ![Len(targets)].assigned = TRUE]
    BY <1>1 DEF Assigned
<1>4. /\ \A r \in PendingRegs : r \in PendingRegs' \/ r = t.reg.off
      /\ t.assigned => PendingRegs \subseteq PendingRegs'
    <2> HIDE DEF t, b
    <2>1. /\ \A r \in PendingRegs : r \in PendingRegs' \/ r = Top(targets).reg.off
          /\ Top(targets).assigned \/ ~(Top(targets).reg.w > 0) => PendingRegs \subseteq PendingRegs'
        BY <1>1, <1>2, <1>3, AssignedTarget
    <2>2. QED
        BY <2>1 DEF t
<1>5. partly \ {t.reg.off} \subseteq partly'
    BY DEF Gives
<1>6. \A r \in Excused : r # t.reg.off => r \in Excused'
    BY <1>4, <1>5 DEF Excused
<1>7. \A r \in unset' : r < nreg_count' => r \in Excused'
    BY <1>1, <1>2, <1>6 DEF registers
<1>8. ASSUME NEW k \in 1..Len(joins), NEW r \in joins[k].unset,
             r < CountAt(Block(frames[k + 1])), r \in Excused
      PROVE  r \in Excused'
    <2>1. CASE Top(frames).kind = "branch"
        <3>1. CASE t.assigned
            <4>1. partly' = partly
                BY <2>1, <3>1 DEF Gives
            <4>2. QED
                BY <1>4, <1>8, <3>1, <4>1 DEF Excused
        <3>2. CASE ~t.assigned
            <4>1. t.reg.off \in partly'
                BY <2>1, <3>2 DEF Gives
            <4>2. QED
                BY <1>6, <1>8, <4>1 DEF Excused
        <3>3. QED
            BY <3>1, <3>2
    <2>2. CASE Top(frames).kind # "branch"
        <3>1. r # t.reg.off
            BY <1>1, <1>8, <2>2, OwnBlockBeyondJoins
        <3>2. QED
            BY <1>6, <1>8, <3>1
    <2>3. QED
        BY <2>1, <2>2
<1>9. QED
    <2>1. nreg_mark' = nreg_mark
        BY <1>1 DEF registers
    <2>2. QED
        BY <1>1, <1>7, <1>8, <2>1, LineUnset

LEMMA LineStepUnset ==
    ASSUME AllInv, AllInv', UnsetInv, NEW next \in Levels, NEW rest \in BOOLEAN,
           FlowLine(next, rest) \/ ReturnsIf(next, rest)
    PROVE  UnsetInv'
<1>1. Line(next, rest) /\ joins' = joins /\ phase = "line"
    BY FlowLineFlow DEF LineFlow, AllInv, RegInv, Line, ReadLine
<1>2. /\ \A r \in unset : r < nreg_count => r \in Excused
      /\ nreg_count \in Nat /\ unset \subseteq Nat /\ targets \in Seq(Target)
    BY <1>1, LineDue DEF UsedAreSet, AllInv, FlowTypes, RegInv, TypeInv, TypeOK
<1>3. ASSUME UNCHANGED registers, Excused \subseteq Excused', unset' \subseteq unset
      PROVE  UnsetInv'
    <2>1. nreg_mark' = nreg_mark /\ nreg_count' = nreg_count
        BY <1>3 DEF registers
    <2>2. \A r \in unset' : r < nreg_count' => r \in Excused'
        BY <1>2, <1>3, <2>1
    <2>3. QED
        BY <1>1, <1>3, <2>1, <2>2, LineUnset
<1>4. ASSUME UNCHANGED <<registers, targets, partly>>, unset' \subseteq unset PROVE UnsetInv'
    <2>1. Excused' = Excused
        BY <1>4 DEF Excused, PendingRegs
    <2>2. QED
        BY <1>3, <1>4, <2>1
<1>5. CASE ReturnsIf(next, rest)
    BY <1>4, <1>5 DEF ReturnsIf, RetIf
<1>6. CASE Plain(next, rest) /\ UNCHANGED <<reached, unset, partly>>
    BY <1>4, <1>6 DEF Plain
<1>7. CASE Store(next, rest) /\ UNCHANGED <<reached, unset, partly>>
    <2>1. /\ targets # <<>> /\ Top(targets).reg.w = 0 /\ UNCHANGED registers
          /\ Assigned(Top(targets), StackEntry)
        BY <1>7 DEF Store
    <2>2. targets' = [targets EXCEPT ![Len(targets)].reg = StackEntry,
                                     ![Len(targets)].assigned = TRUE]
        BY <2>1 DEF Assigned
    <2>3. PendingRegs \subseteq PendingRegs'
        <3>1. ~(Top(targets).reg.w > 0)
            BY <2>1
        <3>2. QED
            BY <1>2, <2>1, <2>2, <3>1, AssignedTarget, Zenon
    <2>4. Excused \subseteq Excused'
        BY <1>7, <2>3 DEF Excused
    <2>5. QED
        BY <1>3, <1>7, <2>1, <2>4
<1>8. ASSUME NEW n \in Names, LetStack(n, next, rest), UNCHANGED <<reached, unset, partly>>
      PROVE  UnsetInv'
    BY <1>4, <1>8 DEF LetStack
<1>9. ASSUME NEW n \in Names, AssignTo(n, next, rest), Sets({Resolve(n).off}), UNCHANGED partly
      PROVE  UnsetInv'
    BY <1>4, <1>9 DEF AssignTo, Sets
<1>10. ASSUME NEW n \in Names, NEW w \in Widths, Declares(n, w, next, rest) PROVE UnsetInv'
    <2>1. /\ nreg_count' = nreg_count + w /\ nreg_mark' = nreg_mark /\ targets' = targets
          /\ unset' = unset \ Regs(FreshReg(w)) /\ partly' = partly \ Regs(FreshReg(w))
          /\ w \in {1, 2}
        BY <1>10, WidthAssumption DEF Declares, Let, AddNreg, Sets
    <2>2. Regs(FreshReg(w)) = nreg_count .. (nreg_count + w - 1)
        BY DEF Regs, FreshReg
    <2>3. ASSUME NEW r \in Nat, r < nreg_count, r \in Excused PROVE r \in Excused'
        <3>1. r \notin Regs(FreshReg(w))
            BY <1>2, <2>2, <2>3
        <3>2. PendingRegs' = PendingRegs
            BY <2>1 DEF PendingRegs
        <3>3. QED
            BY <2>1, <2>3, <3>1, <3>2 DEF Excused
    <2>4. ASSUME NEW r \in unset', r < nreg_count' PROVE r \in Excused'
        <3>1. r \in unset /\ r \in Nat /\ r < nreg_count
            BY <1>2, <2>1, <2>2, <2>4
        <3>2. QED
            BY <1>2, <2>3, <3>1
    <2>5. ASSUME NEW k \in 1..Len(joins), NEW r \in joins[k].unset,
                 r < CountAt(Block(frames[k + 1])), r \in Excused
          PROVE  r \in Excused'
        <3>1. r \in Nat
            BY JoinRegs DEF AllInv
        <3>2. CountAt(Block(frames[k + 1])) \in Nat /\ CountAt(Block(frames[k + 1])) <= nreg_count
            BY CountFacts DEF AllInv
        <3>3. r < nreg_count
            BY <1>2, <2>5, <3>1, <3>2
        <3>4. QED
            BY <2>3, <2>5, <3>1, <3>3
    <2>6. QED
        BY <1>1, <2>1, <2>4, <2>5, LineUnset
<1>11. CASE Returns(next, rest)
    BY <1>4, <1>11 DEF Returns, Ret
<1>12. ASSUME NEW w \in BlockWidths, Gives(w, next, rest) PROVE UnsetInv'
    BY <1>1, <1>12, GivesUnset
<1>13. QED
    BY <1>5, <1>6, <1>7, <1>8, <1>9, <1>10, <1>11, <1>12 DEF FlowLine

\* An opening line: the branch's join, or the declaration's register, is added.
LEMMA OpenUnset ==
    ASSUME AllInv, AllInv', UnsetInv, NEW next \in Levels,
           Branches(next) \/ \E n \in Names : Pending(n, next) \/ PendingStack(n, next)
    PROVE  UnsetInv'
<1> DEFINE F == Len(frames)
           J == Len(joins)
<1>1. PICK kind \in {"branch", "decl"} : Open(kind, next) /\ OpenFlow(kind)
    BY FlowOpenFlow DEF AllInv, RegInv
<1>2. phase = "line" /\ phase' = "loop" /\ indent' = next /\ next > indent /\ next <= indent + 1
    BY <1>1 DEF Open, ReadLine
<1>3. /\ CallsNested /\ JoinsAreSet /\ Block(Top(frames)) <= Len(nreg_mark)
      /\ Len(nreg_mark) = indent /\ nreg_count \in Nat /\ indent \in Nat
      /\ \A r \in unset : r < nreg_count => r \in Excused
    BY <1>2, LineDue DEF UsedAreSet
<1>4. /\ joins \in Seq(JoinRecord) /\ J \in Nat /\ J = F - 1 /\ F \in Nat
      /\ unset \subseteq Nat /\ targets \in Seq(Target)
    BY FrameFacts DEF AllInv, FlowTypes, RegInv, TypeInv, TypeOK
<1>5. InUse' = nreg_count' /\ indent' = indent + 1
    <2>1. next \in Nat
        BY LevelAssumption DEF Levels
    <2>2. QED
        BY <1>2, <1>3, <2>1 DEF InUse
<1>6. /\ Len(frames') = F + 1 /\ frames'[F + 1].block_indent = Unset
      /\ \A i \in 1..F : frames'[i] = Seen[i]
    BY <1>1, OpenedCalls DEF AllInv, RegInv
<1>7. \A i \in 1..F : Block(frames[i])' = Block(frames[i])
    BY <1>2, <1>3, <1>6, SeenBlocks DEF AllInv, RegInv, Block
<1>8. PICK f \in Nat, b \in Nat : f = F + 1 /\ b = indent + 1
    BY <1>3, <1>4
<1>9. Block(frames[f])' = b
    BY <1>5, <1>6, <1>8 DEF Block
<1>10. PICK j \in JoinRecord : joins' = Append(joins, j) /\ (kind = "decl" => j.unset = {})
    BY <1>1 DEF OpenFlow
<1>11. /\ Len(joins') = J + 1 /\ joins'[J + 1] = j /\ \A k \in 1..J : joins'[k] = joins[k]
    BY <1>4, <1>10
<1>12. ASSUME nreg_mark' = nreg_mark,
              \A r \in Nat : r < nreg_count /\ r \in Excused => r \in Excused',
              \A r \in j.unset : r < CountAt(b)' => r \in Excused'
       PROVE  JoinsAreSet'
    <2>1. ASSUME NEW k \in 1..J, NEW r \in joins[k].unset,
                 r < CountAt(Block(frames[k + 1])), r \in Excused
          PROVE  r \in Excused'
        <3>1. r \in Nat
            BY JoinRegs DEF AllInv
        <3>2. CountAt(Block(frames[k + 1])) \in Nat /\ CountAt(Block(frames[k + 1])) <= nreg_count
            BY CountFacts DEF AllInv
        <3>3. r < nreg_count
            BY <1>3, <2>1, <3>1, <3>2
        <3>4. QED
            BY <1>12, <2>1, <3>1, <3>3
    <2>2. \A k \in 1..J : \A r \in joins[k].unset :
             r < CountAt(Block(frames[k + 1]))' => r \in Excused'
        BY <1>3, <1>7, <1>12, <2>1, SameJoins
    <2>3. ASSUME NEW k \in 1..(J + 1), NEW r \in joins'[k].unset,
                 r < CountAt(Block(frames[k + 1]))'
          PROVE  r \in Excused'
        <3>1. CASE k \in 1..J
            BY <1>11, <2>2, <2>3, <3>1
        <3>2. CASE k = J + 1
            <4>1. k + 1 = f
                BY <1>4, <1>8, <3>2
            <4>2. CountAt(Block(frames[k + 1]))' = CountAt(b)'
                BY <1>9, <4>1 DEF CountAt
            <4>3. QED
                BY <1>11, <1>12, <2>3, <3>2, <4>2
        <3>3. QED
            BY <1>4, <3>1, <3>2
    <2>4. QED
        BY <1>11, <2>3 DEF JoinsAreSet
<1>13. ASSUME UsedAreSet', JoinsAreSet' PROVE UnsetInv'
    BY <1>2, <1>13 DEF UnsetInv
<1>14. ASSUME NEW n \in Names, Pending(n, next) PROVE UnsetInv'
    <2>1. /\ targets' = Append(targets, NewTarget(n, FreshReg(1))) /\ nreg_count' = nreg_count + 1
          /\ nreg_mark' = nreg_mark /\ partly' = partly \ {nreg_count}
          /\ unset' = (IF reached THEN unset \cup {nreg_count} ELSE unset)
          /\ joins' = Append(joins, NonePassing)
        BY <1>14 DEF Pending, OpenLet, AddNreg, Enters
    <2>2. Unassigned(NewTarget(n, FreshReg(1))) /\ NewTarget(n, FreshReg(1)).reg.off = nreg_count
        BY DEF Unassigned, NewTarget, FreshReg
    <2>3. PendingRegs \subseteq PendingRegs' /\ nreg_count \in PendingRegs'
        BY <1>4, <2>1, <2>2, AddedTarget
    <2>4. \A r \in Nat : r < nreg_count /\ r \in Excused => r \in Excused'
        BY <1>3, <2>1, <2>3 DEF Excused
    <2>5. UsedAreSet'
        <3> SUFFICES ASSUME NEW r \in unset', r < nreg_count + 1 PROVE r \in Excused'
            BY <1>5, <2>1 DEF UsedAreSet
        <3>1. CASE r = nreg_count
            BY <2>3, <3>1 DEF Excused
        <3>2. CASE r # nreg_count
            <4>1. r \in unset /\ r \in Nat /\ r < nreg_count
                BY <1>3, <1>4, <2>1, <3>2
            <4>2. QED
                BY <1>3, <2>4, <4>1
        <3>3. QED
            BY <3>1, <3>2
    <2>6. j.unset = {}
        <3>1. j = NonePassing
            BY <1>4, <1>11, <2>1
        <3>2. QED
            BY <3>1 DEF NonePassing
    <2>7. QED
        BY <1>12, <1>13, <2>1, <2>4, <2>5, <2>6
<1>15. ASSUME NEW n \in Names, PendingStack(n, next) PROVE UnsetInv'
    <2>1. /\ targets' = Append(targets, NewTarget(n, StackEntry)) /\ UNCHANGED registers
          /\ UNCHANGED <<unset, partly>> /\ joins' = Append(joins, NonePassing)
        BY <1>15 DEF PendingStack, OpenStack, Enters
    <2>2. PendingRegs \subseteq PendingRegs'
        BY <1>4, <2>1, AddedTarget
    <2>3. Excused \subseteq Excused'
        BY <2>1, <2>2 DEF Excused
    <2>4. UsedAreSet'
        BY <1>3, <1>5, <2>1, <2>3 DEF UsedAreSet, registers
    <2>5. j.unset = {}
        <3>1. j = NonePassing
            BY <1>4, <1>11, <2>1
        <3>2. QED
            BY <3>1 DEF NonePassing
    <2>6. QED
        BY <1>12, <1>13, <2>1, <2>3, <2>4, <2>5 DEF registers
<1>16. CASE Branches(next)
    <2>1. /\ targets' = targets /\ nreg_mark' = nreg_mark /\ nreg_count' = nreg_count
          /\ UNCHANGED <<unset, partly>> /\ joins' = Append(joins, Passing)
        BY <1>16 DEF Branches, OpenBranch, Enters, registers
    <2>2. Excused' = Excused
        BY <2>1 DEF Excused, PendingRegs
    <2>3. UsedAreSet'
        BY <1>3, <1>5, <2>1, <2>2 DEF UsedAreSet
    <2>4. j.unset = unset
        <3>1. j = Passing
            BY <1>4, <1>11, <2>1
        <3>2. QED
            BY <3>1 DEF Passing
    <2>5. CountAt(b)' = nreg_count
        <3>1. ~(b \in 1..Len(nreg_mark))
            BY <1>3, <1>8
        <3>2. QED
            BY <2>1, <3>1 DEF CountAt
    <2>6. QED
        BY <1>3, <1>12, <1>13, <2>1, <2>2, <2>3, <2>4, <2>5
<1>17. QED
    BY <1>14, <1>15, <1>16

\* start_of_block marks the present count; end_of_block goes back to the last one.
LEMMA BlockEndsUnset ==
    ASSUME AllInv, AllInv', UnsetInv, StartOfBlock \/ EndOfBlock, UNCHANGED flow
    PROVE  UnsetInv'
<1>1. /\ UNCHANGED <<lexer, frames, targets, unset, joins>> /\ Over' = Over
      /\ phase \in {"loop", "parsed"} /\ Excused' = Excused
    <2>1. /\ UNCHANGED <<lexer, frames, targets>> /\ phase \in {"loop", "parsed"}
        BY DEF StartOfBlock, EndOfBlock
    <2>2. UNCHANGED <<unset, joins, partly>>
        BY DEF flow
    <2>3. Over' = Over
        BY <2>1 DEF Over, lexer
    <2>4. Excused' = Excused
        BY <2>1, <2>2 DEF Excused, PendingRegs
    <2>5. QED
        BY <2>1, <2>2, <2>3, <2>4
<1> SUFFICES ASSUME ~Over, phase' \notin Terminal PROVE UnsetInv'
    BY <1>1 DEF UnsetInv
<1>2. UsedAreSet /\ JoinsAreSet /\ CallsNested
    BY <1>1 DEF UnsetInv, AllInv, StructInv, Terminal
<1>3. /\ nreg_count \in Nat /\ nreg_mark \in Seq(Nat) /\ Len(nreg_mark) \in Nat
      /\ Len(nreg_mark) = Len(scopes) - 1 /\ Len(scopes) \in Nat \ {0}
    BY CountFacts DEF AllInv
<1>4. ASSUME NEW k \in 1..Len(joins)
      PROVE  /\ Block(frames[k + 1]) \in Nat \ {0} /\ Block(frames[k + 1])' = Block(frames[k + 1])
             /\ Block(frames[k + 1]) <= Block(Top(frames)) /\ Block(Top(frames)) \in Int
    BY <1>1, <1>2, BranchBlocks DEF Block, lexer
<1>5. CASE StartOfBlock
    <2>1. /\ phase = "loop" /\ phase' = "line" /\ nreg_count' = nreg_count
          /\ nreg_mark' = Append(nreg_mark, nreg_count)
        BY <1>5 DEF StartOfBlock, Terminal
    <2>2. InUse' = nreg_count /\ InUse = nreg_count
        BY <2>1 DEF InUse
    <2>3. UsedAreSet'
        BY <1>1, <1>2, <2>2 DEF UsedAreSet
    <2>4. ASSUME NEW b \in Nat PROVE CountAt(b)' = CountAt(b)
        BY <1>3, <2>1 DEF CountAt
    <2>5. JoinsAreSet'
        BY <1>1, <1>2, <1>4, <2>4 DEF JoinsAreSet
    <2>6. QED
        BY <2>1, <2>3, <2>5 DEF UnsetInv
<1>6. CASE EndOfBlock
    <2>1. /\ phase = "parsed" /\ eob = "EOB" /\ ~AtOwnIndent /\ phase' = "popped"
        BY <1>6 DEF EndOfBlock
    <2>2. Block(Top(frames)) < Len(scopes) - 1 /\ Block(Top(frames)) \in Int
        BY <1>2, <1>6, EndOfBlockStruct, BlocksOrdered DEF AllInv, RegInv
    <2>3. Len(nreg_mark) # 0
        <3>1. base <= Block(Top(frames)) /\ base \in Nat
            <4>1. TypeInv
                BY DEF AllInv, RegInv
            <4>2. Len(frames) \in 1..Len(frames) /\ base \in Nat
                BY <4>1, FrameFacts
            <4>3. QED
                BY <1>2, <4>1, <4>2, BlocksOrdered DEF Top
        <3>2. QED
            BY <1>3, <2>2, <3>1
    <2>4. /\ nreg_mark # <<>> /\ nreg_count' = nreg_mark[Len(nreg_mark)]
          /\ nreg_mark' = Front(nreg_mark)
        BY <1>3, <1>6, <2>3 DEF EndOfBlock, Top
    <2>5. /\ Len(nreg_mark') = Len(nreg_mark) - 1
          /\ \A b \in 1..(Len(nreg_mark) - 1) : nreg_mark'[b] = nreg_mark[b]
        BY <1>3, <2>4, FrontSeq
    <2>6. InUse' = nreg_count' /\ InUse = nreg_count'
        <3>1. Len(scopes) - 1 \in 1..Len(nreg_mark)
            BY <1>3, <2>3
        <3>2. QED
            BY <1>3, <2>1, <2>4, <3>1 DEF InUse, CountAt
    <2>7. UsedAreSet'
        <3>1. InUse' = InUse
            BY <2>6
        <3>2. QED
            BY <1>1, <1>2, <3>1 DEF UsedAreSet
    <2>8. ASSUME NEW b \in Nat \ {0}, b < Len(nreg_mark) PROVE CountAt(b)' = CountAt(b)
        BY <1>3, <2>5, <2>8 DEF CountAt
    <2>9. ASSUME NEW k \in 1..Len(joins) PROVE Block(frames[k + 1]) < Len(nreg_mark)
        BY <1>3, <1>4, <2>2
    <2>10. JoinsAreSet'
        BY <1>1, <1>2, <1>4, <2>8, <2>9 DEF JoinsAreSet
    <2>11. QED
        BY <2>1, <2>7, <2>10 DEF UnsetInv
<1>7. QED
    BY <1>5, <1>6

\* The registers of a block's entry of joins are free once the block is left.
LEMMA LeftJoins ==
    ASSUME AllInv, JoinsAreSet, Leaving, Top(frames).kind # "function",
           frames' = Front(frames), joins' = Front(joins), phase' = "parsed",
           UNCHANGED <<base, lexer, scopes, registers, partly>>, Excused' = Excused
    PROVE  JoinsAreSet'
<1>1. /\ Len(joins) \in Nat \ {0} /\ Len(frames) = Len(joins) + 1
      /\ Len(joins') = Len(joins) - 1
      /\ \A k \in 1..(Len(joins) - 1) : joins'[k] = joins[k]
    BY ClosedCall DEF AllInv, RegInv
<1>2. \A i \in 1..(Len(frames) - 1) : Block(frames[i])' = Block(frames[i])
    BY ReturnStruct DEF AllInv, RegInv
<1>3. \A b : CountAt(b)' = CountAt(b)
    BY DEF CountAt, registers
<1> SUFFICES ASSUME NEW k \in 1..(Len(joins) - 1), NEW r \in joins'[k].unset,
                    r < CountAt(Block(frames[k + 1]))'
             PROVE  r \in Excused
    BY <1>1 DEF JoinsAreSet
<1>4. k \in 1..Len(joins) /\ k + 1 \in 1..(Len(frames) - 1)
    BY <1>1
<1>5. Block(frames[k + 1])' = Block(frames[k + 1])
    BY <1>2, <1>4
<1>6. r < CountAt(Block(frames[k + 1])) /\ r \in joins[k].unset
    BY <1>1, <1>3, <1>5
<1>7. QED
    BY <1>4, <1>6 DEF JoinsAreSet

\* A branch's join brings in no register that is in use and not excused: those its
\* block used are free once it is left.
LEMMA JoinUnset ==
    ASSUME AllInv, AllInv', UnsetInv, Joins
    PROVE  UnsetInv'
<1>1. /\ ReturnBranch /\ Leaving /\ Top(frames).kind = "branch" /\ phase' = "parsed"
      /\ frames' = Front(frames) /\ UNCHANGED <<base, lexer, scopes, registers, targets, partly>>
      /\ unset' = unset \cup Top(joins).unset /\ joins' = Front(joins)
    BY DEF Joins, ReturnBranch
<1>2. /\ CallsNested /\ phase \notin Terminal
      /\ ~Over => /\ phase = "parsed" /\ AtOwnIndent
                  /\ Len(scopes) = cur_indent + 1 /\ indent = cur_indent - 1
      /\ eob # "EOB" => Len(frames) = 1
    BY <1>1, LeavingFacts DEF AllInv, RegInv, Terminal
<1>3. /\ Len(frames) > 1 /\ Len(frames') = Len(frames) - 1
      /\ \A i \in 1..(Len(frames) - 1) : /\ frames'[i] = frames[i]
                                         /\ Block(frames[i])' = Block(frames[i])
    BY <1>1, ReturnStruct DEF AllInv, RegInv
<1>4. Over' = Over /\ Excused' = Excused
    BY <1>1 DEF Over, Excused, PendingRegs, lexer
<1> SUFFICES ASSUME ~Over PROVE UsedAreSet' /\ JoinsAreSet'
    BY <1>1, <1>4 DEF UnsetInv
<1>5. UsedAreSet /\ JoinsAreSet /\ eob = "EOB"
    BY <1>2, <1>3 DEF UnsetInv
<1>6. Len(frames) = Len(joins) + 1 /\ joins \in Seq(JoinRecord) /\ Len(joins) \in Nat \ {0}
    BY <1>1, ClosedCall DEF AllInv, RegInv
<1>7. JoinsAreSet'
    BY <1>1, <1>4, <1>5, LeftJoins
<1>8. /\ cur_indent = Block(Top(frames)) /\ InUse = nreg_count /\ nreg_count \in Nat
      /\ cur_indent \in Nat /\ InUse' \in Nat /\ InUse' <= nreg_count
    <2>1. Len(frames) \in 1..Len(frames)
        BY <1>3, FrameFacts DEF AllInv, RegInv
    <2>2. frames[Len(frames)].block_indent # Unset
        BY <1>1, <2>1, LeavingFacts DEF AllInv, RegInv
    <2>3. InUse' \in Nat /\ InUse' <= nreg_count' /\ nreg_count' = nreg_count /\ nreg_count \in Nat
        BY <1>1, CountFacts, CountFactsNext DEF AllInv, registers
    <2>4. cur_indent \in Nat
        BY FrameFacts DEF AllInv, RegInv
    <2>5. QED
        BY <1>2, <2>2, <2>3, <2>4 DEF AtOwnIndent, Block, Top, InUse
<1>9. InUse' = CountAt(cur_indent)
    <2>1. ~AtOwnIndent'
        <3>1. Len(frames) - 1 \in 1..(Len(frames) - 1) /\ Len(frames) \in Nat
            BY <1>3, FrameFacts DEF AllInv, RegInv
        <3>2. Block(frames[Len(frames) - 1]) < Block(frames[Len(frames)])
            BY <1>2, <3>1 DEF CallsNested
        <3>3. Block(frames[Len(frames) - 1]) \in Int
            BY <3>1, FrameFacts DEF AllInv, RegInv
        <3>4. frames[Len(frames) - 1].block_indent # Unset
            BY <1>1, <3>1, LeavingFacts DEF AllInv, RegInv
        <3>5. frames[Len(frames) - 1].block_indent < cur_indent
            BY <1>8, <3>2, <3>4 DEF Block, Top
        <3>6. Top(frames') = frames[Len(frames) - 1]
            BY <1>3, <3>1 DEF Top
        <3>7. frames[Len(frames) - 1].block_indent \in Int /\ cur_indent \in Nat
            BY <1>8, <3>1, FrameFacts DEF AllInv, RegInv
        <3>8. frames[Len(frames) - 1].block_indent # cur_indent
            BY <3>5, <3>7
        <3>9. cur_indent' = cur_indent
            BY <1>1 DEF lexer
        <3>10. QED
            BY <3>6, <3>8, <3>9 DEF AtOwnIndent
    <2>2. eob' = "EOB" /\ Len(scopes') - 1 = cur_indent
        BY <1>1, <1>2, <1>5, <1>8 DEF lexer
    <2>3. InUse' = CountAt(Len(scopes) - 1)'
        BY <1>1, <2>1, <2>2 DEF InUse
    <2>4. QED
        BY <1>1, <2>2, <2>3 DEF CountAt, registers
<1>10. UsedAreSet'
    <2> SUFFICES ASSUME NEW r \in unset', r < InUse' PROVE r \in Excused'
        BY DEF UsedAreSet
    <2>1. r \in Nat
        BY DEF AllInv, FlowTypes
    <2>2. CASE r \in unset
        <3>1. r < InUse
            BY <1>8, <2>1
        <3>2. QED
            BY <1>4, <1>5, <2>2, <3>1 DEF UsedAreSet
    <2>3. CASE r \in Top(joins).unset
        <3>1. Len(joins) \in 1..Len(joins) /\ Top(joins) = joins[Len(joins)]
            BY <1>6 DEF Top
        <3>2. CountAt(Block(frames[Len(joins) + 1])) = InUse'
            BY <1>6, <1>8, <1>9 DEF Top
        <3>3. r \in joins[Len(joins)].unset /\ r < CountAt(Block(frames[Len(joins) + 1]))
            BY <2>3, <3>1, <3>2
        <3>4. r \in Excused
            BY <1>5, <3>1, <3>3 DEF JoinsAreSet
        <3>5. QED
            BY <1>4, <3>4
    <2>4. QED
        BY <1>1, <2>2, <2>3
<1>11. QED
    BY <1>7, <1>10

\* The declaration has its value when its block returns.
LEMMA SettlesUnset ==
    ASSUME AllInv, AllInv', UnsetInv, Settles
    PROVE  UnsetInv'
<1>1. CASE phase' = "error"
    BY <1>1 DEF UnsetInv, Terminal
<1>2. CASE phase' # "error"
    <2>1. /\ Leaving /\ Top(frames).kind = "decl" /\ Top(targets).assigned /\ phase' = "parsed"
          /\ frames' = Front(frames) /\ UNCHANGED <<base, lexer, scopes, registers>>
          /\ targets' = Front(targets) /\ UNCHANGED <<unset, partly>>
        BY <1>2 DEF Settles, ReturnDecl
    <2>2. /\ phase \notin Terminal /\ ~Over => phase = "parsed" /\ AtOwnIndent
        BY <2>1, LeavingFacts DEF AllInv, RegInv
    <2>3. phase \notin Terminal
        BY <2>1, LeavingFacts DEF AllInv, RegInv, Terminal
    <2>4. Len(frames') # Len(frames)
        BY <2>1, ReturnStruct, FrameFacts DEF AllInv, RegInv
    <2>5. joins' = Front(joins)
        <3>1. frames' # frames
            BY <2>4
        <3>2. QED
            BY <3>1 DEF Settles
    <2>6. Excused' = Excused
        <3>1. targets \in Seq(Target)
            BY DEF AllInv, RegInv, TypeInv, TypeOK
        <3>2. CASE targets = <<>>
            <4>1. targets' = <<>>
                BY <2>1, <3>2 DEF Front
            <4>2. QED
                BY <2>1, <3>2, <4>1 DEF Excused, PendingRegs
        <3>3. CASE targets # <<>>
            <4>1. /\ Len(targets) \in Nat \ {0} /\ Len(targets') = Len(targets) - 1
                  /\ \A i \in 1..(Len(targets) - 1) : targets'[i] = targets[i]
                BY <2>1, <3>1, <3>3, FrontSeq
            <4>2. ~Unassigned(targets[Len(targets)])
                BY <2>1 DEF Top, Unassigned
            <4>3. \A i \in 1..Len(targets) :
                     Unassigned(targets[i]) <=> /\ i \in 1..(Len(targets) - 1)
                                                /\ Unassigned(targets'[i])
                <5>1. \A i \in 1..Len(targets) : i \in 1..(Len(targets) - 1) \/ i = Len(targets)
                    BY <4>1
                <5>2. ~(Len(targets) \in 1..(Len(targets) - 1))
                    BY <4>1
                <5>3. QED
                    BY <4>1, <4>2, <5>1, <5>2, Zenon
            <4>4. PendingRegs' = PendingRegs
                <5>1. \A i \in 1..(Len(targets) - 1) : i \in 1..Len(targets)
                    BY <4>1
                <5>2. {i \in 1..Len(targets) : Unassigned(targets[i])}
                         = {i \in 1..(Len(targets) - 1) : Unassigned(targets'[i])}
                    BY <4>3, <5>1
                <5>3. {i \in 1..Len(targets) : Unassigned(targets[i])}'
                         = {i \in 1..(Len(targets) - 1) : Unassigned(targets'[i])}
                    BY <4>1 DEF Unassigned
                <5>4. \A i \in 1..(Len(targets) - 1) : targets'[i].reg.off = targets[i].reg.off
                    BY <4>1
                <5>5. QED
                    BY <5>2, <5>3, <5>4 DEF PendingRegs
            <4>5. QED
                BY <2>1, <4>4 DEF Excused
        <3>4. QED
            BY <3>2, <3>3
    <2>7. Over' = Over
        BY <2>1 DEF Over, lexer
    <2> SUFFICES ASSUME ~Over PROVE UsedAreSet' /\ JoinsAreSet'
        BY <2>1, <2>7 DEF UnsetInv
    <2>8. UsedAreSet /\ JoinsAreSet /\ InUse = nreg_count
        BY <2>1, <2>2, <2>3 DEF UnsetInv, InUse
    <2>9. UsedAreSet'
        <3>1. nreg_count' = nreg_count /\ InUse' <= nreg_count /\ InUse' \in Nat /\ nreg_count \in Nat
            BY <2>1, CountFactsNext DEF AllInv, registers
        <3>2. unset \subseteq Nat
            BY DEF AllInv, FlowTypes
        <3>3. \A r \in unset : r < InUse' => r \in Excused
            BY <2>8, <3>1, <3>2 DEF UsedAreSet
        <3>4. QED
            BY <2>1, <2>6, <3>3 DEF UsedAreSet
    <2>10. JoinsAreSet'
        <3>1. Top(frames).kind # "function"
            BY <2>1
        <3>2. QED
            BY <2>1, <2>5, <2>6, <2>8, <3>1, LeftJoins
    <2>11. QED
        BY <2>9, <2>10
<1>3. QED
    BY <1>1, <1>2

LEMMA NextUnset ==
    ASSUME AllInv, AllInv', UnsetInv, [FlowNext]_flowVars
    PROVE  UnsetInv'
<1>1. ASSUME NEW n \in Names, NEW w \in Widths, Param(n, w), UNCHANGED flow PROVE UnsetInv'
    <2>1. /\ phase = "params" /\ phase' = "params" /\ unset' = unset /\ joins' = joins
          /\ lexer' = lexer
        BY <1>1 DEF Param, flow
    <2>2. Len(frames) = 1 /\ ~Over
        BY <2>1 DEF AllInv, StructInv, InParams, Terminal
    <2>3. unset = {}
        BY <2>1, <2>2 DEF UnsetInv, Terminal
    <2>4. Len(joins) = 0
        BY <2>2 DEF AllInv, FlowTypes
    <2>5. QED
        BY <2>1, <2>3, <2>4 DEF UnsetInv, UsedAreSet, JoinsAreSet
<1>2. CASE (BeginBody \/ NextLine \/ Continue) /\ UNCHANGED flow
    <2>1. /\ UNCHANGED <<lexer, frames, scopes, registers, targets, flow>>
          /\ phase \notin Terminal /\ phase' \in {"loop", "line"}
          /\ ~(phase = "parsed" /\ eob = "EOB")
        BY <1>2 DEF BeginBody, NextLine, Continue, LoopTail, Terminal
    <2>2. QED
        BY <2>1, SameUnset
<1>3. CASE (StartOfBlock \/ EndOfBlock) /\ UNCHANGED flow
    BY <1>3, BlockEndsUnset
<1>4. ASSUME NEW next \in Levels, NEW rest \in BOOLEAN,
             FlowLine(next, rest) \/ ReturnsIf(next, rest)
      PROVE  UnsetInv'
    BY <1>4, LineStepUnset
<1>5. ASSUME NEW next \in Levels,
             Branches(next) \/ \E n \in Names : Pending(n, next) \/ PendingStack(n, next)
      PROVE  UnsetInv'
    BY <1>5, OpenUnset
<1>6. ASSUME LineError \/ ReturnFunction PROVE UnsetInv'
    BY <1>6 DEF LineError, ReturnFunction, UnsetInv, Terminal
<1>7. CASE Joins
    BY <1>7, JoinUnset
<1>8. CASE Settles
    BY <1>8, SettlesUnset
<1>9. CASE UNCHANGED flowVars
    <2>1. /\ UNCHANGED <<phase, lexer, frames, scopes, nreg_count, nreg_mark, targets>>
          /\ UNCHANGED <<unset, joins, partly>>
        BY <1>9 DEF flowVars, vars, flow, registers
    <2>2. InUse' = InUse /\ Excused' = Excused /\ Over' = Over
        BY <2>1 DEF InUse, CountAt, AtOwnIndent, Excused, PendingRegs, Over, lexer
    <2>3. UsedAreSet => UsedAreSet'
        BY <2>1, <2>2 DEF UsedAreSet
    <2>4. JoinsAreSet => JoinsAreSet'
        BY <2>1, <2>2 DEF JoinsAreSet, CountAt, Block, lexer
    <2>5. QED
        BY <2>1, <2>2, <2>3, <2>4 DEF UnsetInv
<1>10. QED
    BY <1>1, <1>2, <1>3, <1>4, <1>5, <1>6, <1>7, <1>8, <1>9
       DEF FlowNext, Terminated, flowVars, vars

\* The register of a visible name is in use, so that it is set or excused: a
\* pending one is the innermost declaration's or another one's.
LEMMA ReadsDiagnosed ==
    ASSUME AllInv, UnsetInv
    PROVE  UnsetReadsDiagnosed
<1> SUFFICES ASSUME phase = "line", NEW n \in Visible, Resolve(n).w > 0,
                    Resolve(n).off \in unset
             PROVE  CheckUnassigned(n) \/ Resolve(n).off \in UnassignedOutside \cup partly
    BY DEF UnsetReadsDiagnosed
<1>1. n \in Names
    BY DEF Visible, Declared
<1>2. Resolve(n).off < nreg_count
    BY <1>1, VisibleInUse DEF AllInv
<1>3. Resolve(n).off \in Excused
    BY <1>2, LineDue DEF UsedAreSet
<1>4. CASE Resolve(n).off \in partly
    BY <1>4
<1>5. CASE Resolve(n).off \in PendingRegs
    <2>1. PICK k \in 1..Len(targets) :
             Resolve(n).off = targets[k].reg.off /\ Unassigned(targets[k])
        BY <1>5 DEF PendingRegs
    <2>2. Len(targets) \in Nat /\ targets \in Seq(Target)
        BY DEF AllInv, RegInv, TypeInv, TypeOK
    <2>3. CASE k = Len(targets)
        <3>1. targets # <<>> /\ Top(targets) = targets[k]
            BY <2>2, <2>3 DEF Top
        <3>2. QED
            BY <2>1, <3>1 DEF CheckUnassigned, Unassigned
    <2>4. CASE k # Len(targets)
        <3>1. k \in 1..(Len(targets) - 1)
            BY <2>2, <2>4
        <3>2. QED
            BY <2>1, <3>1 DEF UnassignedOutside
    <2>5. QED
        BY <2>3, <2>4
<1>6. QED
    BY <1>3, <1>4, <1>5 DEF Excused

\* Whatever branches and blocks of declarations are opened, left and joined on the
\* way to a line, and however their registers are freed and counted again, a name
\* whose register some path has not assigned is the innermost declaration's, which
\* check_unassigned diagnoses, or one of the two kinds that the compiler accepts:
\* a declaration further out that has no value yet, and one that only branches of
\* its block have given a value.
THEOREM ReadsSound ==
    OneAtATime /\ BlockWidths = {1} => (FlowSpec => []UnsetReadsDiagnosed)
<1> SUFFICES ASSUME OneAtATime, BlockWidths = {1}
             PROVE  FlowSpec => []UnsetReadsDiagnosed
    OBVIOUS
<1>1. FlowInit => AllInv /\ UnsetInv
    <2>1. FlowInit => UnsetInv
        BY DEF FlowInit, UnsetInv, UsedAreSet, JoinsAreSet
    <2>2. QED
        BY <2>1, InitRegInv, InitStruct, InitTargets, InitFlowTypes DEF FlowInit, AllInv
<1>2. AllInv /\ [FlowNext]_flowVars => AllInv'
    <2> SUFFICES ASSUME AllInv, [FlowNext]_flowVars PROVE AllInv'
        OBVIOUS
    <2>1. TypeInv /\ StructInv /\ TargetInv /\ FlowTypes /\ RegInv
        BY DEF AllInv, RegInv
    <2>2. RegInv' /\ TypeInv'
        BY <2>1, FlowSteps, NextTypeInv, NextRegInv
    <2>3. StructInv' /\ TargetInv' /\ FlowTypes'
        BY <2>1, <2>2, FlowSteps, NextStruct, NextTargets, NextFlowTypes
    <2>4. QED
        BY <2>2, <2>3 DEF AllInv
<1>3. AllInv /\ AllInv' /\ UnsetInv /\ [FlowNext]_flowVars => UnsetInv'
    BY NextUnset
<1>4. AllInv /\ UnsetInv => UnsetReadsDiagnosed
    BY ReadsDiagnosed
<1>5. QED
    BY <1>1, <1>2, <1>3, <1>4, PTL DEF FlowSpec
=============================================================================
