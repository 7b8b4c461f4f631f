------------------------------- MODULE Blocks -------------------------------
(* The block structure of one function as alc/main.c parses it: the lexer's   *)
(* indentation tokens, the recursion of parse_block, the stack of name        *)
(* tables, the allocation of named registers (NREG) and the stack of          *)
(* declaration targets.                                                       *)
(*                                                                            *)
(* The program text is not stored.  Every line is chosen when parse_block     *)
(* reaches it, together with the indentation of the line after it, which is   *)
(* all that tok() looks ahead at.  Indentation is counted in units of four    *)
(* spaces, and a line is at most one unit deeper than the line before it.     *)
(* The first diagnostic ends a behaviour: the compiler goes on only to report *)
(* more of them.                                                              *)
EXTENDS Integers, Sequences, SequencesExt

CONSTANTS
    Names,        \* the names a program declares
    Widths,       \* registers a value may take: dtype_reg_count
    BlockWidths,  \* the same for the value of a multi-line `Name ::` block
    MaxLevel,     \* bound: the deepest indentation
    MaxDedent,    \* bound: how many units one line end closes inside a function
    MaxDepth,     \* MAX_DEPTH, the number of name tables
    NregCap,      \* named registers of the machine
    RetAirity,    \* ret_airity, the values the function returns
    SaveMax       \* the prologue saves max_nreg_count (TRUE) or nreg_count

ASSUME WidthAssumption == Widths \subseteq {1, 2} /\ BlockWidths \subseteq {1, 2}
ASSUME LevelAssumption == MaxLevel \in Nat \ {0} /\ MaxDedent \in Nat
ASSUME CapAssumption == MaxDepth \in Nat \ {0} /\ NregCap \in Nat
ASSUME AirityAssumption == RetAirity \in Nat /\ SaveMax \in BOOLEAN

VARIABLES
    base,             \* context->indent: 0 in main, 1 in a function
    cur_indent,       \* cur_token.indent: the line being parsed
    indent,           \* the global indent: the line after it
    eob,              \* cur_token.eob
    more,             \* src->cur < src->end
    ended,            \* context->ended
    phase,            \* where in parse_block the parser is
    frames,           \* the recursion of parse_block, innermost last
    scopes,           \* local_ids
    nreg_count,
    max_nreg_count,
    nreg_mark,
    targets,          \* context->targets
    returns_on_exit,
    written,          \* named registers the emitted code writes
    saved             \* named registers the prologue saves

lexer == <<cur_indent, indent, eob, more, ended>>
registers == <<nreg_count, max_nreg_count, nreg_mark>>
vars == <<base, lexer, phase, frames, scopes, registers, targets,
          returns_on_exit, written, saved>>

Unset == -1
Terminal == {"done", "error", "abort"}
Phases == {"params", "loop", "line", "parsed", "popped"} \cup Terminal
Levels == 0..MaxLevel

\* A name table entry: a stack object takes no named register, and a name that
\* is not in the table has the entry Free.
Entry == [off : Nat, w : -1..2]
Free == [off |-> 0, w |-> -1]
Scope == [Names -> Entry]
EmptyScope == [n \in Names |-> Free]
StackEntry == [off |-> 0, w |-> 0]
Declared(scope) == {n \in Names : scope[n] # Free}

Frame == [kind : {"function", "branch", "decl"}, block_indent : Levels \cup {Unset}]
\* The declaration whose value a block computes: its entry in scope `scope`.
Target == [scope : Nat \ {0}, name : Names, reg : Entry, assigned : BOOLEAN]

Regs(b) == b.off .. (b.off + b.w - 1)
Top(s) == s[Len(s)]
Larger(a, b) == IF a > b THEN a ELSE b

\* find_id: the innermost table that holds the name.
Visible == UNION {Declared(scopes[i]) : i \in 1..Len(scopes)}
Innermost(i, n) ==
    /\ n \in Declared(scopes[i])
    /\ \A j \in (i + 1)..Len(scopes) : n \notin Declared(scopes[j])
Resolve(n) == scopes[CHOOSE i \in 1..Len(scopes) : Innermost(i, n)][n]

Init ==
    /\ base \in {0, 1}
    /\ cur_indent = 0
    /\ indent = base
    /\ eob = IF base = 1 THEN "SOB" ELSE "NONE"
    /\ more = TRUE
    /\ ended = FALSE
    /\ phase = IF base = 1 THEN "params" ELSE "loop"
    /\ frames = <<[kind |-> "function", block_indent |-> Unset]>>
    /\ scopes = <<EmptyScope>>
    /\ nreg_count = 0
    /\ max_nreg_count = 0
    /\ nreg_mark = <<>>
    /\ targets = <<>>
    /\ returns_on_exit = FALSE
    /\ written = {}
    /\ saved = {}

-----------------------------------------------------------------------------
(* Registers *)

\* context_add_nreg
AddNreg(w) ==
    /\ nreg_count' = nreg_count + w
    /\ max_nreg_count' = Larger(max_nreg_count, nreg_count + w)
    /\ UNCHANGED nreg_mark

\* An instruction that writes the registers of b; buf_putreg and reg_no
\* diagnose a register the machine lacks.
Fits(b) == b.off + b.w <= NregCap
Write(b) == Fits(b) /\ written' = written \cup Regs(b)

\* overwrite_id and add_id: the innermost table.
Declare(n, b) == scopes' = [scopes EXCEPT ![Len(scopes)][n] = b]
\* mutant: the register before the next free one
LastReg(w) == [off |-> nreg_count - 1, w |-> w]
FreshReg(w) == [off |-> nreg_count, w |-> w]

-----------------------------------------------------------------------------
(* The signature line: stmt_label moves every parameter to a named register. *)

\* mutant: every parameter is given the first named register
ParamAtZero(n, w) ==
    /\ phase = "params"
    /\ n \notin Declared(scopes[1])
    /\ Write([off |-> 0, w |-> w])
    /\ Declare(n, [off |-> 0, w |-> w])
    /\ AddNreg(w)
    /\ UNCHANGED <<base, lexer, phase, frames, targets, returns_on_exit, saved>>

Param(n, w) ==
    /\ phase = "params"
    /\ n \notin Declared(scopes[1])
    /\ Write(FreshReg(w))
    /\ Declare(n, FreshReg(w))
    /\ AddNreg(w)
    /\ UNCHANGED <<base, lexer, phase, frames, targets, returns_on_exit, saved>>

BeginBody ==
    /\ phase = "params"
    /\ phase' = "loop"
    /\ UNCHANGED <<base, lexer, frames, scopes, registers, targets,
                   returns_on_exit, written, saved>>

-----------------------------------------------------------------------------
(* tok() at the end of a line, and the head of the loop of parse_block *)

\* The lexer moves to the line at `indent`; the one after it is at `next`, or
\* the source ends (`rest` is FALSE).  A line end closes at most MaxDedent
\* units unless it ends the function or the source.
EndsBody(next) == base > indent \/ base > next
ReadLine(next, rest) ==
    /\ phase = "line"
    /\ next \in Levels /\ next <= indent + 1
    /\ ~rest => next = 0
    /\ indent - next <= MaxDedent \/ EndsBody(next) \/ ~rest
    /\ cur_indent' = indent
    /\ indent' = next
    /\ eob' = IF next > indent THEN "SOB" ELSE IF next < indent THEN "EOB" ELSE "NONE"
    /\ more' = rest

\* The top frame after the line: block_indent is the indentation of its first.
Seen ==
    [frames EXCEPT ![Len(frames)].block_indent =
        IF @ = Unset THEN indent ELSE @]

StartOfBlock ==
    /\ phase = "loop" /\ more /\ eob = "SOB"
    /\ IF Len(scopes) = MaxDepth
       THEN phase' = "abort" /\ UNCHANGED <<scopes, nreg_mark>>
       ELSE /\ phase' = "line"
            /\ scopes' = Append(scopes, EmptyScope)
            /\ nreg_mark' = Append(nreg_mark, nreg_count)
    /\ UNCHANGED <<base, lexer, frames, nreg_count, max_nreg_count, targets,
                   returns_on_exit, written, saved>>

NextLine ==
    /\ phase = "loop" /\ more /\ eob # "SOB"
    /\ phase' = "line"
    /\ UNCHANGED <<base, lexer, frames, scopes, registers, targets,
                   returns_on_exit, written, saved>>

-----------------------------------------------------------------------------
(* parse(): one action per kind of line *)

Line(next, rest) ==
    /\ ReadLine(next, rest)
    /\ frames' = Seen
    /\ phase' = "parsed"
    /\ UNCHANGED <<base, saved>>

\* mutant: "indented block expected" is not diagnosed
OpenAnywhere(kind, next) ==
    /\ ReadLine(next, TRUE)
    /\ frames' = Append(Seen, [kind |-> kind, block_indent |-> Unset])
    /\ phase' = "loop"
    /\ UNCHANGED <<base, saved>>

\* The opening line of a block: parse_block is entered and needs a deeper line.
Open(kind, next) ==
    /\ ReadLine(next, TRUE)
    /\ next > indent
    /\ frames' = Append(Seen, [kind |-> kind, block_indent |-> Unset])
    /\ phase' = "loop"
    /\ UNCHANGED <<base, saved>>

Ends(next) == ended' = (ended \/ EndsBody(next))

\* mutant: a line that is no `ret` does not reset returns_on_exit
PlainKeepsReturn(next, rest) ==
    /\ Line(next, rest)
    /\ Ends(next)
    /\ UNCHANGED <<scopes, registers, targets, written, returns_on_exit>>

\* An expression, a call, a load: no block state.
Plain(next, rest) ==
    /\ Line(next, rest)
    /\ Ends(next)
    /\ returns_on_exit' = FALSE
    /\ UNCHANGED <<scopes, registers, targets, written>>

\* `condition -> ret` on one line: the `ret` does not start the line, so that it
\* ends neither main nor, when the condition fails, the path it is on.
RetIf(next, rest) ==
    /\ Line(next, rest)
    /\ Ends(next)
    /\ returns_on_exit' = TRUE
    /\ UNCHANGED <<scopes, registers, targets, written>>

\* `ret`: at the indentation of main it also ends main (at_block_end).
Ret(next, rest) ==
    /\ Line(next, rest)
    /\ ended' = (ended \/ EndsBody(next) \/ (base = 0 /\ indent = 0))
    /\ returns_on_exit' = TRUE
    /\ UNCHANGED <<scopes, registers, targets, written>>

\* `Name :: value`
Let(n, w, next, rest) ==
    /\ Line(next, rest)
    /\ Ends(next)
    /\ Write(FreshReg(w))
    /\ Declare(n, FreshReg(w))
    /\ AddNreg(w)
    /\ returns_on_exit' = FALSE
    /\ UNCHANGED targets

\* `[Name] :: value =[]`: the target is pushed, stored to and popped.
LetStack(n, next, rest) ==
    /\ Line(next, rest)
    /\ Ends(next)
    /\ Declare(n, StackEntry)
    /\ returns_on_exit' = FALSE
    /\ UNCHANGED <<registers, targets, written>>

\* mutant: the target points into the table of the block it opens
InnerTarget(n, b) ==
    [scope |-> Len(scopes) + 1, name |-> n, reg |-> b, assigned |-> FALSE]
NewTarget(n, b) ==
    [scope |-> Len(scopes), name |-> n, reg |-> b, assigned |-> FALSE]

\* `Name ::` and a block: one register is counted before the value is known.
OpenLet(n, next) ==
    /\ Open("decl", next)
    /\ Ends(next)
    /\ Declare(n, FreshReg(1))
    /\ AddNreg(1)
    /\ targets' = Append(targets, NewTarget(n, FreshReg(1)))
    /\ returns_on_exit' = FALSE
    /\ UNCHANGED written

\* `[Name] ::` and a block
OpenStack(n, next) ==
    /\ Open("decl", next)
    /\ Ends(next)
    /\ Declare(n, StackEntry)
    /\ targets' = Append(targets, NewTarget(n, StackEntry))
    /\ returns_on_exit' = FALSE
    /\ UNCHANGED <<registers, written>>

\* `condition ->` and a block
OpenBranch(next) ==
    /\ Open("branch", next)
    /\ Ends(next)
    /\ returns_on_exit' = FALSE
    /\ UNCHANGED <<scopes, registers, targets, written>>

\* The entry a target points to is written through, as long as it is still the
\* declaration's (TargetsLive says that it always is).
TargetLive(t) == t.scope <= Len(scopes) /\ scopes[t.scope][t.name] = t.reg
Assigned(t, b) ==
    /\ targets' = [targets EXCEPT ![Len(targets)].reg = b, ![Len(targets)].assigned = TRUE]
    /\ scopes' = IF TargetLive(t) THEN [scopes EXCEPT ![t.scope][t.name] = b] ELSE scopes

\* `value =`: the first value decides the type of the declaration.
Assign(w, next, rest) ==
    /\ Line(next, rest)
    /\ Ends(next)
    /\ targets # <<>> /\ Top(targets).reg.w > 0
    /\ LET t == Top(targets)
           b == [t.reg EXCEPT !.w = IF t.assigned THEN @ ELSE w]
       IN Write([b EXCEPT !.w = 1]) /\ Assigned(t, b)
    /\ returns_on_exit' = FALSE
    /\ UNCHANGED registers

\* `value =[]`
Store(next, rest) ==
    /\ Line(next, rest)
    /\ Ends(next)
    /\ targets # <<>> /\ Top(targets).reg.w = 0
    /\ Assigned(Top(targets), StackEntry)
    /\ returns_on_exit' = FALSE
    /\ UNCHANGED <<registers, written>>

\* `value =Name`: the register of an enclosing declaration
AssignTo(n, next, rest) ==
    /\ Line(next, rest)
    /\ Ends(next)
    /\ \E i \in 1..Len(scopes) :
          /\ Innermost(i, n) /\ scopes[i][n].w > 0
          /\ Write([scopes[i][n] EXCEPT !.w = 1])
    /\ returns_on_exit' = FALSE
    /\ UNCHANGED <<scopes, registers, targets>>

\* A line the handlers diagnose: an opening line with no deeper line under it, an
\* assignment with no target or one of the other kind, a name no table holds, a
\* register the machine lacks.  Some line is wrong in every state, so the guard
\* is that a line is due.
LineError ==
    /\ phase = "line"
    /\ phase' = "error"
    /\ UNCHANGED <<base, lexer, frames, scopes, registers, targets,
                   returns_on_exit, written, saved>>

-----------------------------------------------------------------------------
(* The tail of the loop of parse_block *)

AtOwnIndent == cur_indent = Top(frames).block_indent

\* mutant: the mark stays on its stack
EndOfBlockKeepsMark ==
    /\ phase = "parsed" /\ eob = "EOB" /\ ~AtOwnIndent
    /\ phase' = "popped"
    /\ scopes' = IF Len(scopes) = 1 THEN scopes ELSE Front(scopes)
    /\ nreg_count' = IF nreg_mark = <<>> THEN nreg_count ELSE Top(nreg_mark)
    /\ UNCHANGED <<base, lexer, frames, max_nreg_count, nreg_mark, targets,
                   returns_on_exit, written, saved>>

\* mutant: parse_block goes on after the last line of its own block
EndOfBlockAnywhere ==
    /\ phase = "parsed" /\ eob = "EOB"
    /\ phase' = "popped"
    /\ scopes' = IF Len(scopes) = 1 THEN scopes ELSE Front(scopes)
    /\ IF nreg_mark = <<>>
       THEN UNCHANGED <<nreg_count, nreg_mark>>
       ELSE nreg_count' = Top(nreg_mark) /\ nreg_mark' = Front(nreg_mark)
    /\ UNCHANGED <<base, lexer, frames, max_nreg_count, targets,
                   returns_on_exit, written, saved>>

\* end_of_block: the innermost table is dropped and its registers are freed.
EndOfBlock ==
    /\ phase = "parsed" /\ eob = "EOB" /\ ~AtOwnIndent
    /\ phase' = "popped"
    /\ scopes' = IF Len(scopes) = 1 THEN scopes ELSE Front(scopes)
    /\ IF nreg_mark = <<>>
       THEN UNCHANGED <<nreg_count, nreg_mark>>
       ELSE nreg_count' = Top(nreg_mark) /\ nreg_mark' = Front(nreg_mark)
    /\ UNCHANGED <<base, lexer, frames, max_nreg_count, targets,
                   returns_on_exit, written, saved>>

LoopTail == phase = "popped" \/ (phase = "parsed" /\ eob # "EOB")

Continue ==
    /\ LoopTail /\ ~ended
    /\ phase' = "loop"
    /\ UNCHANGED <<base, lexer, frames, scopes, registers, targets,
                   returns_on_exit, written, saved>>

\* parse_block returns at the last line of its block, at the end of the
\* function and at the end of the source.
Leaving ==
    \/ phase = "parsed" /\ eob = "EOB" /\ AtOwnIndent
    \/ LoopTail /\ ended
    \/ phase = "loop" /\ ~more

\* anonymous_bcond emits the label of the branch.
ReturnBranch ==
    /\ Leaving /\ Top(frames).kind = "branch"
    /\ frames' = Front(frames)
    /\ phase' = "parsed"
    /\ UNCHANGED <<base, lexer, scopes, registers, targets,
                   returns_on_exit, written, saved>>

\* mutant: the target is not popped
ReturnDeclKeepsTarget ==
    /\ Leaving /\ Top(frames).kind = "decl"
    /\ IF Top(targets).assigned
       THEN phase' = "parsed" /\ frames' = Front(frames)
       ELSE phase' = "error" /\ UNCHANGED frames
    /\ UNCHANGED <<base, lexer, scopes, registers, targets, returns_on_exit, written, saved>>

\* mutant: the block need not assign
ReturnDeclUnassigned ==
    /\ Leaving /\ Top(frames).kind = "decl"
    /\ phase' = "parsed"
    /\ frames' = Front(frames)
    /\ targets' = Front(targets)
    /\ UNCHANGED <<base, lexer, scopes, registers, returns_on_exit, written, saved>>

\* decl_vars: the block must have assigned or stored.
ReturnDecl ==
    /\ Leaving /\ Top(frames).kind = "decl"
    /\ IF Top(targets).assigned
       THEN /\ phase' = "parsed"
            /\ frames' = Front(frames)
            /\ targets' = Front(targets)
       ELSE /\ phase' = "error"
            /\ UNCHANGED <<frames, targets>>
    /\ UNCHANGED <<base, lexer, scopes, registers, returns_on_exit, written, saved>>

\* mutant: the prologue saves the registers counted at the end of the body
ReturnFunctionLastCount ==
    /\ Leaving /\ Top(frames).kind = "function"
    /\ IF returns_on_exit \/ RetAirity = 0
       THEN phase' = "done" /\ saved' = 0 .. (nreg_count - 1)
       ELSE phase' = "error" /\ UNCHANGED saved
    /\ UNCHANGED <<base, lexer, frames, scopes, registers, targets,
                   returns_on_exit, written>>

\* function(): the airity check and the prologue
ReturnFunction ==
    /\ Leaving /\ Top(frames).kind = "function"
    /\ IF returns_on_exit \/ RetAirity = 0
       THEN /\ phase' = "done"
            /\ saved' = 0 .. ((IF SaveMax THEN max_nreg_count ELSE nreg_count) - 1)
       ELSE phase' = "error" /\ UNCHANGED saved
    /\ UNCHANGED <<base, lexer, frames, scopes, registers, targets,
                   returns_on_exit, written>>

Terminated == phase \in Terminal /\ UNCHANGED vars

-----------------------------------------------------------------------------
LineStep(next, rest) ==
    \/ Plain(next, rest)
    \/ Ret(next, rest) \/ RetIf(next, rest)
    \/ \E n \in Names, w \in Widths : Let(n, w, next, rest)
    \/ \E n \in Names : LetStack(n, next, rest) \/ AssignTo(n, next, rest)
    \/ \E w \in BlockWidths : Assign(w, next, rest)
    \/ Store(next, rest)

OpenStep(next) ==
    \/ OpenBranch(next)
    \/ \E n \in Names : OpenLet(n, next) \/ OpenStack(n, next)

Next ==
    \/ \E n \in Names, w \in Widths : Param(n, w)
    \/ BeginBody
    \/ StartOfBlock \/ NextLine
    \/ \E next \in Levels, rest \in BOOLEAN : LineStep(next, rest)
    \/ \E next \in Levels : OpenStep(next)
    \/ LineError
    \/ EndOfBlock \/ Continue
    \/ ReturnBranch \/ ReturnDecl \/ ReturnFunction
    \/ Terminated

Spec == Init /\ [][Next]_vars

-----------------------------------------------------------------------------
(* Properties *)

\* The types of the variables of the parser.
TypeOK ==
    /\ base \in {0, 1}
    /\ cur_indent \in Levels /\ indent \in Levels
    /\ eob \in {"NONE", "SOB", "EOB"}
    /\ more \in BOOLEAN /\ ended \in BOOLEAN
    /\ phase \in Phases
    /\ frames \in Seq(Frame) /\ scopes \in Seq(Scope)
    /\ nreg_count \in Nat /\ max_nreg_count \in Nat /\ nreg_mark \in Seq(Nat)
    /\ targets \in Seq(Target)
    /\ returns_on_exit \in BOOLEAN
    /\ written \in SUBSET Nat /\ saved \in SUBSET Nat

\* The registers of scope i lie between the mark it was opened at and the mark
\* the next one was opened at.
Floor(i) == IF i = 1 THEN 0 ELSE nreg_mark[i - 1]
Ceil(i) == IF i = Len(scopes) THEN nreg_count ELSE nreg_mark[i]

\* The stack of name tables and the stack of register marks, pushed and popped
\* by start_of_block and end_of_block, describe the same blocks: every live
\* declaration holds registers of its own block's share, and no block frees a
\* register that an enclosing block uses.
MarksOrdered ==
    /\ Len(nreg_mark) = Len(scopes) - 1
    /\ \A i, j \in 1..Len(nreg_mark) : i <= j => nreg_mark[i] <= nreg_mark[j]
    /\ \A i \in 1..Len(nreg_mark) : nreg_mark[i] <= nreg_count
    /\ nreg_count <= max_nreg_count
NestedRegisters ==
    /\ MarksOrdered
    /\ \A i \in 1..Len(scopes), n \in Names :
          Regs(scopes[i][n]) \subseteq Floor(i) .. (Ceil(i) - 1)

\* No two declarations that are live at once share a named register, whatever
\* blocks were opened, left and reopened between them.
RegistersDisjoint ==
    \A i, j \in 1..Len(scopes) :
        \A n, m \in Names :
            <<i, n>> # <<j, m>> => Regs(scopes[i][n]) \cap Regs(scopes[j][m]) = {}

\* The function gives its caller back every named register it writes: the
\* prologue, built after the body, saves all the registers that the body's
\* instructions write, those of blocks already left included.
CalleeSaved == phase = "done" => written \subseteq saved

\* specs/grammar.md: crossing an indentation boundary opens or closes a block.
\* When a line is parsed, the tables of names and the blocks whose end is yet
\* to be emitted are those of the blocks that enclose it.
LinesInTheirBlock ==
    phase = "line" =>
        /\ Len(scopes) = indent + 1
        /\ \A i \in 1..Len(frames) : frames[i].block_indent <= indent

\* A pending declaration points into a table that is still open, at the name it
\* declares: the value of its block lands in that entry and in no later one.
TargetsLive ==
    phase \notin Terminal => \A i \in 1..Len(targets) :
        /\ TargetLive(targets[i])
        /\ \A j \in 1..Len(targets) : i < j => targets[i].scope < targets[j].scope

\* Each pending declaration is a call of decl_vars that waits for its block, so
\* that popping a target drops the declaration's own.
TargetsAreDeclarations ==
    phase \notin Terminal =>
        Len(targets) = Cardinality({i \in 1..Len(frames) : frames[i].kind = "decl"})

\* The parser implements lexical blocks: `open` is read off the recursion of
\* parse_block, `names` off local_ids.
OpenedAt(f) == IF f.block_indent = Unset THEN cur_indent ELSE f.block_indent - 1
Lexical == INSTANCE LexicalBlocks WITH
    level <- indent,
    names <- [i \in 1..Len(scopes) |-> Declared(scopes[i])],
    open <- [i \in 1..(Len(frames) - 1) |-> OpenedAt(frames[i + 1])],
    state <- IF phase = "done" THEN "finished"
             ELSE IF phase \in Terminal THEN "stopped"
             ELSE IF phase = "params" THEN "signature"
             ELSE IF ended \/ ~more THEN "over" ELSE "body"
ImplementsLexicalBlocks == Lexical!Spec
=============================================================================
