------------------------------ MODULE BinOutput ------------------------------
(* The binary backends' side of Units: alc/bin-x86_64.c and bin-aarch64.c.    *)
(* There is one body and one prologue buffer.  A branch or a call is emitted  *)
(* with an empty target and noted in `fixups`; labels and fixups hold offsets *)
(* in the body until the function ends and its place in the code is known.    *)
(* bin_emit() resolves them when all is parsed.                               *)
(*                                                                            *)
(* Offsets count instructions: bytes with the site after the opcode on        *)
(* x86-64, words on AArch64.                                                  *)
EXTENDS Units, FiniteSets

CONSTANTS
    CodeCap,    \* CODE_CAP
    LabelCap,   \* LABEL_CAP, also the limit of fn_syms
    FixupCap    \* FIXUP_CAP

\* fn_ids holds no more symbols than LABEL_CAP.
ASSUME CapsAssumption ==
    /\ CodeCap \in Nat /\ LabelCap \in Nat /\ FixupCap \in Nat
    /\ IsFiniteSet(Declared) /\ Cardinality(Declared) < LabelCap

VARIABLES
    body,       \* instructions of the function in progress
    code,       \* those of the functions that have ended
    labels,
    fixups,
    fn_syms,
    entry_off,
    targets     \* once written: what bin_emit put into each fixup

binVars == <<body, code, labels, fixups, fn_syms, entry_off, targets>>

Code(f, n) == [fn |-> f, n |-> n]
NextCode == Code(Current.fn, Current.emitted + 1)

\* make_key
Key(f, label, index) == <<f, label, index>>

\* `line` is not in the code: the number of instructions of its function that
\* come before a label, and the number of a fixup's own instruction.
Label(key) == [key |-> key, at |-> Len(body), done |-> FALSE, line |-> Current.emitted]
Fixup(kind, key) ==
    [kind |-> kind, key |-> key, at |-> Len(body), done |-> FALSE,
     fn |-> Current.fn, line |-> Current.emitted + 1]

BinInit ==
    /\ body = <<>> /\ code = <<>>
    /\ labels = <<>> /\ fixups = <<>> /\ fn_syms = <<>>
    /\ entry_off = 0
    /\ targets = <<>>

\* emit_fn_begin
BinBegin ==
    /\ body' = <<>>
    /\ UNCHANGED <<code, labels, fixups, fn_syms, entry_off, targets>>

\* put8, put_word
BinEmit ==
    /\ Len(body) < CodeCap
    /\ body' = Append(body, NextCode)
    /\ UNCHANGED <<code, labels, fixups, fn_syms, entry_off, targets>>

\* emit_branch, emit_branch_cond, emit_fn_call
BinEmitFixup(kind, key) ==
    /\ Len(fixups) < FixupCap /\ Len(body) < CodeCap
    /\ fixups' = Append(fixups, Fixup(kind, key))
    /\ body' = Append(body, NextCode)
    /\ UNCHANGED <<code, labels, fn_syms, entry_off, targets>>
BinBranch(label, index) == BinEmitFixup("branch", Key(Current.fn, label, index))
BinCall(f) == BinEmitFixup("call", f)

\* emit_label
BinLabel(label, index) ==
    /\ Len(labels) < LabelCap
    /\ labels' = Append(labels, Label(Key(Current.fn, label, index)))
    /\ UNCHANGED <<body, code, fixups, fn_syms, entry_off, targets>>

\* mutant: entries of earlier functions are moved again
PlaceAgain(entries, delta) ==
    [i \in 1..Len(entries) |-> [entries[i] EXCEPT !.at = @ + delta, !.done = TRUE]]

\* The labels or fixups that no function's end has moved yet are offsets in the
\* body; they are moved to where it lands.
Place(entries, delta) ==
    [i \in 1..Len(entries) |->
        IF entries[i].done THEN entries[i]
        ELSE [entries[i] EXCEPT !.at = @ + delta, !.done = TRUE]]

\* mutant: the epilogue ends up before the body
FunctionCodeSwapped(size) ==
    Append([i \in 1..size |-> Code(Current.fn, 0)], NextCode) \o body

FunctionCode(size) == [i \in 1..size |-> Code(Current.fn, 0)] \o Append(body, NextCode)

\* mutant: the symbol is where the body lands
SymbolPastPrologue(base, size) == [key |-> Current.fn, at |-> base + size]
Symbol(base, size) == [key |-> Current.fn, at |-> base]

\* mutant: the program starts at the first function put out
EntryFirst(base) == IF fn_syms = <<>> THEN base ELSE entry_off
Entry(base) == IF Current.fn = "main" THEN base ELSE entry_off

\* The label of the returns, emit_fn_prologue_epilogue, emit_ret, emit_fn_end
BinEnd(size) ==
    LET base == Len(code)
        ret == Label(Key(Current.fn, "ret", 0))
    IN /\ base + size + Len(body) + 1 <= CodeCap
       /\ Current.branched => Len(labels) < LabelCap
       /\ code' = code \o FunctionCode(size)
       /\ labels' = Place(IF Current.branched THEN Append(labels, ret) ELSE labels,
                          base + size)
       /\ fixups' = Place(fixups, base + size)
       /\ fn_syms' = IF Len(fn_syms) < LabelCap
                     THEN Append(fn_syms, Symbol(base, size))
                     ELSE fn_syms
       /\ entry_off' = Entry(base)
       /\ body' = <<>>
       /\ UNCHANGED targets

\* find_at, find_word: the first entry with the key
Has(table, key) == \E i \in 1..Len(table) : table[i].key = key
FindAt(table, key) == table[Min({i \in 1..Len(table) : table[i].key = key})].at

\* A call of a function that no file defines is left to the dynamic linker.
Import == -1
Target(fx) ==
    IF fx.kind = "branch" THEN FindAt(labels, fx.key)
    ELSE IF Has(fn_syms, fx.key) THEN FindAt(fn_syms, fx.key) ELSE Import

\* bin_emit, which diagnoses a branch whose label was never set
Resolved == \A i \in 1..Len(fixups) :
    fixups[i].kind = "branch" => Has(labels, fixups[i].key)
BinUnresolved == Compiling /\ Len(files) = 1 /\ ~Resolved
BinWrite ==
    /\ Resolved
    /\ targets' = [i \in 1..Len(fixups) |-> Target(fixups[i])]
    /\ UNCHANGED <<body, code, labels, fixups, fn_syms, entry_off>>

-----------------------------------------------------------------------------
(* Properties *)

\* What is at an offset of the written code
InCode(offset) == offset \in 0..(Len(code) - 1)
Holds(offset, instr) == InCode(offset) /\ code[offset + 1] = instr
Written == state = "written"

\* Every branch of the written code goes to the instruction that follows its
\* label in its own function, whichever functions were compiled between the
\* branch and the label, and it is the branch whose target was filled in.
BranchesLand ==
    Written => \A i \in 1..Len(fixups) : fixups[i].kind = "branch" =>
        /\ Holds(fixups[i].at, Code(fixups[i].fn, fixups[i].line))
        /\ \E j \in 1..Len(labels) :
              /\ labels[j].key = fixups[i].key
              /\ Holds(targets[i], Code(fixups[i].fn, labels[j].line + 1))

\* A call of a function that some file defines, before or after the call, goes
\* to the function's first instruction; another is left to the dynamic linker.
FirstOf(f, offset) ==
    /\ InCode(offset) /\ code[offset + 1].fn = f
    /\ \A earlier \in 1..offset : code[earlier].fn # f
CallsLand ==
    Written => \A i \in 1..Len(fixups) : fixups[i].kind = "call" =>
        /\ Holds(fixups[i].at, Code(fixups[i].fn, fixups[i].line))
        /\ IF fixups[i].key \in begun
           THEN FirstOf(fixups[i].key, targets[i])
           ELSE targets[i] = Import

\* The program starts at main of the file the compiler was given, although the
\* functions of included files are put out before it.
EntryIsMain == Written => FirstOf("main", entry_off)

BinImage == INSTANCE Output WITH
    PrologueSizes <- 0..MaxPrologue,
    open <- OpenFunctions,
    image <- code
\* The code holds each function in one piece with its prologue in front, in the
\* order in which the functions end.
CodeInOnePiece == BinImage!Spec
=============================================================================
