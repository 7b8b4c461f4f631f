-------------------------------- MODULE Units --------------------------------
(* The compilation of a file and of the files it includes: compile() and      *)
(* function() of alc/main.c, the directive `#compile_all`, which calls them    *)
(* again from within a function, and skip_function(), which passes over the    *)
(* main part of an included file and follows the directives in it.            *)
(*                                                                            *)
(* Lines are chosen as they are reached.  A line matters here by what it asks  *)
(* of the emitter: an instruction, a call, a branch, a label.                 *)
(*                                                                            *)
(* An included file ends at indentation 0 and leaves the global `indent` so.  *)
(* The line after a `#compile_all` is therefore taken to be at indentation 0  *)
(* too: the directive is a line of main outside every block, or the last line *)
(* of its block or function.  The first diagnostic ends a behaviour.          *)
EXTENDS Integers, Sequences, SequencesExt

CONSTANTS
    Declared,     \* functions beside main; the files define some of them
    LabelNames,   \* the labels a program sets itself
    MaxFiles,     \* bound: files open at once
    MaxLines,     \* bound: instructions of one function
    MaxPrologue,  \* bound: instructions of a prologue
    Late          \* bound: `#compile_all` may follow other lines of its function

ASSUME NamesAssumption ==
    /\ "main" \notin Declared
    /\ LabelNames \cap {"lbb", "ret"} = {}
ASSUME BoundsAssumption ==
    /\ MaxFiles \in Nat \ {0} /\ MaxLines \in Nat /\ MaxPrologue \in Nat
    /\ Late \in BOOLEAN

VARIABLES
    files,    \* the files open, innermost last
    fns,      \* the calls of function() in progress, innermost last
    begun,    \* the functions begun so far
    locals,   \* the function whose names local_ids was last cleared for
    state     \* "running", "written" (the output), or "error"

vars == <<files, fns, begun, locals, state>>

Functions == Declared \cup {"main"}

\* compile() on a file, called from within `inside` functions; `skipping` while
\* skip_function() passes over its main part
File(inside, skipping) == [inside |-> inside, skipping |-> skipping]
\* function(): instructions emitted, the next unnamed label, the open branch
\* blocks, has_branched_ret, whether it had a line, and whether the ends of
\* its blocks are all that may follow
Function(f) ==
    [fn |-> f, emitted |-> 0, unnamed |-> 1, blocks |-> <<>>,
     branched |-> FALSE, started |-> FALSE, closing |-> FALSE]

Top(s) == s[Len(s)]
Current == Top(fns)

\* Which call is the innermost
InFunction == state = "running" /\ Len(fns) > Top(files).inside
InFile == state = "running" /\ Len(fns) = Top(files).inside
Skipping == InFile /\ Top(files).skipping
Compiling == InFile /\ ~Top(files).skipping

\* The call of function() goes on, and its record is now f
Becomes(f) == fns' = [fns EXCEPT ![Len(fns)] = f] /\ UNCHANGED files
\* The emission of one instruction, after which the record of the function is f
Emitting(f) == Becomes([f EXCEPT !.emitted = @ + 1, !.started = TRUE])

\* A line of the current function, but for the end of a block
AtLine == InFunction /\ ~Current.closing
HasRoom == AtLine /\ Current.emitted < MaxLines

Init ==
    /\ files = <<File(0, FALSE)>>
    /\ fns = <<>>
    /\ begun = {}
    /\ locals = "main"
    /\ state = "running"

\* function(): the first of the first file is main.
BeginFunction(f) ==
    /\ Compiling
    /\ f \notin begun
    /\ IF begun = {} THEN f = "main" ELSE f # "main"
    /\ fns' = Append(fns, Function(f))
    /\ begun' = begun \cup {f}
    /\ locals' = f
    /\ UNCHANGED <<files, state>>

Instruction ==
    /\ HasRoom
    /\ Emitting(Current)
    /\ UNCHANGED <<begun, locals, state>>

\* fn_call
Call(f) ==
    /\ f \in Declared
    /\ Instruction

\* named_bcond and control_flow: `label->`
Goto(label) ==
    /\ label \in LabelNames
    /\ Instruction

\* `label:`
SetLabel(label) ==
    /\ AtLine /\ label \in LabelNames
    /\ Becomes([Current EXCEPT !.started = TRUE])
    /\ UNCHANGED <<begun, locals, state>>

\* anonymous_bcond
OpenBlock ==
    /\ HasRoom
    /\ Emitting([Current EXCEPT !.unnamed = @ + 1,
                                !.blocks = Append(@, Current.unnamed)])
    /\ UNCHANGED <<begun, locals, state>>

CloseBlock ==
    /\ InFunction /\ Current.blocks # <<>>
    /\ Becomes([Current EXCEPT !.blocks = Front(@),
                               !.closing = @ /\ (Len(Current.blocks) > 1
                                                 \/ Current.fn # "main")])
    /\ UNCHANGED <<begun, locals, state>>

\* stmt_ret and stmt_eret, where they branch
Return ==
    /\ HasRoom
    /\ Emitting([Current EXCEPT !.branched = TRUE])
    /\ UNCHANGED <<begun, locals, state>>

\* directives: read_source, skip_function
Open == files' = Append(files, File(Len(fns), TRUE)) /\ Len(files) < MaxFiles

Include ==
    /\ AtLine /\ Open
    /\ Late \/ ~Current.started
    /\ LET last == Current.blocks # <<>> \/ Current.fn # "main"
       IN fns' = [fns EXCEPT ![Len(fns)].closing = last]
    /\ UNCHANGED <<begun, locals, state>>

\* The same directive in a part that skip_function() passes over
IncludeSkipping ==
    /\ Skipping /\ Open
    /\ UNCHANGED <<fns, begun, locals, state>>

\* skip_function() is done and compile() goes on with the rest of the file.
EndSkip ==
    /\ Skipping
    /\ files' = [files EXCEPT ![Len(files)].skipping = FALSE]
    /\ UNCHANGED <<fns, begun, locals, state>>

\* The end of function(): the label of its returns, prologue, epilogue, return
EndFunction ==
    /\ InFunction /\ Current.blocks = <<>>
    /\ fns' = Front(fns)
    /\ UNCHANGED <<files, begun, locals, state>>

EndFile ==
    /\ Compiling
    /\ Len(files) > 1
    /\ files' = Front(files)
    /\ UNCHANGED <<fns, begun, locals, state>>

\* main(): emit_output
EndProgram ==
    /\ Compiling /\ Len(files) = 1 /\ begun # {}
    /\ state' = "written"
    /\ UNCHANGED <<files, fns, begun, locals>>

\* A diagnostic of the parser or of an emitter
Fail ==
    /\ state = "running"
    /\ state' = "error"
    /\ UNCHANGED <<files, fns, begun, locals>>

Stopped == state # "running"

\* The functions in progress, innermost last, as Output sees them
OpenFunctions ==
    [i \in 1..Len(fns) |-> [fn |-> fns[i].fn, emitted |-> fns[i].emitted]]
=============================================================================
