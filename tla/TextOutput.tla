----------------------------- MODULE TextOutput -----------------------------
(* The assembly backends' side of Units: alc/emit_helper.h keeps one          *)
(* emit_context_t per function in progress and a stack of the contexts to     *)
(* return to, and appends a function's buffers to the text when it ends.      *)
EXTENDS Units

CONSTANT MaxContexts      \* MAX_CONTEXTS

ASSUME ContextsAssumption == MaxContexts \in Nat \ {0}

VARIABLES
    contexts,   \* from `contexts` to `contexts_top`
    context,    \* the context in use, counted from the outermost; 0 is NULL
    bufs,       \* the contexts of the functions in progress: two buffers each
    text        \* text_buf

textVars == <<contexts, context, bufs, text>>

EmptyBufs == [prologue |-> <<>>, body |-> <<>>]
Instr(f, n) == [fn |-> f, n |-> n]
\* What the current function emits next
NextInstr == Instr(Current.fn, Current.emitted + 1)

TextInit == contexts = <<>> /\ context = 0 /\ bufs = <<>> /\ text = <<>>

\* mutant: the outermost context stays in use
TextBeginOutermost ==
    /\ Len(contexts) < MaxContexts
    /\ contexts' = Append(contexts, context)
    /\ context' = 1
    /\ bufs' = Append(bufs, EmptyBufs)
    /\ UNCHANGED text

\* emit_fn_begin
TextBegin ==
    /\ Len(contexts) < MaxContexts
    /\ contexts' = Append(contexts, context)
    /\ context' = Len(bufs) + 1
    /\ bufs' = Append(bufs, EmptyBufs)
    /\ UNCHANGED text

\* "max contexts reached"
TextTooDeep == Compiling /\ Len(contexts) = MaxContexts

\* fn_buf is the body of the context in use.
TextEmit ==
    /\ bufs' = [bufs EXCEPT ![context].body = Append(@, NextInstr)]
    /\ UNCHANGED <<contexts, context, text>>

\* mutant: the context that is left stays in use
TextEndKeepsContext(size) ==
    LET full == [bufs EXCEPT
                   ![context] = [prologue |-> [i \in 1..size |-> Instr(Current.fn, 0)],
                                 body |-> Append(@.body, NextInstr)]]
    IN /\ text' = text \o Top(full).prologue \o Top(full).body
       /\ bufs' = Front(full)
       /\ contexts' = Front(contexts)
       /\ UNCHANGED context

\* emit_fn_prologue_epilogue, emit_ret and emit_fn_end: the prologue goes to the
\* context in use, and the function's own context is appended to the text.
TextEnd(size) ==
    LET full == [bufs EXCEPT
                   ![context] = [prologue |-> [i \in 1..size |-> Instr(Current.fn, 0)],
                                 body |-> Append(@.body, NextInstr)]]
    IN /\ text' = text \o Top(full).prologue \o Top(full).body
       /\ bufs' = Front(full)
       /\ IF contexts = <<>>
          THEN context' = 0 /\ UNCHANGED contexts
          ELSE context' = Top(contexts) /\ contexts' = Front(contexts)

-----------------------------------------------------------------------------
(* Properties *)

TextImage == INSTANCE Output WITH
    PrologueSizes <- 0..MaxPrologue,
    open <- OpenFunctions,
    image <- text
\* However functions nest, the text holds each of them in one piece with its
\* prologue in front, and the function that `#compile_all` interrupted goes on
\* where it was.
TextInOnePiece == TextImage!Spec
=============================================================================
