------------------------------- MODULE Output -------------------------------
(* What an emitter promises the parser: functions may be begun inside one     *)
(* another, as `#compile_all` does, and whatever the nesting each one's code   *)
(* is put out in one piece when it ends: its prologue, then every instruction *)
(* in the order it was emitted.                                               *)
(*                                                                            *)
(* An instruction is known by its function and its number there; the ones of  *)
(* the prologue, which are made last and stand first, have number 0.          *)
EXTENDS Naturals, Sequences

CONSTANTS
    Functions,
    PrologueSizes     \* how many instructions a prologue may have

VARIABLES
    open,     \* the functions begun and not ended, innermost last
    image     \* the code put out

vars == <<open, image>>

Instr(f, n) == [fn |-> f, n |-> n]
Prologue(f, size) == [i \in 1..size |-> Instr(f, 0)]
Body(f, count) == [i \in 1..count |-> Instr(f, i)]

Init == open = <<>> /\ image = <<>>

Begin(f) ==
    /\ open' = Append(open, [fn |-> f, emitted |-> 0])
    /\ UNCHANGED image

Emit ==
    /\ open # <<>>
    /\ open' = [open EXCEPT ![Len(open)].emitted = @ + 1]
    /\ UNCHANGED image

\* The last instruction, the return, is emitted when the function ends.
End(size) ==
    /\ open # <<>>
    /\ LET f == open[Len(open)]
       IN image' = image \o Prologue(f.fn, size) \o Body(f.fn, f.emitted + 1)
    /\ open' = SubSeq(open, 1, Len(open) - 1)

Next ==
    \/ \E f \in Functions : Begin(f)
    \/ Emit
    \/ \E size \in PrologueSizes : End(size)

Spec == Init /\ [][Next]_vars
=============================================================================
