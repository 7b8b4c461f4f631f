---------------------------- MODULE LexicalBlocks ---------------------------
(* What indentation promises (specs/grammar.md, "Indentation" and "Program    *)
(* structure"): a line belongs to the blocks that enclose it.  When a line is *)
(* parsed, there is one table of names for each unit of its indentation and   *)
(* one below them, and no block opened at its indentation or deeper is still  *)
(* waiting for its end.                                                       *)
EXTENDS Integers, Sequences, SequencesExt

CONSTANT Names

VARIABLES
    level,      \* the indentation of the next line
    names,      \* the names declared by each enclosing block, outermost first
    open,       \* the indentations of the lines whose block has not ended
    state       \* "signature", "body", "over" (no line is left), "finished", "stopped"

vars == <<level, names, open, state>>

Init ==
    /\ level \in {0, 1}
    /\ names = <<{}>>
    /\ open = <<>>
    /\ state = IF level = 0 THEN "body" ELSE "signature"

Parameter(n) ==
    /\ state = "signature"
    /\ names' = <<names[1] \cup {n}>>
    /\ UNCHANGED <<level, open, state>>

StartBody ==
    /\ state = "signature"
    /\ state' = "body"
    /\ UNCHANGED <<level, names, open>>

EnterBlock ==
    /\ state = "body" /\ Len(names) = level
    /\ names' = Append(names, {})
    /\ UNCHANGED <<level, open, state>>

\* A line declares at most one name and opens at most one block.
Line(declared, next, opens) ==
    /\ state = "body"
    /\ Len(names) = level + 1
    /\ \A i \in 1..Len(open) : open[i] < level
    /\ next <= level + 1
    /\ opens => next = level + 1
    /\ level' = next
    /\ names' = [names EXCEPT ![Len(names)] = @ \cup declared]
    /\ open' = IF opens THEN Append(open, level) ELSE open
    /\ state' \in {"body", "over"}

\* The code that ends the innermost opened block: its label, its value.
EndOpened ==
    /\ open # <<>>
    /\ state = "over" \/ (state = "body" /\ open[Len(open)] >= level)
    /\ open' = Front(open)
    /\ UNCHANGED <<level, names, state>>

LeaveBlock ==
    /\ state = "over" \/ (state = "body" /\ Len(names) > level + 1)
    /\ Len(names) > 1
    /\ \A i \in 1..Len(open) : open[i] < Len(names) - 2
    /\ names' = Front(names)
    /\ UNCHANGED <<level, open, state>>

\* The end of the function: every block that a line opened has been ended.
Finish ==
    /\ state = "over" /\ open = <<>>
    /\ state' = "finished"
    /\ UNCHANGED <<level, names, open>>

\* A diagnostic ends the compilation.
GiveUp ==
    /\ state \notin {"finished", "stopped"}
    /\ state' = "stopped"
    /\ UNCHANGED <<level, names, open>>

Next ==
    \/ \E n \in Names : Parameter(n)
    \/ StartBody
    \/ EnterBlock
    \/ \E declared \in {{}} \cup {{n} : n \in Names}, opens \in BOOLEAN :
          \E next \in 0..(level + 1) : Line(declared, next, opens)
    \/ EndOpened
    \/ LeaveBlock
    \/ Finish
    \/ GiveUp

Spec == Init /\ [][Next]_vars
=============================================================================
