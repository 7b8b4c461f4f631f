-------------------------------- MODULE Flow --------------------------------
(* What the code that Blocks emits does at run time, as far as two checks of  *)
(* the compiler are about it: check_unassigned, which diagnoses the read of a *)
(* declaration before its block assigned it, and the airity check at the end  *)
(* of function(), which diagnoses a path that returns no value.  The compiler *)
(* decides both while it reads the lines in order; here the paths through the *)
(* branches are followed.                                                     *)
EXTENDS Blocks

VARIABLES
    reached,    \* some path reaches this line without having returned
    unset,      \* registers that one of those paths has not assigned
    joins,      \* for each open block, the two of the paths that pass it by
    partly,     \* registers of declarations that only branches have assigned
    last_if     \* the last line is a `condition -> ret`

flow == <<reached, unset, joins, partly, last_if>>
flowVars == <<vars, flow>>

FlowInit ==
    /\ Init
    /\ reached = TRUE
    /\ unset = {}
    /\ joins = <<>>
    /\ partly = {}
    /\ last_if = FALSE

-----------------------------------------------------------------------------
(* Lines *)

Sets(offs) == unset' = unset \ offs /\ UNCHANGED reached

\* Every `ret` leaves the path it is on, with the values it gives.
Returns(next, rest) ==
    /\ Ret(next, rest)
    /\ reached' = FALSE
    /\ unset' = {}
    /\ UNCHANGED partly

Declares(n, w, next, rest) ==
    /\ Let(n, w, next, rest)
    /\ Sets(Regs(FreshReg(w)))
    /\ partly' = partly \ Regs(FreshReg(w))

\* The first `value =` of a declaration gives it its value on the path it is on:
\* in a branch of the block on that path only, else on all.
Gives(w, next, rest) ==
    LET t == Top(targets)
    IN /\ Assign(w, next, rest)
       /\ Sets({t.reg.off})
       /\ partly' = IF Top(frames).kind # "branch" THEN partly \ {t.reg.off}
                    ELSE IF t.assigned THEN partly
                    ELSE partly \cup {t.reg.off}

FlowLine(next, rest) ==
    /\ \/ /\ Plain(next, rest) \/ Store(next, rest) \/ \E n \in Names : LetStack(n, next, rest)
          /\ UNCHANGED <<reached, unset, partly>>
       \/ \E n \in Names :
             AssignTo(n, next, rest) /\ Sets({Resolve(n).off}) /\ UNCHANGED partly
       \/ \E n \in Names, w \in Widths : Declares(n, w, next, rest)
       \/ \E w \in BlockWidths : Gives(w, next, rest)
       \/ Returns(next, rest)
    /\ last_if' = FALSE
    /\ UNCHANGED joins

\* The path on which the condition fails goes on.
ReturnsIf(next, rest) ==
    /\ RetIf(next, rest)
    /\ last_if' = TRUE
    /\ UNCHANGED <<reached, unset, partly, joins>>

-----------------------------------------------------------------------------
(* Blocks *)

\* The paths that pass a block by: none passes by the block of a declaration.
Passing == [reached |-> reached, unset |-> unset]
NonePassing == [reached |-> FALSE, unset |-> {}]
Enters(passing) ==
    /\ joins' = Append(joins, passing)
    /\ last_if' = FALSE
    /\ UNCHANGED reached

\* The register of a declaration is unset until its block assigns it.
Pending(n, next) ==
    /\ OpenLet(n, next)
    /\ Enters(NonePassing)
    /\ unset' = IF reached THEN unset \cup {nreg_count} ELSE unset
    /\ partly' = partly \ {nreg_count}

PendingStack(n, next) ==
    /\ OpenStack(n, next)
    /\ Enters(NonePassing)
    /\ UNCHANGED <<unset, partly>>

Branches(next) ==
    /\ OpenBranch(next)
    /\ Enters(Passing)
    /\ UNCHANGED <<unset, partly>>

\* mutant: the branch stays open
JoinsStayOpen ==
    /\ ReturnBranch
    /\ reached' = (reached \/ Top(joins).reached)
    /\ unset' = unset \cup Top(joins).unset
    /\ UNCHANGED <<joins, partly, last_if>>

\* The label after a branch block joins the path through it and the path past it.
Joins ==
    /\ ReturnBranch
    /\ reached' = (reached \/ Top(joins).reached)
    /\ unset' = unset \cup Top(joins).unset
    /\ joins' = Front(joins)
    /\ UNCHANGED <<partly, last_if>>

\* The block of a declaration lies on the path itself.
Settles ==
    /\ ReturnDecl
    /\ joins' = IF frames' = frames THEN joins ELSE Front(joins)
    /\ UNCHANGED <<reached, unset, partly, last_if>>

FlowNext ==
    \/ \E n \in Names, w \in Widths : Param(n, w) /\ UNCHANGED flow
    \/ (BeginBody \/ StartOfBlock \/ NextLine) /\ UNCHANGED flow
    \/ \E next \in Levels, rest \in BOOLEAN : FlowLine(next, rest) \/ ReturnsIf(next, rest)
    \/ \E next \in Levels : Branches(next) \/ \E n \in Names : Pending(n, next) \/ PendingStack(n, next)
    \/ LineError /\ UNCHANGED flow
    \/ (EndOfBlock \/ Continue) /\ UNCHANGED flow
    \/ Joins \/ Settles
    \/ ReturnFunction /\ UNCHANGED flow
    \/ Terminated /\ UNCHANGED flow

FlowSpec == FlowInit /\ [][FlowNext]_flowVars

-----------------------------------------------------------------------------
(* Properties *)

\* The types of the flow state, and one entry of joins for each open block.
FlowTypeOK ==
    /\ reached \in BOOLEAN /\ last_if \in BOOLEAN
    /\ unset \in SUBSET Nat /\ partly \in SUBSET Nat
    /\ Len(joins) = Len(frames) - 1

\* check_unassigned looks at the innermost declaration only.
CheckUnassigned(n) ==
    /\ targets # <<>>
    /\ Top(targets).reg.w > 0
    /\ Top(targets).reg.off = Resolve(n).off
    /\ ~Top(targets).assigned

\* The register of a declaration that has no value yet
Unassigned(t) == t.reg.w > 0 /\ ~t.assigned
UnassignedOutside == {targets[k].reg.off : k \in {i \in 1..(Len(targets) - 1) : Unassigned(targets[i])}}

\* README.md: an uninitialized value is used only where the program says
\* `undefined`.  The compiler holds this by two checks in the order of the lines:
\* of a read in the block of the innermost declaration (check_unassigned), and of
\* a declaration at the end of its block (decl_vars).  Whatever blocks were
\* opened, left and joined on the way to a line, the read of a name whose register
\* some path has not assigned is diagnosed, but for two kinds of names: that of a
\* declaration further out that has no value yet, and one whose only values stand
\* in branches of its declaration's block.  No other name is read with
\* what an earlier block left in its register.
UnsetReadsDiagnosed ==
    phase = "line" => \A n \in Visible :
        Resolve(n).w > 0 /\ Resolve(n).off \in unset =>
            CheckUnassigned(n) \/ Resolve(n).off \in UnassignedOutside \cup partly

\* The airity check lets a path that gives no value reach the end of a function
\* for two forms of its last line only: a line of a deeper block, which the
\* path may have passed by, and a `condition -> ret`.
TailReturns ==
    phase = "done" /\ RetAirity > 0 /\ reached => cur_indent > base \/ last_if
=============================================================================
