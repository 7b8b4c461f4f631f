------------------------------ MODULE Emitters ------------------------------
(* Two builds of the compiler, one with an assembly backend and one with a    *)
(* binary backend, fed with the same program.                                 *)
EXTENDS TextOutput, BinOutput

emitterVars == <<vars, textVars, binVars>>

EmittersInit == Init /\ TextInit /\ BinInit

Begin(f) == BeginFunction(f) /\ TextBegin /\ BinBegin

EmitInstruction == Instruction /\ TextEmit /\ BinEmit
EmitCall(f) == Call(f) /\ TextEmit /\ BinCall(f)
EmitGoto(label) == Goto(label) /\ TextEmit /\ BinBranch(label, 0)
EmitLabel(label) == SetLabel(label) /\ BinLabel(label, 0) /\ UNCHANGED textVars
EmitOpenBlock == OpenBlock /\ TextEmit /\ BinBranch("lbb", Current.unnamed)
EmitCloseBlock == CloseBlock /\ BinLabel("lbb", Top(Current.blocks)) /\ UNCHANGED textVars
EmitReturn == Return /\ TextEmit /\ BinBranch("ret", 0)

\* Files come and go without the emitters.
Files == (Include \/ IncludeSkipping \/ EndSkip \/ EndFile) /\ UNCHANGED <<textVars, binVars>>

End(size) == EndFunction /\ TextEnd(size) /\ BinEnd(size)

Write == EndProgram /\ BinWrite /\ UNCHANGED textVars

\* A wrong line, or a limit of an emitter: the contexts, a buffer, a table
Diagnose ==
    /\ InFunction \/ TextTooDeep \/ BinUnresolved
    /\ Fail
    /\ UNCHANGED <<textVars, binVars>>

Done == Stopped /\ UNCHANGED emitterVars

EmittersNext ==
    \/ \E f \in Functions : Begin(f)
    \/ EmitInstruction
    \/ \E f \in Declared : EmitCall(f)
    \/ \E label \in LabelNames : EmitGoto(label) \/ EmitLabel(label)
    \/ EmitOpenBlock \/ EmitCloseBlock
    \/ EmitReturn
    \/ Files
    \/ \E size \in 0..MaxPrologue : End(size)
    \/ Write
    \/ Diagnose
    \/ Done

EmittersSpec == EmittersInit /\ [][EmittersNext]_emitterVars

-----------------------------------------------------------------------------
(* Properties *)

\* The types of the variables of the driver and of both emitters.
TypeOK ==
    /\ begun \subseteq Functions /\ locals \in Functions
    /\ state \in {"running", "written", "error"}
    /\ Len(bufs) = Len(OpenFunctions) /\ context \in 0..Len(bufs)
    /\ contexts \in Seq(0..Len(bufs)) /\ Len(contexts) <= MaxContexts
    /\ Len(code) <= CodeCap /\ Len(body) <= CodeCap
    /\ Len(labels) <= LabelCap /\ Len(fixups) <= FixupCap
    /\ Len(fn_syms) <= LabelCap /\ entry_off \in 0..CodeCap
    /\ \A i \in 1..Len(labels) : labels[i].at \in 0..CodeCap
    /\ \A i \in 1..Len(fixups) : fixups[i].at \in 0..CodeCap
=============================================================================
