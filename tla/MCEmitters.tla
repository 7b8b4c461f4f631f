----------------------------- MODULE MCEmitters -----------------------------
EXTENDS Emitters, TLC
CONSTANTS f1, f2, l1
Symmetry == Permutations(Declared)
\* bound: the instructions of the whole program, a return for each open function
\* included
SmallProgram == Len(code) + Len(body) + Len(bufs) <= CodeCap
=============================================================================
