------------------------------- MODULE MCFlow -------------------------------
EXTENDS Flow, TLC
CONSTANTS n1, n2
Symmetry == Permutations(Names)
=============================================================================
