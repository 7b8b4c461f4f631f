------------------------------ MODULE MCBlocks ------------------------------
EXTENDS Blocks, TLC
CONSTANTS n1, n2
Symmetry == Permutations(Names)
=============================================================================
