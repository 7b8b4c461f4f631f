----------------------------- MODULE MCHashTable -----------------------------
EXTENDS HashTable, Bitwise, TLC

CONSTANTS k1, k2, k3, k4, k5, v1, v2

\* mini_hashset: index += 1; index %= array_len, on a table of four slots.  Three
\* keys start at the last slot, so that probes go round the end.
MiniHash == (k1 :> 3) @@ (k2 :> 3) @@ (k3 :> 0) @@ (k4 :> 2) @@ (k5 :> 3)
MiniSucc == [i \in 0..3 |-> (i + 1) % 4]

\* hashmap.h masks instead: the same successor, its sizes being powers of two.
ASSUME MaskedSuccessor == \A i \in 0..3 : MiniSucc[i] = (i + 1) & (4 - 1)

\* const_hashmap: index += 1; index &= array_len - 1, and array_len is 26.
ConstHash == (k1 :> 0) @@ (k2 :> 1) @@ (k3 :> 2) @@ (k4 :> 2) @@ (k5 :> 0)
ConstSucc == [i \in 0..25 |-> (i + 1) & 25]
=============================================================================
