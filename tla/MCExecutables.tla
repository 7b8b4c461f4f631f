---------------------------- MODULE MCExecutables ----------------------------
EXTENDS Executables

NameLengths == [n \in Names |-> CASE n = "puts" -> 4 [] n = "read" -> 95 [] n = "exit" -> 4 [] OTHER -> 5]
\* With two names "puts" and "exit" share a list, with three all but "read".
NameHashes == [n \in Names |-> CASE n = "puts" -> 6 [] n = "read" -> 7 [] n = "exit" -> 12 [] OTHER -> 3]
=============================================================================
