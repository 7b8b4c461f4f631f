---------------------------- MODULE Conventions ----------------------------
(***************************************************************************)
(* What the calls of the code generators have in common: the registers of  *)
(* each calling convention, what the two assemblers write, given one, and  *)
(* what a comparison is to say.                                            *)
(***************************************************************************)
EXTENDS Machine, Types

\* The numbers the calls use fit the bytes and the memory there are.
ASSUME ConventionsAssumption == ByteBits >= 2 /\ Memory >= 32

VARIABLE conv             \* the calling convention compiled for

\* mutant: there is no sixteenth register to pass a value in
MistypedLinux ==
  [all |-> 0 .. 15, frame |-> 5, stack |-> 4,
   scratch |-> <<0, 1, 2, 6, 7, 8, 9>>, callee |-> <<3, 12, 13, 14, 15, 10, 11>>,
   param |-> <<7, 6, 2, 16, 8, 9>>, ret |-> <<0, 2>>]
\* The registers of each class (exe-elf-x86_64.c, exe-pe-x86_64.c; get_regoff
\* of asm-aarch64.c), the frame and the stack pointer.
Linux ==
  [all |-> 0 .. 15, frame |-> 5, stack |-> 4,
   scratch |-> <<0, 1, 2, 6, 7, 8, 9>>, callee |-> <<3, 12, 13, 14, 15, 10, 11>>,
   param |-> <<7, 6, 2, 1, 8, 9>>, ret |-> <<0, 2>>]
RegistersOf ==
  [linux |-> Linux,
   windows |->
     [all |-> 0 .. 15, frame |-> 5, stack |-> 4,
      scratch |-> <<0, 1, 2, 8, 9, 10, 11>>, callee |-> <<3, 6, 7, 12, 13, 14, 15>>,
      param |-> <<1, 2, 8, 9, 10, 11>>, ret |-> <<0, 2>>],
   aarch64 |->
     [all |-> 0 .. 4 \union 8 .. 11 \union {16, 29, 31} \union 19 .. 24, frame |-> 29, stack |-> 31,
      scratch |-> <<8, 9, 10, 11>>, callee |-> <<19, 20, 21, 22, 23, 24>>,
      param |-> <<0, 1, 2, 3, 4>>, ret |-> <<0, 1>>]]
Class == RegistersOf[conv]
Arm == conv = "aarch64"

L == INSTANCE AsmX86 WITH Scratch <- Class.scratch, Callee <- Class.callee,
                          Param <- Class.param, Ret <- Class.ret
A == INSTANCE AsmArm

Place(r) == IF Arm THEN A!get_regoff(r) ELSE L!buf_putreg(r)

\* Comparisons are for the flags: what each condition is to say of x and y.
Equalities == {"EQ", "NE"}
Orders(sign) == IF sign THEN {"GT", "GE", "LT", "LE"} ELSE {"HI", "HS", "LO", "LS"}
True(cond, x, y) ==
  CASE cond = "EQ" -> x = y [] cond = "NE" -> x # y
    [] cond \in {"GT", "HI"} -> x > y  [] cond \in {"GE", "HS"} -> x >= y
    [] cond \in {"LT", "LO"} -> x < y  [] cond \in {"LE", "LS"} -> x <= y
=============================================================================
