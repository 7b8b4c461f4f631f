------------------------ MODULE ConventionsProofs ------------------------
(***************************************************************************)
(* What the assemblers write, run on the machine: of every function of     *)
(* asm-x86_64.c and asm-aarch64.c and all operands it can be given, what   *)
(* the code leaves in the registers, the memory and the flags.  A number   *)
(* stands for its low bytes: two numbers agree in n bytes when they differ *)
(* by a multiple of their values.  Definitions by recursion on numbers are *)
(* reasoned about with the least number they fail for.                     *)
(***************************************************************************)
EXTENDS Conventions, WellFoundedInduction, TLAPS

-----------------------------------------------------------------------------
(* Powers of two and the values of a number of bytes.                     *)

\* A set of numbers that is not empty has a least one.
LEMMA LeastElement ==
  ASSUME NEW S \in SUBSET Nat, S # {}
  PROVE  \E n \in S : \A k \in S : ~(k < n)
<1>1. IsWellFoundedOn(OpToRel(<, Nat), Nat) BY NatLessThanWellFounded
<1>2. PICK n \in S : \A k \in S : ~ <<k, n>> \in OpToRel(<, Nat) BY <1>1, WFMin, Zenon
<1>. QED BY <1>2 DEF OpToRel

(* Powers of two. *)

LEMMA TwoToDef ==
  /\ TwoTo[0] = 1
  /\ \A k \in 1 .. 15 * ByteBits : TwoTo[k] = 2 * TwoTo[k - 1]
<1> DEFINE N == 15 * ByteBits
           P(n) == \E f : f = [k \in 0 .. n |-> IF k = 0 THEN 1 ELSE 2 * f[k - 1]]
           S == {n \in 0 .. N : ~P(n)}
           power == CHOOSE power : power = [k \in 0 .. N |-> IF k = 0 THEN 1 ELSE 2 * power[k - 1]]
<1>1. N \in Nat BY MachineAssumption
<1>2. P(N)
  <2>1. SUFFICES ASSUME S # {} PROVE FALSE
    <3>1. N \in 0 .. N BY <1>1
    <3>. QED BY <3>1
  <2>2. S \in SUBSET Nat BY <1>1
  <2>3. PICK n \in S : \A k \in S : ~(k < n)
    <3> HIDE DEF S
    <3>. QED BY <2>1, <2>2, LeastElement
  <2>4. n \in 0 .. N /\ ~P(n) OBVIOUS
  <2>5. n # 0
    <3> DEFINE f == [k \in 0 .. 0 |-> 1]
    <3>1. f = [k \in 0 .. 0 |-> IF k = 0 THEN 1 ELSE 2 * f[k - 1]] OBVIOUS
    <3>2. P(0) BY <3>1
    <3>. QED BY <2>4, <3>2
  <2>6. P(n - 1)
    <3>1. n - 1 \in 0 .. N /\ n - 1 < n BY <1>1, <2>4, <2>5
    <3>2. n - 1 \notin S
      <4> HIDE DEF S, P
      <4>. QED BY <2>3, <3>1
    <3>. QED BY <3>1, <3>2
  <2>7. PICK f : f = [k \in 0 .. n - 1 |-> IF k = 0 THEN 1 ELSE 2 * f[k - 1]] BY <2>6
  <2> DEFINE g == [k \in 0 .. n |-> IF k = n THEN 2 * f[n - 1] ELSE f[k]]
  <2>8. \A k \in 0 .. n : g[k] = IF k = 0 THEN 1 ELSE 2 * g[k - 1]
    BY <1>1, <2>4, <2>5, <2>7
  <2>9. g = [k \in 0 .. n |-> IF k = 0 THEN 1 ELSE 2 * g[k - 1]]
    BY <2>8
  <2>10. P(n) BY <2>9
  <2>. QED BY <2>4, <2>10
<1>3. power = [k \in 0 .. N |-> IF k = 0 THEN 1 ELSE 2 * power[k - 1]] BY <1>2
<1>4. TwoTo = [k \in 0 .. N |-> power[k]] BY DEF TwoTo
<1>. QED
  <2> HIDE DEF power, N
  <2>1. \A k \in 0 .. N : TwoTo[k] = IF k = 0 THEN 1 ELSE 2 * TwoTo[k - 1] BY <1>1, <1>3, <1>4
  <2>2. TwoTo[0] = 1 BY <1>1, <2>1
  <2>3. \A k \in 1 .. N : TwoTo[k] = 2 * TwoTo[k - 1] BY <1>1, <2>1
  <2>. QED BY <2>2, <2>3 DEF N

\* A power of two is a positive number.
LEMMA TwoToPositive ==
  ASSUME NEW k \in 0 .. 15 * ByteBits
  PROVE  TwoTo[k] \in Nat \ {0}
<1> DEFINE S == {n \in 0 .. 15 * ByteBits : TwoTo[n] \notin Nat \ {0}}
<1>1. SUFFICES ASSUME S # {} PROVE FALSE OBVIOUS
<1>2. S \in SUBSET Nat BY MachineAssumption
<1>3. PICK n \in S : \A i \in S : ~(i < n)
  <2> HIDE DEF S
  <2>. QED BY <1>1, <1>2, LeastElement
<1>4. n # 0 BY TwoToDef
<1>5. n - 1 \in 0 .. 15 * ByteBits /\ n \in 1 .. 15 * ByteBits BY <1>4, MachineAssumption
<1>6. TwoTo[n - 1] \in Nat \ {0} BY <1>3, <1>5
<1>7. TwoTo[n] = 2 * TwoTo[n - 1] BY <1>5, TwoToDef
<1>. QED BY <1>6, <1>7

\* Powers multiply as exponents add.
LEMMA TwoToSum ==
  ASSUME NEW a \in Nat, NEW b \in Nat, a + b \in 0 .. 15 * ByteBits
  PROVE  TwoTo[a + b] = TwoTo[a] * TwoTo[b]
<1> DEFINE S == {n \in 0 .. b : TwoTo[a + n] # TwoTo[a] * TwoTo[n]}
<1>1. SUFFICES ASSUME S # {} PROVE FALSE OBVIOUS
<1>2. S \in SUBSET Nat OBVIOUS
<1>3. PICK n \in S : \A i \in S : ~(i < n)
  <2> HIDE DEF S
  <2>. QED BY <1>1, <1>2, LeastElement
<1>a. \A k \in 0 .. a + b : k \in 0 .. 15 * ByteBits BY MachineAssumption
<1>4. n # 0
  <2>1. TwoTo[a] \in Nat BY <1>a, TwoToPositive
  <2>. QED BY <2>1, TwoToDef
<1>5. n - 1 \in 0 .. b /\ a + n \in 1 .. 15 * ByteBits /\ n \in 1 .. 15 * ByteBits
  BY <1>4, <1>a
<1>6. TwoTo[a + (n - 1)] = TwoTo[a] * TwoTo[n - 1] BY <1>3, <1>5
<1>7. TwoTo[a + n] = 2 * TwoTo[a + (n - 1)] /\ TwoTo[n] = 2 * TwoTo[n - 1]
  <2>1. (a + n) - 1 = a + (n - 1) BY <1>5
  <2>. QED BY <1>5, <2>1, TwoToDef
<1>8. TwoTo[a] \in Nat /\ TwoTo[n - 1] \in Nat
  <2>1. n - 1 \in 0 .. 15 * ByteBits /\ a \in 0 .. 15 * ByteBits BY <1>5, <1>a
  <2>. QED BY <2>1, TwoToPositive
<1>9. TwoTo[a] * (2 * TwoTo[n - 1]) = 2 * (TwoTo[a] * TwoTo[n - 1]) BY <1>8
<1>. QED BY <1>6, <1>7, <1>9

\* A number of bytes has a positive number of values.
LEMMA ValuesPositive ==
  ASSUME NEW n \in 0 .. 15
  PROVE  Values(n) \in Nat \ {0}
<1>1. n * ByteBits \in 0 .. 15 * ByteBits BY MachineAssumption
<1>. QED BY <1>1, TwoToPositive DEF Values

\* The values of two runs of bytes multiply.
LEMMA ValuesSum ==
  ASSUME NEW a \in Nat, NEW b \in Nat, a + b \in 0 .. 15
  PROVE  Values(a + b) = Values(a) * Values(b)
<1>1. a * ByteBits \in Nat /\ b * ByteBits \in Nat BY MachineAssumption
<1>2. (a + b) * ByteBits = a * ByteBits + b * ByteBits BY MachineAssumption
<1>3. (a + b) * ByteBits \in 0 .. 15 * ByteBits BY MachineAssumption
<1>. QED BY <1>1, <1>2, <1>3, TwoToSum DEF Values

\* No bytes have one value.
LEMMA ValuesNone == Values(0) = 1
<1>1. 0 * ByteBits = 0 BY MachineAssumption
<1>. QED BY <1>1, TwoToDef DEF Values

-----------------------------------------------------------------------------
(* Numbers with the same low bytes.                                       *)

\* Two numbers with the same low n bytes.
Agree(x, y, n) == Unsigned(x, n) = Unsigned(y, n)

\* Two numbers have one remainder when they differ by a multiple.
LEMMA ModWitness ==
  ASSUME NEW M \in Nat \ {0}, NEW x \in Int, NEW y \in Int
  PROVE  (x % M) = (y % M) <=> \E q \in Int : x = y + q * M
<1>1. ASSUME (x % M) = (y % M) PROVE \E q \in Int : x = y + q * M
  <2>1. x = M * (x \div M) + (x % M) /\ y = M * (y \div M) + (y % M) OBVIOUS
  <2>2. (x \div M) \in Int /\ (y \div M) \in Int /\ (x % M) \in Int OBVIOUS
  <2> DEFINE q == (x \div M) - (y \div M)
  <2>3. q \in Int BY <2>2
  <2>4. x = y + q * M BY <1>1, <2>1, <2>2
  <2>. QED BY <2>3, <2>4
<1>2. ASSUME NEW q \in Int, x = y + q * M PROVE (x % M) = (y % M)
  <2> DEFINE d == y \div M   r == y % M
  <2>1. y = M * d + r /\ d \in Int /\ r \in 0 .. M - 1 OBVIOUS
  <2> HIDE DEF d, r
  <2>2. x = M * (d + q) + r BY <1>2, <2>1
  <2>3. (M * (d + q) + r) % M = r BY <2>1
  <2>. QED BY <2>2, <2>3 DEF r
<1>. QED BY <1>1, <1>2

\* The low bytes of a number, read unsigned, are below their values.
LEMMA UnsignedRange ==
  ASSUME NEW n \in 0 .. 15, NEW v \in Int
  PROVE  Unsigned(v, n) \in 0 .. Values(n) - 1 /\ Unsigned(v, n) \in Int /\ Unsigned(v, n) \in Nat
<1>1. Values(n) \in Nat \ {0} BY ValuesPositive
<1>2. \A M \in Nat \ {0} : v % M \in 0 .. M - 1 OBVIOUS
<1>. QED BY <1>1, <1>2 DEF Unsigned

\* Two numbers agree in n bytes when they differ by a multiple of their
\* values.
LEMMA AgreeWitness ==
  ASSUME NEW n \in 0 .. 15, NEW x \in Int, NEW y \in Int
  PROVE  Agree(x, y, n) <=> \E q \in Int : x = y + q * Values(n)
BY ValuesPositive, ModWitness DEF Agree, Unsigned

\* Sums agree in the bytes their terms agree in.
LEMMA AgreeSum ==
  ASSUME NEW n \in 0 .. 15, NEW x \in Int, NEW y \in Int, NEW a \in Int, NEW b \in Int,
         Agree(x, a, n), Agree(y, b, n)
  PROVE  Agree(x + y, a + b, n)
<1>1. PICK p \in Int : x = a + p * Values(n) BY AgreeWitness
<1>2. PICK q \in Int : y = b + q * Values(n) BY AgreeWitness
<1>3. Values(n) \in Int BY ValuesPositive
<1> DEFINE V == Values(n)
<1> HIDE DEF V
<1>4. x + y = (a + b) + (p + q) * V BY <1>1, <1>2, <1>3 DEF V
<1>5. p + q \in Int /\ x + y \in Int /\ a + b \in Int OBVIOUS
<1>6. \E k \in Int : x + y = (a + b) + k * V BY <1>4, <1>5
<1>. QED BY <1>5, <1>6, AgreeWitness, SMTT(30) DEF V

\* Differences agree in the bytes their terms agree in.
LEMMA AgreeDifference ==
  ASSUME NEW n \in 0 .. 15, NEW x \in Int, NEW y \in Int, NEW a \in Int, NEW b \in Int,
         Agree(x, a, n), Agree(y, b, n)
  PROVE  Agree(x - y, a - b, n)
<1>1. PICK p \in Int : x = a + p * Values(n) BY AgreeWitness
<1>2. PICK q \in Int : y = b + q * Values(n) BY AgreeWitness
<1>3. Values(n) \in Int BY ValuesPositive
<1> DEFINE V == Values(n)
<1> HIDE DEF V
<1>4. x - y = (a - b) + (p - q) * V BY <1>1, <1>2, <1>3 DEF V
<1>5. p - q \in Int OBVIOUS
<1>6. x - y \in Int /\ a - b \in Int OBVIOUS
<1>. QED BY <1>4, <1>5, <1>6, AgreeWitness DEF V

\* Products with one number agree in the bytes the factors agree in.
LEMMA AgreeProduct ==
  ASSUME NEW n \in 0 .. 15, NEW x \in Int, NEW a \in Int, NEW b \in Int,
         Agree(x, a, n)
  PROVE  Agree(x * b, a * b, n)
<1>1. PICK p \in Int : x = a + p * Values(n) BY AgreeWitness
<1>3. Values(n) \in Int BY ValuesPositive
<1> DEFINE V == Values(n)
<1> HIDE DEF V
<1>4. x * b = (a * b) + (p * b) * V BY <1>1, <1>3 DEF V
<1>5. p * b \in Int /\ x * b \in Int /\ a * b \in Int OBVIOUS
<1>. QED BY <1>4, <1>5, AgreeWitness DEF V

\* The same low bytes are the same fewer low bytes.
LEMMA AgreeFewer ==
  ASSUME NEW k \in 0 .. 15, NEW n \in 0 .. k, NEW x \in Int, NEW y \in Int, Agree(x, y, k)
  PROVE  Agree(x, y, n)
<1>1. PICK q \in Int : x = y + q * Values(k) BY AgreeWitness
<1>2. Values(k) = Values(n) * Values(k - n)
  <2>1. n \in Nat /\ k - n \in Nat /\ n + (k - n) \in 0 .. 15 /\ n + (k - n) = k OBVIOUS
  <2>. QED BY <2>1, ValuesSum
<1>3. n \in 0 .. 15 /\ k - n \in 0 .. 15 OBVIOUS
<1>4. Values(n) \in Int /\ Values(k - n) \in Int BY <1>3, ValuesPositive
<1> DEFINE V == Values(n)   Q == Values(k - n)
<1> HIDE DEF V, Q
<1>5. x = y + (q * Q) * V BY <1>1, <1>2, <1>4 DEF V, Q
<1>6. q * Q \in Int BY <1>4 DEF Q
<1>. QED BY <1>3, <1>5, <1>6, AgreeWitness DEF V

\* A number agrees with its low bytes read unsigned.
LEMMA AgreeUnsigned ==
  ASSUME NEW n \in 0 .. 15, NEW v \in Int
  PROVE  Agree(Unsigned(v, n), v, n)
<1>1. Values(n) \in Nat \ {0} BY ValuesPositive
<1>2. \A M \in Nat \ {0} : (v % M) % M = v % M OBVIOUS
<1>. QED BY <1>1, <1>2 DEF Agree, Unsigned

\* A number that fits the bytes is what they read as.
LEMMA UnsignedSmall ==
  ASSUME NEW n \in 0 .. 15, NEW v \in 0 .. Values(n) - 1
  PROVE  Unsigned(v, n) = v
<1>1. Values(n) \in Nat \ {0} BY ValuesPositive
<1>2. \A M \in Nat \ {0} : \A x \in 0 .. M - 1 : x % M = x OBVIOUS
<1>. QED BY <1>1, <1>2 DEF Unsigned

\* The low bytes read signed are in the signed range and agree with the
\* number.
LEMMA SignedInt ==
  ASSUME NEW n \in 0 .. 15, NEW v \in Int
  PROVE  /\ Signed(v, n) \in Int
         /\ Agree(Signed(v, n), v, n)
         /\ 0 - Values(n) <= 2 * Signed(v, n) /\ 2 * Signed(v, n) < Values(n)
<1>1. Values(n) \in Nat \ {0} BY ValuesPositive
<1>2. Unsigned(v, n) \in 0 .. Values(n) - 1 BY UnsignedRange
<1> DEFINE u == Unsigned(v, n)   V == Values(n)
<1>3. Signed(v, n) = IF 2 * u >= V THEN u - V ELSE u BY DEF Signed
<1>4. Agree(u, v, n) BY AgreeUnsigned
<1> HIDE DEF u, V
<1>5. u \in Int /\ V \in Int BY <1>1, <1>2 DEF u, V
<1>6. Agree(u - V, u, n)
  <2>1. u - V = u + (0 - 1) * V BY <1>5
  <2>2. 0 - 1 \in Int /\ u - V \in Int BY <1>5
  <2>. QED BY <2>1, <2>2, <1>5, AgreeWitness DEF V
<1>7. Agree(u - V, v, n) BY <1>4, <1>6 DEF Agree
<1>. QED BY <1>1, <1>2, <1>3, <1>4, <1>5, <1>7 DEF u, V

\* An extension agrees with the bytes it extends.
LEMMA ExtendInt ==
  ASSUME NEW n \in 0 .. 15, NEW v \in Int, NEW sign \in BOOLEAN
  PROVE  Extend(v, n, sign) \in Int /\ Agree(Extend(v, n, sign), v, n)
BY SignedInt, UnsignedRange, AgreeUnsigned DEF Extend

\* A number in the signed range is what its bytes read as.
LEMMA SignedSmall ==
  ASSUME NEW n \in 0 .. 15, NEW v \in Int, 0 - Values(n) <= 2 * v, 2 * v < Values(n)
  PROVE  Signed(v, n) = v
<1>1. Values(n) \in Nat \ {0} BY ValuesPositive
<1> DEFINE V == Values(n)
<1>2. CASE v >= 0
  <2>1. Unsigned(v, n) = v BY <1>1, <1>2, UnsignedSmall
  <2>. QED BY <1>1, <1>2, <2>1 DEF Signed
<1>3. CASE v < 0
  <2>1. Unsigned(v + V, n) = v + V BY <1>1, <1>3, UnsignedSmall
  <2>2. Agree(v + V, v, n)
    <3>1. v + V = v + 1 * V /\ v + V \in Int /\ 1 \in Int BY <1>1
    <3>. QED BY <3>1, AgreeWitness
  <2>3. Unsigned(v, n) = v + V BY <2>1, <2>2 DEF Agree
  <2>4. 2 * (v + V) >= V BY <1>1
  <2>. QED BY <1>1, <2>3, <2>4 DEF Signed
<1>. QED BY <1>2, <1>3

-----------------------------------------------------------------------------
(* What one instruction does to the machine.                              *)

\* A byte has at least two values.
LEMMA BaseTwo == Base \in Nat /\ Base >= 2
<1>1. 1 \in 1 .. 15 * ByteBits /\ ByteBits \in 1 .. 15 * ByteBits /\ ByteBits - 1 \in 0 .. 15 * ByteBits
  BY MachineAssumption
<1>2. TwoTo[ByteBits] = 2 * TwoTo[ByteBits - 1] BY <1>1, TwoToDef
<1>3. TwoTo[ByteBits - 1] \in Nat \ {0} BY <1>1, TwoToPositive
<1>. QED BY <1>2, <1>3 DEF Base

\* One byte has the values of a byte.
LEMMA ValuesOne == Values(1) = Base
BY MachineAssumption DEF Values, Base

\* More bytes have at least twice the values.
LEMMA ValuesGrow ==
  ASSUME NEW k \in 0 .. 15, NEW n \in 0 .. k
  PROVE  Values(n) <= Values(k) /\ (n < k => 2 * Values(n) <= Values(k))
<1>1. k - n \in 0 .. 15 /\ n \in 0 .. 15 /\ n + (k - n) = k OBVIOUS
<1>2. Values(k) = Values(n) * Values(k - n) BY <1>1, ValuesSum
<1>3. Values(n) \in Nat \ {0} /\ Values(k - n) \in Nat \ {0} BY <1>1, ValuesPositive
<1>4. n < k => Values(k - n) >= 2
  <2>1. ASSUME n < k PROVE Values(k - n) = Base * Values((k - n) - 1) /\ Values((k - n) - 1) \in Nat \ {0}
    <3>1. (k - n) - 1 \in 0 .. 15 /\ 1 + ((k - n) - 1) = k - n BY <2>1
    <3>2. 1 \in Nat /\ (k - n) - 1 \in Nat BY <3>1
    <3>3. Values(1 + ((k - n) - 1)) = Values(1) * Values((k - n) - 1)
      <4>1. 1 + ((k - n) - 1) \in 0 .. 15 BY <1>1, <3>1
      <4>. QED BY <3>2, <4>1, ValuesSum
    <3>. QED BY <3>1, <3>3, ValuesOne, ValuesPositive
  <2>2. \A b, w \in Nat \ {0} : b >= 2 => b * w >= 2 OBVIOUS
  <2>. QED BY <2>1, <2>2, BaseTwo
<1>5. \A v, w \in Nat \ {0} : v <= v * w /\ (w >= 2 => 2 * v <= v * w) OBVIOUS
<1> DEFINE V == Values(n)   Q == Values(k - n)
<1> HIDE DEF V, Q
<1>6. V <= V * Q /\ (Q >= 2 => 2 * V <= V * Q) BY <1>3, <1>5 DEF V, Q
<1>. QED BY <1>2, <1>4, <1>6 DEF V, Q

\* An extended value is the same number at a larger size.
LEMMA ExtendWider ==
  ASSUME NEW k \in 0 .. 15, NEW n \in 0 .. k, NEW v \in Int
  PROVE  /\ Signed(Signed(v, n), k) = Signed(v, n)
         /\ Unsigned(Unsigned(v, n), k) = Unsigned(v, n)
         /\ n < k => Signed(Unsigned(v, n), k) = Unsigned(v, n)
<1>1. Values(n) <= Values(k) /\ (n < k => 2 * Values(n) <= Values(k)) BY ValuesGrow
<1>2. Values(n) \in Nat \ {0} /\ Values(k) \in Nat \ {0} BY ValuesPositive
<1>n. n \in 0 .. 15 OBVIOUS
<1>3. Unsigned(v, n) \in 0 .. Values(n) - 1 BY <1>n, UnsignedRange
<1>4. Signed(v, n) \in Int /\ 0 - Values(n) <= 2 * Signed(v, n) /\ 2 * Signed(v, n) < Values(n)
  BY <1>n, SignedInt
<1>5. Signed(Signed(v, n), k) = Signed(v, n)
  <2>1. 0 - Values(k) <= 2 * Signed(v, n) /\ 2 * Signed(v, n) < Values(k) BY <1>1, <1>2, <1>4
  <2>. QED BY <1>4, <2>1, SignedSmall
<1>6. Unsigned(Unsigned(v, n), k) = Unsigned(v, n)
  <2>1. Unsigned(v, n) \in 0 .. Values(k) - 1 BY <1>1, <1>2, <1>3
  <2>. QED BY <2>1, UnsignedSmall
<1>7. ASSUME n < k PROVE Signed(Unsigned(v, n), k) = Unsigned(v, n)
  <2>1. Unsigned(v, n) \in Int /\ 0 - Values(k) <= 2 * Unsigned(v, n) /\ 2 * Unsigned(v, n) < Values(k)
    BY <1>1, <1>2, <1>3, <1>7
  <2>. QED BY <2>1, SignedSmall
<1>. QED BY <1>5, <1>6, <1>7

Sizes == {1, 2, 4, 8}
Word == 0 .. Values(8) - 1
Flags == [valid : BOOLEAN, x : Int, y : Int, n : Sizes]
Machines(R) == [reg : [R -> Word], mem : [0 .. Memory - 1 -> 0 .. Base - 1], flags : Flags,
                left : BOOLEAN, ok : BOOLEAN]

\* Only registers of Q differ, and the flags.
Keeps(R, m, m2, Q) ==
  /\ m2 \in Machines(R) /\ m2.mem = m.mem /\ m2.left = m.left
  /\ \A r \in R \ Q : m2.reg[r] = m.reg[r]
Sets(R, m, m2, d, n, v) == Keeps(R, m, m2, {d}) /\ Agree(m2.reg[d], v, n)

\* What writing a register does to the registers: that one changes, in its
\* low bytes.
LEMMA PutSets ==
  ASSUME NEW R, Zero \notin R, NEW reg \in [R -> Word], NEW d \in R, NEW n \in Sizes, NEW v \in Int
  PROVE  /\ Put(reg, d, n, v) \in [R -> Word]
         /\ \A r \in R \ {d} : Put(reg, d, n, v)[r] = reg[r]
         /\ Agree(Put(reg, d, n, v)[d], v, n)
         /\ n = 4 => Put(reg, d, n, v)[d] = Unsigned(v, 4)
<1> DEFINE old == reg[d]
           w == CASE n = 8 -> Unsigned(v, 8) [] n = 4 -> Unsigned(v, 4)
                  [] OTHER -> old - Unsigned(old, n) + Unsigned(v, n)
<1>1. Put(reg, d, n, v) = [reg EXCEPT ![d] = w]
  BY DEF Put
<1>2. n \in 0 .. 15 /\ 8 \in 0 .. 15 /\ 4 \in 0 .. 15 /\ n \in 0 .. 8 /\ 4 \in 0 .. 8 BY DEF Sizes
<1>3. Values(8) \in Nat \ {0} /\ Values(4) \in Nat \ {0} /\ Values(n) \in Nat \ {0} BY <1>2, ValuesPositive
<1>4. old \in 0 .. Values(8) - 1 BY DEF Word
<1>5. w \in Word /\ Agree(w, v, n)
  <2>1. CASE n = 8
    <3>1. w = Unsigned(v, 8) BY <2>1
    <3>. QED BY <3>1, <2>1, <1>2, UnsignedRange, AgreeUnsigned DEF Word
  <2>2. CASE n = 4
    <3>1. w = Unsigned(v, 4) BY <2>2
    <3>2. Unsigned(v, 4) \in 0 .. Values(4) - 1 BY <1>2, UnsignedRange
    <3>3. Values(4) <= Values(8) BY <1>2, ValuesGrow
    <3>4. Agree(w, v, 4) BY <3>1, <1>2, AgreeUnsigned
    <3>. QED BY <3>1, <3>2, <3>3, <3>4, <2>2, <1>3 DEF Word
  <2>3. CASE n \in {1, 2}
    <3>1. w = (old - Unsigned(old, n)) + Unsigned(v, n) BY <2>3
    <3>o. old \in Int /\ n \in 0 .. 15 BY <1>2, <1>3, <1>4
    <3>2. PICK q \in Int : old = Unsigned(old, n) + q * Values(n)
      <4> HIDE DEF old, w
      <4>1. Agree(old, Unsigned(old, n), n) BY <3>o, AgreeUnsigned DEF Agree
      <4>2. Unsigned(old, n) \in Int BY <3>o, UnsignedRange
      <4>. QED BY <3>o, <4>1, <4>2, AgreeWitness
    <3>3. Unsigned(old, n) \in 0 .. Values(n) - 1 /\ Unsigned(v, n) \in 0 .. Values(n) - 1
      <4> HIDE DEF old, w
      <4>. QED BY <3>o, UnsignedRange
    <3>4. 8 - n \in 0 .. 15 /\ n + (8 - n) = 8 /\ n \in Nat /\ 8 - n \in Nat BY <1>2
    <3>5. Values(8) = Values(n) * Values(8 - n) /\ Values(8 - n) \in Nat \ {0}
      <4> HIDE DEF old, w
      <4>1. n + (8 - n) \in 0 .. 15 BY <3>4
      <4>2. Values(n + (8 - n)) = Values(n) * Values(8 - n) BY <3>4, <4>1, ValuesSum
      <4>. QED BY <4>2, <3>4, ValuesPositive
    <3>6. w \in Word
      <4>1. \A V, K \in Nat \ {0} : \A x, y \in 0 .. V - 1 : \A p \in Int :
              x + p * V \in 0 .. V * K - 1 => (p * V) + y \in 0 .. V * K - 1
        <5> TAKE V, K \in Nat \ {0}
        <5> TAKE x, y \in 0 .. V - 1
        <5> TAKE p \in Int
        <5> HAVE x + p * V \in 0 .. V * K - 1
        <5>1. p >= 0
          <6>1. ASSUME p <= 0 - 1 PROVE FALSE
            <7>1. p * V <= 0 - V BY <6>1
            <7>. QED BY <7>1
          <6>. QED BY <6>1
        <5>2. p <= K - 1
          <6>1. ASSUME p >= K PROVE FALSE
            <7>1. p * V >= V * K BY <6>1
            <7>. QED BY <7>1
          <6>. QED BY <6>1
        <5>3. p * V >= 0 BY <5>1
        <5>4. p * V <= V * K - V BY <5>2
        <5>. QED BY <5>3, <5>4
      <4> DEFINE V == Values(n)   K == Values(8 - n)   x == Unsigned(old, n)   y == Unsigned(v, n)
      <4> HIDE DEF V, K, x, y, w
      <4>2. x + q * V \in 0 .. V * K - 1 BY <1>4, <3>2, <3>5 DEF V, K, x
      <4>3. (q * V) + y \in 0 .. V * K - 1 BY <4>1, <4>2, <3>3, <3>5, <1>3 DEF V, K, x, y
      <4>4. w = (q * V) + y
        <5>1. w = (old - x) + y BY <3>1 DEF x, y
        <5>2. old = x + q * V BY <3>2 DEF x, V
        <5>3. x \in Int /\ y \in Int /\ V \in Int BY <3>3, <1>3 DEF x, y, V
        <5>. QED BY <5>1, <5>2, <5>3
      <4>. QED BY <4>3, <4>4, <3>5 DEF Word, V, K
    <3>7. Agree(w, v, n)
      <4> DEFINE x == Unsigned(old, n)   y == Unsigned(v, n)
      <4>1. x \in Int /\ y \in Int /\ old \in Int /\ old - x \in Int BY <3>3, <1>4
      <4>2. Agree(x, old, n) /\ Agree(y, v, n) BY <1>2, <1>4, AgreeUnsigned
      <4>3. Agree(old - x, old - old, n)
        <5>1. Agree(old, old, n) BY DEF Agree
        <5> HIDE DEF x, old
        <5>. QED BY <4>1, <4>2, <5>1, <1>2, AgreeDifference
      <4> HIDE DEF x, y, w, old
      <4>4. Agree((old - x) + y, (old - old) + v, n) BY <4>1, <4>2, <4>3, <1>2, AgreeSum
      <4>5. (old - old) + v = v BY <4>1
      <4>. QED BY <4>4, <4>5, <3>1 DEF x, y
    <3>. QED BY <3>6, <3>7
  <2>. QED BY <2>1, <2>2, <2>3 DEF Sizes
<1>. QED
  <2>1. n = 4 => w = Unsigned(v, 4) OBVIOUS
  <2> HIDE DEF w
  <2>. QED BY <1>1, <1>5, <2>1

\* What is kept by two runs is kept by one after the other.
LEMMA KeepsTrans ==
  ASSUME NEW R, NEW m, NEW m1, NEW m2, NEW V, NEW Q, Keeps(R, m, m1, V), Keeps(R, m1, m2, Q)
  PROVE  Keeps(R, m, m2, V \union Q)
BY DEF Keeps

\* Registers that may differ can be more than do.
LEMMA KeepsMore ==
  ASSUME NEW R, NEW m, NEW m2, NEW V, NEW Q, V \subseteq Q, Keeps(R, m, m2, V)
  PROVE  Keeps(R, m, m2, Q)
BY DEF Keeps

Alu == {"mov", "add", "sub", "mul", "shl", "shr", "insert"}

\* What one instruction on registers does to the machine (Exec).
LEMMA ExecAlu ==
  ASSUME NEW R, Zero \notin R, NEW m \in Machines(R), NEW op \in Alu, NEW d \in R, NEW n \in Sizes,
         NEW a, NEW b, NEW c \in BOOLEAN,
         Result(Ins(op, d, n, a, b, c), Operand(m, a), Operand(m, b)) \in Int
  PROVE  LET v == Result(Ins(op, d, n, a, b, c), Operand(m, a), Operand(m, b))
         IN  /\ Sets(R, m, Exec(m, Ins(op, d, n, a, b, c)), d, n, v)
             /\ n = 4 => Exec(m, Ins(op, d, n, a, b, c)).reg[d] = Unsigned(v, 4)
<1> DEFINE i == Ins(op, d, n, a, b, c)
           v == Result(i, Operand(m, a), Operand(m, b))
           x == Operand(m, a)
           y == Operand(m, b)
           ok == m.ok /\ Defined(m, a)
<1>1. i.op = op /\ i.d = d /\ i.n = n /\ i.a = a /\ i.b = b /\ i.clobbers = c BY DEF Ins
<1>2. Exec(m, i) = [m EXCEPT !.ok = m.ok /\ Defined(m, a), !.reg = Put(m.reg, d, n, v),
                             !.flags = IF c THEN NoFlags ELSE m.flags]
  <2> HIDE DEF i
  <2>1. i.op \notin {"bad", "cmp", "leave", "store"} BY <1>1 DEF Alu
  <2>. QED BY <1>1, <2>1 DEF Exec, Effect
<1>3. NoFlags \in Flags BY DEF NoFlags, Flags, Sizes
<1>4. m.reg \in [R -> Word] /\ m.flags \in Flags BY DEF Machines
<1>5. ok \in BOOLEAN OBVIOUS
<1> HIDE DEF i, v, ok
<1>6. /\ Put(m.reg, d, n, v) \in [R -> Word]
      /\ \A r \in R \ {d} : Put(m.reg, d, n, v)[r] = m.reg[r]
      /\ Agree(Put(m.reg, d, n, v)[d], v, n)
      /\ n = 4 => Put(m.reg, d, n, v)[d] = Unsigned(v, 4)
  <2>1. v \in Int BY DEF v, i
  <2>. QED BY <1>4, <2>1, PutSets
<1> DEFINE p == Put(m.reg, d, n, v)   f == IF c THEN NoFlags ELSE m.flags
<1>7. f \in Flags BY <1>3, <1>4
<1>8. Exec(m, i) = [m EXCEPT !.ok = ok, !.reg = p, !.flags = f] BY <1>2 DEF ok
<1> HIDE DEF p, f
<1>9. /\ Exec(m, i) \in Machines(R) /\ Exec(m, i).reg = p
      /\ Exec(m, i).mem = m.mem /\ Exec(m, i).left = m.left
  BY <1>5, <1>6, <1>7, <1>8 DEF Machines, p
<1>10. Sets(R, m, Exec(m, i), d, n, v)
  BY <1>6, <1>9 DEF Sets, Keeps, p
<1>11. n = 4 => Exec(m, i).reg[d] = Unsigned(v, 4)
  BY <1>6, <1>9 DEF p
<1>. QED BY <1>10, <1>11 DEF v, i

\* What the operands of an instruction read from the machine.
LEMMA Operands ==
  ASSUME NEW R, Zero \notin R, NEW m \in Machines(R)
  PROVE  /\ \A v : Operand(m, Imm(v)) = v
         /\ \A r \in R : \A n \in Sizes : Operand(m, Low(r, n)) = Unsigned(m.reg[r], n)
         /\ \A r \in R : \A n \in Sizes : \A s \in BOOLEAN :
              Operand(m, Extended(r, n, s)) = Extend(m.reg[r], n, s)
         /\ \A r \in R : m.reg[r] \in Int /\ m.reg[r] \in 0 .. Values(8) - 1
<1>1. \A r \in R : m.reg[r] \in Int /\ m.reg[r] \in 0 .. Values(8) - 1
  BY ValuesPositive DEF Machines, Word
<1>2. ASSUME NEW v PROVE Operand(m, Imm(v)) = v
  BY DEF Operand, Imm, Simple
<1>3. ASSUME NEW r \in R, NEW n \in Sizes, NEW s \in BOOLEAN
      PROVE  Operand(m, Extended(r, n, s)) = Extend(m.reg[r], n, s)
  <2>1. Extend(m.reg[r], n, s) \in Int
    <3>1. n \in 0 .. 15 BY DEF Sizes
    <3>. QED BY <3>1, <1>1, ExtendInt
  <2>2. Operand(m, Extended(r, n, s)) = Extend(m.reg[r], n, s) * 1
    BY DEF Operand, Extended, Scaled, Simple, RegValue
  <2>. QED BY <2>1, <2>2
<1>4. ASSUME NEW r \in R, NEW n \in Sizes
      PROVE  Operand(m, Low(r, n)) = Unsigned(m.reg[r], n)
  <2>1. Unsigned(m.reg[r], n) \in Int
    <3>1. n \in 0 .. 15 BY DEF Sizes
    <3>. QED BY <3>1, <1>1, UnsignedRange
  <2>2. Operand(m, Low(r, n)) = Unsigned(m.reg[r], n) * 1
    BY DEF Operand, Low, Scaled, Simple, RegValue, Extend
  <2>. QED BY <2>1, <2>2
<1>. QED BY <1>1, <1>2, <1>3, <1>4

-----------------------------------------------------------------------------
(* Runs of code.                                                          *)

\* One more instruction, unless control has left.
OneMore(s, i) == IF s.left THEN s ELSE Exec(s, i)
Trace(m, code) ==
  CHOOSE after : after = [k \in 0 .. Len(code) |->
                            IF k = 0 THEN m ELSE OneMore(after[k - 1], code[k])]

\* A run goes through the machines of its trace; the recursive function
\* exists.
LEMMA TraceDef ==
  ASSUME NEW m, NEW code, Len(code) \in Nat
  PROVE  /\ Run(m, code) = Trace(m, code)[Len(code)]
         /\ Trace(m, code)[0] = m
         /\ \A k \in 1 .. Len(code) : Trace(m, code)[k] = OneMore(Trace(m, code)[k - 1], code[k])
<1> DEFINE N == Len(code)
           P(n) == \E f : f = [k \in 0 .. n |-> IF k = 0 THEN m ELSE OneMore(f[k - 1], code[k])]
           S == {n \in 0 .. N : ~P(n)}
           after == CHOOSE after : after = [k \in 0 .. N |-> IF k = 0 THEN m ELSE OneMore(after[k - 1], code[k])]
<1>1. N \in Nat OBVIOUS
<1>2. P(N)
  <2>1. SUFFICES ASSUME S # {} PROVE FALSE
    <3>1. N \in 0 .. N BY <1>1
    <3>. QED BY <3>1
  <2>2. S \in SUBSET Nat BY <1>1
  <2>3. PICK n \in S : \A k \in S : ~(k < n)
    <3> HIDE DEF S
    <3>. QED BY <2>1, <2>2, LeastElement
  <2>4. n \in 0 .. N /\ ~P(n) OBVIOUS
  <2>5. n # 0
    <3> DEFINE f == [k \in 0 .. 0 |-> m]
    <3>1. f = [k \in 0 .. 0 |-> IF k = 0 THEN m ELSE OneMore(f[k - 1], code[k])] OBVIOUS
    <3>2. P(0) BY <3>1
    <3>. QED BY <2>4, <3>2
  <2>6. P(n - 1)
    <3>1. n - 1 \in 0 .. N /\ n - 1 < n BY <1>1, <2>4, <2>5
    <3>2. n - 1 \notin S
      <4> HIDE DEF S, P
      <4>. QED BY <2>3, <3>1
    <3>. QED BY <3>1, <3>2
  <2>7. PICK f : f = [k \in 0 .. n - 1 |-> IF k = 0 THEN m ELSE OneMore(f[k - 1], code[k])] BY <2>6
  <2> DEFINE g == [k \in 0 .. n |-> IF k = n THEN OneMore(f[n - 1], code[n]) ELSE f[k]]
  <2>8. \A k \in 0 .. n : g[k] = IF k = 0 THEN m ELSE OneMore(g[k - 1], code[k])
    BY <1>1, <2>4, <2>5, <2>7
  <2>9. g = [k \in 0 .. n |-> IF k = 0 THEN m ELSE OneMore(g[k - 1], code[k])]
    BY <2>8
  <2>10. P(n) BY <2>9
  <2>. QED BY <2>4, <2>10
<1>3. after = [k \in 0 .. N |-> IF k = 0 THEN m ELSE OneMore(after[k - 1], code[k])] BY <1>2
<1>4. Trace(m, code) = after BY DEF Trace
<1>5. Run(m, code) = after[N] BY DEF Run, OneMore
<1>. QED
  <2> HIDE DEF after, N
  <2>1. \A k \in 0 .. N : after[k] = IF k = 0 THEN m ELSE OneMore(after[k - 1], code[k]) BY <1>1, <1>3
  <2>2. after[0] = m BY <1>1, <2>1
  <2>3. \A k \in 1 .. N : after[k] = OneMore(after[k - 1], code[k]) BY <1>1, <2>1
  <2>. QED BY <1>4, <1>5, <2>2, <2>3 DEF N

IsCode(code) == \E S : code \in Seq(S)

\* No instructions leave the machine as it is.
LEMMA RunNone == ASSUME NEW m PROVE Run(m, << >>) = m
<1>1. Len(<< >>) = 0 OBVIOUS
<1>. QED BY <1>1, TraceDef

\* One instruction is executed, unless control has left.
LEMMA RunOne == ASSUME NEW m, NEW i PROVE Run(m, <<i>>) = OneMore(m, i)
<1>1. Len(<<i>>) = 1 /\ <<i>>[1] = i OBVIOUS
<1>2. 1 \in 1 .. Len(<<i>>) /\ 1 - 1 = 0 /\ Len(<<i>>) \in Nat BY <1>1
<1>. QED BY <1>1, <1>2, TraceDef

\* Two pieces of code run one after the other.
LEMMA RunConcat ==
  ASSUME NEW m, NEW c1, NEW c2, IsCode(c1), IsCode(c2)
  PROVE  Run(m, c1 \o c2) = Run(Run(m, c1), c2)
<1>1. PICK S1 : c1 \in Seq(S1) BY DEF IsCode
<1>2. PICK S2 : c2 \in Seq(S2) BY DEF IsCode
<1> DEFINE S == S1 \union S2   M == Len(c1)   N == Len(c2)   both == c1 \o c2
<1>3. c1 \in Seq(S) /\ c2 \in Seq(S) BY <1>1, <1>2
<1>4. M \in Nat /\ N \in Nat /\ both \in Seq(S) /\ Len(both) = M + N BY <1>3
<1>5. \A k \in 1 .. M : both[k] = c1[k] BY <1>3
<1>6. \A k \in 1 .. N : both[M + k] = c2[k] BY <1>3
<1> DEFINE t == Trace(m, both)   t1 == Trace(m, c1)   t2 == Trace(Run(m, c1), c2)
<1> HIDE DEF S, M, N, both, t, t1, t2
<1>7. Run(m, both) = t[M + N] /\ t[0] = m /\ \A k \in 1 .. M + N : t[k] = OneMore(t[k - 1], both[k])
  BY <1>4, TraceDef DEF t
<1>8. Run(m, c1) = t1[M] /\ t1[0] = m /\ \A k \in 1 .. M : t1[k] = OneMore(t1[k - 1], c1[k])
  BY <1>4, TraceDef DEF t1, M
<1>9. Run(Run(m, c1), c2) = t2[N] /\ t2[0] = Run(m, c1) /\ \A k \in 1 .. N : t2[k] = OneMore(t2[k - 1], c2[k])
  BY <1>4, TraceDef DEF t2, N
<1>10. \A k \in 0 .. M : t[k] = t1[k]
  <2> DEFINE Odd == {k \in 0 .. M : t[k] # t1[k]}
  <2>1. SUFFICES ASSUME Odd # {} PROVE FALSE OBVIOUS
  <2>2. Odd \in SUBSET Nat BY <1>4
  <2>3. PICK n \in Odd : \A k \in Odd : ~(k < n)
    <3> HIDE DEF Odd
    <3>. QED BY <2>1, <2>2, LeastElement
  <2>4. n # 0 BY <1>7, <1>8
  <2>5. n \in 1 .. M /\ n \in 1 .. M + N /\ n - 1 \in 0 .. M BY <1>4, <2>4
  <2>6. t[n - 1] = t1[n - 1] BY <2>3, <2>5
  <2>. QED BY <1>5, <1>7, <1>8, <2>5, <2>6
<1>11. \A k \in 0 .. N : t[M + k] = t2[k]
  <2> DEFINE Odd == {k \in 0 .. N : t[M + k] # t2[k]}
  <2>1. SUFFICES ASSUME Odd # {} PROVE FALSE OBVIOUS
  <2>2. Odd \in SUBSET Nat BY <1>4
  <2>3. PICK n \in Odd : \A k \in Odd : ~(k < n)
    <3> HIDE DEF Odd
    <3>. QED BY <2>1, <2>2, LeastElement
  <2>4. n # 0
    <3>1. M \in 0 .. M /\ M + 0 = M BY <1>4
    <3>. QED BY <1>8, <1>9, <1>10, <3>1
  <2>5. n \in 1 .. N /\ M + n \in 1 .. M + N /\ n - 1 \in 0 .. N /\ (M + n) - 1 = M + (n - 1) BY <1>4, <2>4
  <2>6. t[M + (n - 1)] = t2[n - 1] BY <2>3, <2>5
  <2>7. t[M + n] = OneMore(t[M + (n - 1)], both[M + n])
    <3>1. t[M + n] = OneMore(t[(M + n) - 1], both[M + n]) BY <1>7, <2>5
    <3>. QED BY <2>5, <3>1
  <2>8. t2[n] = OneMore(t2[n - 1], c2[n]) BY <1>9, <2>5
  <2>. QED BY <1>6, <2>5, <2>6, <2>7, <2>8
<1>12. N \in 0 .. N BY <1>4
<1>. QED BY <1>7, <1>9, <1>11, <1>12 DEF both

\* No instructions are code.
LEMMA CodeNone == IsCode(<< >>)
<1>1. << >> \in Seq({}) OBVIOUS
<1>. QED BY <1>1 DEF IsCode

\* One instruction is code.
LEMMA CodeOne == ASSUME NEW i PROVE IsCode(<<i>>)
<1>1. <<i>> \in Seq({i}) OBVIOUS
<1>. QED BY <1>1 DEF IsCode

\* Two pieces of code are code.
LEMMA CodeConcat == ASSUME NEW c1, NEW c2, IsCode(c1), IsCode(c2) PROVE IsCode(c1 \o c2)
<1>1. PICK S1 : c1 \in Seq(S1) BY DEF IsCode
<1>2. PICK S2 : c2 \in Seq(S2) BY DEF IsCode
<1>3. c1 \in Seq(S1 \union S2) /\ c2 \in Seq(S1 \union S2) BY <1>1, <1>2
<1>4. c1 \o c2 \in Seq(S1 \union S2) BY <1>3
<1>. QED BY <1>4 DEF IsCode

\* The run of one instruction, when control has not left.
LEMMA RunSingle ==
  ASSUME NEW m, ~m.left, NEW i
  PROVE  Run(m, <<i>>) = Exec(m, i) /\ IsCode(<<i>>)
BY RunOne, CodeOne DEF OneMore

\* The code changes registers of Q only, and maybe the flags.
Prepares(S, m, code, Q) == IsCode(code) /\ Keeps(S, m, Run(m, code), Q)
\* It does, and the low n bytes of register d are then those of v.
Computes(S, m, code, Q, d, n, v) ==
  /\ Prepares(S, m, code, Q \union {d})
  /\ Agree(Run(m, code).reg[d], v, n)
  /\ n = 4 => Run(m, code).reg[d] = Unsigned(v, 4)

\* A move gives the destination what its operand reads.
LEMMA RunMov ==
  ASSUME NEW S, Zero \notin S, NEW m \in Machines(S), ~m.left, NEW d \in S, NEW n \in Sizes,
         NEW a, NEW b, NEW c \in BOOLEAN, NEW v \in Int, Operand(m, a) \in Int, Agree(Operand(m, a), v, n)
  PROVE  Computes(S, m, <<Ins("mov", d, n, a, b, c)>>, {}, d, n, v)
<1> DEFINE i == Ins("mov", d, n, a, b, c)
<1>1. Result(i, Operand(m, a), Operand(m, b)) = Operand(m, a) BY DEF Result, Ins
<1>2. "mov" \in Alu BY DEF Alu
<1>3. Sets(S, m, Exec(m, i), d, n, Operand(m, a)) /\ (n = 4 => Exec(m, i).reg[d] = Unsigned(Operand(m, a), 4))
  BY <1>1, <1>2, ExecAlu
<1>4. Run(m, <<i>>) = Exec(m, i) /\ IsCode(<<i>>) BY RunSingle
<1>5. {} \union {d} = {d} OBVIOUS
<1>. QED BY <1>3, <1>4, <1>5 DEF Sets, Agree, Computes, Prepares

\* A sum, difference or product gives the destination the operands' result.
LEMMA RunOp ==
  ASSUME NEW S, Zero \notin S, NEW m \in Machines(S), ~m.left, NEW d \in S, NEW n \in Sizes,
         NEW op \in {"add", "sub", "mul"},
         NEW a, NEW b, NEW c \in BOOLEAN, NEW v \in Int, NEW x \in Int, NEW y \in Int,
         Operand(m, a) = x, Operand(m, b) = y,
         Agree(CASE op = "add" -> x + y [] op = "sub" -> x - y [] op = "mul" -> x * y, v, n)
  PROVE  Computes(S, m, <<Ins(op, d, n, a, b, c)>>, {}, d, n, v)
<1> DEFINE i == Ins(op, d, n, a, b, c)
           u == CASE op = "add" -> x + y [] op = "sub" -> x - y [] op = "mul" -> x * y
<1>0. u \in Int /\ Agree(u, v, n) OBVIOUS
<1>1. Result(i, Operand(m, a), Operand(m, b)) = u BY DEF Result, Ins
<1>2. op \in Alu BY DEF Alu
<1> HIDE DEF u
<1>3. Sets(S, m, Exec(m, i), d, n, u) /\ (n = 4 => Exec(m, i).reg[d] = Unsigned(u, 4))
  BY <1>0, <1>1, <1>2, ExecAlu
<1>4. Run(m, <<i>>) = Exec(m, i) /\ IsCode(<<i>>) BY RunSingle
<1>5. {} \union {d} = {d} OBVIOUS
<1>. QED BY <1>0, <1>3, <1>4, <1>5 DEF Sets, Agree, Computes, Prepares

\* No code prepares nothing.
LEMMA PreparesNone == ASSUME NEW S, NEW m \in Machines(S), NEW Q PROVE Prepares(S, m, << >>, Q)
BY RunNone, CodeNone DEF Prepares, Keeps

\* Two preparations, one after the other.
LEMMA PreparesThen ==
  ASSUME NEW S, NEW m, NEW c1, NEW c2, NEW V, NEW Q, NEW U, Prepares(S, m, c1, V),
         Prepares(S, Run(m, c1), c2, Q), V \subseteq U, Q \subseteq U
  PROVE  Prepares(S, m, c1 \o c2, U)
<1>1. Run(m, c1 \o c2) = Run(Run(m, c1), c2) /\ IsCode(c1 \o c2) BY RunConcat, CodeConcat DEF Prepares
<1>2. Keeps(S, m, Run(Run(m, c1), c2), U) BY DEF Prepares, Keeps
<1>. QED BY <1>1, <1>2 DEF Prepares

\* What is computed after a preparation is computed by both.
LEMMA ComputesThen ==
  ASSUME NEW S, NEW m, NEW c1, NEW c2, NEW V, NEW Q, NEW U, NEW d, NEW n, NEW v, Prepares(S, m, c1, V),
         Computes(S, Run(m, c1), c2, Q, d, n, v), V \subseteq U \union {d}, Q \subseteq U \union {d}
  PROVE  Computes(S, m, c1 \o c2, U, d, n, v)
<1>1. Run(m, c1 \o c2) = Run(Run(m, c1), c2) BY RunConcat DEF Prepares, Computes
<1>2. Prepares(S, m, c1 \o c2, U \union {d})
  <2>1. Prepares(S, Run(m, c1), c2, Q \union {d}) BY DEF Computes
  <2>2. Q \union {d} \subseteq U \union {d} OBVIOUS
  <2>. QED BY <2>1, <2>2, PreparesThen
<1>. QED BY <1>1, <1>2 DEF Computes

-----------------------------------------------------------------------------
(* Code that reads and writes the memory.                                 *)

\* Any instruction on registers.
LEMMA RunAlu ==
  ASSUME NEW S, Zero \notin S, NEW m \in Machines(S), ~m.left, NEW d \in S, NEW n \in Sizes,
         NEW op \in Alu, NEW a, NEW b, NEW c \in BOOLEAN, NEW v \in Int, NEW u \in Int,
         Result(Ins(op, d, n, a, b, c), Operand(m, a), Operand(m, b)) = u, Agree(u, v, n)
  PROVE  Computes(S, m, <<Ins(op, d, n, a, b, c)>>, {}, d, n, v)
<1> DEFINE i == Ins(op, d, n, a, b, c)
<1>3. Sets(S, m, Exec(m, i), d, n, u) /\ (n = 4 => Exec(m, i).reg[d] = Unsigned(u, 4))
  BY ExecAlu
<1>4. Run(m, <<i>>) = Exec(m, i) /\ IsCode(<<i>>) BY RunSingle
<1>5. {} \union {d} = {d} OBVIOUS
<1>. QED BY <1>3, <1>4, <1>5 DEF Sets, Agree, Computes, Prepares

\* Two instructions are one followed by the other.
LEMMA PairCode == ASSUME NEW i, NEW j PROVE <<i, j>> = <<i>> \o <<j>>
<1> DEFINE S == {i, j}   p == <<i>>   q == <<j>>   s == <<i, j>>
<1>1. p \in Seq(S) /\ q \in Seq(S) /\ s \in Seq(S) OBVIOUS
<1>2. Len(p) = 1 /\ p[1] = i /\ Len(q) = 1 /\ q[1] = j /\ Len(s) = 2 /\ s[1] = i /\ s[2] = j OBVIOUS
<1> HIDE DEF p, q, s, S
<1>3. p \o q \in Seq(S) /\ Len(p \o q) = 2 /\ (p \o q)[1] = i /\ (p \o q)[2] = j
  <2>1. p \o q \in Seq(S) /\ Len(p \o q) = Len(p) + Len(q) BY <1>1
  <2>2. \A k \in 1 .. Len(p) : (p \o q)[k] = p[k] BY <1>1
  <2>3. \A k \in 1 .. Len(q) : (p \o q)[Len(p) + k] = q[k] BY <1>1
  <2>4. (p \o q)[Len(p) + 1] = q[1] BY <1>2, <2>3
  <2>. QED BY <1>2, <2>1, <2>2, <2>4
<1>4. \A k \in 1 .. 2 : (p \o q)[k] = s[k] BY <1>2, <1>3
<1>5. p \o q = s BY <1>1, <1>2, <1>3, <1>4
<1>. QED BY <1>5 DEF p, q, s

\* Memory.
BytesIn(mem, at, n) ==
  LET last[k \in 0 .. n] == IF k = 0 THEN 0 ELSE mem[at + n - k] + Base * last[k - 1]
  IN  last[n]

\* The bytes a load reads, as a function of the memory alone.
LEMMA BytesOf == \A m, at, n : Bytes(m, at, n) = BytesIn(m.mem, at, n)
BY DEF Bytes, BytesIn

\* The bytes of the memory, read together, are a number.
LEMMA BytesInt ==
  ASSUME NEW mem \in [0 .. Memory - 1 -> 0 .. Base - 1], NEW n \in Nat, NEW at \in Nat, at + n <= Memory
  PROVE  BytesIn(mem, at, n) \in Int
<1> DEFINE P(j) == \E f : f = [k \in 0 .. j |-> IF k = 0 THEN 0 ELSE mem[at + n - k] + Base * f[k - 1]]
           S == {j \in 0 .. n : ~P(j)}
           last == CHOOSE last : last = [k \in 0 .. n |-> IF k = 0 THEN 0 ELSE mem[at + n - k] + Base * last[k - 1]]
<1>2. P(n)
  <2>1. SUFFICES ASSUME S # {} PROVE FALSE
    <3>1. n \in 0 .. n OBVIOUS
    <3>. QED BY <3>1
  <2>2. S \in SUBSET Nat OBVIOUS
  <2>3. PICK j \in S : \A k \in S : ~(k < j)
    <3> HIDE DEF S
    <3>. QED BY <2>1, <2>2, LeastElement
  <2>4. j \in 0 .. n /\ ~P(j) OBVIOUS
  <2>5. j # 0
    <3> DEFINE f == [k \in 0 .. 0 |-> 0]
    <3>1. f = [k \in 0 .. 0 |-> IF k = 0 THEN 0 ELSE mem[at + n - k] + Base * f[k - 1]] OBVIOUS
    <3>2. P(0) BY <3>1
    <3>. QED BY <2>4, <3>2
  <2>6. P(j - 1)
    <3>1. j - 1 \in 0 .. n /\ j - 1 < j BY <2>4, <2>5
    <3>2. j - 1 \notin S
      <4> HIDE DEF S, P
      <4>. QED BY <2>3, <3>1
    <3>. QED BY <3>1, <3>2
  <2>7. PICK f : f = [k \in 0 .. j - 1 |-> IF k = 0 THEN 0 ELSE mem[at + n - k] + Base * f[k - 1]] BY <2>6
  <2> DEFINE g == [k \in 0 .. j |-> IF k = j THEN mem[at + n - j] + Base * f[j - 1] ELSE f[k]]
  <2>8. \A k \in 0 .. j : g[k] = IF k = 0 THEN 0 ELSE mem[at + n - k] + Base * g[k - 1]
    BY <2>4, <2>5, <2>7
  <2>9. g = [k \in 0 .. j |-> IF k = 0 THEN 0 ELSE mem[at + n - k] + Base * g[k - 1]]
    BY <2>8
  <2>10. P(j) BY <2>9
  <2>. QED BY <2>4, <2>10
<1>3. last = [k \in 0 .. n |-> IF k = 0 THEN 0 ELSE mem[at + n - k] + Base * last[k - 1]] BY <1>2
<1>5. BytesIn(mem, at, n) = last[n] BY DEF BytesIn
<1> HIDE DEF last
<1>6. \A k \in 0 .. n : last[k] = IF k = 0 THEN 0 ELSE mem[at + n - k] + Base * last[k - 1] BY <1>3
<1>7. \A k \in 0 .. n : last[k] \in Int
  <2> DEFINE Odd == {k \in 0 .. n : last[k] \notin Int}
  <2>1. SUFFICES ASSUME Odd # {} PROVE FALSE OBVIOUS
  <2>2. Odd \in SUBSET Nat OBVIOUS
  <2>3. PICK j \in Odd : \A k \in Odd : ~(k < j)
    <3> HIDE DEF Odd
    <3>. QED BY <2>1, <2>2, LeastElement
  <2>4. j \in 1 .. n /\ last[j - 1] \in Int BY <1>6, <2>3
  <2>5. at + n - j \in 0 .. Memory - 1 BY <2>4, MachineAssumption
  <2>6. mem[at + n - j] \in Int /\ Base \in Int BY <2>5, BaseTwo
  <2>7. last[j] = mem[at + n - j] + Base * last[j - 1] BY <1>6, <2>4
  <2>. QED BY <2>3, <2>4, <2>6, <2>7
<1>. QED BY <1>5, <1>7

\* The code leaves memory mem, and changes registers of Q only.
Leaves(S, m, code, Q, mem) ==
  /\ IsCode(code) /\ Run(m, code) \in Machines(S)
  /\ Run(m, code).mem = mem /\ ~Run(m, code).left
  /\ \A r \in S \ Q : Run(m, code).reg[r] = m.reg[r]

\* A preparation leaves the memory.
LEMMA PreparesLeaves ==
  ASSUME NEW S, NEW m, ~m.left, NEW c, NEW Q, Prepares(S, m, c, Q)
  PROVE  Leaves(S, m, c, Q, m.mem)
BY DEF Prepares, Keeps, Leaves

\* Two pieces of code leave what the second leaves.
LEMMA LeavesThen ==
  ASSUME NEW S, NEW m, NEW c1, NEW c2, NEW V, NEW Q, NEW U, NEW mem1, NEW mem2, Leaves(S, m, c1, V, mem1),
         Leaves(S, Run(m, c1), c2, Q, mem2), V \subseteq U, Q \subseteq U
  PROVE  Leaves(S, m, c1 \o c2, U, mem2)
<1>1. Run(m, c1 \o c2) = Run(Run(m, c1), c2) /\ IsCode(c1 \o c2) BY RunConcat, CodeConcat DEF Leaves
<1>. QED BY <1>1 DEF Leaves

\* No code leaves the memory as it is.
LEMMA LeavesNone == ASSUME NEW S, NEW m \in Machines(S), ~m.left, NEW Q PROVE Leaves(S, m, << >>, Q, m.mem)
BY RunNone, CodeNone DEF Leaves

Mem == [0 .. Memory - 1 -> 0 .. Base - 1]

\* A memory that bytes are written to is a memory.
LEMMA WrittenMem ==
  ASSUME NEW mem \in Mem, NEW at \in Int, NEW n \in 0 .. 16, NEW v \in Int
  PROVE  Written(mem, at, n, v) \in Mem
<1>1. Base \in Nat /\ Base >= 2 BY BaseTwo
<1>2. ASSUME NEW p \in 0 .. Memory - 1, p \in at .. at + n - 1 PROVE (v \div Values(p - at)) % Base \in 0 .. Base - 1
  <2>0. Memory \in Nat BY MachineAssumption
  <2>1. p - at \in 0 .. 15 BY <1>2, <2>0
  <2>2. Values(p - at) \in Nat \ {0} BY <2>1, ValuesPositive
  <2> DEFINE V == Values(p - at)
  <2> HIDE DEF V
  <2>3. V \in Nat \ {0} BY <2>2 DEF V
  <2>4. v \div V \in Int BY <2>3
  <2>. QED BY <1>1, <2>4 DEF V
<1>3. \A p \in 0 .. Memory - 1 : mem[p] \in 0 .. Base - 1 BY DEF Mem
<1>4. DOMAIN mem = 0 .. Memory - 1 BY DEF Mem
<1>. QED BY <1>2, <1>3, <1>4 DEF Written, Mem

\* A store writes the operand's bytes at its place.
LEMMA RunStore ==
  ASSUME NEW S, NEW m \in Machines(S), ~m.left, NEW n \in Sizes, NEW a, NEW b, NEW v \in Int, NEW at \in Nat,
         Operand(m, a) = v, Operand(m, b) = at, at + n <= Memory
  PROVE  Leaves(S, m, <<Ins("store", Zero, n, a, b, FALSE)>>, {}, Written(m.mem, at, n, v))
<1> DEFINE i == Ins("store", Zero, n, a, b, FALSE)
           w == Written(m.mem, at, n, v)
<1>1. i.op = "store" /\ i.n = n /\ i.a = a /\ i.b = b BY DEF Ins
<1>2. Mapped(at, n) BY DEF Mapped
<1> HIDE DEF i
<1>3. Exec(m, i) = [m EXCEPT !.mem = Written(m.mem, at, n, v)] BY <1>1, <1>2 DEF Exec, Effect, Keep
<1>4. m.mem \in Mem /\ at \in Int /\ n \in 0 .. 16 BY DEF Machines, Mem, Sizes
<1>5. w \in Mem BY <1>4, WrittenMem
<1> HIDE DEF w
<1>6. Exec(m, i) = [m EXCEPT !.mem = w] BY <1>3 DEF w
<1>7. Exec(m, i) \in Machines(S) /\ Exec(m, i).mem = w /\ Exec(m, i).left = m.left /\ Exec(m, i).reg = m.reg
  BY <1>5, <1>6 DEF Machines, Mem
<1>8. Run(m, <<i>>) = Exec(m, i) /\ IsCode(<<i>>) BY RunSingle
<1>. QED BY <1>7, <1>8 DEF Leaves, w, i

\* Adding multiples of the divisor adds to the quotient.
LEMMA DivShift ==
  ASSUME NEW V \in Nat \ {0}, NEW w \in Int, NEW z \in Int
  PROVE  (w + z * V) \div V = (w \div V) + z
<1> DEFINE q == w \div V   r == w % V   x == w + z * V
<1>1. q \in Int /\ r \in 0 .. V - 1 /\ w = V * q + r OBVIOUS
<1>2. x \in Int /\ x \div V \in Int /\ x % V \in 0 .. V - 1 /\ x = V * (x \div V) + (x % V) OBVIOUS
<1> DEFINE p == x \div V   s == x % V
<1>3. x = V * (q + z) + r
  <2> HIDE DEF q, r
  <2>. QED BY <1>1
<1> HIDE DEF q, r, x, p, s
<1>4. V * (q + z) + r = V * p + s BY <1>2, <1>3 DEF p, s
<1>5. q + z \in Int /\ p \in Int /\ r \in 0 .. V - 1 /\ s \in 0 .. V - 1 BY <1>1, <1>2 DEF p, s
<1>6. \A a, b \in Int : \A c, d \in 0 .. V - 1 : V * a + c = V * b + d => a = b
  <2> SUFFICES ASSUME NEW a \in Int, NEW b \in Int, NEW c \in 0 .. V - 1, NEW d \in 0 .. V - 1, V * a + c = V * b + d
               PROVE  a = b
    OBVIOUS
  <2>1. V * (a - b) = d - c OBVIOUS
  <2>2. a - b \in Int /\ 0 - V < d - c /\ d - c < V OBVIOUS
  <2>3. \A k \in Int : 0 - V < V * k /\ V * k < V => k = 0
    <3> SUFFICES ASSUME NEW k \in Int, 0 - V < V * k, V * k < V PROVE k = 0 OBVIOUS
    <3>1. CASE k >= 1
      <4>1. V * k >= V BY <3>1
      <4>. QED BY <4>1
    <3>2. CASE k <= 0 - 1
      <4>1. V * k <= 0 - V BY <3>2
      <4>. QED BY <4>1
    <3>. QED BY <3>1, <3>2
  <2>. QED BY <2>1, <2>2, <2>3
<1>7. q + z = p BY <1>4, <1>5, <1>6
<1>. QED BY <1>7 DEF q, x, p

\* Dividing twice divides by the product.
LEMMA DivDiv ==
  ASSUME NEW V \in Nat \ {0}, NEW Q \in Nat \ {0}, NEW v \in Int
  PROVE  (v \div V) \div Q = v \div (V * Q)
<1> DEFINE q == v \div V   r == v % V
<1>1. q \in Int /\ r \in 0 .. V - 1 /\ v = V * q + r OBVIOUS
<1> HIDE DEF q, r
<1> DEFINE p == q \div Q   s == q % Q
<1>2. p \in Int /\ s \in 0 .. Q - 1 /\ q = Q * p + s BY <1>1
<1> HIDE DEF p, s
<1> DEFINE x == V * s + r
<1>3. v = x + p * (V * Q)
  <2>1. V * (Q * p + s) = p * (V * Q) + V * s BY <1>2
  <2>2. V * q = p * (V * Q) + V * s BY <1>2, <2>1
  <2>. QED BY <1>1, <1>2, <2>2
<1>4. x \in 0 .. V * Q - 1
  <2>1. V * s \in 0 .. V * Q - V
    <3>1. V * s >= 0 BY <1>2
    <3>2. V * s <= V * (Q - 1) BY <1>2
    <3>3. V * (Q - 1) = V * Q - V OBVIOUS
    <3>4. V * s \in Int BY <1>2
    <3>. QED BY <3>1, <3>2, <3>3, <3>4
  <2>. QED BY <1>1, <2>1
<1> DEFINE M == V * Q
<1>5. M \in Nat \ {0} OBVIOUS
<1> HIDE DEF x, M
<1>6. x \in Int /\ x \div M = 0 BY <1>4, <1>5 DEF M
<1>7. (x + p * M) \div M = (x \div M) + p BY <1>2, <1>5, <1>6, DivShift
<1>8. v \div M = p BY <1>2, <1>3, <1>6, <1>7 DEF M
<1>. QED BY <1>8 DEF M, p, q

\* What is written is decided by the bytes that are written.
LEMMA ByteAgree ==
  ASSUME NEW n \in 0 .. 15, NEW k \in 0 .. n - 1, NEW v \in Int, NEW w \in Int, Agree(v, w, n)
  PROVE  (v \div Values(k)) % Base = (w \div Values(k)) % Base
<1>1. k + 1 \in 0 .. n /\ n \in 0 .. 15 /\ k + 1 \in 0 .. 15 /\ k \in 0 .. 15 /\ k \in Nat /\ 1 \in Nat OBVIOUS
<1>2. Agree(v, w, k + 1) BY <1>1, AgreeFewer
<1>3. PICK q \in Int : v = w + q * Values(k + 1) BY <1>1, <1>2, AgreeWitness
<1>4. Values(k + 1) = Values(k) * Base
  <2>1. Values(k + 1) = Values(k) * Values(1) BY <1>1, ValuesSum
  <2>. QED BY <2>1, ValuesOne
<1> DEFINE V == Values(k)
<1>5. V \in Nat \ {0} /\ Base \in Nat \ {0} BY <1>1, ValuesPositive, BaseTwo
<1> HIDE DEF V
<1>6. v = w + (q * Base) * V
  <2>1. v = w + q * (V * Base) BY <1>3, <1>4 DEF V
  <2>. QED BY <1>5, <2>1
<1>7. q * Base \in Int BY <1>5
<1> DEFINE z == q * Base
<1>8. z \in Int /\ v = w + z * V BY <1>6, <1>7
<1> HIDE DEF z
<1>9. v \div V = (w \div V) + z BY <1>5, <1>8, DivShift
<1>10. w \div V \in Int BY <1>5
<1> DEFINE y == w \div V
<1> HIDE DEF y
<1>11. (y + q * Base) % Base = y % Base
  <2>1. y \in Int BY <1>10 DEF y
  <2>2. y + q * Base \in Int BY <1>7, <2>1
  <2>. QED BY <1>5, <2>1, <2>2, ModWitness
<1>. QED BY <1>9, <1>11 DEF y, z, V

\* Numbers that agree in n bytes are written alike in n bytes.
LEMMA WrittenAgree ==
  ASSUME NEW mem, NEW at \in Int, NEW n \in 0 .. 15, NEW v \in Int, NEW w \in Int, Agree(v, w, n), DOMAIN mem \subseteq Int
  PROVE  Written(mem, at, n, v) = Written(mem, at, n, w)
<1>1. ASSUME NEW p \in Int, p \in at .. at + n - 1
      PROVE  (v \div Values(p - at)) % Base = (w \div Values(p - at)) % Base
  <2>1. p - at \in 0 .. n - 1 BY <1>1
  <2>. QED BY <2>1, ByteAgree
<1>. QED BY <1>1 DEF Written

\* Two pieces, one after the other.
LEMMA WrittenParts ==
  ASSUME NEW mem \in Mem, NEW at \in Int, NEW a \in Nat, NEW b \in Nat, a + b \in 0 .. 16, NEW v \in Int
  PROVE  Written(Written(mem, at, a, v), at + a, b, v \div Values(a)) = Written(mem, at, a + b, v)
<1>1. DOMAIN mem = 0 .. Memory - 1 /\ Memory \in Nat BY MachineAssumption DEF Mem
<1>2. DOMAIN Written(mem, at, a, v) = 0 .. Memory - 1 BY <1>1 DEF Written
<1> DEFINE w == Written(mem, at, a, v)
<1>3. \A p \in 0 .. Memory - 1 : w[p] = IF p \in at .. at + a - 1 THEN (v \div Values(p - at)) % Base ELSE mem[p]
  BY <1>1 DEF Written
<1> HIDE DEF w
<1>4. ASSUME NEW p \in 0 .. Memory - 1, p \in at + a .. (at + a) + b - 1
      PROVE  (v \div Values(a)) \div Values(p - (at + a)) = v \div Values(p - at)
  <2>1. p - (at + a) \in Nat /\ a + (p - (at + a)) = p - at /\ p - at \in 0 .. 15 /\ p - (at + a) \in 0 .. 15 /\ a \in 0 .. 15
    BY <1>1, <1>4
  <2>2. Values(p - at) = Values(a) * Values(p - (at + a)) BY <2>1, ValuesSum
  <2>3. Values(a) \in Nat \ {0} /\ Values(p - (at + a)) \in Nat \ {0} BY <2>1, ValuesPositive
  <2>. QED BY <2>2, <2>3, DivDiv
<1>5. \A p \in 0 .. Memory - 1 :
        /\ p \in at .. at + (a + b) - 1 <=> p \in at .. at + a - 1 \/ p \in at + a .. (at + a) + b - 1
        /\ ~(p \in at .. at + a - 1 /\ p \in at + a .. (at + a) + b - 1)
  BY <1>1
<1> DEFINE u == Written(w, at + a, b, v \div Values(a))   t == Written(mem, at, a + b, v)
<1>6. \A p \in 0 .. Memory - 1 : u[p] = t[p]
  <2> TAKE p \in 0 .. Memory - 1
  <2>1. u[p] = IF p \in at + a .. (at + a) + b - 1 THEN ((v \div Values(a)) \div Values(p - (at + a))) % Base ELSE w[p]
    BY <1>2 DEF Written, w
  <2>2. t[p] = IF p \in at .. at + (a + b) - 1 THEN (v \div Values(p - at)) % Base ELSE mem[p]
    BY <1>1 DEF Written
  <2> HIDE DEF u, t
  <2>. QED BY <2>1, <2>2, <1>3, <1>4, <1>5
<1>7. u = [p \in 0 .. Memory - 1 |-> u[p]] /\ t = [p \in 0 .. Memory - 1 |-> t[p]]
  BY <1>1, <1>2 DEF Written, w
<1> HIDE DEF u, t
<1>8. u = t BY <1>6, <1>7
<1>. QED BY <1>8 DEF u, t, w

-----------------------------------------------------------------------------
(* Code made of pieces.                                                   *)

\* The pieces of code for a sequence of things, as a function; and all of them.
Coded(f, s) == [i \in DOMAIN s |-> f[s[i]]]
All(f, s) == Joined(Coded(f, s))

\* The pieces of code up to each of them, joined.
Upto(s) ==
  CHOOSE upto : upto = [k \in 0 .. Len(s) |-> IF k = 0 THEN << >> ELSE upto[k - 1] \o s[k]]

\* The pieces joined are reached one by one; the recursive function exists.
LEMMA JoinedDef ==
  ASSUME NEW X, NEW s \in Seq(Seq(X))
  PROVE  /\ Joined(s) = Upto(s)[Len(s)] /\ Upto(s)[0] = << >>
         /\ \A k \in 1 .. Len(s) : Upto(s)[k] = Upto(s)[k - 1] \o s[k]
         /\ \A k \in 0 .. Len(s) : Upto(s)[k] \in Seq(X)
<1> DEFINE N == Len(s)
           P(n) == \E f : f = [k \in 0 .. n |-> IF k = 0 THEN << >> ELSE f[k - 1] \o s[k]]
           S == {n \in 0 .. N : ~P(n)}
           upto == CHOOSE upto : upto = [k \in 0 .. N |-> IF k = 0 THEN << >> ELSE upto[k - 1] \o s[k]]
<1>1. N \in Nat /\ \A k \in 1 .. N : s[k] \in Seq(X) OBVIOUS
<1>2. P(N)
  <2>1. SUFFICES ASSUME S # {} PROVE FALSE
    <3>1. N \in 0 .. N BY <1>1
    <3>. QED BY <3>1
  <2>2. S \in SUBSET Nat
    <3> HIDE DEF P
    <3>1. \A k \in S : k \in Nat BY <1>1
    <3>. QED BY <3>1
  <2>3. PICK n \in S : \A k \in S : ~(k < n)
    <3> HIDE DEF S
    <3>. QED BY <2>1, <2>2, LeastElement
  <2>4. n \in 0 .. N /\ ~P(n) OBVIOUS
  <2>5. n # 0
    <3> DEFINE f == [k \in 0 .. 0 |-> << >>]
    <3>1. f = [k \in 0 .. 0 |-> IF k = 0 THEN << >> ELSE f[k - 1] \o s[k]] OBVIOUS
    <3>2. P(0) BY <3>1
    <3>. QED BY <2>4, <3>2
  <2>6. P(n - 1)
    <3>1. n - 1 \in 0 .. N /\ n - 1 < n BY <1>1, <2>4, <2>5
    <3>2. n - 1 \notin S
      <4> HIDE DEF S, P
      <4>. QED BY <2>3, <3>1
    <3>. QED BY <3>1, <3>2
  <2>7. PICK f : f = [k \in 0 .. n - 1 |-> IF k = 0 THEN << >> ELSE f[k - 1] \o s[k]] BY <2>6
  <2> DEFINE both == f[n - 1] \o s[n]
             g == [k \in 0 .. n |-> IF k = n THEN both ELSE f[k]]
  <2>8. \A k \in 0 .. n : g[k] = IF k = 0 THEN << >> ELSE g[k - 1] \o s[k]
    <3>7. \A k \in 0 .. n - 1 : f[k] = IF k = 0 THEN << >> ELSE f[k - 1] \o s[k] BY <2>7
    <3> HIDE DEF both
    <3>8. \A k \in 0 .. n - 1 : g[k] = f[k] BY <2>4
    <3>9. g[n] = both /\ n - 1 \in 0 .. n - 1 /\ n \in 0 .. n BY <1>1, <2>4, <2>5
    <3> HIDE DEF g
    <3>1. \A k \in 0 .. n - 1 : g[k] = f[k] /\ f[k] = IF k = 0 THEN << >> ELSE f[k - 1] \o s[k] BY <3>7, <3>8
    <3>2. g[n] = f[n - 1] \o s[n] /\ n - 1 \in 0 .. n - 1 /\ n \in 0 .. n BY <3>9 DEF both
    <3>3. g[n - 1] = f[n - 1] BY <3>1, <3>2
    <3>4. SUFFICES ASSUME NEW k \in 0 .. n PROVE g[k] = IF k = 0 THEN << >> ELSE g[k - 1] \o s[k] OBVIOUS
    <3>5. CASE k = n BY <2>5, <3>2, <3>3, <3>5
    <3>6. CASE k # n
      <4>1. k \in 0 .. n - 1 BY <2>4, <3>6
      <4>2. CASE k = 0 BY <3>1, <4>1, <4>2
      <4>3. CASE k # 0
        <5>1. k - 1 \in 0 .. n - 1 BY <2>4, <4>1, <4>3
        <5>2. g[k - 1] = f[k - 1] BY <3>1, <5>1
        <5>. QED BY <3>1, <4>1, <4>3, <5>2
      <4>. QED BY <4>2, <4>3
    <3>. QED BY <3>5, <3>6
  <2>9. g = [k \in 0 .. n |-> IF k = 0 THEN << >> ELSE g[k - 1] \o s[k]] BY <2>8
  <2>10. P(n) BY <2>9
  <2>. QED BY <2>4, <2>10
<1>3. upto = [k \in 0 .. N |-> IF k = 0 THEN << >> ELSE upto[k - 1] \o s[k]] BY <1>2
<1>4. Joined(s) = upto[N] BY DEF Joined
<1>5. upto = Upto(s) BY DEF Upto
<1> HIDE DEF upto
<1>6. upto[0] = << >> /\ \A k \in 1 .. N : upto[k] = upto[k - 1] \o s[k]
  <2>1. \A k \in 0 .. N : upto[k] = IF k = 0 THEN << >> ELSE upto[k - 1] \o s[k] BY <1>3
  <2>2. 0 \in 0 .. N /\ \A k \in 1 .. N : k \in 0 .. N /\ k # 0 BY <1>1
  <2> HIDE DEF N
  <2>. QED BY <2>1, <2>2
<1>7. \A k \in 0 .. N : upto[k] \in Seq(X)
  <2> DEFINE Odd == {k \in 0 .. N : upto[k] \notin Seq(X)}
  <2>1. SUFFICES ASSUME Odd # {} PROVE FALSE OBVIOUS
  <2>2. Odd \in SUBSET Nat BY <1>1
  <2>3. PICK j \in Odd : \A k \in Odd : ~(k < j)
    <3> HIDE DEF Odd
    <3>. QED BY <2>1, <2>2, LeastElement
  <2>4. << >> \in Seq(X) OBVIOUS
  <2>5. j \in 1 .. N
    <3>1. j \in 0 .. N /\ upto[j] \notin Seq(X) BY <2>3
    <3>2. upto[0] \in Seq(X) BY <1>6, <2>4
    <3>3. j # 0 BY <3>1, <3>2
    <3>. QED BY <1>1, <3>1, <3>3
  <2>6. s[j] \in Seq(X) /\ j - 1 \in 0 .. N /\ j - 1 < j BY <1>1, <2>5
  <2>7. upto[j - 1] \in Seq(X) BY <2>3, <2>6
  <2>8. upto[j] = upto[j - 1] \o s[j] BY <1>6, <2>5
  <2>9. \A a, b \in Seq(X) : a \o b \in Seq(X) OBVIOUS
  <2>10. upto[j] \in Seq(X) BY <2>6, <2>7, <2>8, <2>9
  <2>. QED BY <2>3, <2>10
<1>. QED BY <1>4, <1>5, <1>6, <1>7

\* No pieces joined are no code.
LEMMA JoinedNone == Joined(<< >>) = << >>
<1>1. << >> \in Seq(Seq({})) /\ Len(<< >>) = 0 OBVIOUS
<1>. QED BY <1>1, JoinedDef

\* One more piece is joined at the end.
LEMMA JoinedAppend ==
  ASSUME NEW X, NEW s \in Seq(Seq(X)), NEW x \in Seq(X)
  PROVE  Joined(s \o <<x>>) = Joined(s) \o x
<1> DEFINE t == s \o <<x>>   N == Len(s)
<1>1. t \in Seq(Seq(X)) /\ Len(t) = N + 1 /\ N \in Nat /\ t[N + 1] = x /\ \A k \in 1 .. N : t[k] = s[k] OBVIOUS
<1> HIDE DEF t
<1>2. Joined(t) = Upto(t)[N + 1] /\ Upto(t)[0] = << >> /\ \A k \in 1 .. N + 1 : Upto(t)[k] = Upto(t)[k - 1] \o t[k]
  BY <1>1, JoinedDef
<1>3. Joined(s) = Upto(s)[N] /\ Upto(s)[0] = << >> /\ \A k \in 1 .. N : Upto(s)[k] = Upto(s)[k - 1] \o s[k]
  BY JoinedDef
<1> DEFINE F == Upto(s)   G == Upto(t)
<1> HIDE DEF F, G
<1>4. \A k \in 0 .. N : G[k] = F[k]
  <2> DEFINE Odd == {k \in 0 .. N : G[k] # F[k]}
  <2>1. SUFFICES ASSUME Odd # {} PROVE FALSE OBVIOUS
  <2>2. Odd \in SUBSET Nat BY <1>1
  <2>3. PICK j \in Odd : \A k \in Odd : ~(k < j)
    <3> HIDE DEF Odd
    <3>. QED BY <2>1, <2>2, LeastElement
  <2>4. j \in 1 .. N /\ j \in 1 .. N + 1 BY <1>1, <1>2, <1>3, <2>3 DEF F, G
  <2>5. j - 1 \in 0 .. N /\ j - 1 < j /\ t[j] = s[j] BY <1>1, <2>4
  <2>6. G[j - 1] = F[j - 1] BY <2>3, <2>5
  <2>7. G[j] = G[j - 1] \o t[j] /\ F[j] = F[j - 1] \o s[j] BY <1>2, <1>3, <2>4 DEF F, G
  <2>. QED BY <2>3, <2>5, <2>6, <2>7
<1>5. N + 1 \in 1 .. N + 1 /\ (N + 1) - 1 = N /\ N \in 0 .. N BY <1>1
<1>6. G[N + 1] = G[N] \o t[N + 1] BY <1>2, <1>5 DEF G
<1>. QED BY <1>1, <1>2, <1>3, <1>4, <1>5, <1>6 DEF F, G, t

\* One piece joined is that piece.
LEMMA JoinedSingle == ASSUME NEW X, NEW x \in Seq(X) PROVE Joined(<<x>>) = x
<1>1. << >> \in Seq(Seq(X)) /\ << >> \o <<x>> = <<x>> /\ << >> \o x = x OBVIOUS
<1>2. Joined(<< >> \o <<x>>) = Joined(<< >>) \o x BY <1>1, JoinedAppend
<1>. QED BY <1>1, <1>2, JoinedNone

Appended(Y, u, x, v) ==
  v \in Seq(Y) /\ Len(v) = Len(u) + 1 /\ v[Len(u) + 1] = x /\ \A i \in 1 .. Len(u) : v[i] = u[i]

\* What a sequence with one more element holds.
LEMMA AppendOne ==
  ASSUME NEW Y, NEW u \in Seq(Y), NEW x \in Y
  PROVE  Appended(Y, u, x, u \o <<x>>)
<1>1. <<x>> \in Seq(Y) /\ Len(<<x>>) = 1 /\ <<x>>[1] = x OBVIOUS
<1>. QED BY <1>1 DEF Appended

\* The code for no things is no code.
LEMMA AllNone == ASSUME NEW f PROVE All(f, << >>) = << >>
<1>1. Coded(f, << >>) = << >> /\ Len(<< >>) = 0 BY DEF Coded
<1>. QED BY <1>1, JoinedNone DEF All

AllThen(f, s, c) == All(f, s \o <<c>>) = All(f, s) \o f[c]

\* The code for one more thing follows that for those before.
LEMMA AllAppend ==
  ASSUME NEW C, NEW X, NEW f \in [C -> Seq(X)], NEW s \in Seq(C), NEW c \in C
  PROVE  AllThen(f, s, c)
<1> DEFINE t == s \o <<c>>   N == Len(s)   u == Coded(f, s)   x == f[c]
<1>1. t \in Seq(C) /\ Len(t) = N + 1 /\ N \in Nat /\ t[N + 1] = c /\ (\A i \in 1 .. N : t[i] = s[i]) /\ DOMAIN s = 1 .. N /\ DOMAIN t = 1 .. N + 1
  OBVIOUS
<1>2. u \in Seq(Seq(X)) /\ Len(u) = N /\ \A i \in 1 .. N : u[i] = f[s[i]]
  <2>1. \A i \in 1 .. N : s[i] \in C BY <1>1
  <2>2. u = [i \in 1 .. N |-> f[s[i]]] BY <1>1 DEF Coded
  <2>. QED BY <1>1, <2>1, <2>2
<1>3. x \in Seq(X) OBVIOUS
<1> HIDE DEF t, u, x
<1>4. Coded(f, t) = u \o <<x>>
  <2>1. u \o <<x>> \in Seq(Seq(X)) /\ Len(u \o <<x>>) = N + 1 /\ (u \o <<x>>)[N + 1] = x /\ \A i \in 1 .. N : (u \o <<x>>)[i] = u[i]
    <3> DEFINE Y == Seq(X)
    <3>1. u \in Seq(Y) /\ x \in Y BY <1>2, <1>3
    <3> HIDE DEF Y
    <3>2. Appended(Y, u, x, u \o <<x>>) BY <3>1, AppendOne
    <3>3. Len(u) = N BY <1>2
    <3> HIDE DEF N
    <3>. QED BY <3>2, <3>3 DEF Y, Appended
  <2>2. Coded(f, t) = [i \in 1 .. N + 1 |-> f[t[i]]] BY <1>1 DEF Coded
  <2>3. \A i \in 1 .. N + 1 : f[t[i]] = (u \o <<x>>)[i]
    <3>1. SUFFICES ASSUME NEW i \in 1 .. N + 1 PROVE f[t[i]] = (u \o <<x>>)[i] OBVIOUS
    <3>2. CASE i = N + 1 BY <1>1, <2>1, <3>2 DEF x
    <3>3. CASE i # N + 1
      <4>1. i \in 1 .. N BY <1>1, <3>3
      <4>. QED BY <1>1, <1>2, <2>1, <4>1
    <3>. QED BY <3>2, <3>3
  <2>4. DOMAIN (u \o <<x>>) = 1 .. N + 1 /\ u \o <<x>> = [i \in 1 .. N + 1 |-> (u \o <<x>>)[i]] BY <2>1
  <2>. QED BY <2>2, <2>3, <2>4
<1>5. Joined(u \o <<x>>) = Joined(u) \o x BY <1>2, <1>3, JoinedAppend
<1>. QED BY <1>4, <1>5 DEF All, AllThen, t, u, x

\* The empty sequence changes nothing.
LEMMA EmptyAppend == ASSUME NEW S, NEW s \in Seq(S) PROVE s \o << >> = s /\ << >> \o s = s
OBVIOUS

Chunk == [n : Sizes, at : 0 .. 100]

\* The sums of the pieces of sixteen bytes.
LEMMA ChunkSums ==
  /\ 8 * (1 - 1) = 0 /\ 8 * (2 - 1) = 8 /\ 0 + 8 = 8 /\ 8 + 8 = 16
  /\ 16 \div 8 = 2 /\ 16 - (16 % 8) = 16 /\ 0 + 8 <= 16 /\ 8 + 8 <= 16
OBVIOUS

\* What holds of no piece, and of one more when it holds of those before it,
\* holds of the pieces of n bytes.
LEMMA ChunksGood ==
  ASSUME NEW n \in 0 .. 16, NEW G, <<(<< >>), 0>> \in G,
         ASSUME NEW s \in Seq(Chunk), NEW b \in 0 .. n, <<s, b>> \in G, NEW k \in Sizes, b + k <= n
         PROVE  <<s \o <<[n |-> k, at |-> b]>>, b + k>> \in G
  PROVE  <<ChunksOf(n), n>> \in G /\ ChunksOf(n) \in Seq(Chunk)
<1> DEFINE C(k, b) == [n |-> k, at |-> b]
           Good(s, b) == s \in Seq(Chunk) /\ b \in 0 .. n /\ <<s, b>> \in G
           eights == [k \in 1 .. n \div 8 |-> C(8, 8 * (k - 1))]
           piece(size) == IF (n % (2 * size)) >= size THEN <<C(size, n - (n % (2 * size)))>> ELSE << >>
<1>1. ASSUME NEW s, NEW b, Good(s, b), NEW k \in Sizes, b + k <= n
      PROVE  Good(s \o <<C(k, b)>>, b + k)
  <2>1. k \in Int /\ k >= 1 /\ b \in 0 .. n /\ b + k \in 0 .. n /\ b \in 0 .. 100
    <3>1. k \in Int /\ k >= 1 BY <1>1 DEF Sizes
    <3>2. n \in 0 .. 16 /\ b \in 0 .. n /\ b + k <= n BY <1>1
    <3> HIDE DEF C, Good, eights, piece
    <3>. QED BY <3>1, <3>2
  <2>2. C(k, b) \in Chunk BY <2>1 DEF Chunk
  <2> DEFINE c == C(k, b)
  <2> HIDE DEF c
  <2>3. s \o <<c>> \in Seq(Chunk)
    <3>1. c \in Chunk /\ s \in Seq(Chunk) BY <1>1, <2>2 DEF c
    <3>2. Appended(Chunk, s, c, s \o <<c>>) BY <3>1, AppendOne
    <3>. QED BY <3>2 DEF Appended
  <2>4. <<s \o <<C(k, b)>>, b + k>> \in G BY <1>1
  <2>. QED BY <2>1, <2>3, <2>4 DEF c
<1>2. Good(<< >>, 0) OBVIOUS
<1> DEFINE n8 == n - (n % 8)   n4 == n - (n % 4)   n2 == n - (n % 2)
<1>3. Good(eights, n8)
  <2>0. 8 \in Sizes BY DEF Sizes
  <2>1. CASE n < 8
    <3>1. n \div 8 = 0 /\ n8 = 0 BY <2>1
    <3>2. eights = << >> BY <3>1
    <3> HIDE DEF Good, eights, n8
    <3>. QED BY <1>2, <3>1, <3>2
  <2>2. CASE n \in 8 .. 15
    <3>1. n \div 8 = 1 /\ n8 = 8 /\ 8 * (1 - 1) = 0 /\ 0 + 8 <= n /\ 0 + 8 = 8 BY <2>2
    <3>2. eights = <<C(8, 0)>> BY <3>1
    <3>3. << >> \o <<C(8, 0)>> = <<C(8, 0)>> OBVIOUS
    <3> HIDE DEF C, Good, eights, n8
    <3>4. Good(<< >> \o <<C(8, 0)>>, 0 + 8) BY <1>1, <1>2, <2>0, <3>1
    <3>. QED BY <3>1, <3>2, <3>3, <3>4
  <2>3. CASE n = 16
    <3>1. n \div 8 = 2 /\ n8 = 16 /\ 8 * (1 - 1) = 0 /\ 8 * (2 - 1) = 8 /\ 0 + 8 <= n /\ 8 + 8 <= n /\ 0 + 8 = 8 /\ 8 + 8 = 16
      <4> HIDE DEF C, Good, eights, piece
      <4>. QED BY <2>3, ChunkSums
    <3>2. eights = <<C(8, 0), C(8, 8)>> BY <3>1
    <3>3. << >> \o <<C(8, 0)>> = <<C(8, 0)>> OBVIOUS
    <3> HIDE DEF C, Good, eights, n8
    <3>4. Good(<<C(8, 0)>>, 8)
      <4>1. Good(<< >> \o <<C(8, 0)>>, 0 + 8) BY <1>1, <1>2, <2>0, <3>1
      <4>. QED BY <3>1, <3>3, <4>1
    <3>5. Good(<<C(8, 0)>> \o <<C(8, 8)>>, 8 + 8) BY <1>1, <2>0, <3>1, <3>4
    <3>6. <<C(8, 0), C(8, 8)>> = <<C(8, 0)>> \o <<C(8, 8)>>
      <4> DEFINE x == C(8, 0)   y == C(8, 8)
      <4> HIDE DEF x, y
      <4>1. <<x, y>> = <<x>> \o <<y>> BY PairCode
      <4>. QED BY <4>1 DEF x, y
    <3>. QED BY <3>1, <3>2, <3>5, <3>6
  <2>. QED BY <2>1, <2>2, <2>3
<1> HIDE DEF eights
<1>5. Good(eights \o piece(4), n4)
  <2>1. CASE (n % 8) >= 4
    <3>1. piece(4) = <<C(4, n8)>> BY <2>1
    <3>2. n4 = n8 + 4 /\ n8 + 4 <= n /\ 4 \in Sizes BY <2>1 DEF Sizes
    <3> HIDE DEF C, Good, piece, n8, n4
    <3>. QED BY <1>1, <1>3, <3>1, <3>2
  <2>2. CASE ~((n % 8) >= 4)
    <3>1. piece(4) = << >> BY <2>2
    <3>2. n4 = n8 BY <2>2
    <3>3. eights \o << >> = eights BY <1>3, EmptyAppend
    <3> HIDE DEF C, Good, piece, n8, n4
    <3>. QED BY <1>3, <3>1, <3>2, <3>3
  <2>. QED BY <2>1, <2>2
<1> DEFINE s4 == eights \o piece(4)
<1> HIDE DEF s4
<1>6. Good(s4, n4) BY <1>5 DEF s4
<1>7. Good(s4 \o piece(2), n2)
  <2>1. CASE (n % 4) >= 2
    <3>1. piece(2) = <<C(2, n4)>> BY <2>1
    <3>2. n2 = n4 + 2 /\ n4 + 2 <= n /\ 2 \in Sizes BY <2>1 DEF Sizes
    <3> HIDE DEF C, Good, piece, n2, n4
    <3>. QED BY <1>1, <1>6, <3>1, <3>2
  <2>2. CASE ~((n % 4) >= 2)
    <3>1. piece(2) = << >> BY <2>2
    <3>2. n2 = n4 BY <2>2
    <3>3. s4 \o << >> = s4 BY <1>6, EmptyAppend
    <3> HIDE DEF C, Good, piece, n2, n4
    <3>. QED BY <1>6, <3>1, <3>2, <3>3
  <2>. QED BY <2>1, <2>2
<1> DEFINE s2 == s4 \o piece(2)
<1> HIDE DEF s2
<1>8. Good(s2, n2) BY <1>7 DEF s2
<1>9. Good(s2 \o piece(1), n)
  <2>1. CASE (n % 2) >= 1
    <3>1. piece(1) = <<C(1, n2)>> BY <2>1
    <3>2. n = n2 + 1 /\ n2 + 1 <= n /\ 1 \in Sizes BY <2>1 DEF Sizes
    <3>3. Good(s2 \o <<C(1, n2)>>, n2 + 1)
      <4> HIDE DEF C, Good, piece, n2
      <4>. QED BY <1>1, <1>8, <3>2
    <3> HIDE DEF C, piece, n2, Good
    <3>4. Good(s2 \o piece(1), n2 + 1) BY <3>1, <3>3
    <3>. QED BY <3>2, <3>4
  <2>2. CASE ~((n % 2) >= 1)
    <3>1. piece(1) = << >> BY <2>2
    <3>2. n2 = n BY <2>2
    <3>3. s2 \o << >> = s2 BY <1>8, EmptyAppend
    <3> HIDE DEF C, Good, piece, n2
    <3>. QED BY <1>8, <3>1, <3>2, <3>3
  <2>. QED BY <2>1, <2>2
<1>10. ChunksOf(n) = s2 \o piece(1) BY Zenon DEF ChunksOf, s2, s4, eights
<1>. QED BY <1>9, <1>10

\* Functions to code are functions to sequences of one set.
LEMMA CodeFunction ==
  ASSUME NEW C, NEW f, DOMAIN f = C, f = [c \in C |-> f[c]], \A c \in C : IsCode(f[c])
  PROVE  \E X : f \in [C -> Seq(X)]
<1> DEFINE X == UNION {{f[c][i] : i \in DOMAIN f[c]} : c \in C}
<1>1. ASSUME NEW c \in C PROVE f[c] \in Seq(X)
  <2>1. PICK S : f[c] \in Seq(S) BY DEF IsCode
  <2> DEFINE q == f[c]   N == Len(q)
  <2>2. N \in Nat /\ DOMAIN q = 1 .. N /\ q = [i \in 1 .. N |-> q[i]] BY <2>1
  <2>3. \A i \in 1 .. N : q[i] \in X BY <2>2
  <2> HIDE DEF X, N, q
  <2>4. q \in [1 .. N -> X] BY <2>2, <2>3
  <2>5. q \in Seq(X) BY <2>2, <2>4
  <2>. QED BY <2>5 DEF q
<1> HIDE DEF X
<1>2. f \in [C -> Seq(X)] BY <1>1
<1>. QED BY <1>2

\* The code for one more thing, when each thing has code.
LEMMA AllCode ==
  ASSUME NEW C, NEW f, DOMAIN f = C, f = [c \in C |-> f[c]], \A c \in C : IsCode(f[c]), NEW s \in Seq(C), NEW c \in C
  PROVE  AllThen(f, s, c)
<1>1. PICK X : f \in [C -> Seq(X)] BY CodeFunction
<1>. QED BY <1>1, AllAppend

\* Writing no bytes changes nothing.
LEMMA WrittenNone == ASSUME NEW mem \in Mem, NEW at \in Int, NEW v PROVE Written(mem, at, 0, v) = mem
<1>1. DOMAIN mem = 0 .. Memory - 1 /\ mem = [p \in 0 .. Memory - 1 |-> mem[p]] BY DEF Mem
<1>2. \A p \in 0 .. Memory - 1 : p \notin at .. at + 0 - 1 OBVIOUS
<1>. QED BY <1>1, <1>2 DEF Written

-----------------------------------------------------------------------------
(* The x86-64 listing: moves and sums.                                    *)

\* The instructions of the x86 listing are those of the machine.
LEMMA InstanceX86 ==
  /\ \A op, d, n, a, b, c : L!Ins(op, d, n, a, b, c) = Ins(op, d, n, a, b, c)
  /\ \A v : L!Imm(v) = Imm(v)
  /\ \A r, n : L!Low(r, n) = Low(r, n)
  /\ \A r, n, s : L!Extended(r, n, s) = Extended(r, n, s)
  /\ \A r, n, s, t : L!Scaled(r, n, s, t) = Scaled(r, n, s, t)
  /\ \A b, i, d : L!Address(b, i, d) = Address(b, i, d)
  /\ L!NoIndex = NoIndex /\ L!Zero = Zero
  /\ \A a, n, s : L!Loaded(a, n, s) = Loaded(a, n, s)
  /\ \A c : L!If(c) = If(c)
  /\ \A r, n : L!Sized(r, n) = Sized(r, n)
BY DEF L!Ins, Ins, L!Imm, Imm, L!Low, Low, L!Scaled, Scaled, L!Extended, Extended,
       L!Address, Address, L!NoIndex, NoIndex, L!Zero, Zero, L!Loaded, Loaded, L!If, If,
       L!Sized, Sized

\* The arithmetic of the x86 listing is that of the machine.
LEMMA InstanceValues ==
  /\ L!TwoTo = TwoTo
  /\ \A n : L!Values(n) = Values(n)
  /\ \A v, n : L!Unsigned(v, n) = Unsigned(v, n)
  /\ \A v, n : L!Signed(v, n) = Signed(v, n)
  /\ \A v, n : L!FitsSigned(v, n) = FitsSigned(v, n)
<1>1. L!TwoTo = TwoTo BY DEF L!TwoTo, TwoTo
<1>2. \A n : L!Values(n) = Values(n) BY <1>1 DEF L!Values, Values
<1>. QED BY <1>1, <1>2 DEF L!Unsigned, Unsigned, L!Signed, Signed, L!FitsSigned, FitsSigned

\* The registers of the x86 listing are those of the types.
LEMMA InstanceReg ==
   \A t, o, n, d : L!Reg(t, o, n, d) = Reg(t, o, n, d)
BY DEF L!Reg, Reg

Convs == {"linux", "windows", "aarch64"}
X86 == conv \in {"linux", "windows"}
P86(r) == L!buf_putreg(r)
R == Class.all
\* A register of the general kind, as the functions of x86 take it.
IsReg(r) == r = Reg(r.reg_type, r.offset, r.rsize, r.dtype)
Usable86(r) == IsReg(r) /\ P86(r) \in R /\ r.rsize \in Sizes

\* The sizes of operands are small numbers.
LEMMA SizesIn == \A n \in Sizes : n \in 0 .. 15 /\ n \in 0 .. 8 /\ n \in Int /\ n # 0
BY DEF Sizes

\* No calling convention has the zero register among the registers.
LEMMA NoZero == ASSUME conv \in {"linux", "windows", "aarch64"} PROVE Zero \notin R
BY DEF R, Class, RegistersOf, Linux, Zero

\* emit_mov_reg moves a register, extended by its type when it is narrower.
LEMMA MovReg86 ==
  ASSUME X86, NEW m \in Machines(R), ~m.left, NEW dst, NEW src, Usable86(dst), Usable86(src),
         src.rsize <= dst.rsize, src.dtype.base.sign \in BOOLEAN
  PROVE  Computes(R, m, L!emit_mov_reg(dst, src), {}, P86(dst), dst.rsize,
                  Extend(m.reg[P86(src)], src.rsize, src.dtype.base.sign))
<1> DEFINE n == dst.rsize   k == src.rsize   d == P86(dst)   s == P86(src)   sign == src.dtype.base.sign
           v == Extend(m.reg[s], k, sign)
<1>1. n \in Sizes /\ k \in Sizes /\ d \in R /\ s \in R /\ n \in 0 .. 15 /\ k \in 0 .. 15 BY SizesIn DEF Usable86
<1>2. Zero \notin R BY NoZero DEF X86
<1>3. m.reg[s] \in Int /\ Operand(m, Low(s, k)) = Unsigned(m.reg[s], k)
      /\ Operand(m, Extended(s, k, sign)) = v
  BY <1>1, <1>2, Operands
<1>4. v \in Int /\ Agree(v, m.reg[s], k) BY <1>1, <1>3, ExtendInt
<1>5. CASE n > k /\ ~(~sign /\ n = 8 /\ k = 4)
  <2>g. n # 0 /\ k # 0 /\ ~(n < k) BY <1>1, <1>5, SizesIn
  <2>1. L!emit_mov_reg(dst, src) = <<L!Ins("mov", L!buf_putreg(dst), n, L!Extended(L!buf_putreg(src), k, sign), L!Imm(0), FALSE)>>
    BY <2>g, <1>5, Zenon DEF L!emit_mov_reg
  <2> DEFINE code == <<Ins("mov", d, n, Extended(s, k, sign), Imm(0), FALSE)>>
  <2>2. L!emit_mov_reg(dst, src) = code BY <2>1, InstanceX86 DEF P86
  <2> HIDE DEF v, d, n, s, k, sign
  <2>3. Agree(v, v, n) BY DEF Agree
  <2>4. Computes(R, m, code, {}, d, n, v)
    BY <1>1, <1>2, <1>3, <1>4, <2>3, RunMov
  <2>. QED BY <2>2, <2>4 DEF v, d, n, s, k, sign
<1>6. CASE n > k /\ ~sign /\ n = 8 /\ k = 4
  <2>g. n # 0 /\ k # 0 /\ ~(n < k) BY <1>1, <1>6, SizesIn
  <2>1. L!emit_mov_reg(dst, src) = <<L!Ins("mov", L!buf_putreg(dst), 4, L!Extended(L!buf_putreg(src), k, sign), L!Imm(0), FALSE)>>
    BY <2>g, <1>6, Zenon DEF L!emit_mov_reg
  <2> DEFINE code == <<Ins("mov", d, 4, Extended(s, k, sign), Imm(0), FALSE)>>
  <2>2. L!emit_mov_reg(dst, src) = code BY <2>1, InstanceX86 DEF P86
  <2>3. v = Unsigned(m.reg[s], 4) BY <1>6 DEF Extend
  <2>4. n = 8 /\ k = 4 BY <1>6
  <2> HIDE DEF v, d, n, s, k, sign
  <2>5. Agree(v, v, 4) /\ 4 \in Sizes BY DEF Agree, Sizes
  <2>9. Operand(m, Extended(s, k, sign)) \in Int /\ Agree(Operand(m, Extended(s, k, sign)), v, 4) /\ FALSE \in BOOLEAN
    BY <1>3, <1>4, <2>5
  <2>6. Computes(R, m, code, {}, d, 4, v)
    BY <1>1, <1>2, <1>4, <2>5, <2>9, RunMov, Zenon
  <2>7. Unsigned(v, 4) = v BY <2>3, <2>4, <1>1, <1>3, AgreeUnsigned DEF Agree
  <2>8. Computes(R, m, code, {}, d, n, v)
    <3>1. Run(m, code).reg[d] = v BY <2>6, <2>7 DEF Computes
    <3>. QED BY <2>4, <2>6, <3>1 DEF Computes, Agree
  <2>. QED BY <2>2, <2>8 DEF v, d, n, s, k, sign
<1>7. CASE n = k
  <2>g. n # 0 /\ k # 0 /\ ~(n < k) /\ ~(n > k) BY <1>1, <1>7, SizesIn
  <2>1. L!emit_mov_reg(dst, src) = <<L!Ins("mov", L!buf_putreg(dst), n, L!Low(L!buf_putreg(src), k), L!Low(L!buf_putreg(src), k), FALSE)>>
    <3>1. L!emit_mov_reg(dst, src) = L!Mov(dst, src) BY <2>g, <1>7, Zenon DEF L!emit_mov_reg
    <3>2. L!Size(dst) = n /\ L!Size(src) = k BY <2>g, Zenon DEF L!Size
    <3>. QED BY <3>1, <3>2, <1>7, Zenon DEF L!Mov, L!emit_rr, L!Use
  <2> DEFINE code == <<Ins("mov", d, n, Low(s, k), Low(s, k), FALSE)>>
  <2>2. L!emit_mov_reg(dst, src) = code BY <2>1, InstanceX86 DEF P86
  <2>4. n = k BY <1>7
  <2> HIDE DEF v, d, n, s, k, sign
  <2>5. Unsigned(m.reg[s], k) \in Int /\ Agree(Unsigned(m.reg[s], k), v, n)
     BY <1>1, <1>3, <1>4, <2>4, UnsignedRange, AgreeUnsigned DEF Agree
  <2>9. Operand(m, Low(s, k)) \in Int /\ Agree(Operand(m, Low(s, k)), v, n) /\ FALSE \in BOOLEAN
    BY <1>3, <1>4, <2>5
  <2>6. Computes(R, m, code, {}, d, n, v)
    BY <1>1, <1>2, <1>4, <2>9, RunMov, Zenon
  <2>. QED BY <2>2, <2>6 DEF v, d, n, s, k, sign
<1>8. n > k \/ n = k BY <1>1, SizesIn
<1>. QED BY <1>5, <1>6, <1>7, <1>8

\* What the functions of x86 assume of a register, all at once.
LEMMA Facts86 ==
  ASSUME X86, NEW m \in Machines(R), NEW r, Usable86(r)
  PROVE  /\ P86(r) \in R /\ r.rsize \in Sizes /\ r.rsize \in 0 .. 15 /\ r.rsize \in 0 .. 8 /\ r.rsize # 0 /\ r.rsize \in Int
         /\ m.reg[P86(r)] \in Int /\ m.reg[P86(r)] \in 0 .. Values(8) - 1
         /\ \A n \in Sizes : Operand(m, Low(P86(r), n)) = Unsigned(m.reg[P86(r)], n)
         /\ \A s \in BOOLEAN : Extend(m.reg[P86(r)], r.rsize, s) \in Int
                               /\ Agree(Extend(m.reg[P86(r)], r.rsize, s), m.reg[P86(r)], r.rsize)
         /\ L!Size(r) = r.rsize
         /\ L!Use(r) = Low(P86(r), r.rsize) /\ L!Wide(r) = Low(P86(r), 8)
<1>1. P86(r) \in R /\ r.rsize \in Sizes /\ r.rsize \in 0 .. 15 /\ r.rsize \in 0 .. 8 /\ r.rsize # 0 /\ r.rsize \in Int
  BY SizesIn DEF Usable86
<1>2. Zero \notin R BY NoZero DEF X86
<1>3. /\ m.reg[P86(r)] \in Int /\ m.reg[P86(r)] \in 0 .. Values(8) - 1
      /\ \A n \in Sizes : Operand(m, Low(P86(r), n)) = Unsigned(m.reg[P86(r)], n)
  BY <1>1, <1>2, Operands
<1>4. \A s \in BOOLEAN : Extend(m.reg[P86(r)], r.rsize, s) \in Int
                         /\ Agree(Extend(m.reg[P86(r)], r.rsize, s), m.reg[P86(r)], r.rsize)
  BY <1>1, <1>3, ExtendInt
<1>5. L!Size(r) = r.rsize BY <1>1, Zenon DEF L!Size
<1>6. L!Use(r) = Low(P86(r), r.rsize) /\ L!Wide(r) = Low(P86(r), 8)
  BY <1>5, InstanceX86 DEF L!Use, L!Wide, P86
<1>. QED BY <1>1, <1>3, <1>4, <1>5, <1>6

\* emit_mov moves a constant.
LEMMA MovImm86 ==
  ASSUME X86, NEW m \in Machines(R), ~m.left, NEW dst, Usable86(dst), NEW v \in Int
  PROVE  Computes(R, m, L!emit_mov(dst, v), {}, P86(dst), dst.rsize, v)
<1>1. P86(dst) \in R /\ dst.rsize \in Sizes /\ L!Size(dst) = dst.rsize BY Facts86
<1>2. Zero \notin R BY NoZero DEF X86
<1>3. Operand(m, Imm(v)) = v /\ Operand(m, Imm(0)) = 0 BY <1>2, Operands
<1>4. Agree(v, v, dst.rsize) BY DEF Agree
<1>5. CASE v = 0
  <2>1. L!emit_mov(dst, v) = <<Ins("mov", P86(dst), dst.rsize, Imm(0), Imm(0), TRUE)>>
    BY <1>1, <1>5, InstanceX86 DEF L!emit_mov, L!emit_zero_out, P86
  <2>2. Operand(m, Imm(0)) \in Int /\ Agree(Operand(m, Imm(0)), v, dst.rsize) /\ TRUE \in BOOLEAN BY <1>3, <1>4, <1>5
  <2>3. Computes(R, m, <<Ins("mov", P86(dst), dst.rsize, Imm(0), Imm(0), TRUE)>>, {}, P86(dst), dst.rsize, v)
    BY <1>1, <1>2, <2>2, RunMov, Zenon
  <2>. QED BY <2>1, <2>3
<1>6. CASE v # 0
  <2>1. L!emit_mov(dst, v) = <<Ins("mov", P86(dst), dst.rsize, Imm(v), Imm(0), FALSE)>>
    BY <1>1, <1>6, InstanceX86 DEF L!emit_mov, P86
  <2>2. Operand(m, Imm(v)) \in Int /\ Agree(Operand(m, Imm(v)), v, dst.rsize) /\ FALSE \in BOOLEAN BY <1>3, <1>4
  <2>3. Computes(R, m, <<Ins("mov", P86(dst), dst.rsize, Imm(v), Imm(0), FALSE)>>, {}, P86(dst), dst.rsize, v)
    BY <1>1, <1>2, <2>2, RunMov, Zenon
  <2>. QED BY <2>1, <2>3
<1>. QED BY <1>5, <1>6

\* emit_zero_out clears a register.
LEMMA ZeroOut86 ==
  ASSUME X86, NEW m \in Machines(R), ~m.left, NEW dst, Usable86(dst)
  PROVE  Computes(R, m, L!emit_zero_out(dst), {}, P86(dst), dst.rsize, 0)
<1>1. L!emit_zero_out(dst) = L!emit_mov(dst, 0) BY DEF L!emit_mov
<1>2. 0 \in Int OBVIOUS
<1>. QED BY <1>1, <1>2, MovImm86

\* The address of a base, an index and a displacement.
LEMMA AddressValue ==
  ASSUME NEW S, Zero \notin S, NEW m \in Machines(S), NEW base \in S, NEW index, NEW disp \in Int,
         Simple(m, index) \in Int
  PROVE  /\ Operand(m, Address(base, index, disp)) \in 0 .. Values(8) - 1
         /\ Operand(m, Address(base, index, disp)) = Unsigned((m.reg[base] + Simple(m, index)) + disp, 8)
<1>1. m.reg[base] \in Int BY Operands
<1>2. (m.reg[base] + Simple(m, index)) + disp \in Int BY <1>1
<1>3. Operand(m, Address(base, index, disp)) = Unsigned((m.reg[base] + Simple(m, index)) + disp, 8)
  BY DEF Operand, Address, At, RegValue
<1>4. 8 \in 0 .. 15 OBVIOUS
<1> DEFINE x == (m.reg[base] + Simple(m, index)) + disp
<1> HIDE DEF x
<1>5. Unsigned(x, 8) \in 0 .. Values(8) - 1 BY <1>2, <1>4, UnsignedRange DEF x
<1>. QED BY <1>3, <1>5 DEF x

\* lea computes an address, whatever is at it.
LEMMA Lea86 ==
  ASSUME X86, NEW m \in Machines(R), ~m.left, NEW dst, Usable86(dst), dst.rsize # 1,
         NEW base \in R, NEW index, NEW disp \in Int, FitsSigned(disp, 4), Simple(m, index) \in Int,
         NEW v \in Int, Agree((m.reg[base] + Simple(m, index)) + disp, v, dst.rsize)
  PROVE  Computes(R, m, L!Lea(dst, base, index, disp), {}, P86(dst), dst.rsize, v)
<1>1. P86(dst) \in R /\ dst.rsize \in Sizes /\ dst.rsize \in 0 .. 15 /\ dst.rsize \in 0 .. 8 /\ L!Size(dst) = dst.rsize BY Facts86
<1>2. Zero \notin R BY NoZero DEF X86
<1>3. L!Lea(dst, base, index, disp) = <<Ins("mov", P86(dst), dst.rsize, Address(base, index, disp), Imm(0), FALSE)>>
  BY <1>1, InstanceX86, InstanceValues DEF L!Lea, P86
<1> DEFINE x == (m.reg[base] + Simple(m, index)) + disp
<1>4. m.reg[base] \in Int BY <1>2, Operands
<1>5. x \in Int /\ 8 \in 0 .. 15 BY <1>4
<1>6. Operand(m, Address(base, index, disp)) = Unsigned(x, 8) /\ Operand(m, Address(base, index, disp)) \in Int
  <2>1. Operand(m, Address(base, index, disp)) = Unsigned(x, 8) BY <1>2, AddressValue
  <2> HIDE DEF x
  <2>. QED BY <2>1, <1>5, UnsignedRange
<1> HIDE DEF x
<1>7. Agree(Unsigned(x, 8), x, dst.rsize) /\ Unsigned(x, 8) \in Int
  <2>1. Agree(Unsigned(x, 8), x, 8) /\ Unsigned(x, 8) \in Int BY <1>5, AgreeUnsigned, UnsignedRange
  <2>. QED BY <1>1, <1>5, <2>1, AgreeFewer
<1>8. Agree(Operand(m, Address(base, index, disp)), v, dst.rsize) /\ FALSE \in BOOLEAN BY <1>6, <1>7 DEF Agree, x
<1>9. Computes(R, m, <<Ins("mov", P86(dst), dst.rsize, Address(base, index, disp), Imm(0), FALSE)>>, {}, P86(dst), dst.rsize, v)
  BY <1>1, <1>2, <1>6, <1>8, RunMov, Zenon
<1>. QED BY <1>3, <1>9

\* emit_add adds a constant, by lea or a move and an add.
LEMMA AddImm86 ==
  ASSUME X86, NEW m \in Machines(R), ~m.left, NEW dst, NEW lhs, Usable86(dst), Usable86(lhs), dst.rsize # 1,
         dst.rsize = lhs.rsize, NEW sign \in BOOLEAN, NEW v \in Int, FitsSigned(v, 4)
  PROVE  Computes(R, m, L!emit_add(dst, lhs, v), {}, P86(dst), dst.rsize, Extend(m.reg[P86(lhs)], lhs.rsize, sign) + v)
<1> DEFINE x == Extend(m.reg[P86(lhs)], lhs.rsize, sign)
<1>1. x \in Int /\ Agree(x, m.reg[P86(lhs)], dst.rsize) /\ P86(lhs) \in R /\ dst.rsize \in 0 .. 15 /\ m.reg[P86(lhs)] \in Int
  BY Facts86
<1>2. Simple(m, NoIndex) = 0 BY DEF Simple, NoIndex, Imm
<1>3. L!emit_add(dst, lhs, v) = L!Lea(dst, P86(lhs), NoIndex, v)
  BY InstanceX86 DEF L!emit_add, P86
<1> HIDE DEF x
<1>4. Agree(m.reg[P86(lhs)] + v, x + v, dst.rsize)
  BY <1>1, AgreeSum DEF Agree
<1>5. (m.reg[P86(lhs)] + 0) + v = m.reg[P86(lhs)] + v /\ x + v \in Int BY <1>1
<1>6. Computes(R, m, L!Lea(dst, P86(lhs), NoIndex, v), {}, P86(dst), dst.rsize, x + v)
  BY <1>1, <1>2, <1>4, <1>5, Lea86
<1>. QED BY <1>3, <1>6 DEF x

\* emit_sub subtracts a constant.
LEMMA SubImm86 ==
  ASSUME X86, NEW m \in Machines(R), ~m.left, NEW dst, NEW lhs, Usable86(dst), Usable86(lhs), dst.rsize # 1,
         dst.rsize = lhs.rsize, NEW sign \in BOOLEAN, NEW v \in Int, FitsSigned(0 - v, 4)
  PROVE  Computes(R, m, L!emit_sub(dst, lhs, v), {}, P86(dst), dst.rsize, Extend(m.reg[P86(lhs)], lhs.rsize, sign) - v)
<1>1. L!emit_sub(dst, lhs, v) = L!emit_add(dst, lhs, 0 - v) BY DEF L!emit_sub, L!emit_add
<1>2. Extend(m.reg[P86(lhs)], lhs.rsize, sign) \in Int BY Facts86
<1>3. Extend(m.reg[P86(lhs)], lhs.rsize, sign) + (0 - v) = Extend(m.reg[P86(lhs)], lhs.rsize, sign) - v /\ 0 - v \in Int
  BY <1>2
<1>4. Computes(R, m, L!emit_add(dst, lhs, 0 - v), {}, P86(dst), dst.rsize, Extend(m.reg[P86(lhs)], lhs.rsize, sign) + (0 - v))
  BY <1>3, AddImm86
<1>. QED BY <1>1, <1>3, <1>4

\* A register of another size is the same register.
LEMMA SizedReg ==
  ASSUME NEW r, IsReg(r), NEW n
  PROVE  /\ IsReg(Sized(r, n)) /\ Sized(r, n) = Reg(r.reg_type, r.offset, n, r.dtype)
         /\ Sized(r, n).rsize = n /\ Sized(r, n).dtype = r.dtype
         /\ Sized(r, n).reg_type = r.reg_type /\ Sized(r, n).offset = r.offset
<1> DEFINE t == r.reg_type   o == r.offset   z == r.rsize   y == r.dtype
<1>1. r = [reg_type |-> t, offset |-> o, rsize |-> z, dtype |-> y] BY DEF IsReg, Reg
<1> HIDE DEF t, o, z, y
<1>2. Sized(r, n) = [reg_type |-> t, offset |-> o, rsize |-> n, dtype |-> y] BY <1>1 DEF Sized
<1>. QED BY <1>1, <1>2 DEF IsReg, Reg

\* A register of another size can be used where it can.
LEMMA Sized86 ==
  ASSUME X86, NEW r, Usable86(r), NEW n \in Sizes
  PROVE  /\ Usable86(L!Sized(r, n)) /\ P86(L!Sized(r, n)) = P86(r) /\ L!Sized(r, n).rsize = n
         /\ L!Sized(r, n).dtype = r.dtype
<1>1. L!Sized(r, n) = Sized(r, n) BY InstanceX86
<1>2. /\ IsReg(Sized(r, n)) /\ Sized(r, n).rsize = n /\ Sized(r, n).dtype = r.dtype
      /\ Sized(r, n).reg_type = r.reg_type /\ Sized(r, n).offset = r.offset
  BY SizedReg DEF Usable86
<1>3. P86(Sized(r, n)) = P86(r) BY <1>2 DEF P86, L!buf_putreg
<1>. QED BY <1>1, <1>2, <1>3 DEF Usable86

\* An instruction on two registers of one size.
LEMMA Alu86 ==
  ASSUME X86, NEW m \in Machines(R), ~m.left, NEW dst, NEW src, Usable86(dst), Usable86(src),
         dst.rsize = src.rsize, NEW op \in {"add", "sub"}, NEW v \in Int,
         NEW x \in Int, NEW y \in Int, Agree(m.reg[P86(dst)], x, dst.rsize), Agree(m.reg[P86(src)], y, dst.rsize),
         v = CASE op = "add" -> x + y [] op = "sub" -> x - y
  PROVE  Computes(R, m, L!Alu(op, dst, src), {}, P86(dst), dst.rsize, v)
<1> DEFINE n == dst.rsize   p == Unsigned(m.reg[P86(dst)], n)   q == Unsigned(m.reg[P86(src)], n)
<1>1. /\ P86(dst) \in R /\ n \in Sizes /\ n \in 0 .. 15 /\ L!Size(dst) = n /\ L!Use(dst) = Low(P86(dst), n)
      /\ m.reg[P86(dst)] \in Int /\ Operand(m, Low(P86(dst), n)) = p
  BY Facts86
<1>2. /\ P86(src) \in R /\ L!Size(src) = n /\ L!Use(src) = Low(P86(src), n)
      /\ m.reg[P86(src)] \in Int /\ Operand(m, Low(P86(src), n)) = q
  BY <1>1, Facts86
<1>3. Zero \notin R BY NoZero DEF X86
<1>4. L!Alu(op, dst, src) = <<Ins(op, P86(dst), n, Low(P86(dst), n), Low(P86(src), n), TRUE)>>
  <2>1. op # "mov" OBVIOUS
  <2>. QED BY <1>1, <1>2, <2>1, InstanceX86 DEF L!Alu, L!emit_rr, P86
<1>5. p \in Int /\ q \in Int /\ Agree(p, x, n) /\ Agree(q, y, n)
  BY <1>1, <1>2, UnsignedRange, AgreeUnsigned DEF Agree
<1> HIDE DEF n, p, q
<1>6. Agree(p + q, x + y, n) /\ Agree(p - q, x - y, n) /\ TRUE \in BOOLEAN BY <1>1, <1>5, AgreeSum, AgreeDifference
<1>7. op \in {"add", "sub", "mul"} /\ Agree(CASE op = "add" -> p + q [] op = "sub" -> p - q [] op = "mul" -> p * q, v, n)
  BY <1>6
<1>8. Computes(R, m, <<Ins(op, P86(dst), n, Low(P86(dst), n), Low(P86(src), n), TRUE)>>, {}, P86(dst), n, v)
  BY <1>1, <1>2, <1>3, <1>5, <1>6, <1>7, RunOp, Zenon
<1>. QED BY <1>4, <1>8 DEF n

\* After the first of two steps.
LEMMA After ==
  ASSUME NEW S, NEW m \in Machines(S), ~m.left, NEW code, NEW V, Prepares(S, m, code, V)
  PROVE  /\ Run(m, code) \in Machines(S) /\ ~Run(m, code).left
         /\ Run(m, code).mem = m.mem /\ \A r \in S \ V : Run(m, code).reg[r] = m.reg[r]
BY DEF Prepares, Keeps

\* emit_add_reg adds two registers at the width of the wider one.
LEMMA AddReg86 ==
  ASSUME X86, NEW m \in Machines(R), ~m.left, NEW dst, NEW lhs, NEW rhs,
         Usable86(dst), Usable86(lhs), Usable86(rhs),
         lhs.dtype.base.sign \in BOOLEAN, rhs.dtype.base.sign \in BOOLEAN,
         dst.rsize = (IF lhs.rsize > rhs.rsize THEN lhs.rsize ELSE rhs.rsize),
         lhs.rsize = rhs.rsize => dst.rsize # 1,
         lhs.rsize > rhs.rsize => P86(dst) # P86(lhs),
         lhs.rsize < rhs.rsize => P86(dst) # P86(rhs)
  PROVE  Computes(R, m, L!emit_add_reg(dst, lhs, rhs), {}, P86(dst), dst.rsize,
                  Extend(m.reg[P86(lhs)], lhs.rsize, lhs.dtype.base.sign)
                    + Extend(m.reg[P86(rhs)], rhs.rsize, rhs.dtype.base.sign))
<1> DEFINE x == Extend(m.reg[P86(lhs)], lhs.rsize, lhs.dtype.base.sign)
           y == Extend(m.reg[P86(rhs)], rhs.rsize, rhs.dtype.base.sign)
           n == dst.rsize
<1>1. /\ x \in Int /\ Agree(x, m.reg[P86(lhs)], lhs.rsize) /\ P86(lhs) \in R /\ m.reg[P86(lhs)] \in Int
      /\ lhs.rsize \in Sizes /\ lhs.rsize \in Int /\ lhs.rsize \in 0 .. 8 /\ lhs.rsize # 0
  BY Facts86
<1>2. /\ y \in Int /\ Agree(y, m.reg[P86(rhs)], rhs.rsize) /\ P86(rhs) \in R /\ m.reg[P86(rhs)] \in Int
      /\ rhs.rsize \in Sizes /\ rhs.rsize \in Int /\ rhs.rsize \in 0 .. 8 /\ rhs.rsize # 0
      /\ Operand(m, Low(P86(rhs), 8)) = Unsigned(m.reg[P86(rhs)], 8) /\ L!Wide(rhs) = Low(P86(rhs), 8)
  BY Facts86 DEF Sizes
<1>3. n \in 0 .. 15 /\ n \in 0 .. 8 /\ n \in Sizes BY Facts86
<1>4. CASE lhs.rsize = rhs.rsize
  <2>1. L!emit_add_reg(dst, lhs, rhs) = L!Lea(dst, P86(lhs), Low(P86(rhs), 8), 0)
    BY <1>2, <1>4, Zenon DEF L!emit_add_reg, P86
  <2>2. n = lhs.rsize /\ n = rhs.rsize /\ n # 1 BY <1>1, <1>2, <1>4
  <2> HIDE DEF x, y, n
  <2> DEFINE a == m.reg[P86(lhs)]   b == Unsigned(m.reg[P86(rhs)], 8)
  <2>3. Simple(m, Low(P86(rhs), 8)) = b
    BY <1>2 DEF Operand, Low, Scaled
  <2>4. b \in Int /\ Agree(b, m.reg[P86(rhs)], n)
    <3>1. 8 \in 0 .. 15 OBVIOUS
    <3>2. b \in Int /\ Agree(b, m.reg[P86(rhs)], 8) BY <1>2, <3>1, UnsignedRange, AgreeUnsigned
    <3> HIDE DEF b
    <3>. QED BY <1>2, <1>3, <3>1, <3>2, AgreeFewer
  <2>5. a \in Int /\ Agree(a, x, n) /\ Agree(b, y, n) BY <1>1, <1>2, <2>2, <2>4 DEF Agree
  <2>6. Agree((a + b) + 0, x + y, n) /\ x + y \in Int
    <3> HIDE DEF a, b
    <3>1. Agree(a + b, x + y, n) BY <1>1, <1>2, <1>3, <2>4, <2>5, AgreeSum
    <3>2. (a + b) + 0 = a + b /\ x + y \in Int BY <1>1, <1>2, <2>4, <2>5
    <3>. QED BY <3>1, <3>2
  <2>7. 0 \in Int /\ FitsSigned(0, 4)
    <3>1. 4 \in 0 .. 15 /\ Values(4) \in Nat \ {0} BY ValuesPositive
    <3>. QED BY <3>1, SignedSmall DEF FitsSigned
  <2>8. Computes(R, m, L!Lea(dst, P86(lhs), Low(P86(rhs), 8), 0), {}, P86(dst), n, x + y)
    BY <1>1, <2>2, <2>3, <2>4, <2>6, <2>7, Lea86 DEF n
  <2>. QED BY <2>1, <2>8 DEF x, y, n
<1>5. CASE lhs.rsize > rhs.rsize
  <2>1. L!emit_add_reg(dst, lhs, rhs) = L!emit_mov_reg(dst, rhs) \o L!Alu("add", dst, L!Sized(lhs, n))
    <3>1. lhs.rsize # rhs.rsize BY <1>1, <1>2, <1>5
    <3>. QED BY <1>5, <3>1, Zenon DEF L!emit_add_reg
  <2>2. n = lhs.rsize /\ rhs.rsize <= n BY <1>1, <1>2, <1>5
  <2>3. Computes(R, m, L!emit_mov_reg(dst, rhs), {}, P86(dst), n, y) BY <2>2, MovReg86
  <2> DEFINE m1 == Run(m, L!emit_mov_reg(dst, rhs))
  <2>4. Prepares(R, m, L!emit_mov_reg(dst, rhs), {P86(dst)}) /\ Agree(m1.reg[P86(dst)], y, n)
    <3>1. {} \union {P86(dst)} = {P86(dst)} OBVIOUS
    <3>. QED BY <2>3, <3>1 DEF Computes
  <2>5. m1 \in Machines(R) /\ ~m1.left /\ m1.reg[P86(lhs)] = m.reg[P86(lhs)]
    <3>1. P86(lhs) \in R \ {P86(dst)} BY <1>1, <1>5
    <3>. QED BY <2>4, <3>1, After
  <2>6. Usable86(L!Sized(lhs, n)) /\ P86(L!Sized(lhs, n)) = P86(lhs) /\ L!Sized(lhs, n).rsize = n BY <1>3, Sized86
  <2> DEFINE big == L!Sized(lhs, n)
  <2>7. Agree(m1.reg[P86(big)], x, n) BY <1>1, <2>2, <2>5, <2>6 DEF Agree
  <2> HIDE DEF x, y, big, m1
  <2>8. x + y = y + x /\ x + y \in Int BY <1>1, <1>2
  <2>9. Computes(R, m1, L!Alu("add", dst, big), {}, P86(dst), n, x + y)
    BY <1>1, <1>2, <2>4, <2>5, <2>6, <2>7, <2>8, Alu86 DEF big
  <2>10. Computes(R, m, L!emit_mov_reg(dst, rhs) \o L!Alu("add", dst, big), {}, P86(dst), n, x + y)
    BY <2>4, <2>9, ComputesThen DEF m1
  <2>. QED BY <2>1, <2>10 DEF x, y, big
<1>6. CASE lhs.rsize < rhs.rsize
  <2>1. L!emit_add_reg(dst, lhs, rhs) = L!emit_mov_reg(dst, lhs) \o L!Alu("add", dst, L!Sized(rhs, n))
    <3>1. lhs.rsize # rhs.rsize /\ ~(lhs.rsize > rhs.rsize) BY <1>1, <1>2, <1>6
    <3>. QED BY <3>1, Zenon DEF L!emit_add_reg
  <2>2. n = rhs.rsize /\ lhs.rsize <= n BY <1>1, <1>2, <1>6
  <2>3. Computes(R, m, L!emit_mov_reg(dst, lhs), {}, P86(dst), n, x) BY <2>2, MovReg86
  <2> DEFINE m1 == Run(m, L!emit_mov_reg(dst, lhs))
  <2>4. Prepares(R, m, L!emit_mov_reg(dst, lhs), {P86(dst)}) /\ Agree(m1.reg[P86(dst)], x, n)
    <3>1. {} \union {P86(dst)} = {P86(dst)} OBVIOUS
    <3>. QED BY <2>3, <3>1 DEF Computes
  <2>5. m1 \in Machines(R) /\ ~m1.left /\ m1.reg[P86(rhs)] = m.reg[P86(rhs)]
    <3>1. P86(rhs) \in R \ {P86(dst)} BY <1>2, <1>6
    <3>. QED BY <2>4, <3>1, After
  <2>6. Usable86(L!Sized(rhs, n)) /\ P86(L!Sized(rhs, n)) = P86(rhs) /\ L!Sized(rhs, n).rsize = n BY <1>3, Sized86
  <2> DEFINE big == L!Sized(rhs, n)
  <2>7. Agree(m1.reg[P86(big)], y, n) BY <1>2, <2>2, <2>5, <2>6 DEF Agree
  <2> HIDE DEF x, y, big, m1
  <2>8. x + y \in Int BY <1>1, <1>2
  <2>9. Computes(R, m1, L!Alu("add", dst, big), {}, P86(dst), n, x + y)
    BY <1>1, <1>2, <2>4, <2>5, <2>6, <2>7, <2>8, Alu86 DEF big
  <2>10. Computes(R, m, L!emit_mov_reg(dst, lhs) \o L!Alu("add", dst, big), {}, P86(dst), n, x + y)
    BY <2>4, <2>9, ComputesThen DEF m1
  <2>. QED BY <2>1, <2>10 DEF x, y, big
<1>7. lhs.rsize = rhs.rsize \/ lhs.rsize > rhs.rsize \/ lhs.rsize < rhs.rsize BY <1>1, <1>2
<1>. QED BY <1>4, <1>5, <1>6, <1>7

\* A move between registers of one size.
LEMMA Mov86 ==
  ASSUME X86, NEW m \in Machines(R), ~m.left, NEW dst, NEW src, Usable86(dst), Usable86(src),
         src.rsize = dst.rsize, src.dtype.base.sign \in BOOLEAN
  PROVE  Computes(R, m, L!Mov(dst, src), {}, P86(dst), dst.rsize,
                  Extend(m.reg[P86(src)], src.rsize, src.dtype.base.sign))
<1>1. L!emit_mov_reg(dst, src) = L!Mov(dst, src)
  <2>1. ~(dst.rsize > src.rsize) /\ ~(dst.rsize < src.rsize) BY SizesIn DEF Usable86
  <2>. QED BY <2>1, Zenon DEF L!emit_mov_reg
<1>2. src.rsize <= dst.rsize BY SizesIn DEF Usable86
<1>. QED BY <1>1, <1>2, MovReg86

\* The first operand, or the second, widened into dst and the other one then taken from it.
LEMMA WidenThen86 ==
  ASSUME X86, NEW m \in Machines(R), ~m.left, NEW dst, NEW one, NEW other, NEW first,
         Usable86(dst), Usable86(one), Usable86(other), other.rsize = dst.rsize,
         P86(dst) # P86(other), NEW x \in Int, NEW y \in Int, Agree(m.reg[P86(other)], y, dst.rsize),
         Computes(R, m, first, {}, P86(dst), dst.rsize, x)
  PROVE  Computes(R, m, first \o L!Alu("sub", dst, other), {}, P86(dst), dst.rsize, x - y)
<1> DEFINE n == dst.rsize   m1 == Run(m, first)
<1>4. Prepares(R, m, first, {P86(dst)}) /\ Agree(m1.reg[P86(dst)], x, n)
  <2>1. {} \union {P86(dst)} = {P86(dst)} OBVIOUS
  <2>. QED BY <2>1 DEF Computes
<1>5. m1 \in Machines(R) /\ ~m1.left /\ m1.reg[P86(other)] = m.reg[P86(other)]
  <2>1. P86(other) \in R \ {P86(dst)} BY DEF Usable86
  <2>. QED BY <1>4, <2>1, After
<1> HIDE DEF m1
<1>8. x - y \in Int OBVIOUS
<1>9. Computes(R, m1, L!Alu("sub", dst, other), {}, P86(dst), n, x - y)
  BY <1>4, <1>5, <1>8, Alu86
<1>. QED BY <1>4, <1>9, ComputesThen DEF m1

\* emit_sub_reg subtracts a register, which the destination must not be.
LEMMA SubReg86 ==
  ASSUME X86, NEW m \in Machines(R), ~m.left, NEW dst, NEW lhs, NEW rhs,
         Usable86(dst), Usable86(lhs), Usable86(rhs),
         lhs.dtype.base.sign \in BOOLEAN, rhs.dtype.base.sign \in BOOLEAN,
         dst.rsize = (IF lhs.rsize > rhs.rsize THEN lhs.rsize ELSE rhs.rsize),
         lhs.rsize > rhs.rsize => P86(dst) # P86(lhs),
         P86(dst) # P86(rhs)
  PROVE  Computes(R, m, L!emit_sub_reg(dst, lhs, rhs), {}, P86(dst), dst.rsize,
                  Extend(m.reg[P86(lhs)], lhs.rsize, lhs.dtype.base.sign)
                    - Extend(m.reg[P86(rhs)], rhs.rsize, rhs.dtype.base.sign))
<1> DEFINE x == Extend(m.reg[P86(lhs)], lhs.rsize, lhs.dtype.base.sign)
           y == Extend(m.reg[P86(rhs)], rhs.rsize, rhs.dtype.base.sign)
           n == dst.rsize
<1>1. /\ x \in Int /\ Agree(x, m.reg[P86(lhs)], lhs.rsize) /\ P86(lhs) \in R /\ m.reg[P86(lhs)] \in Int
      /\ lhs.rsize \in Sizes /\ lhs.rsize \in Int /\ lhs.rsize \in 0 .. 8 /\ lhs.rsize # 0
  BY Facts86
<1>2. /\ y \in Int /\ Agree(y, m.reg[P86(rhs)], rhs.rsize) /\ P86(rhs) \in R /\ m.reg[P86(rhs)] \in Int
      /\ rhs.rsize \in Sizes /\ rhs.rsize \in Int /\ rhs.rsize \in 0 .. 8 /\ rhs.rsize # 0
  BY Facts86
<1>3. n \in 0 .. 15 /\ n \in 0 .. 8 /\ n \in Sizes /\ P86(dst) \in R BY Facts86
<1>4. CASE lhs.rsize = rhs.rsize
  <2>1. L!emit_sub_reg(dst, lhs, rhs) = L!Mov(dst, lhs) \o L!Alu("sub", dst, rhs)
    <3>1. ~(rhs.rsize < lhs.rsize) /\ ~(lhs.rsize < rhs.rsize) BY <1>1, <1>2, <1>4
    <3>. QED BY <1>4, <3>1, Zenon DEF L!emit_sub_reg
  <2>2. n = lhs.rsize /\ n = rhs.rsize BY <1>1, <1>2, <1>4
  <2>3. Computes(R, m, L!Mov(dst, lhs), {}, P86(dst), n, x) BY <2>2, Mov86
  <2>4. Agree(m.reg[P86(rhs)], y, n) BY <1>2, <2>2 DEF Agree
  <2>5. Computes(R, m, L!Mov(dst, lhs) \o L!Alu("sub", dst, rhs), {}, P86(dst), n, x - y)
    <3> HIDE DEF x, y
    <3>. QED BY <1>1, <1>2, <2>2, <2>3, <2>4, WidenThen86
  <2>. QED BY <2>1, <2>5
<1>5. CASE lhs.rsize < rhs.rsize
  <2> DEFINE big == L!Sized(rhs, n)
  <2>1. L!emit_sub_reg(dst, lhs, rhs) = L!emit_mov_reg(dst, lhs) \o L!Alu("sub", dst, big)
    <3>1. ~(rhs.rsize < lhs.rsize) /\ ~(lhs.rsize = rhs.rsize) BY <1>1, <1>2, <1>5
    <3>. QED BY <3>1, Zenon DEF L!emit_sub_reg
  <2>2. n = rhs.rsize /\ lhs.rsize <= n BY <1>1, <1>2, <1>5
  <2>3. Computes(R, m, L!emit_mov_reg(dst, lhs), {}, P86(dst), n, x) BY <2>2, MovReg86
  <2>6. Usable86(big) /\ P86(big) = P86(rhs) /\ big.rsize = n BY <1>3, Sized86
  <2>4. Agree(m.reg[P86(big)], y, n) BY <1>2, <2>2, <2>6 DEF Agree
  <2>5. Computes(R, m, L!emit_mov_reg(dst, lhs) \o L!Alu("sub", dst, big), {}, P86(dst), n, x - y)
    <3> HIDE DEF x, y, big
    <3>. QED BY <1>1, <1>2, <2>2, <2>3, <2>4, <2>6, WidenThen86
  <2>. QED BY <2>1, <2>5
<1>6. CASE rhs.rsize < lhs.rsize
  <2> DEFINE big == L!Sized(lhs, n)
             neg == <<Ins("sub", P86(dst), n, Imm(0), Low(P86(dst), n), TRUE)>>
             two == L!emit_mov_reg(dst, rhs) \o L!Alu("sub", dst, big)
  <2>1. L!emit_sub_reg(dst, lhs, rhs) = two \o neg
    <3>1. ~(lhs.rsize < rhs.rsize) /\ ~(lhs.rsize = rhs.rsize) BY <1>1, <1>2, <1>6
    <3>2. L!Size(dst) = n /\ L!Use(dst) = Low(P86(dst), n) BY Facts86
    <3>3. L!emit_sub_reg(dst, lhs, rhs) = (L!emit_mov_reg(dst, rhs) \o L!Alu("sub", dst, big))
            \o <<L!Ins("sub", L!buf_putreg(dst), L!Size(dst), L!Imm(0), L!Use(dst), TRUE)>>
      BY <1>6, <3>1, Zenon DEF L!emit_sub_reg
    <3>. QED BY <3>2, <3>3, InstanceX86 DEF P86
  <2>2. n = lhs.rsize /\ rhs.rsize <= n BY <1>1, <1>2, <1>6
  <2>3. Computes(R, m, L!emit_mov_reg(dst, rhs), {}, P86(dst), n, y) BY <2>2, MovReg86
  <2>6. Usable86(big) /\ P86(big) = P86(lhs) /\ big.rsize = n BY <1>3, Sized86
  <2>4. Agree(m.reg[P86(big)], x, n) BY <1>1, <2>2, <2>6 DEF Agree
  <2>7. P86(dst) # P86(big) BY <1>6, <1>1, <1>2, <2>6
  <2>5. Computes(R, m, two, {}, P86(dst), n, y - x)
    <3> HIDE DEF x, y, big
    <3>. QED BY <1>1, <1>2, <2>2, <2>3, <2>4, <2>6, <2>7, WidenThen86
  <2> DEFINE m1 == Run(m, two)   z == Unsigned(m1.reg[P86(dst)], n)
  <2> HIDE DEF x, y, big, m1, two
  <2>8. Prepares(R, m, two, {P86(dst)}) /\ Agree(m1.reg[P86(dst)], y - x, n)
    <3>1. {} \union {P86(dst)} = {P86(dst)} OBVIOUS
    <3>. QED BY <2>5, <3>1 DEF Computes, m1
  <2>9. m1 \in Machines(R) /\ ~m1.left BY <2>8, After DEF m1
  <2>10. m1.reg[P86(dst)] \in Int /\ Operand(m1, Low(P86(dst), n)) = z /\ Operand(m1, Imm(0)) = 0 /\ Zero \notin R
    BY <2>9, <1>3, NoZero, Operands DEF X86
  <2>11. z \in Int /\ Agree(z, m1.reg[P86(dst)], n) BY <1>3, <2>10, UnsignedRange, AgreeUnsigned
  <2>12. Agree(z, y - x, n) /\ Agree(0, 0, n) /\ y - x \in Int BY <2>8, <2>11, <1>1, <1>2 DEF Agree
  <2> HIDE DEF z
  <2>13. Agree(0 - z, 0 - (y - x), n) BY <1>3, <2>11, <2>12, AgreeDifference
  <2>14. 0 - (y - x) = x - y /\ x - y \in Int BY <1>1, <1>2
  <2>15. /\ "sub" \in {"add", "sub", "mul"} /\ TRUE \in BOOLEAN /\ 0 \in Int
         /\ Agree(CASE "sub" = "add" -> 0 + z [] "sub" = "sub" -> 0 - z [] "sub" = "mul" -> 0 * z, x - y, n)
    BY <2>13, <2>14
  <2> HIDE DEF n
  <2>16. Computes(R, m1, <<Ins("sub", P86(dst), n, Imm(0), Low(P86(dst), n), TRUE)>>, {}, P86(dst), n, x - y)
    BY <1>3, <2>9, <2>10, <2>11, <2>14, <2>15, RunOp, Zenon
  <2>17. Computes(R, m, two \o neg, {}, P86(dst), n, x - y)
    BY <2>8, <2>16, ComputesThen DEF m1
  <2>. QED BY <2>1, <2>17 DEF x, y, n
<1>7. lhs.rsize = rhs.rsize \/ rhs.rsize < lhs.rsize \/ lhs.rsize < rhs.rsize BY <1>1, <1>2
<1>. QED BY <1>4, <1>5, <1>6, <1>7

-----------------------------------------------------------------------------
(* The x86-64 listing: shifts and comparisons.                            *)

\* The small constants fit four bytes.
LEMMA SmallFits ==
  ASSUME NEW v \in 0 .. 7 PROVE FitsSigned(v, 4)
<1>1. 4 \in 0 .. 15 /\ 3 \in 0 .. 15 /\ 2 \in 0 .. 15 /\ 1 \in 0 .. 15 /\ 0 \in 0 .. 15 OBVIOUS
<1>2. 2 * Values(3) <= Values(4) BY ValuesGrow
<1>3. 2 * Values(2) <= Values(3) BY ValuesGrow
<1>4. 2 * Values(1) <= Values(2) BY ValuesGrow
<1>5. Values(1) >= 2 /\ Values(1) \in Int BY ValuesOne, BaseTwo
<1>6. Values(2) \in Int /\ Values(3) \in Int /\ Values(4) \in Int BY <1>1, ValuesPositive
<1>7. 16 <= Values(4) BY <1>2, <1>3, <1>4, <1>5, <1>6
<1>. QED BY <1>1, <1>6, <1>7, SignedSmall DEF FitsSigned

\* The powers of two that shifts use.
LEMMA TwoToSmall == ASSUME NEW v \in 0 .. 15 PROVE v \in 0 .. 15 * ByteBits /\ TwoTo[v] \in Nat \ {0}
<1>1. v \in 0 .. 15 * ByteBits BY MachineAssumption
<1>. QED BY <1>1, TwoToPositive

\* The first powers of two.
LEMMA TwoToFirst == TwoTo[0] = 1 /\ TwoTo[1] = 2
<1>1. 1 \in 1 .. 15 * ByteBits BY MachineAssumption
<1>2. TwoTo[1] = 2 * TwoTo[1 - 1] /\ TwoTo[0] = 1 BY <1>1, TwoToDef
<1>. QED BY <1>2

\* emit_lsl multiplies by a power of two, by adding, lea or shl.
LEMMA Lsl86 ==
  ASSUME X86, NEW m \in Machines(R), ~m.left, NEW dst, NEW lhs,
         Usable86(dst), Usable86(lhs), lhs.dtype.base.sign \in BOOLEAN, dst.rsize = lhs.rsize,
         NEW v \in {0, 1, 4, 5}, v = 1 => dst.rsize # 1
  PROVE  Computes(R, m, L!emit_lsl(dst, lhs, v), {}, P86(dst), dst.rsize,
                  Extend(m.reg[P86(lhs)], lhs.rsize, lhs.dtype.base.sign) * TwoTo[v])
<1> DEFINE x == Extend(m.reg[P86(lhs)], lhs.rsize, lhs.dtype.base.sign)
           n == dst.rsize
<1>1. /\ x \in Int /\ Agree(x, m.reg[P86(lhs)], lhs.rsize) /\ P86(lhs) \in R /\ m.reg[P86(lhs)] \in Int
      /\ lhs.rsize \in Sizes /\ lhs.rsize \in Int /\ lhs.rsize \in 0 .. 8 /\ lhs.rsize # 0
  BY Facts86
<1>3. n \in 0 .. 15 /\ n \in 0 .. 8 /\ n \in Sizes /\ P86(dst) \in R BY Facts86
<1>t. TwoTo[v] \in Int
  <2>1. v \in 0 .. 15 OBVIOUS
  <2>. QED BY <2>1, TwoToSmall
<1>4. CASE v = 0
  <2>1. L!emit_lsl(dst, lhs, v) = L!emit_mov_reg(dst, lhs)
    <3>1. ~(v >= 4) /\ v # 1 BY <1>4
    <3>. QED BY <1>4, <3>1, Zenon DEF L!emit_lsl
  <2>2. Computes(R, m, L!emit_mov_reg(dst, lhs), {}, P86(dst), n, x) BY <1>1, MovReg86
  <2>3. x * TwoTo[v] = x BY <1>1, <1>4, TwoToFirst
  <2>. QED BY <2>1, <2>2, <2>3
<1>5. CASE v = 1
  <2>1. L!emit_lsl(dst, lhs, v) = L!emit_add_reg(dst, lhs, lhs)
    <3>1. ~(v >= 4) /\ v # 0 BY <1>5
    <3>. QED BY <1>5, <3>1, Zenon DEF L!emit_lsl
  <2>g. /\ dst.rsize = (IF lhs.rsize > lhs.rsize THEN lhs.rsize ELSE lhs.rsize)
        /\ (lhs.rsize = lhs.rsize => dst.rsize # 1) /\ ~(lhs.rsize > lhs.rsize) /\ ~(lhs.rsize < lhs.rsize)
    BY <1>1, <1>5
  <2>2. Computes(R, m, L!emit_add_reg(dst, lhs, lhs), {}, P86(dst), n, x + x) BY <2>g, AddReg86
  <2>3. x * TwoTo[v] = x + x
    <3>1. TwoTo[v] = 2 BY <1>5, TwoToFirst
    <3> HIDE DEF x
    <3>. QED BY <1>1, <3>1
  <2>. QED BY <2>1, <2>2, <2>3
<1>6. CASE v \in {4, 5}
  <2> DEFINE shl == <<Ins("shl", P86(dst), n, Low(P86(dst), n), Imm(v), TRUE)>>
             first == L!Mov(dst, lhs)
  <2>1. L!emit_lsl(dst, lhs, v) = first \o shl
    <3>1. v >= 4 BY <1>6
    <3>2. L!Size(dst) = n /\ L!Use(dst) = Low(P86(dst), n) BY Facts86
    <3>3. L!emit_lsl(dst, lhs, v) = L!Mov(dst, lhs) \o L!emit_ri("shl", dst, v)
      <4>1. v # 0 /\ v # 1 BY <1>6
      <4>. QED BY <3>1, <4>1, Zenon DEF L!emit_lsl
    <3>4. L!FitsImmediate(v, n)
      <4>1. v \in 0 .. 7 BY <1>6
      <4>. QED BY <4>1, SmallFits, InstanceValues DEF L!FitsImmediate
    <3>5. L!emit_ri("shl", dst, v) = <<L!Ins("shl", L!buf_putreg(dst), n, L!Use(dst), L!Imm(v), TRUE)>>
      BY <3>2, <3>4, Zenon DEF L!emit_ri
    <3>6. L!emit_ri("shl", dst, v) = shl BY <3>2, <3>5, InstanceX86 DEF P86
    <3>. QED BY <3>3, <3>6
  <2>2. Computes(R, m, first, {}, P86(dst), n, x) BY Mov86
  <2> DEFINE m1 == Run(m, first)   z == Unsigned(m1.reg[P86(dst)], n)
  <2> HIDE DEF x, m1, first
  <2>8. Prepares(R, m, first, {P86(dst)}) /\ Agree(m1.reg[P86(dst)], x, n)
    <3>1. {} \union {P86(dst)} = {P86(dst)} OBVIOUS
    <3>. QED BY <2>2, <3>1 DEF Computes, m1
  <2>9. m1 \in Machines(R) /\ ~m1.left BY <2>8, After DEF m1
  <2>10. m1.reg[P86(dst)] \in Int /\ Operand(m1, Low(P86(dst), n)) = z /\ Operand(m1, Imm(v)) = v /\ Zero \notin R
    BY <2>9, <1>3, NoZero, Operands DEF X86
  <2>11. z \in Int /\ Agree(z, m1.reg[P86(dst)], n) BY <1>3, <2>10, UnsignedRange, AgreeUnsigned
  <2>12. Agree(z, x, n) BY <2>8, <2>11 DEF Agree
  <2> HIDE DEF z, n
  <2>13. Agree(z * TwoTo[v], x * TwoTo[v], n) /\ z * TwoTo[v] \in Int /\ x * TwoTo[v] \in Int
    BY <1>1, <1>3, <1>t, <2>11, <2>12, AgreeProduct
  <2>14. Result(Ins("shl", P86(dst), n, Low(P86(dst), n), Imm(v), TRUE), Operand(m1, Low(P86(dst), n)), Operand(m1, Imm(v)))
           = z * TwoTo[v]
    BY <2>10 DEF Result, Ins
  <2>15. "shl" \in Alu /\ TRUE \in BOOLEAN BY DEF Alu
  <2>16. Computes(R, m1, <<Ins("shl", P86(dst), n, Low(P86(dst), n), Imm(v), TRUE)>>, {}, P86(dst), n, x * TwoTo[v])
    BY <1>3, <2>9, <2>10, <2>13, <2>14, <2>15, RunAlu, Zenon
  <2>17. Computes(R, m, first \o shl, {}, P86(dst), n, x * TwoTo[v])
    BY <2>8, <2>16, ComputesThen DEF m1
  <2>. QED BY <2>1, <2>17 DEF x, n
<1>7. v = 0 \/ v = 1 \/ v \in {4, 5} OBVIOUS
<1>. QED BY <1>4, <1>5, <1>6, <1>7

\* What two compared numbers must be to the flags for the conditions to tell
\* how X and Y compare.
Tells(conds, x, y, n, X, Y) ==
  /\ conds \intersect Equalities # {} => (Agree(x, y, n) <=> X = Y)
  /\ conds \intersect Orders(TRUE) # {} => Signed(x, n) = X /\ Signed(y, n) = Y
  /\ conds \intersect Orders(FALSE) # {} => Unsigned(x, n) = X /\ Unsigned(y, n) = Y
  /\ conds \subseteq (Equalities \union Orders(TRUE)) \union Orders(FALSE)

\* Flags that tell two numbers apart answer the conditions about them.
LEMMA TellsHolds ==
  ASSUME NEW x, NEW y, NEW n, NEW X \in Int, NEW Y \in Int, NEW conds, Tells(conds, x, y, n, X, Y), NEW c \in conds,
         NEW f, f.x = x, f.y = y, f.n = n
  PROVE  Holds(c, f) = True(c, X, Y)
<1>1. CASE c \in Equalities
  <2>1. Agree(x, y, n) <=> X = Y BY <1>1 DEF Tells
  <2>. QED BY <1>1, <2>1 DEF Holds, Ordered, True, Equalities, Agree
<1>2. CASE c \in Orders(TRUE)
  <2>1. Signed(x, n) = X /\ Signed(y, n) = Y BY <1>2 DEF Tells
  <2>. QED BY <1>2, <2>1 DEF Holds, Ordered, True, Orders
<1>3. CASE c \in Orders(FALSE)
  <2>1. Unsigned(x, n) = X /\ Unsigned(y, n) = Y BY <1>3 DEF Tells
  <2>. QED BY <1>3, <2>1 DEF Holds, Ordered, True, Orders
<1>. QED BY <1>1, <1>2, <1>3 DEF Tells

\* The code compares X with Y, and changes registers of V only.
Compared(S, m, code, V, conds, X, Y) ==
  /\ Prepares(S, m, code, V)
  /\ Run(m, code).flags.valid /\ \A c \in conds : Holds(c, Run(m, code).flags) = True(c, X, Y)

\* A comparison sets flags that answer the conditions.
LEMMA RunCompare ==
  ASSUME NEW S, NEW m \in Machines(S), ~m.left, NEW n \in Sizes, NEW a, NEW b, NEW x \in Int, NEW y \in Int,
         Operand(m, a) = x, Operand(m, b) = y, NEW X \in Int, NEW Y \in Int, NEW conds, Tells(conds, x, y, n, X, Y)
  PROVE  Compared(S, m, <<Ins("cmp", Zero, n, a, b, FALSE)>>, {}, conds, X, Y)
<1> DEFINE i == Ins("cmp", Zero, n, a, b, FALSE)
           f == [valid |-> TRUE, x |-> x, y |-> y, n |-> n]
<1>1. i.op = "cmp" /\ i.n = n /\ i.a = a /\ i.b = b BY DEF Ins
<1> HIDE DEF i
<1>2. Exec(m, i) = [m EXCEPT !.flags = f] BY <1>1 DEF Exec, Effect
<1>3. f \in Flags BY DEF Flags
<1>4. f.valid /\ f.x = x /\ f.y = y /\ f.n = n OBVIOUS
<1> HIDE DEF f
<1>5. /\ Exec(m, i) \in Machines(S) /\ Exec(m, i).mem = m.mem /\ Exec(m, i).left = m.left
      /\ Exec(m, i).reg = m.reg /\ Exec(m, i).flags = f
  BY <1>2, <1>3 DEF Machines
<1>6. \A c \in conds : Holds(c, f) = True(c, X, Y) BY <1>4, TellsHolds
<1>7. Run(m, <<i>>) = Exec(m, i) /\ IsCode(<<i>>) BY RunSingle
<1>. QED BY <1>4, <1>5, <1>6, <1>7 DEF Compared, Prepares, Keeps, i

\* A comparison after a preparation.
LEMMA ComparedThen ==
  ASSUME NEW S, NEW m, NEW c1, NEW c2, NEW V, NEW conds, NEW X, NEW Y, Prepares(S, m, c1, V),
         Compared(S, Run(m, c1), c2, {}, conds, X, Y)
  PROVE  Compared(S, m, c1 \o c2, V, conds, X, Y)
<1>1. Run(m, c1 \o c2) = Run(Run(m, c1), c2) BY RunConcat DEF Prepares, Compared
<1>2. Prepares(S, Run(m, c1), c2, {}) BY DEF Compared
<1>3. Prepares(S, m, c1 \o c2, V) BY <1>2, PreparesThen
<1>. QED BY <1>1, <1>3 DEF Compared

\* Numbers that agree extend alike.
LEMMA ExtendAgree ==
  ASSUME NEW v, NEW w, NEW n, NEW s, Agree(v, w, n) PROVE Extend(v, n, s) = Extend(w, n, s)
BY DEF Extend, Signed, Agree

\* A value extended from k bytes stays as it is when extended from n, unless
\* it has a sign and n bytes are taken to have none.
LEMMA ExtendTwice ==
  ASSUME NEW n \in 0 .. 15, NEW k \in 0 .. n, NEW v \in Int, NEW s \in BOOLEAN, NEW t \in BOOLEAN,
         s = t \/ (k < n /\ t)
  PROVE  Extend(Extend(v, k, s), n, t) = Extend(v, k, s)
<1>1. /\ Signed(Signed(v, k), n) = Signed(v, k) /\ Unsigned(Unsigned(v, k), n) = Unsigned(v, k)
      /\ k < n => Signed(Unsigned(v, k), n) = Unsigned(v, k)
  BY ExtendWider
<1>2. CASE s /\ t BY <1>1, <1>2 DEF Extend
<1>3. CASE ~s /\ ~t BY <1>1, <1>3 DEF Extend
<1>4. CASE ~s /\ t /\ k < n BY <1>1, <1>4 DEF Extend
<1>. QED BY <1>2, <1>3, <1>4

\* Registers whose extensions are two numbers tell them apart.
LEMMA TellsValues ==
  ASSUME NEW n \in 0 .. 15, NEW x \in Int, NEW y \in Int, NEW sign \in BOOLEAN, NEW conds,
         conds \subseteq Equalities \union Orders(sign), NEW X, NEW Y,
         Extend(x, n, sign) = X, Extend(y, n, sign) = Y
  PROVE  Tells(conds, x, y, n, X, Y) /\ X \in Int /\ Y \in Int
<1>1. X \in Int /\ Y \in Int /\ Agree(X, x, n) /\ Agree(Y, y, n) BY ExtendInt
<1>2. Agree(x, y, n) <=> X = Y
  <2>1. Agree(x, y, n) => X = Y BY ExtendAgree
  <2>2. X = Y => Agree(x, y, n) BY <1>1 DEF Agree
  <2>. QED BY <2>1, <2>2
<1>3. CASE sign
  <2>1. conds \intersect Orders(FALSE) = {} BY <1>3 DEF Orders, Equalities
  <2>2. Signed(x, n) = X /\ Signed(y, n) = Y BY <1>3 DEF Extend
  <2>3. conds \subseteq (Equalities \union Orders(TRUE)) \union Orders(FALSE) BY <1>3
  <2>. QED BY <1>1, <1>2, <2>1, <2>2, <2>3 DEF Tells
<1>4. CASE ~sign
  <2>1. conds \intersect Orders(TRUE) = {} BY <1>4 DEF Orders, Equalities
  <2>2. Unsigned(x, n) = X /\ Unsigned(y, n) = Y BY <1>4 DEF Extend
  <2>3. conds \subseteq (Equalities \union Orders(TRUE)) \union Orders(FALSE) BY <1>4
  <2>. QED BY <1>1, <1>2, <2>1, <2>2, <2>3 DEF Tells
<1>. QED BY <1>3, <1>4

\* emit_cmp compares with a constant at the register's own width.
LEMMA Cmp86 ==
  ASSUME X86, NEW m \in Machines(R), ~m.left, NEW lhs, Usable86(lhs), NEW sign \in BOOLEAN, NEW v \in Int,
         FitsSigned(v, 4) \/ (lhs.rsize <= 4 /\ v \in 0 .. Values(4) - 1),
         NEW X, NEW Y, X = Extend(m.reg[P86(lhs)], lhs.rsize, sign), Y = Extend(v, lhs.rsize, sign)
  PROVE  Compared(R, m, L!emit_cmp(lhs, v), {}, Equalities \union Orders(sign), X, Y)
<1> DEFINE n == lhs.rsize   x == Unsigned(m.reg[P86(lhs)], n)
<1>1. /\ P86(lhs) \in R /\ m.reg[P86(lhs)] \in Int /\ n \in Sizes /\ n \in 0 .. 15
      /\ L!Size(lhs) = n /\ L!Use(lhs) = Low(P86(lhs), n)
      /\ Operand(m, Low(P86(lhs), n)) = x
  BY Facts86
<1>2. Zero \notin R BY NoZero DEF X86
<1>3. L!emit_cmp(lhs, v) = <<Ins("cmp", Zero, n, Low(P86(lhs), n), Imm(v), FALSE)>>
  <2>1. L!FitsImmediate(v, n) BY InstanceValues DEF L!FitsImmediate
  <2>. QED BY <1>1, <2>1, InstanceX86 DEF L!emit_cmp, L!Compare
<1>4. x \in Int /\ Agree(x, m.reg[P86(lhs)], n) BY <1>1, UnsignedRange, AgreeUnsigned
<1>5. Extend(x, n, sign) = X BY <1>4, ExtendAgree
<1> DEFINE conds == Equalities \union Orders(sign)
<1> HIDE DEF x, conds
<1>6. Tells(conds, x, v, n, X, Y) /\ X \in Int /\ Y \in Int
  <2>1. conds \subseteq Equalities \union Orders(sign) BY DEF conds
  <2>. QED BY <1>1, <1>4, <1>5, <2>1, TellsValues
<1>7. Operand(m, Imm(v)) = v BY <1>2, Operands
<1>8. Compared(R, m, <<Ins("cmp", Zero, n, Low(P86(lhs), n), Imm(v), FALSE)>>, {}, conds, X, Y)
  BY <1>1, <1>4, <1>6, <1>7, RunCompare
<1>. QED BY <1>3, <1>8 DEF conds

\* The scratch registers the listing takes for itself.
LEMMA Temp86 ==
  ASSUME X86, NEW i \in {0, 1, 2}, NEW n \in Sizes
  PROVE  /\ Usable86(L!ScratchReg(i, n)) /\ P86(L!ScratchReg(i, n)) = Class.scratch[i + 1]
         /\ L!ScratchReg(i, n).rsize = n /\ L!ScratchReg(i, n).dtype.base.sign = FALSE
         /\ L!ScratchReg(i, n) = Reg("SCRATCH", i, n, Plain(NoBase))
<1>1. L!ScratchReg(i, n) = Reg("SCRATCH", i, n, Plain(NoBase))
  BY DEF L!ScratchReg, L!Reg, Reg, L!Plain, Plain, L!NoBase, NoBase
<1> DEFINE r == Reg("SCRATCH", i, n, Plain(NoBase))
<1>2. r.reg_type = "SCRATCH" /\ r.offset = i /\ r.rsize = n /\ r.dtype.base.sign = FALSE /\ r.dtype = Plain(NoBase)
  BY DEF Reg, Plain, NoBase
<1>3. IsReg(r) BY <1>2 DEF IsReg
<1> HIDE DEF r
<1>4. P86(r) = Class.scratch[i + 1] BY <1>2 DEF P86, L!buf_putreg
<1>5. Class.scratch[i + 1] \in R BY DEF Class, RegistersOf, Linux, R, X86
<1>. QED BY <1>1, <1>2, <1>3, <1>4, <1>5 DEF Usable86, r

\* Two registers of one size, whose values at that size are those of X and Y.
LEMMA Compare86 ==
  ASSUME X86, NEW m \in Machines(R), ~m.left, NEW lhs, NEW rhs, Usable86(lhs), Usable86(rhs), lhs.rsize = rhs.rsize,
         NEW sign \in BOOLEAN, NEW conds, conds \subseteq Equalities \union Orders(sign), NEW X, NEW Y,
         Extend(m.reg[P86(lhs)], lhs.rsize, sign) = X, Extend(m.reg[P86(rhs)], lhs.rsize, sign) = Y
  PROVE  Compared(R, m, <<Ins("cmp", Zero, lhs.rsize, Low(P86(lhs), lhs.rsize), Low(P86(rhs), lhs.rsize), FALSE)>>, {}, conds, X, Y)
<1> DEFINE n == lhs.rsize   x == Unsigned(m.reg[P86(lhs)], n)   y == Unsigned(m.reg[P86(rhs)], n)
<1>1. /\ P86(lhs) \in R /\ m.reg[P86(lhs)] \in Int /\ n \in Sizes /\ n \in 0 .. 15
      /\ Operand(m, Low(P86(lhs), n)) = x
  BY Facts86
<1>2. P86(rhs) \in R /\ m.reg[P86(rhs)] \in Int /\ Operand(m, Low(P86(rhs), n)) = y BY <1>1, Facts86
<1>3. x \in Int /\ Agree(x, m.reg[P86(lhs)], n) /\ y \in Int /\ Agree(y, m.reg[P86(rhs)], n)
  BY <1>1, <1>2, UnsignedRange, AgreeUnsigned
<1>4. Extend(x, n, sign) = X /\ Extend(y, n, sign) = Y BY <1>3, ExtendAgree
<1> HIDE DEF x, y, n
<1>5. Tells(conds, x, y, n, X, Y) /\ X \in Int /\ Y \in Int BY <1>1, <1>3, <1>4, TellsValues
<1>. QED BY <1>1, <1>2, <1>3, <1>5, RunCompare DEF n

\* emit_cmp_reg widens the narrower operand into a scratch register.
LEMMA CmpReg86 ==
  ASSUME X86, NEW m \in Machines(R), ~m.left, NEW lhs, NEW rhs, Usable86(lhs), Usable86(rhs),
         NEW l \in BOOLEAN, NEW r \in BOOLEAN, lhs.dtype.base.sign = l, rhs.dtype.base.sign = r,
         NEW conds, conds \subseteq Equalities \union Orders(l), NEW cond \in conds,
         lhs.rsize = rhs.rsize => l = r,
         lhs.rsize > rhs.rsize => (l = r \/ l) /\ P86(lhs) # Class.scratch[1],
         lhs.rsize < rhs.rsize => l = r /\ P86(rhs) # Class.scratch[1] /\ cond \notin Equalities
  PROVE  Compared(R, m, L!emit_cmp_reg(lhs, rhs, cond), {Class.scratch[1]}, conds,
                  Extend(m.reg[P86(lhs)], lhs.rsize, l), Extend(m.reg[P86(rhs)], rhs.rsize, r))
<1> DEFINE X == Extend(m.reg[P86(lhs)], lhs.rsize, l)   Y == Extend(m.reg[P86(rhs)], rhs.rsize, r)
           n == IF lhs.rsize > rhs.rsize THEN lhs.rsize ELSE rhs.rsize
           tmp == L!ScratchReg(0, n)   T == {Class.scratch[1]}
           code == <<Ins("cmp", Zero, n, Low(P86(lhs), n), Low(P86(rhs), n), FALSE)>>
<1>1. /\ X \in Int /\ Agree(X, m.reg[P86(lhs)], lhs.rsize) /\ P86(lhs) \in R /\ m.reg[P86(lhs)] \in Int
      /\ lhs.rsize \in Sizes /\ lhs.rsize \in Int /\ lhs.rsize \in 0 .. 8 /\ lhs.rsize # 0
      /\ L!Size(lhs) = lhs.rsize /\ L!Use(lhs) = Low(P86(lhs), lhs.rsize)
  BY Facts86
<1>2. /\ Y \in Int /\ Agree(Y, m.reg[P86(rhs)], rhs.rsize) /\ P86(rhs) \in R /\ m.reg[P86(rhs)] \in Int
      /\ rhs.rsize \in Sizes /\ rhs.rsize \in Int /\ rhs.rsize \in 0 .. 8 /\ rhs.rsize # 0
      /\ L!Size(rhs) = rhs.rsize /\ L!Use(rhs) = Low(P86(rhs), rhs.rsize)
  BY Facts86
<1>3. n \in Sizes /\ n \in 0 .. 15 /\ n \in Int BY <1>1, <1>2
<1>4. CASE lhs.rsize = rhs.rsize
  <2>1. L!emit_cmp_reg(lhs, rhs, cond) = <<L!Ins("cmp", L!Zero, L!Size(lhs), L!Use(lhs), L!Use(rhs), FALSE)>>
    <3>1. ~(rhs.rsize < lhs.rsize) /\ ~(lhs.rsize < rhs.rsize) /\ L!Size(lhs) = L!Size(rhs) BY <1>1, <1>2, <1>4
    <3>2. L!emit_cmp_reg(lhs, rhs, cond) = L!Compare(L!Use(lhs), L!Size(lhs), L!Use(rhs))
      BY <1>4, <3>1, Zenon DEF L!emit_cmp_reg
    <3>. QED BY <3>2 DEF L!Compare
  <2>2. n = lhs.rsize /\ n = rhs.rsize BY <1>4
  <2>3. L!emit_cmp_reg(lhs, rhs, cond) = code BY <1>1, <1>2, <2>1, <2>2, InstanceX86
  <2>4. Extend(m.reg[P86(rhs)], lhs.rsize, l) = Y BY <1>4
  <2>5. Compared(R, m, code, {}, conds, X, Y)
    <3> HIDE DEF X, Y, n
    <3>1. Extend(m.reg[P86(lhs)], lhs.rsize, l) = X BY DEF X
    <3>. QED BY <1>4, <2>2, <2>4, <3>1, Compare86
  <2>6. Compared(R, m, code, T, conds, X, Y)
    <3> HIDE DEF X, Y, code, T
    <3>1. {} \subseteq T OBVIOUS
    <3>. QED BY <2>5, <3>1, KeepsMore DEF Compared, Prepares
  <2>. QED BY <2>3, <2>6
<1>5. CASE lhs.rsize > rhs.rsize
  <2> DEFINE big == L!Sized(lhs, n)   m1 == Run(m, L!emit_mov_reg(tmp, rhs))
  <2>g. ~(lhs.rsize = rhs.rsize) /\ rhs.rsize < lhs.rsize /\ ~(lhs.rsize < rhs.rsize) /\ n = lhs.rsize /\ rhs.rsize <= n BY <1>1, <1>2, <1>5
  <2>t. Usable86(tmp) /\ P86(tmp) = Class.scratch[1] /\ tmp.rsize = n
    <3>1. 0 \in {0, 1, 2} /\ 0 + 1 = 1 OBVIOUS
    <3> HIDE DEF n
    <3>. QED BY <1>3, <3>1, Temp86
  <2>s. Usable86(big) /\ P86(big) = P86(lhs) /\ big.rsize = n BY <1>3, Sized86
  <2>u. /\ L!Size(tmp) = n /\ L!Use(tmp) = Low(P86(tmp), n)
        /\ L!Size(big) = n /\ L!Use(big) = Low(P86(lhs), n)
    <3> HIDE DEF tmp, big
    <3>. QED BY <2>t, <2>s, Facts86
  <2>1. L!emit_cmp_reg(lhs, rhs, cond) =
          L!emit_mov_reg(tmp, rhs) \o <<L!Ins("cmp", L!Zero, L!Size(big), L!Use(big), L!Use(tmp), FALSE)>>
    <3>2. L!emit_cmp_reg(lhs, rhs, cond) = L!emit_mov_reg(tmp, rhs) \o L!Compare(L!Use(big), L!Size(big), L!Use(tmp))
      <4>1. L!Size(big) = L!Size(tmp) BY <2>u
      <4>. QED BY <1>5, <2>g, <4>1, Zenon DEF L!emit_cmp_reg
    <3>. QED BY <3>2 DEF L!Compare
  <2> DEFINE cmp == <<Ins("cmp", Zero, n, Low(P86(big), n), Low(P86(tmp), n), FALSE)>>
  <2>2. L!emit_cmp_reg(lhs, rhs, cond) = L!emit_mov_reg(tmp, rhs) \o cmp
    <3> HIDE DEF tmp, big, n
    <3>. QED BY <2>1, <2>u, <2>s, InstanceX86
  <2> HIDE DEF n, tmp, big
  <2>3. Computes(R, m, L!emit_mov_reg(tmp, rhs), {}, P86(tmp), n, Y)
    BY <2>g, <2>t, MovReg86
  <2>4. Prepares(R, m, L!emit_mov_reg(tmp, rhs), T) /\ Agree(m1.reg[P86(tmp)], Y, n)
    <3>1. {} \union {P86(tmp)} = T BY <2>t
    <3>. QED BY <2>3, <3>1 DEF Computes
  <2>5. m1 \in Machines(R) /\ ~m1.left /\ m1.reg[P86(big)] = m.reg[P86(lhs)]
    <3>1. P86(lhs) \in R \ T BY <1>1, <1>5
    <3>. QED BY <2>4, <2>s, <3>1, After
  <2>6. Extend(m1.reg[P86(big)], n, l) = X BY <2>5, <2>g
  <2>7. Extend(m1.reg[P86(tmp)], n, l) = Y
    <3>1. Extend(m1.reg[P86(tmp)], n, l) = Extend(Y, n, l) BY <2>4, ExtendAgree
    <3>2. rhs.rsize \in 0 .. n /\ (r = l \/ (rhs.rsize < n /\ l)) BY <1>2, <1>3, <1>5, <2>g
    <3>3. Extend(Y, n, l) = Y BY <1>2, <1>3, <3>2, ExtendTwice
    <3>. QED BY <3>1, <3>3
  <2> HIDE DEF m1, X, Y
  <2>8. Compared(R, m1, cmp, {}, conds, X, Y)
    <3>1. big.rsize = tmp.rsize /\ big.rsize = n BY <2>s, <2>t
    <3>. QED BY <2>s, <2>t, <2>5, <2>6, <2>7, <3>1, Compare86
  <2>9. Compared(R, m, L!emit_mov_reg(tmp, rhs) \o cmp, T, conds, X, Y)
    BY <2>4, <2>8, ComparedThen DEF m1
  <2>. QED BY <2>2, <2>9 DEF X, Y
<1>6. CASE lhs.rsize < rhs.rsize
  <2> DEFINE big == L!Sized(rhs, n)   m1 == Run(m, L!emit_mov_reg(tmp, lhs))
  <2>g. ~(lhs.rsize = rhs.rsize) /\ ~(rhs.rsize < lhs.rsize) /\ ~(lhs.rsize > rhs.rsize) /\ n = rhs.rsize /\ lhs.rsize <= n
    BY <1>1, <1>2, <1>6
  <2>t. Usable86(tmp) /\ P86(tmp) = Class.scratch[1] /\ tmp.rsize = n
    <3>1. 0 \in {0, 1, 2} /\ 0 + 1 = 1 OBVIOUS
    <3> HIDE DEF n
    <3>. QED BY <1>3, <3>1, Temp86
  <2>s. Usable86(big) /\ P86(big) = P86(rhs) /\ big.rsize = n BY <1>3, Sized86
  <2>u. /\ L!Size(tmp) = n /\ L!Use(tmp) = Low(P86(tmp), n)
        /\ L!Size(big) = n /\ L!Use(big) = Low(P86(rhs), n)
    <3> HIDE DEF tmp, big
    <3>. QED BY <2>t, <2>s, Facts86
  <2>c. ~(cond \in {"EQ", "NE"}) BY <1>6 DEF Equalities
  <2>1. L!emit_cmp_reg(lhs, rhs, cond) =
          L!emit_mov_reg(tmp, lhs) \o <<L!Ins("cmp", L!Zero, L!Size(tmp), L!Use(tmp), L!Use(big), FALSE)>>
    <3>2. L!emit_cmp_reg(lhs, rhs, cond) = L!emit_mov_reg(tmp, lhs) \o L!Compare(L!Use(tmp), L!Size(tmp), L!Use(big))
      <4>1. L!Size(tmp) = L!Size(big) BY <2>u
      <4>. QED BY <2>g, <2>c, <4>1, Zenon DEF L!emit_cmp_reg
    <3>. QED BY <3>2 DEF L!Compare
  <2> DEFINE cmp == <<Ins("cmp", Zero, n, Low(P86(tmp), n), Low(P86(big), n), FALSE)>>
  <2>2. L!emit_cmp_reg(lhs, rhs, cond) = L!emit_mov_reg(tmp, lhs) \o cmp
    <3> HIDE DEF tmp, big, n
    <3>. QED BY <2>1, <2>u, <2>s, InstanceX86
  <2> HIDE DEF n, tmp, big
  <2>3. Computes(R, m, L!emit_mov_reg(tmp, lhs), {}, P86(tmp), n, X)
    BY <2>g, <2>t, MovReg86
  <2>4. Prepares(R, m, L!emit_mov_reg(tmp, lhs), T) /\ Agree(m1.reg[P86(tmp)], X, n)
    <3>1. {} \union {P86(tmp)} = T BY <2>t
    <3>. QED BY <2>3, <3>1 DEF Computes
  <2>5. m1 \in Machines(R) /\ ~m1.left /\ m1.reg[P86(big)] = m.reg[P86(rhs)]
    <3>1. P86(rhs) \in R \ T BY <1>2, <1>6
    <3>. QED BY <2>4, <2>s, <3>1, After
  <2>6. Extend(m1.reg[P86(big)], n, l) = Y BY <2>5, <2>g, <1>6
  <2>7. Extend(m1.reg[P86(tmp)], n, l) = X
    <3>1. Extend(m1.reg[P86(tmp)], n, l) = Extend(X, n, l) BY <2>4, ExtendAgree
    <3>2. lhs.rsize \in 0 .. n BY <1>1, <1>3, <2>g
    <3>3. Extend(X, n, l) = X BY <1>1, <1>3, <3>2, ExtendTwice
    <3>. QED BY <3>1, <3>3
  <2> HIDE DEF m1, X, Y
  <2>8. Compared(R, m1, cmp, {}, conds, X, Y)
    <3>1. tmp.rsize = big.rsize /\ tmp.rsize = n BY <2>s, <2>t
    <3>. QED BY <2>s, <2>t, <2>5, <2>6, <2>7, <3>1, Compare86
  <2>9. Compared(R, m, L!emit_mov_reg(tmp, lhs) \o cmp, T, conds, X, Y)
    BY <2>4, <2>8, ComparedThen DEF m1
  <2>. QED BY <2>2, <2>9 DEF X, Y
<1>7. lhs.rsize = rhs.rsize \/ rhs.rsize < lhs.rsize \/ lhs.rsize < rhs.rsize BY <1>1, <1>2
<1>. QED BY <1>4, <1>5, <1>6, <1>7

-----------------------------------------------------------------------------
(* The x86-64 listing: stores and loads.                                  *)

\* As Computes, of fewer bytes than were computed.
Yields(S, m, code, V, d, n, v) ==
  Prepares(S, m, code, V \union {d}) /\ Agree(Run(m, code).reg[d], v, n)

\* What is computed at a width is known in fewer bytes.
LEMMA ComputesYields ==
  ASSUME NEW S, NEW m \in Machines(S), NEW code, NEW V, NEW d \in S, NEW k \in 0 .. 15, NEW n \in 0 .. k, NEW v \in Int,
         Computes(S, m, code, V, d, k, v)
  PROVE  Yields(S, m, code, V, d, n, v)
<1>1. Prepares(S, m, code, V \union {d}) /\ Agree(Run(m, code).reg[d], v, k) BY DEF Computes
<1>2. Run(m, code).reg[d] \in Int
  <2>1. Run(m, code) \in Machines(S) BY <1>1 DEF Prepares, Keeps
  <2>2. Run(m, code).reg[d] \in 0 .. Values(8) - 1 BY <2>1 DEF Machines, Word
  <2>3. 8 \in 0 .. 15 OBVIOUS
  <2>. QED BY <2>2, <2>3, ValuesPositive
<1>3. Agree(Run(m, code).reg[d], v, n) BY <1>1, <1>2, AgreeFewer
<1>. QED BY <1>1, <1>3 DEF Yields

\* emit_cond_set turns the flags into 0 or 1.
LEMMA CondSet86 ==
  ASSUME X86, NEW m \in Machines(R), ~m.left, NEW dst, Usable86(dst), NEW cond,
         NEW v, v = IF Holds(cond, m.flags) THEN 1 ELSE 0
  PROVE  Yields(R, m, L!emit_cond_set(dst, cond), {}, P86(dst), dst.rsize, v)
<1> DEFINE d == P86(dst)   wide == IF dst.rsize <= 1 THEN 4 ELSE dst.rsize
           c1 == <<Ins("mov", d, 1, If(cond), Imm(0), FALSE)>>
           c2 == <<Ins("mov", d, wide, Low(d, 1), Imm(0), FALSE)>>
           m1 == Run(m, c1)
<1>1. d \in R /\ dst.rsize \in Sizes /\ wide \in Sizes /\ wide \in 0 .. 15 /\ dst.rsize \in 0 .. wide
      /\ 1 \in Sizes /\ 1 \in 0 .. 15
  BY Facts86 DEF Sizes
<1>2. Zero \notin R BY NoZero DEF X86
<1>3. L!emit_cond_set(dst, cond) = c1 \o c2
  <2>1. L!emit_cond_set(dst, cond) = <<Ins("mov", d, 1, If(cond), Imm(0), FALSE), Ins("mov", d, wide, Low(d, 1), Imm(0), FALSE)>>
    <3>1. L!emit_cond_set(dst, cond) =
            <<L!Ins("mov", L!buf_putreg(dst), 1, L!If(cond), L!Imm(0), FALSE),
              L!Ins("mov", L!buf_putreg(dst), wide, L!Low(L!buf_putreg(dst), 1), L!Imm(0), FALSE)>>
      BY Zenon DEF L!emit_cond_set
    <3> HIDE DEF wide
    <3>. QED BY <3>1, InstanceX86 DEF P86
  <2> HIDE DEF d, wide
  <2>. QED BY <2>1, PairCode, Zenon DEF c1, c2
<1>4. Operand(m, If(cond)) = v BY DEF Operand, If
<1>5. v \in Int /\ v \in 0 .. Values(1) - 1 /\ Agree(v, v, 1) /\ FALSE \in BOOLEAN BY ValuesOne, BaseTwo DEF Agree
<1> HIDE DEF d, wide
<1>6. Computes(R, m, c1, {}, d, 1, v)
  <2>1. Operand(m, If(cond)) \in Int /\ Agree(Operand(m, If(cond)), v, 1) BY <1>4, <1>5
  <2>. QED BY <1>1, <1>2, <1>5, <2>1, RunMov, Zenon
<1> HIDE DEF c1, m1
<1>7. Prepares(R, m, c1, {d}) /\ Agree(m1.reg[d], v, 1)
  <2>1. {} \union {d} = {d} OBVIOUS
  <2>. QED BY <1>6, <2>1 DEF Computes, m1
<1>8. m1 \in Machines(R) /\ ~m1.left BY <1>7, After DEF m1
<1>9. m1.reg[d] \in Int /\ Operand(m1, Low(d, 1)) = Unsigned(m1.reg[d], 1) BY <1>1, <1>2, <1>8, Operands
<1>10. Operand(m1, Low(d, 1)) = v
  <2>1. Unsigned(v, 1) = v BY <1>1, <1>5, UnsignedSmall
  <2>. QED BY <1>7, <1>9, <2>1 DEF Agree
<1>11. Operand(m1, Low(d, 1)) \in Int /\ Agree(Operand(m1, Low(d, 1)), v, wide) BY <1>10, <1>5 DEF Agree
<1>12. Computes(R, m1, c2, {}, d, wide, v)
  BY <1>1, <1>2, <1>5, <1>8, <1>11, RunMov, Zenon
<1> HIDE DEF c2
<1>13. Computes(R, m, c1 \o c2, {}, d, wide, v) BY <1>7, <1>12, ComputesThen DEF m1
<1>14. Yields(R, m, c1 \o c2, {}, d, dst.rsize, v) BY <1>1, <1>5, <1>13, ComputesYields
<1>. QED BY <1>3, <1>14 DEF d

\* Addresses.
LEMMA SmallAddress == Values(8) \in Nat /\ 256 <= Values(8)
<1>1. 8 \in 0 .. 15 /\ 7 \in 0 .. 15 /\ 6 \in 0 .. 15 /\ 5 \in 0 .. 15 /\ 4 \in 0 .. 15 /\ 3 \in 0 .. 15 /\ 2 \in 0 .. 15 /\ 1 \in 0 .. 15
  OBVIOUS
<1>2. 2 * Values(7) <= Values(8) /\ 2 * Values(6) <= Values(7) BY ValuesGrow
<1>3. 2 * Values(5) <= Values(6) /\ 2 * Values(4) <= Values(5) BY ValuesGrow
<1>4. 2 * Values(3) <= Values(4) /\ 2 * Values(2) <= Values(3) BY ValuesGrow
<1>5. 2 * Values(1) <= Values(2) BY ValuesGrow
<1>6. Values(1) >= 2 /\ Values(1) \in Int BY ValuesOne, BaseTwo
<1>7. /\ Values(2) \in Nat /\ Values(3) \in Nat /\ Values(4) \in Nat /\ Values(5) \in Nat /\ Values(6) \in Nat /\ Values(7) \in Nat
      /\ Values(8) \in Nat
  BY <1>1, ValuesPositive
<1>. QED BY <1>2, <1>3, <1>4, <1>5, <1>6, <1>7

Place8 == 0 .. 255

\* A place of the machine is the number it is.
LEMMA PlaceValue == ASSUME NEW v \in Place8 PROVE Unsigned(v, 8) = v /\ v \in 0 .. Values(8) - 1 /\ v \in Nat
<1>1. v \in 0 .. Values(8) - 1 BY SmallAddress DEF Place8
<1>2. 8 \in 0 .. 15 OBVIOUS
<1>. QED BY <1>1, <1>2, UnsignedSmall DEF Place8

\* A register whose eight bytes are those of a place holds the place.
LEMMA WordIs ==
  ASSUME NEW w \in 0 .. Values(8) - 1, NEW v \in Place8, Agree(w, v, 8) PROVE w = v
<1>1. Unsigned(v, 8) = v BY PlaceValue
<1>2. 8 \in 0 .. 15 OBVIOUS
<1>3. Unsigned(w, 8) = w BY <1>2, UnsignedSmall
<1>. QED BY <1>1, <1>3 DEF Agree

\* An address denotes the place its parts add up to.
LEMMA AtPlace ==
  ASSUME NEW S, Zero \notin S, NEW m \in Machines(S), NEW base \in S, NEW index, Simple(m, index) \in Int, NEW disp \in Int,
         NEW at \in Place8, (m.reg[base] + Simple(m, index)) + disp = at
  PROVE  Operand(m, Address(base, index, disp)) = at /\ At(m, Address(base, index, disp)) = at
<1>1. Operand(m, Address(base, index, disp)) = Unsigned((m.reg[base] + Simple(m, index)) + disp, 8) BY AddressValue
<1>2. Unsigned(at, 8) = at BY PlaceValue
<1>3. Operand(m, Address(base, index, disp)) = At(m, Address(base, index, disp)) BY DEF Operand, Address
<1>. QED BY <1>1, <1>2, <1>3

\* No index adds nothing.
LEMMA NoIndexValue == \A m : Simple(m, NoIndex) = 0
BY DEF Simple, NoIndex, Imm

\* The memory of a machine.
LEMMA MemIn ==
  ASSUME NEW S, NEW m \in Machines(S) PROVE m.mem \in Mem
BY DEF Machines, Mem

\* The places of a memory.
LEMMA MemDomain == ASSUME NEW mem \in Mem PROVE DOMAIN mem = 0 .. Memory - 1 /\ DOMAIN mem \subseteq Int
BY DEF Mem

\* What an index register adds to an address.
LEMMA SimpleIndex ==
  ASSUME NEW S, Zero \notin S, NEW m \in Machines(S), NEW r \in S, NEW times \in Int
  PROVE  Simple(m, NoIndex) = 0 /\ Simple(m, Scaled(r, 8, FALSE, times)) = m.reg[r] * times
         /\ Simple(m, Low(r, 8)) = m.reg[r] /\ m.reg[r] \in Int /\ m.reg[r] * times \in Int
<1>1. m.reg[r] \in Int /\ m.reg[r] \in 0 .. Values(8) - 1 BY Operands
<1>2. Unsigned(m.reg[r], 8) = m.reg[r]
  <2>1. 8 \in 0 .. 15 OBVIOUS
  <2>. QED BY <1>1, <2>1, UnsignedSmall
<1>3. Simple(m, Scaled(r, 8, FALSE, times)) = Unsigned(m.reg[r], 8) * times BY DEF Simple, Scaled, RegValue, Extend
<1>4. Simple(m, Low(r, 8)) = Unsigned(m.reg[r], 8) * 1 BY DEF Simple, Low, Scaled, RegValue, Extend
<1>5. Simple(m, NoIndex) = 0 BY DEF Simple, NoIndex, Imm
<1>6. m.reg[r] * 1 = m.reg[r] /\ m.reg[r] * times \in Int
  <2> DEFINE w == m.reg[r]
  <2> HIDE DEF w
  <2>1. w * 1 = w /\ w * times \in Int BY <1>1 DEF w
  <2>. QED BY <2>1 DEF w
<1>. QED BY <1>1, <1>2, <1>3, <1>4, <1>5, <1>6

\* What memory holds at an address.
LEMMA LoadValue ==
  ASSUME NEW S, Zero \notin S, NEW m \in Machines(S), NEW address, NEW at \in Nat, NEW n \in Sizes, at + n <= Memory,
         At(m, address) = at, NEW s \in BOOLEAN
  PROVE  /\ Operand(m, Loaded(address, n, s)) = Extend(BytesIn(m.mem, at, n), n, s)
         /\ BytesIn(m.mem, at, n) \in Int
<1>1. m.mem \in [0 .. Memory - 1 -> 0 .. Base - 1] /\ n \in Nat BY DEF Machines, Sizes
<1>2. BytesIn(m.mem, at, n) \in Int BY <1>1, BytesInt
<1>3. Operand(m, Loaded(address, n, s)) = Content(m, at, n, s) BY DEF Operand, Loaded
<1>4. Content(m, at, n, s) = Extend(Bytes(m, at, n), n, s) BY DEF Content, Mapped
<1>. QED BY <1>2, <1>3, <1>4, BytesOf

\* emit_str_reg stores the bytes of a register.
LEMMA StrReg86 ==
  ASSUME X86, NEW m \in Machines(R), ~m.left, NEW dst, P86(dst) \in R, NEW src, Usable86(src), NEW offset \in Int,
         NEW at \in Place8, m.reg[P86(dst)] + offset = at, at + src.rsize <= Memory
  PROVE  Leaves(R, m, L!emit_str_reg(dst, src, offset), {},
                Written(m.mem, at, src.rsize, Unsigned(m.reg[P86(src)], src.rsize)))
<1> DEFINE n == src.rsize   v == Unsigned(m.reg[P86(src)], n)   b == P86(dst)
           i == <<Ins("store", Zero, n, Low(P86(src), n), Address(b, NoIndex, offset), FALSE)>>
<1>1. /\ P86(src) \in R /\ m.reg[P86(src)] \in Int /\ n \in Sizes /\ n \in 0 .. 15
      /\ L!Size(src) = n /\ L!Use(src) = Low(P86(src), n) /\ Operand(m, Low(P86(src), n)) = v
  BY Facts86
<1>2. Zero \notin R BY NoZero DEF X86
<1>3. L!emit_str_reg(dst, src, offset) = i BY <1>1, InstanceX86 DEF L!emit_str_reg, L!Store, P86
<1>4. v \in Int BY <1>1, UnsignedRange
<1>5. Simple(m, NoIndex) = 0 /\ m.reg[b] \in Int BY <1>2, NoIndexValue, Operands
<1>6. Operand(m, Address(b, NoIndex, offset)) = at
  <2>1. (m.reg[b] + Simple(m, NoIndex)) + offset = at BY <1>5
  <2>2. Simple(m, NoIndex) \in Int BY <1>5
  <2>. QED BY <1>2, <2>1, <2>2, AtPlace
<1>7. at \in Nat BY PlaceValue
<1>8. Leaves(R, m, i, {}, Written(m.mem, at, n, v))
  <2> HIDE DEF v, b, n
  <2>. QED BY <1>1, <1>2, <1>4, <1>6, <1>7, RunStore DEF n
<1>. QED BY <1>3, <1>8

\* A store of a constant writes its bytes.
LEMMA MemImm86 ==
  ASSUME X86, NEW m \in Machines(R), ~m.left, NEW dst, P86(dst) \in R, NEW n \in Sizes, NEW v \in Int, NEW offset \in Int,
         NEW at \in Place8, m.reg[P86(dst)] + offset = at, at + n <= Memory
  PROVE  Leaves(R, m, L!emit_mem_imm(n, dst, offset, v), {}, Written(m.mem, at, n, v))
<1> DEFINE b == P86(dst)
           i == <<Ins("store", Zero, n, Imm(v), Address(b, NoIndex, offset), FALSE)>>
<1>2. Zero \notin R BY NoZero DEF X86
<1>3. L!emit_mem_imm(n, dst, offset, v) = i BY InstanceX86 DEF L!emit_mem_imm, L!Store, P86
<1>5. Simple(m, NoIndex) = 0 /\ m.reg[b] \in Int BY <1>2, NoIndexValue, Operands
<1>6. Operand(m, Address(b, NoIndex, offset)) = at
  <2>1. (m.reg[b] + Simple(m, NoIndex)) + offset = at BY <1>5
  <2>2. Simple(m, NoIndex) \in Int BY <1>5
  <2>. QED BY <1>2, <2>1, <2>2, AtPlace
<1>7. at \in Nat /\ Operand(m, Imm(v)) = v BY <1>2, PlaceValue, Operands
<1>8. Leaves(R, m, i, {}, Written(m.mem, at, n, v))
  <2> HIDE DEF b
  <2>. QED BY <1>2, <1>6, <1>7, RunStore
<1>. QED BY <1>3, <1>8

\* emit_str_imm stores a constant, one of eight bytes in two halves.
LEMMA StrImm86 ==
  ASSUME X86, NEW m \in Machines(R), ~m.left, NEW dst, P86(dst) \in R, dst.dtype.base.size \in Sizes, NEW v \in Int,
         NEW offset \in Int, NEW at \in Place8, m.reg[P86(dst)] + offset = at, at + dst.dtype.base.size <= Memory,
         at + 4 \in Place8
  PROVE  Leaves(R, m, L!emit_str_imm(dst, v, offset), {}, Written(m.mem, at, dst.dtype.base.size, v))
<1> DEFINE n == dst.dtype.base.size
<1>1. CASE ~(n = 8 /\ ~FitsSigned(v, 4))
  <2>1. L!emit_str_imm(dst, v, offset) = L!emit_mem_imm(n, dst, offset, v)
    BY <1>1, InstanceValues DEF L!emit_str_imm
  <2>2. Leaves(R, m, L!emit_mem_imm(n, dst, offset, v), {}, Written(m.mem, at, n, v)) BY MemImm86
  <2>. QED BY <2>1, <2>2
<1>2. CASE n = 8 /\ ~FitsSigned(v, 4)
  <2> DEFINE lo == Signed(v, 4)   hi == Signed(v \div Values(4), 4)
             c1 == L!emit_mem_imm(4, dst, offset, lo)   c2 == L!emit_mem_imm(4, dst, offset + 4, hi)
             mem1 == Written(m.mem, at, 4, lo)   m1 == Run(m, c1)   q == v \div Values(4)
  <2>0. 4 \in 0 .. 15 /\ 4 \in Sizes /\ 4 \in Nat /\ 4 + 4 \in 0 .. 15 /\ 4 + 4 = 8 BY DEF Sizes
  <2>1. L!emit_str_imm(dst, v, offset) = c1 \o c2
    BY <1>2, InstanceValues, Zenon DEF L!emit_str_imm
  <2>2. Values(4) \in Nat \ {0} BY <2>0, ValuesPositive
  <2>3. v \div Values(4) \in Int
    <3> DEFINE V == Values(4)
    <3> HIDE DEF V
    <3>1. v \div V \in Int BY <2>2 DEF V
    <3>. QED BY <3>1 DEF V
  <2>4. lo \in Int /\ Agree(lo, v, 4) /\ hi \in Int /\ Agree(hi, q, 4)
    BY <2>0, <2>3, SignedInt
  <2>f. at \in Int /\ at + 4 \in Int /\ m.mem \in Mem /\ DOMAIN m.mem \subseteq Int
    BY MemIn, MemDomain DEF Place8
  <2> HIDE DEF lo, hi, q, m1, c1, c2, mem1
  <2>5. Leaves(R, m, c1, {}, mem1)
    <3>1. at + 4 <= Memory BY <1>2, MachineAssumption DEF Place8
    <3>. QED BY <2>0, <2>4, <3>1, MemImm86 DEF c1, mem1
  <2>6. m1 \in Machines(R) /\ ~m1.left /\ m1.mem = mem1 /\ m1.reg[P86(dst)] = m.reg[P86(dst)]
    BY <2>5 DEF Leaves, m1
  <2>7. m1.reg[P86(dst)] + (offset + 4) = at + 4
    <3>1. Zero \notin R BY NoZero DEF X86
    <3>2. m.reg[P86(dst)] \in Int BY <3>1, Operands
    <3>. QED BY <2>6, <3>2
  <2>8. Leaves(R, m1, c2, {}, Written(mem1, at + 4, 4, hi))
    <3>1. (at + 4) + 4 <= Memory /\ offset + 4 \in Int BY <1>2, MachineAssumption DEF Place8
    <3>. QED BY <2>0, <2>4, <2>6, <2>7, <3>1, MemImm86 DEF c2
  <2>9. Leaves(R, m, c1 \o c2, {}, Written(mem1, at + 4, 4, hi))
    BY <2>5, <2>8, LeavesThen DEF m1
  <2>10. Written(mem1, at + 4, 4, hi) = Written(m.mem, at, 8, v)
    <3>1. mem1 = Written(m.mem, at, 4, v)
      <4>1. Written(m.mem, at, 4, lo) = Written(m.mem, at, 4, v)
        <5>1. at \in Int /\ 4 \in 0 .. 15 /\ lo \in Int /\ v \in Int /\ Agree(lo, v, 4) /\ DOMAIN m.mem \subseteq Int
          BY <2>0, <2>4, <2>f
        <5>. QED BY <5>1, WrittenAgree
      <4>. QED BY <4>1 DEF mem1
    <3>2. mem1 \in Mem
      <4>1. 4 \in 0 .. 16 OBVIOUS
      <4>. QED BY <2>0, <2>4, <2>f, <4>1, WrittenMem DEF mem1
    <3>3. DOMAIN mem1 \subseteq Int BY <3>2 DEF Mem
    <3>4. Written(mem1, at + 4, 4, hi) = Written(mem1, at + 4, 4, q)
      <4>1. at + 4 \in Int /\ 4 \in 0 .. 15 /\ hi \in Int /\ q \in Int /\ Agree(hi, q, 4)
        BY <2>0, <2>3, <2>4, <2>f DEF q
      <4> HIDE DEF hi, q
      <4>. QED BY <3>3, <4>1, WrittenAgree
    <3>5. Written(Written(m.mem, at, 4, v), at + 4, 4, v \div Values(4)) = Written(m.mem, at, 4 + 4, v)
      <4> DEFINE z == 4   mem == m.mem
      <4>1. z \in Nat /\ z + z \in 0 .. 16 /\ mem \in Mem /\ at \in Int /\ v \in Int BY <2>f
      <4> HIDE DEF z, mem
      <4>2. Written(Written(mem, at, z, v), at + z, z, v \div Values(z)) = Written(mem, at, z + z, v) BY <4>1, WrittenParts
      <4>. QED BY <4>2 DEF z, mem
    <3>6. 4 + 4 = 8 OBVIOUS
    <3>. QED BY <2>0, <3>1, <3>4, <3>5, <3>6, Zenon DEF q
  <2>. QED BY <1>2, <2>1, <2>9, <2>10
<1>. QED BY <1>1, <1>2

\* emit_ldr loads the bytes at a displacement.
LEMMA Ldr86 ==
  ASSUME X86, NEW m \in Machines(R), ~m.left, NEW dst, Usable86(dst), NEW src, P86(src) \in R, NEW offset \in Int,
         NEW at \in Place8, m.reg[P86(src)] + offset = at, at + dst.rsize <= Memory
  PROVE  Computes(R, m, L!emit_ldr(dst, src, offset), {}, P86(dst), dst.rsize, BytesIn(m.mem, at, dst.rsize))
<1> DEFINE n == dst.rsize   b == P86(src)   a == Address(b, NoIndex, offset)   v == BytesIn(m.mem, at, n)
           code == <<Ins("mov", P86(dst), n, Loaded(a, n, FALSE), Imm(0), FALSE)>>
<1>1. P86(dst) \in R /\ n \in Sizes /\ n \in 0 .. 15 /\ L!Size(dst) = n BY Facts86
<1>2. Zero \notin R BY NoZero DEF X86
<1>3. L!emit_ldr(dst, src, offset) = code BY <1>1, InstanceX86 DEF L!emit_ldr, L!Load, P86
<1>5. Simple(m, NoIndex) = 0 /\ m.reg[b] \in Int BY <1>2, NoIndexValue, Operands
<1>6. At(m, a) = at
  <2>1. (m.reg[b] + Simple(m, NoIndex)) + offset = at BY <1>5
  <2>2. Simple(m, NoIndex) \in Int BY <1>5
  <2>. QED BY <1>2, <2>1, <2>2, AtPlace
<1>7. at \in Nat /\ FALSE \in BOOLEAN BY PlaceValue
<1>8. Operand(m, Loaded(a, n, FALSE)) = Extend(v, n, FALSE) /\ v \in Int
  <2> HIDE DEF a
  <2>. QED BY <1>1, <1>2, <1>6, <1>7, LoadValue
<1>9. Extend(v, n, FALSE) \in Int /\ Agree(Extend(v, n, FALSE), v, n) BY <1>1, <1>7, <1>8, ExtendInt
<1> HIDE DEF v, a, n
<1>10. Operand(m, Loaded(a, n, FALSE)) \in Int /\ Agree(Operand(m, Loaded(a, n, FALSE)), v, n) BY <1>8, <1>9
<1>11. Computes(R, m, code, {}, P86(dst), n, v)
  BY <1>1, <1>2, <1>7, <1>8, <1>10, RunMov, Zenon
<1>. QED BY <1>3, <1>11 DEF v, n

\* The sum of a base and an index.
LEMMA Sum86 ==
  ASSUME X86, NEW m \in Machines(R), ~m.left, NEW dst, Usable86(dst), NEW base, NEW index, P86(base) \in R, P86(index) \in R,
         NEW at \in Place8, m.reg[P86(base)] + m.reg[P86(index)] = at
  PROVE  /\ Prepares(R, m, L!Sum(dst, base, index), {P86(dst)})
         /\ Run(m, L!Sum(dst, base, index)).reg[P86(dst)] = at
         /\ Run(m, L!Sum(dst, base, index)) \in Machines(R) /\ ~Run(m, L!Sum(dst, base, index)).left
<1> DEFINE big == L!Sized(dst, 8)   b == P86(base)   i == P86(index)   code == L!Lea(big, b, Low(i, 8), 0)
<1>1. 8 \in Sizes /\ 8 \in 0 .. 15 BY DEF Sizes
<1>2. Usable86(big) /\ P86(big) = P86(dst) /\ big.rsize = 8 BY <1>1, Sized86
<1>3. Zero \notin R BY NoZero DEF X86
<1>4. L!Sum(dst, base, index) = code BY InstanceX86 DEF L!Sum, L!Wide, P86
<1>5. Simple(m, Low(i, 8)) = m.reg[i] /\ m.reg[i] \in Int /\ m.reg[b] \in Int
  <2>1. 1 \in Int OBVIOUS
  <2>. QED BY <1>3, <2>1, SimpleIndex
<1>6. 0 \in Int /\ FitsSigned(0, 4)
  <2>1. 0 \in 0 .. 7 OBVIOUS
  <2>. QED BY <2>1, SmallFits
<1>7. at \in Int /\ Agree((m.reg[b] + Simple(m, Low(i, 8))) + 0, at, 8)
  BY <1>5, PlaceValue DEF Agree
<1>8. big.rsize # 1 /\ Simple(m, Low(i, 8)) \in Int BY <1>2, <1>5
<1>9. Computes(R, m, code, {}, P86(dst), 8, at)
  <2> HIDE DEF big, b, i
  <2>1. Agree((m.reg[b] + Simple(m, Low(i, 8))) + 0, at, big.rsize) BY <1>2, <1>7
  <2>2. b \in R BY DEF b
  <2>3. Computes(R, m, L!Lea(big, b, Low(i, 8), 0), {}, P86(big), big.rsize, at)
    BY <1>2, <1>6, <1>7, <1>8, <2>1, <2>2, Lea86, Zenon
  <2>. QED BY <1>2, <2>3
<1> HIDE DEF code
<1>10. Prepares(R, m, code, {P86(dst)}) /\ Agree(Run(m, code).reg[P86(dst)], at, 8)
  <2>1. {} \union {P86(dst)} = {P86(dst)} OBVIOUS
  <2>. QED BY <1>9, <2>1 DEF Computes
<1>11. Run(m, code) \in Machines(R) /\ ~Run(m, code).left BY <1>10, After
<1>12. Run(m, code).reg[P86(dst)] \in 0 .. Values(8) - 1
  <2>1. P86(dst) \in R BY DEF Usable86
  <2>. QED BY <1>3, <1>11, <2>1, Operands
<1>13. Run(m, code).reg[P86(dst)] = at BY <1>10, <1>12, WordIs
<1>. QED BY <1>4, <1>10, <1>11, <1>13

T86 == {Class.scratch[1], Class.scratch[2], Class.scratch[3]}

\* emit_str_regoff stores at an offset in a register, added in a scratch
\* register.
LEMMA StrRegoff86 ==
  ASSUME X86, NEW m \in Machines(R), ~m.left, NEW dst, P86(dst) \in R, NEW src, Usable86(src), NEW offset, P86(offset) \in R,
         NEW at \in Place8, m.reg[P86(dst)] + m.reg[P86(offset)] = at, at + src.rsize <= Memory,
         P86(src) # Class.scratch[IF src.reg_type = "SCRATCH" /\ src.offset = 0 THEN 2 ELSE 1]
  PROVE  Leaves(R, m, L!emit_str_regoff(dst, src, offset), T86,
                Written(m.mem, at, src.rsize, Unsigned(m.reg[P86(src)], src.rsize)))
<1> DEFINE taken == src.reg_type = "SCRATCH" /\ src.offset = 0
           k == IF taken THEN 1 ELSE 0
           addr == L!ScratchReg(k, 8)
           c1 == L!Sum(addr, dst, offset)   c2 == L!emit_str_reg(addr, src, 0)   m1 == Run(m, c1)
<1>1. L!emit_str_regoff(dst, src, offset) = c1 \o c2 BY Zenon DEF L!emit_str_regoff
<1>2. k \in {0, 1, 2} /\ 8 \in Sizes /\ P86(src) # Class.scratch[k + 1] /\ Class.scratch[k + 1] \in T86 BY DEF Sizes, T86
<1>3. Usable86(addr) /\ P86(addr) = Class.scratch[k + 1] /\ P86(addr) \in R
  <2> HIDE DEF k
  <2>1. Usable86(addr) /\ P86(addr) = Class.scratch[k + 1] BY <1>2, Temp86
  <2>. QED BY <2>1 DEF Usable86
<1>4. P86(src) \in R /\ src.rsize \in Sizes BY DEF Usable86
<1> HIDE DEF addr, k, c1, c2, m1
<1>5. Prepares(R, m, c1, {P86(addr)}) /\ m1.reg[P86(addr)] = at /\ m1 \in Machines(R) /\ ~m1.left
  BY <1>3, Sum86 DEF c1, m1
<1>6. m1.mem = m.mem /\ m1.reg[P86(src)] = m.reg[P86(src)]
  <2>1. P86(src) \in R \ {P86(addr)} BY <1>2, <1>3, <1>4
  <2>. QED BY <1>5, <2>1, After DEF m1
<1>7. Leaves(R, m1, c2, {}, Written(m1.mem, at, src.rsize, Unsigned(m1.reg[P86(src)], src.rsize)))
  <2>1. m1.reg[P86(addr)] + 0 = at BY <1>5, PlaceValue
  <2>. QED BY <1>3, <1>5, <2>1, StrReg86 DEF c2
<1>8. Leaves(R, m, c1, {P86(addr)}, m.mem) BY <1>5, PreparesLeaves
<1>9. {P86(addr)} \subseteq T86 /\ {} \subseteq T86 BY <1>2, <1>3
<1>10. Leaves(R, m, c1 \o c2, T86, Written(m1.mem, at, src.rsize, Unsigned(m1.reg[P86(src)], src.rsize)))
  BY <1>7, <1>8, <1>9, LeavesThen DEF m1
<1>. QED BY <1>1, <1>6, <1>10

\* emit_str_imm_regoff stores a constant at an offset in a register.
LEMMA StrImmRegoff86 ==
  ASSUME X86, NEW m \in Machines(R), ~m.left, NEW dst, P86(dst) \in R, dst.dtype.base.size \in Sizes, NEW v \in Int,
         NEW offset, P86(offset) \in R,
         NEW at \in Place8, m.reg[P86(dst)] + m.reg[P86(offset)] = at, at + dst.dtype.base.size <= Memory, at + 4 \in Place8
  PROVE  Leaves(R, m, L!emit_str_imm_regoff(dst, v, offset), T86, Written(m.mem, at, dst.dtype.base.size, v))
<1> DEFINE addr == L!Reg("SCRATCH", 0, 8, dst.dtype)
           c1 == L!Sum(addr, dst, offset)   c2 == L!emit_str_imm(addr, v, 0)   m1 == Run(m, c1)
<1>1. L!emit_str_imm_regoff(dst, v, offset) = c1 \o c2 BY Zenon DEF L!emit_str_imm_regoff
<1>3. Usable86(addr) /\ P86(addr) = Class.scratch[1] /\ P86(addr) \in R /\ addr.dtype = dst.dtype /\ Class.scratch[1] \in T86
  <2>1. addr = Reg("SCRATCH", 0, 8, dst.dtype) BY InstanceReg
  <2> HIDE DEF addr
  <2>2. addr.reg_type = "SCRATCH" /\ addr.offset = 0 /\ addr.rsize = 8 /\ addr.dtype = dst.dtype BY <2>1 DEF Reg
  <2>3. IsReg(addr) BY <2>1, <2>2 DEF IsReg
  <2>4. P86(addr) = Class.scratch[1] BY <2>2 DEF P86, L!buf_putreg
  <2>5. Class.scratch[1] \in R BY DEF Class, RegistersOf, Linux, R, X86
  <2>. QED BY <2>2, <2>3, <2>4, <2>5 DEF Usable86, Sizes, T86
<1> HIDE DEF addr, c1, c2, m1
<1>5. Prepares(R, m, c1, {P86(addr)}) /\ m1.reg[P86(addr)] = at /\ m1 \in Machines(R) /\ ~m1.left
  BY <1>3, Sum86 DEF c1, m1
<1>6. m1.mem = m.mem BY <1>5, After DEF m1
<1>7. Leaves(R, m1, c2, {}, Written(m1.mem, at, dst.dtype.base.size, v))
  <2>1. m1.reg[P86(addr)] + 0 = at BY <1>5, PlaceValue
  <2>. QED BY <1>3, <1>5, <2>1, StrImm86 DEF c2
<1>8. Leaves(R, m, c1, {P86(addr)}, m.mem) BY <1>5, PreparesLeaves
<1>9. {P86(addr)} \subseteq T86 /\ {} \subseteq T86 BY <1>3
<1>10. Leaves(R, m, c1 \o c2, T86, Written(m1.mem, at, dst.dtype.base.size, v))
  BY <1>7, <1>8, <1>9, LeavesThen DEF m1
<1>. QED BY <1>1, <1>6, <1>10

\* emit_ldr_reg loads from an offset in a register.
LEMMA LdrReg86 ==
  ASSUME X86, NEW m \in Machines(R), ~m.left, NEW dst, Usable86(dst), NEW src, P86(src) \in R, NEW offset, P86(offset) \in R,
         NEW at \in Place8, m.reg[P86(src)] + m.reg[P86(offset)] = at, at + dst.rsize <= Memory
  PROVE  Computes(R, m, L!emit_ldr_reg(dst, src, offset), {}, P86(dst), dst.rsize, BytesIn(m.mem, at, dst.rsize))
<1> DEFINE c1 == L!Sum(dst, src, offset)   c2 == L!emit_ldr(dst, dst, 0)   m1 == Run(m, c1)   v == BytesIn(m.mem, at, dst.rsize)
<1>1. L!emit_ldr_reg(dst, src, offset) = c1 \o c2 BY Zenon DEF L!emit_ldr_reg
<1> HIDE DEF c1, c2, m1
<1>5. Prepares(R, m, c1, {P86(dst)}) /\ m1.reg[P86(dst)] = at /\ m1 \in Machines(R) /\ ~m1.left
  BY Sum86 DEF c1, m1
<1>6. m1.mem = m.mem BY <1>5, After DEF m1
<1>7. Computes(R, m1, c2, {}, P86(dst), dst.rsize, BytesIn(m1.mem, at, dst.rsize))
  <2>1. m1.reg[P86(dst)] + 0 = at BY <1>5, PlaceValue
  <2>2. P86(dst) \in R BY DEF Usable86
  <2>. QED BY <1>5, <2>1, <2>2, Ldr86 DEF c2
<1>8. Computes(R, m1, c2, {}, P86(dst), dst.rsize, v) BY <1>6, <1>7
<1> HIDE DEF v
<1>9. Computes(R, m, c1 \o c2, {}, P86(dst), dst.rsize, v) BY <1>5, <1>8, ComputesThen DEF m1
<1>. QED BY <1>1, <1>9 DEF v

\* An index is whole in its register, once it is widened.
LEMMA Widened86 ==
  ASSUME X86, NEW m \in Machines(R), ~m.left, NEW index, Usable86(index), index.dtype.base.sign \in BOOLEAN,
         NEW h \in {0, 1}, Extend(m.reg[P86(index)], index.rsize, index.dtype.base.sign) = h,
         index.rsize = 4 => m.reg[P86(index)] < Values(4)
  PROVE  /\ Prepares(R, m, L!Widened(index), {P86(index)})
         /\ Run(m, L!Widened(index)) \in Machines(R) /\ ~Run(m, L!Widened(index)).left
         /\ Run(m, L!Widened(index)).mem = m.mem
         /\ Run(m, L!Widened(index)).reg[P86(index)] = h
         /\ Agree(h, m.reg[P86(index)], index.rsize)
<1> DEFINE k == index.rsize   i == P86(index)   code == L!Widened(index)   m1 == Run(m, code)
<1>1. /\ i \in R /\ k \in Sizes /\ k \in 0 .. 15 /\ m.reg[i] \in Int /\ m.reg[i] \in 0 .. Values(8) - 1
      /\ Agree(h, m.reg[i], k)
  BY Facts86
<1>2. h \in Place8 /\ Zero \notin R BY NoZero DEF Place8, X86
<1>3. CASE k \in {1, 2}
  <2> DEFINE big == L!Sized(index, 8)
  <2>1. code = L!emit_mov_reg(big, index) BY <1>3, Zenon DEF L!Widened
  <2>2. 8 \in Sizes BY DEF Sizes
  <2>3. Usable86(big) /\ P86(big) = i /\ big.rsize = 8 BY <2>2, Sized86
  <2>4. Computes(R, m, L!emit_mov_reg(big, index), {}, i, 8, h)
    <3> HIDE DEF big
    <3>1. index.rsize <= big.rsize BY <1>3, <2>3
    <3>2. Computes(R, m, L!emit_mov_reg(big, index), {}, P86(big), big.rsize, Extend(m.reg[P86(index)], index.rsize, index.dtype.base.sign))
      BY <2>3, <3>1, MovReg86
    <3>. QED BY <2>3, <3>2
  <2> HIDE DEF code
  <2>5. Prepares(R, m, code, {i}) /\ Agree(m1.reg[i], h, 8)
    <3>1. {} \union {i} = {i} OBVIOUS
    <3>. QED BY <2>1, <2>4, <3>1 DEF Computes
  <2>6. m1 \in Machines(R) /\ ~m1.left /\ m1.mem = m.mem BY <2>5, After
  <2> HIDE DEF m1
  <2>7. m1.reg[i] \in 0 .. Values(8) - 1 BY <1>1, <1>2, <2>6, Operands
  <2>8. m1.reg[i] = h BY <1>2, <2>5, <2>7, WordIs
  <2>. QED BY <1>1, <2>5, <2>6, <2>8 DEF m1, code
<1>4. CASE k \notin {1, 2}
  <2>1. code = << >> BY <1>4, Zenon DEF L!Widened
  <2>2. Prepares(R, m, << >>, {i}) /\ Run(m, << >>) = m BY PreparesNone, RunNone
  <2>3. m.reg[i] = h
    <3>1. CASE k = 4
      <4>1. 4 \in 0 .. 15 BY DEF Sizes
      <4>2. Unsigned(m.reg[i], 4) = m.reg[i]
        <5>1. m.reg[i] \in 0 .. Values(4) - 1 BY <1>1, <3>1, <4>1, ValuesPositive
        <5>. QED BY <4>1, <5>1, UnsignedSmall
      <4>3. Unsigned(h, 4) = h
        <5>1. h \in 0 .. Values(4) - 1
          <6>1. 1 \in 0 .. 4 /\ 4 \in 0 .. 15 /\ 1 \in 0 .. 15 OBVIOUS
          <6>2. Values(1) <= Values(4) BY <6>1, ValuesGrow
          <6>3. Values(1) >= 2 /\ Values(1) \in Int BY ValuesOne, BaseTwo
          <6>4. Values(4) \in Int BY <6>1, ValuesPositive
          <6>. QED BY <6>2, <6>3, <6>4
        <5>. QED BY <4>1, <5>1, UnsignedSmall
      <4>. QED BY <1>1, <3>1, <4>2, <4>3 DEF Agree
    <3>2. CASE k = 8
      <4>1. Agree(m.reg[i], h, 8) BY <1>1, <3>2 DEF Agree
      <4>. QED BY <1>1, <1>2, <4>1, WordIs
    <3>. QED BY <1>1, <1>4, <3>1, <3>2 DEF Sizes
  <2>. QED BY <1>1, <2>1, <2>2, <2>3
<1>. QED BY <1>3, <1>4

-----------------------------------------------------------------------------
(* The x86-64 listing: elements of arrays.                                *)

\* The displacements in the frame fit four bytes.
LEMMA BytesFit ==
  ASSUME NEW v \in Int, 0 - 128 <= v, v <= 127 PROVE FitsSigned(v, 4)
<1>1. 4 \in 0 .. 15 /\ 3 \in 0 .. 15 /\ 2 \in 0 .. 15 /\ 1 \in 0 .. 15 OBVIOUS
<1>2. Values(1) \in Int /\ Values(1) >= 4
  <2>1. 1 \in 1 .. 15 * ByteBits /\ ByteBits \in 0 .. 15 * ByteBits /\ 2 \in Nat /\ ByteBits - 2 \in Nat
        /\ 2 + (ByteBits - 2) = ByteBits /\ ByteBits - 2 \in 0 .. 15 * ByteBits /\ 1 + 1 = 2 /\ 2 \in 0 .. 15 * ByteBits
    BY MachineAssumption, ConventionsAssumption
  <2>2. TwoTo[ByteBits] = TwoTo[2] * TwoTo[ByteBits - 2]
    <3>1. 2 + (ByteBits - 2) \in 0 .. 15 * ByteBits BY <2>1
    <3>2. TwoTo[2 + (ByteBits - 2)] = TwoTo[2] * TwoTo[ByteBits - 2] BY <2>1, <3>1, TwoToSum
    <3>. QED BY <2>1, <3>2
  <2>3. TwoTo[2] = TwoTo[1] * TwoTo[1]
    <3>1. 1 \in Nat /\ 1 + 1 \in 0 .. 15 * ByteBits BY <2>1
    <3>2. TwoTo[1 + 1] = TwoTo[1] * TwoTo[1] BY <3>1, TwoToSum
    <3>. QED BY <2>1, <3>2
  <2>4. TwoTo[1] = 2 BY TwoToFirst
  <2>5. TwoTo[ByteBits - 2] \in Nat \ {0} BY <2>1, TwoToPositive
  <2>6. TwoTo[2] = 4 BY <2>3, <2>4
  <2>7. \A x \in Nat \ {0} : 4 * x >= 4 OBVIOUS
  <2>. QED BY <2>2, <2>5, <2>6, <2>7, ValuesOne, BaseTwo DEF Base
<1>3. Values(2) = Values(1) * Values(1)
  <2>1. 1 \in Nat /\ 1 + 1 \in 0 .. 15 /\ 1 + 1 = 2 OBVIOUS
  <2>2. Values(1 + 1) = Values(1) * Values(1) BY <2>1, ValuesSum
  <2>. QED BY <2>1, <2>2
<1>4. Values(4) = Values(2) * Values(2)
  <2>1. 2 \in Nat /\ 2 + 2 \in 0 .. 15 /\ 2 + 2 = 4 OBVIOUS
  <2>2. Values(2 + 2) = Values(2) * Values(2) BY <2>1, ValuesSum
  <2>. QED BY <2>1, <2>2
<1>5. \A x \in Int : x >= 4 => x * x >= 16 /\ x * x \in Int OBVIOUS
<1>6. Values(2) >= 16 /\ Values(2) \in Int BY <1>2, <1>3, <1>5
<1>7. \A x \in Int : x >= 16 => x * x >= 256 /\ x * x \in Int OBVIOUS
<1>8. Values(4) >= 256 /\ Values(4) \in Int BY <1>4, <1>6, <1>7
<1>. QED BY <1>1, <1>8, SignedSmall DEF FitsSigned

\* The code puts the address `at' into register d.
Finds(S, m, code, V, d, at) ==
  Prepares(S, m, code, V) /\ Run(m, code) \in Machines(S) /\ ~Run(m, code).left /\ Run(m, code).reg[d] = at

\* The place of an object in the frame is below the frame pointer.
LEMMA FramePlace86 ==
  ASSUME X86, NEW m \in Machines(R), ~m.left, NEW dst, Usable86(dst), dst.rsize = 8, NEW off \in 0 .. 100,
         NEW at \in Place8, m.reg[5] - off = at, NEW c, c = L!emit_sub(dst, L!Frame, off)
  PROVE  Finds(R, m, c, {P86(dst)}, P86(dst), at)
<1>1. L!Frame = Reg("FRAME", 0, 8, Plain(NoBase))
  BY DEF L!Frame, L!Reg, Reg, L!Plain, Plain, L!NoBase, NoBase
<1>2. Usable86(L!Frame) /\ P86(L!Frame) = 5 /\ L!Frame.rsize = 8 /\ 5 \in R
  <2> DEFINE r == Reg("FRAME", 0, 8, Plain(NoBase))
  <2>1. r.reg_type = "FRAME" /\ r.offset = 0 /\ r.rsize = 8 /\ r.dtype = Plain(NoBase) BY DEF Reg
  <2>2. IsReg(r) BY <2>1 DEF IsReg
  <2> HIDE DEF r
  <2>3. P86(r) = 5 BY <2>1 DEF P86, L!buf_putreg
  <2>4. 5 \in R BY DEF Class, RegistersOf, Linux, R, X86
  <2>. QED BY <1>1, <2>1, <2>2, <2>3, <2>4 DEF Usable86, Sizes, r
<1>3. Zero \notin R BY NoZero DEF X86
<1>4. m.reg[5] \in Int /\ m.reg[5] \in 0 .. Values(8) - 1 BY <1>2, <1>3, Operands
<1>5. 8 \in 0 .. 15 /\ FALSE \in BOOLEAN /\ off \in Int /\ 0 - off \in Int OBVIOUS
<1>6. Extend(m.reg[5], 8, FALSE) = m.reg[5] BY <1>4, <1>5, UnsignedSmall DEF Extend
<1>7. FitsSigned(0 - off, 4)
  <2>1. 0 - 128 <= 0 - off /\ 0 - off <= 127 OBVIOUS
  <2> DEFINE w == 0 - off
  <2> HIDE DEF w
  <2>2. w \in Int /\ 0 - 128 <= w /\ w <= 127 BY <1>5, <2>1 DEF w
  <2>3. FitsSigned(w, 4) BY <2>2, BytesFit
  <2>. QED BY <2>3 DEF w
<1>8. Computes(R, m, c, {}, P86(dst), 8, at)
  <2>1. dst.rsize # 1 /\ dst.rsize = L!Frame.rsize BY <1>2
  <2>2. Computes(R, m, c, {}, P86(dst), dst.rsize, Extend(m.reg[P86(L!Frame)], L!Frame.rsize, FALSE) - off)
    BY <1>2, <1>5, <1>7, <2>1, SubImm86
  <2>. QED BY <1>2, <1>6, <2>2
<1>10. Prepares(R, m, c, {P86(dst)}) /\ Agree(Run(m, c).reg[P86(dst)], at, 8)
  <2>1. {} \union {P86(dst)} = {P86(dst)} OBVIOUS
  <2>. QED BY <1>8, <2>1 DEF Computes
<1>11. Run(m, c) \in Machines(R) /\ ~Run(m, c).left BY <1>10, After
<1>12. Run(m, c).reg[P86(dst)] \in 0 .. Values(8) - 1
  <2>1. P86(dst) \in R BY DEF Usable86
  <2>. QED BY <1>3, <1>11, <2>1, Operands
<1>13. Run(m, c).reg[P86(dst)] = at BY <1>10, <1>12, WordIs
<1>. QED BY <1>10, <1>11, <1>13 DEF Finds

\* An array on the stack or behind a register, and where it is.
OnStack(array) == array.reg_type = "STACK" /\ array.offset # 0
Found86(m, array, place) ==
  /\ IsReg(array)
  /\ \/ array.reg_type = "STACK" /\ array.offset \in 1 .. 100 /\ m.reg[5] - array.offset = place
     \/ array.reg_type # "STACK" /\ P86(array) \in R /\ m.reg[P86(array)] = place
Mem86(array) ==
  L!Sized(IF OnStack(array) THEN [array EXCEPT !.reg_type = "SCRATCH", !.offset = 2] ELSE array, 8)
Ready86(array, index) ==
  (IF OnStack(array) THEN L!emit_sub(Mem86(array), L!Frame, array.offset) ELSE << >>) \o L!Widened(index)

Index86(m, index, h) ==
  /\ Usable86(index) /\ index.dtype.base.sign \in BOOLEAN /\ h \in {0, 1}
  /\ Extend(m.reg[P86(index)], index.rsize, index.dtype.base.sign) = h
  /\ index.rsize = 4 => m.reg[P86(index)] < Values(4)

\* The register an array's place is in.
LEMMA Mem86Reg ==
  ASSUME X86, NEW m, NEW array, NEW place, Found86(m, array, place)
  PROVE  /\ Usable86(Mem86(array)) /\ Mem86(array).rsize = 8 /\ Mem86(array).dtype = array.dtype
         /\ OnStack(array) => P86(Mem86(array)) = Class.scratch[3]
         /\ ~OnStack(array) => P86(Mem86(array)) = P86(array)
<1> DEFINE r == IF OnStack(array) THEN [array EXCEPT !.reg_type = "SCRATCH", !.offset = 2] ELSE array
<1>1. IsReg(array) BY DEF Found86
<1>2. /\ IsReg(r) /\ r.dtype = array.dtype
      /\ OnStack(array) => r.reg_type = "SCRATCH" /\ r.offset = 2
      /\ ~OnStack(array) => r = array
  <2>1. CASE OnStack(array)
    <3> DEFINE t == array.reg_type   o == array.offset   z == array.rsize   y == array.dtype
    <3>1. array = [reg_type |-> t, offset |-> o, rsize |-> z, dtype |-> y] BY <1>1 DEF IsReg, Reg
    <3> HIDE DEF t, o, z, y
    <3>2. r = [reg_type |-> "SCRATCH", offset |-> 2, rsize |-> z, dtype |-> y] BY <2>1, <3>1
    <3>. QED BY <2>1, <3>1, <3>2 DEF IsReg, Reg
  <2>2. CASE ~OnStack(array) BY <1>1, <2>2
  <2>. QED BY <2>1, <2>2
<1>3. Mem86(array) = Sized(r, 8) BY InstanceX86 DEF Mem86
<1> HIDE DEF r
<1>4. /\ IsReg(Sized(r, 8)) /\ Sized(r, 8).rsize = 8 /\ Sized(r, 8).dtype = r.dtype
      /\ Sized(r, 8).reg_type = r.reg_type /\ Sized(r, 8).offset = r.offset
  BY <1>2, SizedReg
<1>5. P86(Sized(r, 8)) = P86(r) BY <1>4 DEF P86, L!buf_putreg
<1>6. OnStack(array) => P86(r) = Class.scratch[3] BY <1>2 DEF P86, L!buf_putreg
<1>7. Class.scratch[3] \in R BY DEF Class, RegistersOf, Linux, R, X86
<1>8. ~OnStack(array) => P86(array) \in R BY DEF Found86, OnStack
<1>. QED BY <1>2, <1>3, <1>4, <1>5, <1>6, <1>7, <1>8 DEF Usable86, Sizes

\* The code puts an array's address and an index in place.
Readies(m, c, array, place, index, h) ==
  LET m1 == Run(m, c)
  IN  /\ Prepares(R, m, c, T86 \union {P86(index)}) /\ m1 \in Machines(R) /\ ~m1.left /\ m1.mem = m.mem
      /\ m1.reg[P86(Mem86(array))] = place /\ m1.reg[P86(index)] = h
      /\ Agree(h, m.reg[P86(index)], index.rsize)
      /\ \A r \in R \ {Class.scratch[3], P86(index)} : m1.reg[r] = m.reg[r]

\* Before an access the place of the array and the index are in registers.
LEMMA ReadyArray86 ==
  ASSUME X86, NEW m \in Machines(R), ~m.left, NEW array, NEW place \in Place8, Found86(m, array, place),
         NEW index, NEW h, Index86(m, index, h), P86(index) \notin T86, P86(array) # P86(index)
  PROVE  Readies(m, Ready86(array, index), array, place, index, h)
<1> DEFINE mem == Mem86(array)   i == P86(index)
           c1 == IF OnStack(array) THEN L!emit_sub(mem, L!Frame, array.offset) ELSE << >>
           m1 == Run(m, c1)   c2 == L!Widened(index)   m2 == Run(m1, c2)   T == {Class.scratch[3]}
<1>1. Usable86(mem) /\ mem.rsize = 8 /\ P86(mem) \in R
      /\ (OnStack(array) => P86(mem) = Class.scratch[3]) /\ (~OnStack(array) => P86(mem) = P86(array))
  BY Mem86Reg DEF Usable86
<1>t. T \subseteq T86 /\ i \notin T /\ i \in R BY DEF T86, Index86, Usable86
<1> HIDE DEF mem, c2, T
<1>2. Prepares(R, m, c1, T) /\ m1 \in Machines(R) /\ ~m1.left /\ m1.reg[P86(mem)] = place
  <2>1. CASE OnStack(array)
    <3> DEFINE off == array.offset
    <3>1. off \in 0 .. 100 /\ m.reg[5] - off = place BY <2>1 DEF Found86, OnStack
    <3> HIDE DEF off
    <3>3. c1 = L!emit_sub(mem, L!Frame, off) BY <2>1 DEF off
    <3> HIDE DEF c1
    <3>2. Finds(R, m, c1, {P86(mem)}, P86(mem), place) BY <1>1, <3>1, <3>3, FramePlace86
    <3>. QED BY <1>1, <2>1, <3>2 DEF T, Finds
  <2>2. CASE ~OnStack(array)
    <3>1. c1 = << >> BY <2>2
    <3>2. Prepares(R, m, << >>, T) /\ Run(m, << >>) = m BY PreparesNone, RunNone
    <3>3. m.reg[P86(array)] = place BY <2>2 DEF Found86, OnStack
    <3>. QED BY <1>1, <2>2, <3>1, <3>2, <3>3
  <2>. QED BY <2>1, <2>2
<1> HIDE DEF c1
<1>3. m1.mem = m.mem /\ (\A r \in R \ T : m1.reg[r] = m.reg[r]) /\ m1.reg[i] = m.reg[i]
  BY <1>2, <1>t, After
<1> HIDE DEF m1
<1>4. Index86(m1, index, h) BY <1>3 DEF Index86
<1>5. /\ Prepares(R, m1, c2, {i}) /\ m2 \in Machines(R) /\ ~m2.left /\ m2.mem = m1.mem /\ m2.reg[i] = h
      /\ Agree(h, m1.reg[i], index.rsize)
  BY <1>2, <1>4, Widened86 DEF Index86, c2
<1>6. (\A r \in R \ {i} : m2.reg[r] = m1.reg[r]) /\ m2.reg[P86(mem)] = place
  <2>1. \A r \in R \ {i} : m2.reg[r] = m1.reg[r] BY <1>2, <1>5, After
  <2>2. P86(mem) # i
    <3>1. CASE OnStack(array) BY <3>1, <1>1, <1>t DEF T
    <3>2. CASE ~OnStack(array) BY <3>2, <1>1
    <3>. QED BY <3>1, <3>2
  <2>. QED BY <1>1, <1>2, <2>1, <2>2
<1>7. Prepares(R, m, c1 \o c2, T86 \union {i})
  <2>1. T \subseteq T86 \union {i} /\ {i} \subseteq T86 \union {i} BY <1>t
  <2>. QED BY <1>2, <1>5, <2>1, PreparesThen DEF m1
<1>8. Run(m, c1 \o c2) = m2 BY <1>2, <1>5, RunConcat DEF m1, Prepares
<1>9. Ready86(array, index) = c1 \o c2 BY DEF Ready86, c1, c2, mem
<1>10. \A r \in R \ {Class.scratch[3], i} : m2.reg[r] = m.reg[r] BY <1>3, <1>6 DEF T
<1> HIDE DEF m2
<1>. QED BY <1>3, <1>5, <1>6, <1>7, <1>8, <1>9, <1>10 DEF mem, Readies

\* The code for an element may widen the index where it is, which keeps its value.
Spares(m, code, index) == Agree(Run(m, code).reg[P86(index)], m.reg[P86(index)], index.rsize)
StoresElement(m, code, index, mem) == Leaves(R, m, code, T86 \union {P86(index)}, mem) /\ Spares(m, code, index)
GivesElement(m, code, index, d, n, v) == Yields(R, m, code, T86 \union {P86(index)}, d, n, v) /\ Spares(m, code, index)

Denotes(m, address, at) == Operand(m, address) = at /\ At(m, address) = at

\* A scaled index reaches the element.
LEMMA ScaledAddress ==
  ASSUME X86, NEW m \in Machines(R), NEW b \in R, NEW i \in R, NEW n \in Sizes, NEW place \in Int, NEW h \in Int,
         m.reg[b] = place, m.reg[i] = h, NEW at \in Place8, place + h * n = at
  PROVE  Denotes(m, Address(b, Scaled(i, 8, FALSE, n), 0), at)
<1>1. Zero \notin R BY NoZero DEF X86
<1>2. n \in Int BY DEF Sizes
<1>3. Simple(m, Scaled(i, 8, FALSE, n)) = m.reg[i] * n BY <1>1, <1>2, SimpleIndex
<1> DEFINE x == Scaled(i, 8, FALSE, n)   p == h * n
<1> HIDE DEF x
<1>a. p \in Int BY <1>2
<1>4. Simple(m, x) = p /\ p \in Int
  <2>1. Simple(m, x) = h * n BY <1>3 DEF x
  <2>. QED BY <1>a, <2>1
<1>b. m.reg[b] + p = at OBVIOUS
<1> HIDE DEF p
<1>5. (m.reg[b] + Simple(m, x)) + 0 = at BY <1>4, <1>b
<1>6. Simple(m, x) \in Int /\ 0 \in Int BY <1>4
<1>7. Operand(m, Address(b, x, 0)) = at /\ At(m, Address(b, x, 0)) = at BY <1>1, <1>5, <1>6, AtPlace
<1>. QED BY <1>7 DEF x, Denotes

\* emit_array_access stores an element; the index may be widened where it is.
LEMMA ArrayStore86 ==
  ASSUME X86, NEW m \in Machines(R), ~m.left, NEW array, NEW place \in Place8, Found86(m, array, place),
         NEW index, NEW h, Index86(m, index, h), P86(index) \notin T86, P86(array) # P86(index),
         NEW n \in Sizes, array.dtype.base.size = n, NEW src, Usable86(src), src.rsize = n,
         P86(src) # P86(index), P86(src) # Class.scratch[3],
         P86(src) # Class.scratch[IF src.reg_type = "SCRATCH" /\ src.offset = 0 THEN 2 ELSE 1],
         NEW at \in Place8, place + h * n = at, at + n <= Memory,
         NEW code, code = L!emit_array_access(array, src, index, TRUE)
  PROVE  StoresElement(m, code, index, Written(m.mem, at, n, Unsigned(m.reg[P86(src)], n)))
<1> DEFINE mem == Mem86(array)   i == P86(index)   U == T86 \union {i}
           at1 == L!Address(L!buf_putreg(mem), L!Scaled(L!buf_putreg(index), 8, FALSE, n), 0)
           c1 == Ready86(array, index)   m1 == Run(m, c1)
           c2 == IF n = 1 THEN L!emit_str_regoff(mem, src, index) ELSE L!Store(L!Use(src), L!Size(src), at1)
           mem2 == Written(m.mem, at, n, Unsigned(m.reg[P86(src)], n))
<1>1. code = c1 \o c2
  <2> DEFINE onStack == array.reg_type = "STACK" /\ array.offset # 0
             mem3 == L!Sized(IF onStack THEN [array EXCEPT !.reg_type = "SCRATCH", !.offset = 2] ELSE array, 8)
             c3 == IF onStack THEN L!emit_sub(mem3, L!Frame, array.offset) ELSE << >>
             at3 == L!Address(L!buf_putreg(mem3), L!Scaled(L!buf_putreg(index), 8, FALSE, array.dtype.base.size), 0)
             x == L!emit_str_regoff(mem3, src, index)
             y == L!Store(L!Use(src), L!Size(src), at3)
  <2>1. CASE n = 1
    <3>1. array.dtype.base.size = 1 /\ array.dtype.base.size \notin {2, 4, 8} BY <2>1
    <3>2. code = c3 \o L!Widened(index) \o x BY <3>1, Zenon DEF L!emit_array_access
    <3>3. mem3 = mem BY DEF Mem86, OnStack
    <3>4. c3 \o L!Widened(index) = c1 BY DEF Ready86, Mem86, OnStack
    <3>. QED BY <2>1, <3>2, <3>3, <3>4
  <2>2. CASE n # 1
    <3>1. array.dtype.base.size # 1 /\ array.dtype.base.size \in {2, 4, 8} BY <2>2 DEF Sizes
    <3>2. code = c3 \o L!Widened(index) \o y BY <3>1, Zenon DEF L!emit_array_access
    <3>3. mem3 = mem BY DEF Mem86, OnStack
    <3>4. c3 \o L!Widened(index) = c1 BY DEF Ready86, Mem86, OnStack
    <3>. QED BY <2>2, <3>2, <3>3, <3>4
  <2>. QED BY <2>1, <2>2
<1>2. /\ Prepares(R, m, c1, U) /\ m1 \in Machines(R) /\ ~m1.left /\ m1.mem = m.mem
      /\ m1.reg[P86(mem)] = place /\ m1.reg[i] = h /\ Agree(h, m.reg[i], index.rsize)
      /\ \A r \in R \ {Class.scratch[3], i} : m1.reg[r] = m.reg[r]
  <2>1. Readies(m, Ready86(array, index), array, place, index, h) BY ReadyArray86
  <2>. QED BY <2>1 DEF Readies
<1>3. Usable86(mem) /\ mem.rsize = 8 /\ P86(mem) \in R /\ i \in R /\ P86(src) \in R
  BY Mem86Reg DEF Usable86, Index86
<1>4. m1.reg[P86(src)] = m.reg[P86(src)] BY <1>2, <1>3
<1> HIDE DEF mem, c1, m1
<1>5. Leaves(R, m1, c2, T86, mem2)
  <2>1. CASE n = 1
    <3>1. c2 = L!emit_str_regoff(mem, src, index) BY <2>1
    <3>2. m1.reg[P86(mem)] + m1.reg[P86(index)] = at
      <4>1. place + h = at /\ h \in {0, 1} BY <2>1 DEF Place8, Index86
      <4>. QED BY <1>2, <4>1
    <3> HIDE DEF c2
    <3>3. Leaves(R, m1, L!emit_str_regoff(mem, src, index), T86, Written(m1.mem, at, src.rsize, Unsigned(m1.reg[P86(src)], src.rsize)))
      BY <1>2, <1>3, <3>2, StrRegoff86
    <3>. QED BY <1>2, <1>4, <3>1, <3>3
  <2>2. CASE n # 1
    <3> DEFINE address == Address(P86(mem), Scaled(i, 8, FALSE, n), 0)
    <3>1. c2 = <<Ins("store", Zero, n, Low(P86(src), n), address, FALSE)>>
      <4>1. L!Use(src) = Low(P86(src), n) /\ L!Size(src) = n BY <1>2, Facts86
      <4>2. c2 = L!Store(Low(P86(src), n), n, address) BY <2>2, <4>1, InstanceX86 DEF P86
      <4>. QED BY <4>2, InstanceX86 DEF L!Store
    <3>2. Operand(m1, address) = at
      <4>1. place \in Int /\ h \in Int BY DEF Place8, Index86
      <4>2. /\ m1 \in Machines(R) /\ P86(mem) \in R /\ i \in R /\ m1.reg[P86(mem)] = place /\ m1.reg[i] = h
            /\ place + h * n = at
        BY <1>2, <1>3
      <4>3. Denotes(m1, Address(P86(mem), Scaled(i, 8, FALSE, n), 0), at) BY <4>1, <4>2, ScaledAddress, Zenon
      <4>. QED BY <4>3 DEF Denotes
    <3>3. Operand(m1, Low(P86(src), n)) = Unsigned(m.reg[P86(src)], n) BY <1>2, <1>4, Facts86
    <3>4. Unsigned(m.reg[P86(src)], n) \in Int
      <4>1. m.reg[P86(src)] \in Int /\ n \in 0 .. 15 BY Facts86
      <4>. QED BY <4>1, UnsignedRange
    <3> HIDE DEF c2, address
    <3>5. at \in Nat /\ Zero \notin R BY NoZero DEF Place8, X86
    <3> DEFINE v == Unsigned(m.reg[P86(src)], n)
    <3> HIDE DEF v, mem2
    <3>6. Leaves(R, m1, c2, {}, Written(m1.mem, at, n, v)) BY <1>2, <3>1, <3>2, <3>3, <3>4, <3>5, RunStore DEF v
    <3>7. Leaves(R, m1, c2, {}, mem2) BY <1>2, <3>6 DEF v, mem2
    <3>. QED BY <3>7 DEF Leaves
  <2>. QED BY <2>1, <2>2
<1> HIDE DEF c2, mem2
<1>6. Leaves(R, m, c1 \o c2, U, mem2)
  <2>1. Leaves(R, m, c1, U, m.mem) BY <1>2, PreparesLeaves
  <2>2. T86 \subseteq U /\ U \subseteq U OBVIOUS
  <2> HIDE DEF U
  <2>. QED BY <1>5, <2>1, <2>2, LeavesThen DEF m1
<1>7. Spares(m, c1 \o c2, index)
  <2>1. Run(m, c1 \o c2) = Run(m1, c2) BY <1>2, <1>5, RunConcat DEF m1, Prepares, Leaves
  <2>2. Run(m1, c2).reg[i] = m1.reg[i] BY <1>3, <1>5 DEF Leaves
  <2>. QED BY <1>2, <2>1, <2>2 DEF Spares
<1>. QED BY <1>1, <1>6, <1>7 DEF mem2, StoresElement

\* emit_array_access loads an element.
LEMMA ArrayLoad86 ==
  ASSUME X86, NEW m \in Machines(R), ~m.left, NEW array, NEW place \in Place8, Found86(m, array, place),
         NEW index, NEW h, Index86(m, index, h), P86(index) \notin T86, P86(array) # P86(index),
         NEW n \in Sizes, array.dtype.base.size = n, NEW dst, Usable86(dst), dst.rsize = n, P86(dst) # P86(index),
         NEW at \in Place8, place + h * n = at, at + n <= Memory,
         NEW code, code = L!emit_array_access(dst, array, index, FALSE)
  PROVE  GivesElement(m, code, index, P86(dst), n, BytesIn(m.mem, at, n))
<1> DEFINE mem == Mem86(array)   i == P86(index)   U == T86 \union {i}
           at1 == L!Address(L!buf_putreg(mem), L!Scaled(L!buf_putreg(index), 8, FALSE, n), 0)
           c1 == Ready86(array, index)   m1 == Run(m, c1)
           c2 == IF n = 1 THEN L!emit_ldr_reg(dst, mem, index) ELSE L!Load(dst, at1)
           v == BytesIn(m.mem, at, n)
<1>1. code = c1 \o c2
  <2> DEFINE onStack == array.reg_type = "STACK" /\ array.offset # 0
             mem3 == L!Sized(IF onStack THEN [array EXCEPT !.reg_type = "SCRATCH", !.offset = 2] ELSE array, 8)
             c3 == IF onStack THEN L!emit_sub(mem3, L!Frame, array.offset) ELSE << >>
             at3 == L!Address(L!buf_putreg(mem3), L!Scaled(L!buf_putreg(index), 8, FALSE, array.dtype.base.size), 0)
             x == L!emit_ldr_reg(dst, mem3, index)
             y == L!Load(dst, at3)
  <2>1. CASE n = 1
    <3>1. array.dtype.base.size = 1 /\ array.dtype.base.size \notin {2, 4, 8} BY <2>1
    <3>2. code = c3 \o L!Widened(index) \o x BY <3>1, Zenon DEF L!emit_array_access
    <3>3. mem3 = mem BY DEF Mem86, OnStack
    <3>4. c3 \o L!Widened(index) = c1 BY DEF Ready86, Mem86, OnStack
    <3>. QED BY <2>1, <3>2, <3>3, <3>4
  <2>2. CASE n # 1
    <3>1. array.dtype.base.size # 1 /\ array.dtype.base.size \in {2, 4, 8} BY <2>2 DEF Sizes
    <3>2. code = c3 \o L!Widened(index) \o y BY <3>1, Zenon DEF L!emit_array_access
    <3>3. mem3 = mem BY DEF Mem86, OnStack
    <3>4. c3 \o L!Widened(index) = c1 BY DEF Ready86, Mem86, OnStack
    <3>. QED BY <2>2, <3>2, <3>3, <3>4
  <2>. QED BY <2>1, <2>2
<1>2. /\ Prepares(R, m, c1, U) /\ m1 \in Machines(R) /\ ~m1.left /\ m1.mem = m.mem
      /\ m1.reg[P86(mem)] = place /\ m1.reg[i] = h /\ Agree(h, m.reg[i], index.rsize)
      /\ \A r \in R \ {Class.scratch[3], i} : m1.reg[r] = m.reg[r]
  <2>1. Readies(m, Ready86(array, index), array, place, index, h) BY ReadyArray86
  <2>. QED BY <2>1 DEF Readies
<1>3. Usable86(mem) /\ mem.rsize = 8 /\ P86(mem) \in R /\ i \in R /\ P86(dst) \in R
  BY Mem86Reg DEF Usable86, Index86
<1> HIDE DEF mem, c1, m1
<1>5. Computes(R, m1, c2, {}, P86(dst), n, v)
  <2>1. CASE n = 1
    <3>1. c2 = L!emit_ldr_reg(dst, mem, index) BY <2>1
    <3>2. m1.reg[P86(mem)] + m1.reg[P86(index)] = at
      <4>1. place + h = at /\ h \in {0, 1} BY <2>1 DEF Place8, Index86
      <4>. QED BY <1>2, <4>1
    <3> HIDE DEF c2
    <3>3. Computes(R, m1, L!emit_ldr_reg(dst, mem, index), {}, P86(dst), dst.rsize, BytesIn(m1.mem, at, dst.rsize))
      BY <1>2, <1>3, <3>2, LdrReg86
    <3>. QED BY <1>2, <3>1, <3>3
  <2>2. CASE n # 1
    <3> DEFINE address == Address(P86(mem), Scaled(i, 8, FALSE, n), 0)
    <3>1. c2 = <<Ins("mov", P86(dst), n, Loaded(address, n, FALSE), Imm(0), FALSE)>>
      <4>1. L!Size(dst) = n BY <1>2, Facts86
      <4>2. c2 = L!Load(dst, address) BY <2>2, InstanceX86 DEF P86
      <4>. QED BY <4>1, <4>2, InstanceX86 DEF L!Load, P86
    <3>2. Denotes(m1, address, at)
      <4>1. place \in Int /\ h \in Int BY DEF Place8, Index86
      <4>2. /\ m1 \in Machines(R) /\ P86(mem) \in R /\ i \in R /\ m1.reg[P86(mem)] = place /\ m1.reg[i] = h
            /\ place + h * n = at
        BY <1>2, <1>3
      <4>. QED BY <4>1, <4>2, ScaledAddress, Zenon
    <3> HIDE DEF c2, address
    <3>4. at \in Nat /\ Zero \notin R BY NoZero DEF Place8, X86
    <3>5. Operand(m1, Loaded(address, n, FALSE)) = Extend(v, n, FALSE) /\ v \in Int
      <4>1. At(m1, address) = at BY <3>2 DEF Denotes
      <4>2. FALSE \in BOOLEAN OBVIOUS
      <4>3. Operand(m1, Loaded(address, n, FALSE)) = Extend(BytesIn(m1.mem, at, n), n, FALSE) /\ BytesIn(m1.mem, at, n) \in Int
        BY <1>2, <3>4, <4>1, <4>2, LoadValue, Zenon
      <4>. QED BY <1>2, <4>3
    <3> HIDE DEF v
    <3>6. n \in 0 .. 15 BY SizesIn
    <3>7. Operand(m1, Loaded(address, n, FALSE)) \in Int /\ Agree(Operand(m1, Loaded(address, n, FALSE)), v, n)
      BY <3>5, <3>6, ExtendInt
    <3>8. FALSE \in BOOLEAN OBVIOUS
    <3>. QED BY <1>2, <1>3, <3>1, <3>4, <3>5, <3>7, <3>8, RunMov, Zenon
  <2>. QED BY <2>1, <2>2
<1> HIDE DEF c2, v
<1>6. Yields(R, m, c1 \o c2, U, P86(dst), n, v)
  <2>1. Computes(R, m, c1 \o c2, U, P86(dst), n, v)
    <3>1. U \subseteq U \union {P86(dst)} /\ {} \subseteq U \union {P86(dst)} OBVIOUS
    <3> HIDE DEF U
    <3>. QED BY <1>2, <1>5, <3>1, ComputesThen DEF m1
  <2>. QED BY <2>1 DEF Computes, Yields
<1>7. Spares(m, c1 \o c2, index)
  <2>1. Run(m, c1 \o c2) = Run(m1, c2) BY <1>2, <1>5, RunConcat DEF m1, Prepares, Computes
  <2>2. Prepares(R, m1, c2, {P86(dst)})
    <3>1. {} \union {P86(dst)} = {P86(dst)} OBVIOUS
    <3>. QED BY <1>5, <3>1 DEF Computes
  <2>3. Run(m1, c2).reg[i] = m1.reg[i] BY <1>2, <1>3, <2>2, After
  <2>. QED BY <1>2, <2>1, <2>3 DEF Spares
<1>. QED BY <1>1, <1>6, <1>7 DEF v, GivesElement

\* Where an array is, into the first scratch register.
Base86 == L!ScratchReg(0, 8)
FindBase(object) ==
  IF object.reg_type = "STACK" THEN L!emit_sub(Base86, L!Frame, object.offset) ELSE L!emit_mov_reg(Base86, object)

\* The place of an array, in the frame or behind a pointer.
LEMMA FindBase86 ==
  ASSUME X86, NEW m \in Machines(R), ~m.left, NEW object, NEW place \in Place8, Found86(m, object, place),
         object.reg_type # "STACK" => object.rsize = 8 /\ object.dtype.base.sign \in BOOLEAN
  PROVE  Finds(R, m, FindBase(object), {Class.scratch[1]}, Class.scratch[1], place)
<1>1. Usable86(Base86) /\ P86(Base86) = Class.scratch[1] /\ Base86.rsize = 8 /\ Class.scratch[1] \in R
  <2>1. 0 \in {0, 1, 2} /\ 8 \in Sizes /\ 0 + 1 = 1 BY DEF Sizes
  <2>2. Usable86(Base86) /\ P86(Base86) = Class.scratch[0 + 1] /\ Base86.rsize = 8 BY <2>1, Temp86 DEF Base86
  <2>. QED BY <2>1, <2>2 DEF Usable86
<1> DEFINE c == FindBase(object)
<1>2. CASE object.reg_type = "STACK"
  <2> DEFINE off == object.offset
  <2>1. off \in 0 .. 100 /\ m.reg[5] - off = place BY <1>2 DEF Found86
  <2>2. c = L!emit_sub(Base86, L!Frame, off) BY <1>2 DEF FindBase
  <2> HIDE DEF off, c
  <2>3. Finds(R, m, c, {P86(Base86)}, P86(Base86), place) BY <1>1, <2>1, <2>2, FramePlace86
  <2>. QED BY <1>1, <2>3 DEF c
<1>3. CASE object.reg_type # "STACK"
  <2>1. c = L!emit_mov_reg(Base86, object) BY <1>3 DEF FindBase
  <2>2. Usable86(object) /\ object.rsize = 8 /\ object.dtype.base.sign \in BOOLEAN /\ m.reg[P86(object)] = place
    BY <1>3 DEF Found86, Usable86, Sizes
  <2> HIDE DEF c
  <2> DEFINE w == Extend(m.reg[P86(object)], 8, object.dtype.base.sign)
  <2>3. Computes(R, m, c, {}, P86(Base86), 8, w)
    <3>1. object.rsize <= Base86.rsize BY <1>1, <2>2
    <3>2. Computes(R, m, L!emit_mov_reg(Base86, object), {}, P86(Base86), Base86.rsize,
                   Extend(m.reg[P86(object)], object.rsize, object.dtype.base.sign))
      BY <1>1, <2>2, <3>1, MovReg86
    <3>. QED BY <1>1, <2>1, <2>2, <3>2
  <2>4. Agree(w, place, 8)
    <3>1. 8 \in 0 .. 15 /\ place \in Int BY DEF Place8
    <3>2. \A s \in BOOLEAN : Agree(Extend(place, 8, s), place, 8) BY <3>1, ExtendInt
    <3>. QED BY <2>2, <3>2
  <2> HIDE DEF w
  <2> DEFINE d == P86(Base86)   m1 == Run(m, c)
  <2>5. Prepares(R, m, c, {d}) /\ Agree(m1.reg[d], place, 8)
    <3>1. {} \union {d} = {d} OBVIOUS
    <3>. QED BY <2>3, <2>4, <3>1 DEF Computes, Agree
  <2>6. m1 \in Machines(R) /\ ~m1.left BY <2>5, After
  <2>7. m1.reg[d] = place
    <3>1. Zero \notin R BY NoZero DEF X86
    <3>2. m1.reg[d] \in 0 .. Values(8) - 1 BY <1>1, <2>6, <3>1, Operands
    <3>. QED BY <2>5, <3>2, WordIs
  <2>. QED BY <1>1, <2>5, <2>6, <2>7 DEF Finds, c
<1>. QED BY <1>2, <1>3

\* The index times the size of an element, in the second scratch register.
LEMMA Multiply86 ==
  ASSUME X86, NEW m \in Machines(R), ~m.left, NEW index, Usable86(index), index.dtype.base.sign \in BOOLEAN,
         NEW h \in {0, 1}, m.reg[P86(index)] = h, NEW size \in 0 .. 100,
         NEW c, c = L!Multiply(L!ScratchReg(1, 8), index, size)
  PROVE  Finds(R, m, c, {Class.scratch[2]}, Class.scratch[2], h * size)
<1> DEFINE idx == L!ScratchReg(1, 8)   d == Class.scratch[2]   whole == L!Sized(index, 8)
           c1 == L!emit_mov_reg(idx, whole)   m1 == Run(m, c1)   p == h * size
           c2 == <<Ins("mul", d, 8, Low(d, 8), Imm(size), TRUE)>>   m2 == Run(m1, c2)
<1>1. Usable86(idx) /\ P86(idx) = d /\ idx.rsize = 8 /\ d \in R
  <2>1. 1 \in {0, 1, 2} /\ 8 \in Sizes /\ 1 + 1 = 2 BY DEF Sizes
  <2>2. Usable86(idx) /\ P86(idx) = Class.scratch[1 + 1] /\ idx.rsize = 8 BY <2>1, Temp86
  <2>. QED BY <2>1, <2>2 DEF Usable86
<1>2. Usable86(whole) /\ P86(whole) = P86(index) /\ whole.rsize = 8 /\ whole.dtype = index.dtype
  <2>1. 8 \in Sizes BY DEF Sizes
  <2>. QED BY <2>1, Sized86
<1>3. c = c1 \o c2
  <2>1. c = L!emit_mov_reg(idx, whole) \o <<L!Ins("mul", L!buf_putreg(idx), 8, L!Wide(idx), L!Imm(size), TRUE)>>
    BY Zenon DEF L!Multiply
  <2>2. L!Wide(idx) = Low(d, 8) BY <1>1, Facts86
  <2>3. L!buf_putreg(idx) = d BY <1>1 DEF P86
  <2>4. L!Ins("mul", d, 8, Low(d, 8), L!Imm(size), TRUE) = Ins("mul", d, 8, Low(d, 8), Imm(size), TRUE) BY InstanceX86
  <2> HIDE DEF idx, d, whole
  <2>. QED BY <2>1, <2>2, <2>3, <2>4
<1>z. Zero \notin R BY NoZero DEF X86
<1>p. h \in Place8 /\ p \in Place8 /\ p \in Int /\ size \in Int
  <2>1. CASE h = 0 BY <2>1 DEF Place8
  <2>2. CASE h = 1 BY <2>2 DEF Place8
  <2>. QED BY <2>1, <2>2
<1> HIDE DEF idx, d, whole, c1
<1>4. Computes(R, m, c1, {}, d, 8, Extend(h, 8, whole.dtype.base.sign))
  <2>1. whole.rsize <= idx.rsize BY <1>1, <1>2
  <2>2. whole.dtype.base.sign \in BOOLEAN BY <1>2
  <2>3. Computes(R, m, L!emit_mov_reg(idx, whole), {}, P86(idx), idx.rsize,
                 Extend(m.reg[P86(whole)], whole.rsize, whole.dtype.base.sign))
    BY <1>1, <1>2, <2>1, <2>2, MovReg86
  <2>. QED BY <1>1, <1>2, <2>3 DEF c1
<1>5. Prepares(R, m, c1, {d}) /\ Agree(m1.reg[d], h, 8)
  <2>1. {} \union {d} = {d} OBVIOUS
  <2>2. Agree(Extend(h, 8, whole.dtype.base.sign), h, 8)
    <3>1. 8 \in 0 .. 15 /\ h \in Int BY DEF Place8
    <3>2. \A s \in BOOLEAN : Agree(Extend(h, 8, s), h, 8) BY <3>1, ExtendInt
    <3>. QED BY <1>2, <3>2
  <2>. QED BY <1>4, <2>1, <2>2 DEF Computes, Agree
<1>6. m1 \in Machines(R) /\ ~m1.left BY <1>5, After
<1> HIDE DEF m1
<1>7. m1.reg[d] = h
  <2>1. m1.reg[d] \in 0 .. Values(8) - 1 BY <1>1, <1>6, <1>z, Operands
  <2>. QED BY <1>5, <1>p, <2>1, WordIs
<1>8. Computes(R, m1, c2, {}, d, 8, p)
  <2>1. Operand(m1, Low(d, 8)) = h
    <3>1. 8 \in Sizes BY DEF Sizes
    <3>2. Operand(m1, Low(d, 8)) = Unsigned(m1.reg[d], 8) BY <1>1, <1>6, <1>z, <3>1, Operands
    <3>. QED BY <1>7, <1>p, <3>2, PlaceValue
  <2>2. Operand(m1, Imm(size)) = size BY <1>6, <1>z, Operands
  <2>3. 8 \in Sizes /\ "mul" \in {"add", "sub", "mul"} /\ TRUE \in BOOLEAN /\ h \in Int BY DEF Sizes
  <2>4. Agree(CASE "mul" = "add" -> h + size [] "mul" = "sub" -> h - size [] "mul" = "mul" -> h * size, p, 8)
    BY DEF Agree
  <2> HIDE DEF p
  <2>. QED BY <1>1, <1>6, <1>z, <1>p, <2>1, <2>2, <2>3, <2>4, RunOp
<1> HIDE DEF c2, p
<1>9. Prepares(R, m1, c2, {d}) /\ Agree(m2.reg[d], p, 8)
  <2>1. {} \union {d} = {d} OBVIOUS
  <2>. QED BY <1>8, <2>1 DEF Computes
<1>10. m2 \in Machines(R) /\ ~m2.left BY <1>6, <1>9, After
<1>11. m2.reg[d] = p
  <2>1. m2.reg[d] \in 0 .. Values(8) - 1 BY <1>1, <1>10, <1>z, Operands
  <2>. QED BY <1>9, <1>p, <2>1, WordIs
<1>12. Run(m, c1 \o c2) = m2 BY <1>5, <1>9, RunConcat DEF m1, Prepares
<1>13. Prepares(R, m, c1 \o c2, {d})
  <2>1. {d} \subseteq {d} OBVIOUS
  <2>. QED BY <1>5, <1>9, <2>1, PreparesThen DEF m1
<1> HIDE DEF m2
<1>. QED BY <1>3, <1>10, <1>11, <1>12, <1>13 DEF Finds, d, p

\* A scaled index is the register times the scale.
LEMMA ScaledIndex86 ==
  ASSUME X86, NEW m \in Machines(R), NEW i \in R, NEW n \in Int
  PROVE  Simple(m, Scaled(i, 8, FALSE, n)) = m.reg[i] * n
<1>1. Zero \notin R BY NoZero DEF X86
<1>. QED BY <1>1, SimpleIndex

\* lea computes the address of an element whose size is a scale.
LEMMA LeaIndex86 ==
  ASSUME X86, NEW m \in Machines(R), ~m.left, NEW dst, Usable86(dst), dst.rsize = 8, NEW b \in R, NEW i \in R,
         NEW n \in Sizes, NEW place \in Int, NEW h \in Int, m.reg[b] = place, m.reg[i] = h,
         NEW at \in Place8, place + h * n = at
  PROVE  Computes(R, m, L!Lea(dst, b, Scaled(i, 8, FALSE, n), 0), {}, P86(dst), 8, at)
<1>z. Zero \notin R BY NoZero DEF X86
<1>0. n \in Int BY DEF Sizes
<1>i. Simple(m, Scaled(i, 8, FALSE, n)) = m.reg[i] * n BY <1>0, ScaledIndex86, Zenon
<1> DEFINE x == Scaled(i, 8, FALSE, n)   p == h * n
<1>1. n \in Int /\ p \in Int /\ at \in Int /\ place + p = at BY <1>0 DEF Place8
<1>2. Simple(m, x) = p BY <1>i
<1> HIDE DEF x, p
<1>3. (m.reg[b] + Simple(m, x)) + 0 = at BY <1>1, <1>2
<1>4. FitsSigned(0, 4)
  <2>1. 0 \in 0 .. 7 OBVIOUS
  <2>. QED BY <2>1, SmallFits
<1>5. Agree((m.reg[b] + Simple(m, x)) + 0, at, 8) /\ dst.rsize # 1 /\ Simple(m, x) \in Int /\ 0 \in Int
  BY <1>1, <1>2, <1>3 DEF Agree
<1>6. Computes(R, m, L!Lea(dst, b, x, 0), {}, P86(dst), dst.rsize, at) BY <1>1, <1>4, <1>5, Lea86
<1>. QED BY <1>6 DEF x

\* emit_elem_addr computes the address of an element of any size.
LEMMA ElemAddr86 ==
  ASSUME X86, NEW m \in Machines(R), ~m.left, NEW object, NEW place \in Place8, Found86(m, object, place),
         object.reg_type # "STACK" => object.rsize = 8 /\ object.dtype.base.sign \in BOOLEAN,
         NEW index, NEW h, Index86(m, index, h), P86(index) \notin T86,
         NEW size \in {1, 4, 8, 12}, object.dtype.base.size = size,
         NEW dst, Usable86(dst), dst.rsize = 8, P86(dst) # P86(index),
         NEW at \in Place8, place + h * size = at, NEW code, code = L!emit_elem_addr(dst, object, index)
  PROVE  GivesElement(m, code, index, P86(dst), 8, at)
<1> DEFINE b == Class.scratch[1]   i == P86(index)   U == T86 \union {i}   idx == L!ScratchReg(1, 8)
           c1 == FindBase(object)   m1 == Run(m, c1)
           c2 == L!Widened(index)   m2 == Run(m1, c2)
           whole == L!Multiply(idx, index, size)
           c3 == IF size \in {1, 2, 4, 8} THEN L!Lea(dst, L!buf_putreg(Base86), L!Scaled(L!buf_putreg(index), 8, FALSE, size), 0)
                 ELSE whole \o L!emit_add_reg(dst, Base86, idx)
           m3 == Run(m2, c3)
<1>1. code = (c1 \o c2) \o c3 BY Zenon DEF L!emit_elem_addr, FindBase, Base86
<1>2. Usable86(Base86) /\ P86(Base86) = b /\ Base86.rsize = 8 /\ b \in R /\ Base86.dtype.base.sign = FALSE
  <2>1. 0 \in {0, 1, 2} /\ 8 \in Sizes /\ 0 + 1 = 1 BY DEF Sizes
  <2>2. Usable86(Base86) /\ P86(Base86) = Class.scratch[0 + 1] /\ Base86.rsize = 8 /\ Base86.dtype.base.sign = FALSE
    BY <2>1, Temp86 DEF Base86
  <2>. QED BY <2>1, <2>2 DEF Usable86
<1>3. Usable86(idx) /\ P86(idx) = Class.scratch[2] /\ idx.rsize = 8 /\ idx.dtype.base.sign = FALSE
  <2>1. 1 \in {0, 1, 2} /\ 8 \in Sizes /\ 1 + 1 = 2 BY DEF Sizes
  <2>2. Usable86(idx) /\ P86(idx) = Class.scratch[1 + 1] /\ idx.rsize = 8 /\ idx.dtype.base.sign = FALSE BY <2>1, Temp86
  <2>. QED BY <2>1, <2>2
<1>t. b \in T86 /\ Class.scratch[2] \in T86 /\ b # Class.scratch[2] /\ i \in R /\ Class.scratch[2] \in R
  BY DEF T86, Index86, Usable86, Class, RegistersOf, Linux, R, X86
<1>z. Zero \notin R BY NoZero DEF X86
<1> HIDE DEF idx, b
<1>4. Prepares(R, m, c1, {b}) /\ m1 \in Machines(R) /\ ~m1.left /\ m1.reg[b] = place
  <2>1. Finds(R, m, FindBase(object), {Class.scratch[1]}, Class.scratch[1], place) BY FindBase86
  <2>. QED BY <2>1 DEF Finds, b
<1> HIDE DEF c1, c2
<1>5. m1.mem = m.mem /\ m1.reg[i] = m.reg[i] BY <1>4, <1>t, After
<1> HIDE DEF m1
<1>6. Index86(m1, index, h) BY <1>5 DEF Index86
<1>7. /\ Prepares(R, m1, c2, {i}) /\ m2 \in Machines(R) /\ ~m2.left /\ m2.mem = m1.mem /\ m2.reg[i] = h
      /\ Agree(h, m1.reg[i], index.rsize)
  BY <1>4, <1>6, Widened86 DEF Index86, c2
<1>8. m2.reg[b] = place
  <2>1. b \in R \ {i} BY <1>2, <1>t
  <2>. QED BY <1>4, <1>7, <2>1, After
<1> HIDE DEF m2
<1>9. Prepares(R, m, c1 \o c2, U) /\ Run(m, c1 \o c2) = m2
  <2>1. {b} \subseteq U /\ {i} \subseteq U BY <1>t
  <2>2. Prepares(R, m, c1 \o c2, U) BY <1>4, <1>7, <2>1, PreparesThen DEF m1
  <2>3. Run(m, c1 \o c2) = Run(m1, c2) BY <1>4, <1>7, RunConcat DEF m1, Prepares
  <2>. QED BY <2>2, <2>3 DEF m2
<1>10. Computes(R, m2, c3, {Class.scratch[2]}, P86(dst), 8, at)
  <2>1. CASE size \in {1, 4, 8}
    <3>1. c3 = L!Lea(dst, b, Scaled(i, 8, FALSE, size), 0) BY <2>1, <1>2, InstanceX86 DEF P86
    <3>2. size \in Sizes /\ place \in Int /\ h \in Int BY <2>1 DEF Place8, Index86, Sizes
    <3>7. Computes(R, m2, L!Lea(dst, b, Scaled(i, 8, FALSE, size), 0), {}, P86(dst), 8, at)
      BY <1>2, <1>7, <1>8, <1>t, <3>2, LeaIndex86
    <3> HIDE DEF c3
    <3>8. Computes(R, m2, c3, {}, P86(dst), 8, at) BY <3>1, <3>7
    <3>9. Prepares(R, m2, c3, {P86(dst)})
      <4>1. {} \union {P86(dst)} = {P86(dst)} OBVIOUS
      <4>. QED BY <3>8, <4>1 DEF Computes
    <3>10. Prepares(R, m2, c3, {Class.scratch[2]} \union {P86(dst)})
      <4>1. {P86(dst)} \subseteq {Class.scratch[2]} \union {P86(dst)} OBVIOUS
      <4>. QED BY <3>9, <4>1, KeepsMore DEF Prepares
    <3>. QED BY <3>8, <3>10 DEF Computes
  <2>2. CASE size = 12
    <3> DEFINE p == h * size   m4 == Run(m2, whole)   c4 == L!emit_add_reg(dst, Base86, idx)   e == Class.scratch[2]
    <3>1. c3 = whole \o c4 BY <2>2
    <3>2. p \in Int /\ p \in Place8 /\ place + p = at /\ place \in Int /\ h \in {0, 1} /\ at \in Int
      <4>1. h \in {0, 1} /\ place + h * size = at /\ place \in Int /\ at \in Int BY DEF Index86, Place8
      <4>2. CASE h = 0 BY <4>1, <4>2, <2>2 DEF Place8
      <4>3. CASE h = 1 BY <4>1, <4>3, <2>2 DEF Place8
      <4>. QED BY <4>1, <4>2, <4>3
    <3>3. Finds(R, m2, whole, {e}, e, p)
      <4>1. size \in 0 .. 100 /\ Usable86(index) /\ index.dtype.base.sign \in BOOLEAN BY <2>2 DEF Index86
      <4>2. whole = L!Multiply(L!ScratchReg(1, 8), index, size) BY DEF idx
      <4> HIDE DEF whole
      <4>. QED BY <1>7, <3>2, <4>1, <4>2, Multiply86
    <3> HIDE DEF c3, p, c4, whole
    <3>4. Prepares(R, m2, whole, {e}) /\ m4 \in Machines(R) /\ ~m4.left /\ m4.reg[e] = p BY <3>3 DEF Finds
    <3>5. m4.reg[b] = place
      <4>1. b \in R \ {e} BY <1>2, <1>t
      <4>. QED BY <1>7, <1>8, <3>4, <4>1, After
    <3> HIDE DEF m4
    <3>6. Computes(R, m4, c4, {}, P86(dst), 8, at)
      <4>0. FALSE \in BOOLEAN /\ 8 # 1 /\ ~(8 > 8) /\ ~(8 < 8) OBVIOUS
      <4>1. Computes(R, m4, L!emit_add_reg(dst, Base86, idx), {}, P86(dst), dst.rsize,
                  Extend(m4.reg[P86(Base86)], Base86.rsize, Base86.dtype.base.sign)
                    + Extend(m4.reg[P86(idx)], idx.rsize, idx.dtype.base.sign))
        <5>1. /\ dst.rsize = (IF Base86.rsize > idx.rsize THEN Base86.rsize ELSE idx.rsize)
              /\ Base86.rsize = idx.rsize /\ dst.rsize # 1 /\ ~(Base86.rsize > idx.rsize) /\ ~(Base86.rsize < idx.rsize)
              /\ Base86.dtype.base.sign \in BOOLEAN /\ idx.dtype.base.sign \in BOOLEAN
          <6>1. Base86.rsize = 8 /\ idx.rsize = 8 /\ dst.rsize = 8 BY <1>2, <1>3
          <6>2. Base86.dtype.base.sign \in BOOLEAN /\ idx.dtype.base.sign \in BOOLEAN BY <1>2, <1>3, <4>0
          <6>. QED BY <6>1, <6>2
        <5>. QED BY <1>2, <1>3, <3>4, <5>1, AddReg86
      <4>2. Extend(m4.reg[P86(Base86)], Base86.rsize, Base86.dtype.base.sign) = place
        BY <1>2, <3>5, PlaceValue DEF Extend
      <4>3. Extend(m4.reg[P86(idx)], idx.rsize, idx.dtype.base.sign) = p
        BY <1>3, <3>2, <3>4, PlaceValue DEF Extend
      <4>. QED BY <3>2, <4>1, <4>2, <4>3 DEF c4
    <3>7. Computes(R, m2, whole \o c4, {e}, P86(dst), 8, at)
      <4>1. {e} \subseteq {e} \union {P86(dst)} /\ {} \subseteq {e} \union {P86(dst)} OBVIOUS
      <4>. QED BY <3>4, <3>6, <4>1, ComputesThen DEF m4
    <3>. QED BY <3>1, <3>7
  <2>. QED BY <2>1, <2>2
<1> HIDE DEF c3
<1>11. Computes(R, m, (c1 \o c2) \o c3, U, P86(dst), 8, at)
  <2>1. U \subseteq U \union {P86(dst)} /\ {Class.scratch[2]} \subseteq U \union {P86(dst)} BY <1>t
  <2> DEFINE c12 == c1 \o c2
  <2> HIDE DEF U, c12
  <2>2. Prepares(R, m, c12, U) /\ Run(m, c12) = m2 BY <1>9 DEF c12
  <2>3. Computes(R, m, c12 \o c3, U, P86(dst), 8, at) BY <1>10, <2>1, <2>2, ComputesThen
  <2>. QED BY <2>3 DEF c12
<1>12. Yields(R, m, code, U, P86(dst), 8, at) BY <1>1, <1>11 DEF Computes, Yields
<1>13. Spares(m, code, index)
  <2>1. Run(m, code) = m3
    <3> DEFINE c12 == c1 \o c2
    <3> HIDE DEF c12
    <3>2. Prepares(R, m, c12, U) /\ Run(m, c12) = m2 BY <1>9 DEF c12
    <3>3. Run(m, c12 \o c3) = m3 BY <1>10, <3>2, RunConcat DEF Prepares, Computes
    <3>. QED BY <1>1, <3>3 DEF c12
  <2>2. Prepares(R, m2, c3, {Class.scratch[2]} \union {P86(dst)}) BY <1>10 DEF Computes
  <2>3. i \in R \ ({Class.scratch[2]} \union {P86(dst)}) BY <1>t
  <2>4. m3.reg[i] = m2.reg[i] BY <1>7, <2>2, <2>3, After
  <2>. QED BY <1>5, <1>7, <2>1, <2>4 DEF Spares
<1>. QED BY <1>12, <1>13 DEF GivesElement

-----------------------------------------------------------------------------
(* The x86-64 listing: objects, piece by piece.                           *)

\* The pieces of the x86 listing are those of the machine.
LEMMA InstanceEach ==
  /\ \A n : L!ChunksOf(n) = ChunksOf(n)
  /\ \A s : L!Joined(s) = Joined(s)
  /\ \A t : L!dtype_size(t) = dtype_size(t)
BY Zenon DEF L!ChunksOf, ChunksOf, L!Joined, Joined, L!dtype_size, dtype_size, L!dtype_outer, dtype_outer, L!dtype_unwrap,
   dtype_unwrap, L!PointerSize, PointerSize, L!NoDeclarator, NoDeclarator, L!Declarator, Declarator

ZeroPieces(base, zero, offset) == [c \in Chunk |-> L!emit_str_reg(base, L!Sized(zero, c.n), offset + c.at)]
PackedPieces(base, src, offset, n) ==
  [c \in Chunk |-> L!emit_str_reg(base, L!Sized(src, c.n), offset + c.at)
                     \o (IF c.at + c.n = n THEN << >>
                         ELSE <<L!Ins("shr", L!buf_putreg(src), 8, L!Wide(src), L!Imm(c.n * ByteBits), TRUE)>>)]

\* The pieces an object is copied in.
LEMMA ChunksSeq == ASSUME NEW n \in 0 .. 16 PROVE ChunksOf(n) \in Seq(Chunk)
<1> DEFINE G == Seq(Chunk) \X (0 .. n)
<1>1. <<(<< >>), 0>> \in G
  <2>1. << >> \in Seq(Chunk) OBVIOUS
  <2>2. 0 \in 0 .. n OBVIOUS
  <2>. QED BY <2>1, <2>2
<1>2. ASSUME NEW s \in Seq(Chunk), NEW b \in 0 .. n, <<s, b>> \in G, NEW k \in Sizes, b + k <= n
      PROVE  <<s \o <<[n |-> k, at |-> b]>>, b + k>> \in G
  <2> DEFINE c == [n |-> k, at |-> b]
  <2>1. c \in Chunk BY <1>2 DEF Chunk
  <2> HIDE DEF c
  <2>2. Appended(Chunk, s, c, s \o <<c>>) BY <2>1, AppendOne
  <2>3. b + k \in 0 .. n BY <1>2 DEF Sizes
  <2>. QED BY <2>2, <2>3 DEF Appended, c
<1> HIDE DEF G
<1>. QED BY <1>1, <1>2, ChunksGood

\* emit_zerofill clears a register and stores it piece by piece.
LEMMA ZerofillCode ==
  ASSUME NEW base, NEW offset, NEW dtype, NEW n \in 0 .. 16, dtype_size(dtype) = n
  PROVE  L!emit_zerofill(base, offset, dtype) =
           L!emit_zero_out(L!ScratchReg(1, 8)) \o All(ZeroPieces(base, L!ScratchReg(1, 8), offset), ChunksOf(n))
<1> DEFINE zero == L!ScratchReg(1, 8)   f == ZeroPieces(base, zero, offset)   s == ChunksOf(n)
<1>1. s \in Seq(Chunk) BY ChunksSeq
<1>2. L!emit_zerofill(base, offset, dtype) =
           L!emit_zero_out(zero) \o L!Joined([i \in DOMAIN L!ChunksOf(L!dtype_size(dtype)) |->
              L!emit_str_reg(base, L!Sized(zero, L!ChunksOf(L!dtype_size(dtype))[i].n), offset + L!ChunksOf(L!dtype_size(dtype))[i].at)])
  BY DEF L!emit_zerofill, L!Each
<1>3. L!ChunksOf(L!dtype_size(dtype)) = s BY InstanceEach
<1> HIDE DEF s, zero
<1>4. [i \in DOMAIN s |-> L!emit_str_reg(base, L!Sized(zero, s[i].n), offset + s[i].at)] = Coded(f, s)
  <2>1. \A i \in DOMAIN s : s[i] \in Chunk BY <1>1
  <2>2. \A c \in Chunk : f[c] = L!emit_str_reg(base, L!Sized(zero, c.n), offset + c.at) BY DEF ZeroPieces
  <2> HIDE DEF f
  <2>3. \A i \in DOMAIN s : f[s[i]] = L!emit_str_reg(base, L!Sized(zero, s[i].n), offset + s[i].at) BY <2>1, <2>2
  <2>. QED BY <2>3 DEF Coded
<1>. QED BY <1>2, <1>3, <1>4, InstanceEach DEF All, zero, s

\* emit_store_packed stores a register piece by piece.
LEMMA PackedCode ==
  ASSUME NEW base, NEW offset, NEW src, NEW n \in 0 .. 16
  PROVE  L!emit_store_packed(base, offset, src, n) = All(PackedPieces(base, src, offset, n), ChunksOf(n))
<1> DEFINE f == PackedPieces(base, src, offset, n)   s == ChunksOf(n)
           shr(k) == <<L!Ins("shr", L!buf_putreg(src), 8, L!Wide(src), L!Imm(k * ByteBits), TRUE)>>
<1>1. s \in Seq(Chunk) BY ChunksSeq
<1>2. L!emit_store_packed(base, offset, src, n) =
        L!Joined([i \in DOMAIN L!ChunksOf(n) |->
              L!emit_str_reg(base, L!Sized(src, L!ChunksOf(n)[i].n), offset + L!ChunksOf(n)[i].at)
              \o (IF L!ChunksOf(n)[i].at + L!ChunksOf(n)[i].n = n THEN << >> ELSE shr(L!ChunksOf(n)[i].n))])
  BY DEF L!emit_store_packed, L!Each
<1>3. L!ChunksOf(n) = s BY InstanceEach
<1>5. \A c \in Chunk : f[c] = L!emit_str_reg(base, L!Sized(src, c.n), offset + c.at) \o (IF c.at + c.n = n THEN << >> ELSE shr(c.n))
  BY DEF PackedPieces
<1> HIDE DEF s, f, shr
<1>4. [i \in DOMAIN s |-> L!emit_str_reg(base, L!Sized(src, s[i].n), offset + s[i].at)
                            \o (IF s[i].at + s[i].n = n THEN << >> ELSE shr(s[i].n))] = Coded(f, s)
  <2>1. \A i \in DOMAIN s : s[i] \in Chunk BY <1>1
  <2>3. \A i \in DOMAIN s : f[s[i]] = L!emit_str_reg(base, L!Sized(src, s[i].n), offset + s[i].at)
                            \o (IF s[i].at + s[i].n = n THEN << >> ELSE shr(s[i].n)) BY <2>1, <1>5
  <2>. QED BY <2>3 DEF Coded
<1>. QED BY <1>2, <1>3, <1>4, InstanceEach DEF All, f, s

\* One more piece of zeros.
LEMMA ZeroPiece86 ==
  ASSUME X86, NEW m \in Machines(R), ~m.left, NEW base, P86(base) \in R, NEW zero, Usable86(zero), m.reg[P86(zero)] = 0,
         NEW offset \in Int, NEW at \in 0 .. 100, m.reg[P86(base)] + offset = at, NEW mem \in Mem,
         NEW b \in 0 .. 16, NEW k \in Sizes, b + k <= 16, at + (b + k) <= Memory, m.mem = Written(mem, at, b, 0),
         NEW code, code = L!emit_str_reg(base, L!Sized(zero, k), offset + b)
  PROVE  Leaves(R, m, code, {}, Written(mem, at, b + k, 0))
<1> DEFINE src == L!Sized(zero, k)
<1>1. Usable86(src) /\ P86(src) = P86(zero) /\ src.rsize = k BY Sized86
<1> HIDE DEF src
<1>2. k \in 1 .. 8 /\ k \in 0 .. 15 /\ b \in Int /\ at \in Int /\ k \in Int /\ offset \in Int BY DEF Sizes
<1>3. m.reg[P86(base)] \in Int
  <2>1. Zero \notin R BY NoZero DEF X86
  <2>. QED BY <2>1, Operands
<1>4. m.reg[P86(base)] + (offset + b) = at + b BY <1>2, <1>3
<1>5. at + b \in Place8 /\ (at + b) + k <= Memory BY <1>2, MachineAssumption DEF Place8
<1>6. Leaves(R, m, L!emit_str_reg(base, src, offset + b), {}, Written(m.mem, at + b, src.rsize, Unsigned(m.reg[P86(src)], src.rsize)))
  <2>1. offset + b \in Int BY <1>2
  <2>2. (at + b) + src.rsize <= Memory BY <1>1, <1>5
  <2>. QED BY <1>1, <1>4, <1>5, <2>1, <2>2, StrReg86
<1>7. Unsigned(m.reg[P86(src)], src.rsize) = 0
  <2>1. 0 \in 0 .. Values(k) - 1 BY <1>2, ValuesPositive
  <2>. QED BY <1>1, <1>2, <2>1, UnsignedSmall
<1>8. Written(Written(mem, at, b, 0), at + b, k, 0) = Written(mem, at, b + k, 0)
  <2>1. CASE b = 16 BY <1>2, <2>1
  <2>2. CASE b # 16
    <3>1. b \in 0 .. 15 BY <2>2
    <3>2. Values(b) \in Nat \ {0} BY <3>1, ValuesPositive
    <3> DEFINE V == Values(b)
    <3>3. 0 \div V = 0
      <4> HIDE DEF V
      <4>. QED BY <3>2 DEF V
    <3>4. b + k \in 0 .. 16 /\ b \in Nat /\ k \in Nat /\ 0 \in Int BY <1>2
    <3>5. Written(Written(mem, at, b, 0), at + b, k, 0 \div Values(b)) = Written(mem, at, b + k, 0)
      BY <1>2, <3>4, WrittenParts
    <3>. QED BY <3>3, <3>5
  <2>. QED BY <2>1, <2>2
<1>. QED BY <1>1, <1>6, <1>7, <1>8 DEF src

\* A store of a register is code.
LEMMA StrCode86 == ASSUME NEW base, NEW src, NEW offset PROVE IsCode(L!emit_str_reg(base, src, offset))
BY CodeOne DEF L!emit_str_reg, L!Store

\* emit_zerofill leaves zeros in every byte of the object and no other.
LEMMA Zerofill86 ==
  ASSUME X86, NEW m \in Machines(R), ~m.left, NEW base, P86(base) \in R, P86(base) # Class.scratch[2],
         NEW offset \in Int, NEW at \in 0 .. 100, m.reg[P86(base)] + offset = at,
         NEW n \in 0 .. 16, at + n <= Memory, NEW dtype, dtype_size(dtype) = n,
         NEW code, code = L!emit_zerofill(base, offset, dtype)
  PROVE  Leaves(R, m, code, T86, Written(m.mem, at, n, 0))
<1> DEFINE zero == L!ScratchReg(1, 8)   f == ZeroPieces(base, zero, offset)
           first == L!emit_zero_out(zero)   m1 == Run(m, first)
           G == {x \in Seq(Chunk) \X (0 .. n) : Leaves(R, m1, All(f, x[1]), {}, Written(m.mem, at, x[2], 0))}
<1>1. code = first \o All(f, ChunksOf(n)) BY ZerofillCode
<1>2. Usable86(zero) /\ P86(zero) = Class.scratch[2] /\ zero.rsize = 8
  <2>1. 1 \in {0, 1, 2} /\ 8 \in Sizes /\ 1 + 1 = 2 BY DEF Sizes
  <2>2. Usable86(L!ScratchReg(1, 8)) /\ P86(L!ScratchReg(1, 8)) = Class.scratch[1 + 1] /\ L!ScratchReg(1, 8).rsize = 8 BY <2>1, Temp86
  <2>. QED BY <2>1, <2>2
<1> HIDE DEF zero
<1>3. Computes(R, m, first, {}, P86(zero), zero.rsize, 0) BY <1>2, ZeroOut86
<1>4. Prepares(R, m, first, {P86(zero)}) /\ Agree(m1.reg[P86(zero)], 0, 8)
  <2>1. {} \union {P86(zero)} = {P86(zero)} OBVIOUS
  <2>. QED BY <1>2, <1>3, <2>1 DEF Computes
<1> HIDE DEF first
<1>5. m1 \in Machines(R) /\ ~m1.left /\ m1.mem = m.mem /\ \A r \in R \ {P86(zero)} : m1.reg[r] = m.reg[r]
  BY <1>4, After DEF m1
<1>6. m1.reg[P86(zero)] = 0
  <2>1. Zero \notin R BY NoZero DEF X86
  <2>2. P86(zero) \in R BY <1>2 DEF Usable86
  <2>3. m1.reg[P86(zero)] \in 0 .. Values(8) - 1 BY <1>5, <2>1, <2>2, Operands
  <2>4. 0 \in Place8 BY DEF Place8
  <2>. QED BY <1>4, <2>3, <2>4, WordIs
<1>7. m1.reg[P86(base)] + offset = at BY <1>2, <1>5
<1>8. m.mem \in Mem BY MemIn
<1> HIDE DEF m1
<1>9. DOMAIN f = Chunk /\ f = [c \in Chunk |-> f[c]] /\ \A c \in Chunk : IsCode(f[c])
  BY StrCode86 DEF ZeroPieces
<1>10. \A c \in Chunk : f[c] = L!emit_str_reg(base, L!Sized(zero, c.n), offset + c.at) BY DEF ZeroPieces
<1> HIDE DEF f
<1>11. <<(<< >>), 0>> \in G
  <2>1. Leaves(R, m1, << >>, {}, m1.mem) BY <1>5, LeavesNone
  <2>2. Written(m.mem, at, 0, 0) = m.mem BY <1>8, WrittenNone
  <2>3. Leaves(R, m1, All(f, << >>), {}, Written(m.mem, at, 0, 0)) BY <1>5, <2>1, <2>2, AllNone
  <2>4. << >> \in Seq(Chunk) /\ 0 \in 0 .. n OBVIOUS
  <2>. QED BY <2>3, <2>4
<1>12. ASSUME NEW s \in Seq(Chunk), NEW b \in 0 .. n, <<s, b>> \in G, NEW k \in Sizes, b + k <= n
       PROVE  <<s \o <<[n |-> k, at |-> b]>>, b + k>> \in G
  <2> DEFINE c == [n |-> k, at |-> b]   m2 == Run(m1, All(f, s))
  <2>1. c \in Chunk /\ c.n = k /\ c.at = b BY <1>12 DEF Chunk
  <2> HIDE DEF c
  <2>2. Leaves(R, m1, All(f, s), {}, Written(m.mem, at, b, 0)) BY <1>12
  <2>3. m2 \in Machines(R) /\ ~m2.left /\ m2.mem = Written(m.mem, at, b, 0) /\ \A r \in R : m2.reg[r] = m1.reg[r]
    BY <2>2 DEF Leaves
  <2>4. m2.reg[P86(base)] + offset = at /\ m2.reg[P86(zero)] = 0
    <3>1. P86(zero) \in R BY <1>2 DEF Usable86
    <3>. QED BY <1>6, <1>7, <2>3, <3>1
  <2> HIDE DEF m2
  <2>5. f[c] = L!emit_str_reg(base, L!Sized(zero, k), offset + b) BY <1>10, <2>1
  <2>6. b \in 0 .. 16 /\ b + k <= 16 /\ at + (b + k) <= Memory BY MachineAssumption, <1>12 DEF Sizes
  <2>7. Leaves(R, m2, f[c], {}, Written(m.mem, at, b + k, 0))
    <3> DEFINE mem == m.mem   piece == f[c]
    <3>1. mem \in Mem /\ m2.mem = Written(mem, at, b, 0) BY <1>8, <2>3
    <3>2. piece = L!emit_str_reg(base, L!Sized(zero, k), offset + b) BY <2>5
    <3>3. m2 \in Machines(R) /\ ~m2.left BY <2>3
    <3> HIDE DEF mem, piece
    <3>4. Leaves(R, m2, piece, {}, Written(mem, at, b + k, 0))
      BY <1>2, <2>4, <2>6, <3>1, <3>2, <3>3, ZeroPiece86
    <3>. QED BY <3>4 DEF mem, piece
  <2>8. Leaves(R, m1, All(f, s) \o f[c], {}, Written(m.mem, at, b + k, 0))
    BY <2>2, <2>7, LeavesThen DEF m2
  <2>9. All(f, s \o <<c>>) = All(f, s) \o f[c]
    <3>1. AllThen(f, s, c) BY <1>9, <2>1, AllCode
    <3>. QED BY <3>1 DEF AllThen
  <2>10. s \o <<c>> \in Seq(Chunk)
    <3>1. Appended(Chunk, s, c, s \o <<c>>) BY <2>1, AppendOne
    <3>. QED BY <3>1 DEF Appended
  <2>11. b + k \in 0 .. n BY <1>12 DEF Sizes
  <2>12. Leaves(R, m1, All(f, s \o <<c>>), {}, Written(m.mem, at, b + k, 0)) BY <2>8, <2>9
  <2> DEFINE t == s \o <<c>>   e == b + k
  <2>13. t \in Seq(Chunk) /\ e \in 0 .. n /\ Leaves(R, m1, All(f, t), {}, Written(m.mem, at, e, 0)) BY <2>10, <2>11, <2>12
  <2> HIDE DEF t, e
  <2>14. <<t, e>> \in G BY <2>13
  <2>. QED BY <2>14 DEF t, e, c
<1>13. <<ChunksOf(n), n>> \in G
  <2> HIDE DEF G
  <2>. QED BY <1>11, <1>12, ChunksGood
<1>14. Leaves(R, m1, All(f, ChunksOf(n)), {}, Written(m.mem, at, n, 0)) BY <1>13
<1>15. Leaves(R, m, first, {P86(zero)}, m.mem) BY <1>4, PreparesLeaves
<1>16. {P86(zero)} \subseteq T86 BY <1>2 DEF T86
<1>17. Leaves(R, m, first \o All(f, ChunksOf(n)), T86, Written(m.mem, at, n, 0))
  BY <1>14, <1>15, <1>16, LeavesThen DEF m1
<1>. QED BY <1>1, <1>17

\* The code of one piece: its bytes are stored, those after it move down.
PackedCode86(base, src, offset, k, b, n) ==
  L!emit_str_reg(base, L!Sized(src, k), offset + b)
    \o (IF b + k = n THEN << >>
        ELSE <<L!Ins("shr", L!buf_putreg(src), 8, L!Wide(src), L!Imm(k * ByteBits), TRUE)>>)
StoredSo(m, code, mem, at, e, n, d, u) ==
  /\ Leaves(R, m, code, {d}, Written(mem, at, e, u))
  /\ e < n => Run(m, code).reg[d] = u \div Values(e)

\* A shift moves the bytes after a piece down.
LEMMA Shift86 ==
  ASSUME X86, NEW m \in Machines(R), ~m.left, NEW src, Usable86(src), NEW w \in Word, m.reg[P86(src)] = w, NEW k \in 0 .. 8,
         NEW code, code = <<L!Ins("shr", L!buf_putreg(src), 8, L!Wide(src), L!Imm(k * ByteBits), TRUE)>>
  PROVE  Finds(R, m, code, {P86(src)}, P86(src), w \div Values(k))
<1> DEFINE d == P86(src)   v == w \div Values(k)   y == k * ByteBits
           i == Ins("shr", d, 8, Low(d, 8), Imm(y), TRUE)
<1>1. d \in R /\ L!Wide(src) = Low(d, 8) /\ Operand(m, Low(d, 8)) = Unsigned(m.reg[d], 8)
  <2>1. 8 \in Sizes BY DEF Sizes
  <2>. QED BY <2>1, Facts86
<1>2. code = <<i>>
  <2>1. L!Wide(src) = Low(d, 8) BY <1>1
  <2>. QED BY <2>1, InstanceX86 DEF P86
<1>3. Zero \notin R BY NoZero DEF X86
<1>4. w \in Int /\ w \in Nat /\ w \in 0 .. Values(8) - 1 /\ 8 \in 0 .. 15 /\ k \in 0 .. 15 /\ Values(8) \in Nat
  BY ValuesPositive DEF Word
<1>5. Unsigned(w, 8) = w BY <1>4, UnsignedSmall
<1>6. Operand(m, Low(d, 8)) = w /\ Operand(m, Imm(y)) = y BY <1>1, <1>3, <1>5, Operands
<1>7. Result(i, w, y) = v
  <2>1. TwoTo[y] = Values(k) BY DEF Values
  <2> HIDE DEF y
  <2>2. Result(i, w, y) = Unsigned(w, 8) \div TwoTo[y] BY DEF Result, Ins
  <2>. QED BY <2>1, <2>2, <1>5
<1>8. v \in Nat /\ v <= w
  <2>1. Values(k) \in Nat \ {0} BY <1>4, ValuesPositive
  <2> DEFINE V == Values(k)
  <2> HIDE DEF V
  <2>2. w \div V \in Nat /\ w \div V <= w BY <1>4, <2>1 DEF V
  <2>. QED BY <2>2 DEF V
<1>9. v \in Int /\ Agree(v, v, 8) /\ v \in 0 .. Values(8) - 1 /\ "shr" \in Alu /\ 8 \in Sizes /\ TRUE \in BOOLEAN
  BY <1>4, <1>8 DEF Agree, Alu, Sizes
<1>10. Result(Ins("shr", d, 8, Low(d, 8), Imm(y), TRUE), Operand(m, Low(d, 8)), Operand(m, Imm(y))) = v BY <1>6, <1>7
<1> HIDE DEF d, v, y
<1>11. Computes(R, m, <<Ins("shr", d, 8, Low(d, 8), Imm(y), TRUE)>>, {}, d, 8, v)
  BY Zenon, <1>1, <1>3, <1>9, <1>10, RunAlu
<1>12. Prepares(R, m, code, {d}) /\ Agree(Run(m, code).reg[d], v, 8)
  <2>1. {} \union {d} = {d} OBVIOUS
  <2>. QED BY <1>2, <1>11, <2>1 DEF Computes
<1>13. Run(m, code) \in Machines(R) /\ ~Run(m, code).left BY <1>12, After
<1>14. Run(m, code).reg[d] = v
  <2>1. Run(m, code).reg[d] \in 0 .. Values(8) - 1 BY <1>1, <1>3, <1>13, Operands
  <2>2. Unsigned(Run(m, code).reg[d], 8) = Run(m, code).reg[d] BY <1>4, <2>1, UnsignedSmall
  <2>3. Unsigned(v, 8) = v BY <1>4, <1>9, UnsignedSmall
  <2>. QED BY <1>12, <2>2, <2>3 DEF Agree
<1>. QED BY <1>12, <1>13, <1>14 DEF Finds, d, v

\* One more piece of a packed object is stored.
LEMMA PackedPiece86 ==
  ASSUME X86, NEW m \in Machines(R), ~m.left, NEW base, P86(base) \in R, NEW src, Usable86(src), P86(base) # P86(src),
         NEW offset \in Int, NEW at \in 0 .. 100, m.reg[P86(base)] + offset = at, NEW mem \in Mem, NEW u \in Word,
         NEW n \in 0 .. 8, NEW b \in 0 .. n, NEW k \in Sizes, b + k <= n, at + (b + k) <= Memory,
         m.mem = Written(mem, at, b, u), m.reg[P86(src)] = u \div Values(b),
         NEW code, code = PackedCode86(base, src, offset, k, b, n)
  PROVE  StoredSo(m, code, mem, at, b + k, n, P86(src), u)
<1> DEFINE one == L!Sized(src, k)   w == u \div Values(b)   d == P86(src)
           put == L!emit_str_reg(base, one, offset + b)   m1 == Run(m, put)
           shr == <<L!Ins("shr", L!buf_putreg(src), 8, L!Wide(src), L!Imm(k * ByteBits), TRUE)>>
<1>1. Usable86(one) /\ P86(one) = P86(src) /\ one.rsize = k BY Sized86
<1> HIDE DEF one
<1>2. /\ k \in 1 .. 8 /\ k \in 0 .. 15 /\ k \in Int /\ k \in Nat /\ b \in Int /\ b \in Nat /\ at \in Int /\ offset \in Int
      /\ b \in 0 .. 15 /\ b + k \in 0 .. 15 /\ b + k \in 0 .. 16
  BY DEF Sizes
<1>3. Zero \notin R BY NoZero DEF X86
<1>4. m.reg[P86(base)] \in Int BY <1>3, Operands
<1>5. m.reg[P86(base)] + (offset + b) = at + b BY <1>2, <1>4
<1>6. at + b \in Place8 /\ (at + b) + k <= Memory BY <1>2, MachineAssumption DEF Place8
<1>7. Values(b) \in Nat \ {0} /\ Values(k) \in Nat \ {0} /\ Values(8) \in Nat \ {0} BY <1>2, ValuesPositive
<1>8. u \in Nat /\ w \in Nat /\ w <= u /\ w \in Int /\ w \in Word
  <2> DEFINE V == Values(b)
  <2>1. u \in Nat /\ u <= Values(8) - 1 BY <1>7 DEF Word
  <2> HIDE DEF V
  <2>2. u \div V \in Nat /\ u \div V <= u BY <1>7, <2>1 DEF V
  <2>. QED BY <1>7, <2>1, <2>2 DEF V, Word
<1>9. m.reg[P86(one)] = w BY <1>1
<1>10. Leaves(R, m, put, {}, Written(m.mem, at + b, k, Unsigned(w, k)))
  <2>1. offset + b \in Int BY <1>2
  <2>2. (at + b) + one.rsize <= Memory BY <1>1, <1>6
  <2>3. Leaves(R, m, L!emit_str_reg(base, one, offset + b), {}, Written(m.mem, at + b, one.rsize, Unsigned(m.reg[P86(one)], one.rsize)))
    BY <1>1, <1>5, <1>6, <2>1, <2>2, StrReg86
  <2>. QED BY <1>1, <1>9, <2>3
<1>11. Written(m.mem, at + b, k, Unsigned(w, k)) = Written(mem, at, b + k, u)
  <2>1. Agree(Unsigned(w, k), w, k) BY <1>2, <1>8, AgreeUnsigned
  <2>2. m.mem \in Mem BY MemIn
  <2>3. DOMAIN m.mem \subseteq Int BY <2>2, MemDomain
  <2>4. Unsigned(w, k) \in Int BY <1>2, <1>8, UnsignedRange
  <2>5. at + b \in Int BY <1>2
  <2>6. Written(m.mem, at + b, k, Unsigned(w, k)) = Written(m.mem, at + b, k, w)
    <3> DEFINE p == at + b   x == Unsigned(w, k)   mem0 == m.mem
    <3>1. p \in Int /\ x \in Int /\ Agree(x, w, k) /\ DOMAIN mem0 \subseteq Int /\ k \in 0 .. 15 /\ w \in Int
      BY <1>2, <1>8, <2>1, <2>3, <2>4, <2>5
    <3> HIDE DEF p, x, mem0
    <3>2. Written(mem0, p, k, x) = Written(mem0, p, k, w) BY <3>1, WrittenAgree
    <3>. QED BY <3>2 DEF p, x, mem0
  <2>7. u \in Int BY <1>8
  <2>8. Written(Written(mem, at, b, u), at + b, k, u \div Values(b)) = Written(mem, at, b + k, u)
    BY <1>2, <2>7, WrittenParts
  <2>. QED BY <2>6, <2>8
<1> HIDE DEF put, w
<1>12. m1 \in Machines(R) /\ ~m1.left /\ m1.mem = Written(mem, at, b + k, u) /\ m1.reg[d] = w
  <2>1. d \in R BY DEF Usable86
  <2>. QED BY <1>10, <1>11, <2>1 DEF Leaves, w
<1>13. CASE b + k = n
  <2>1. code = put \o << >> BY <1>13 DEF PackedCode86, put, one
  <2>2. IsCode(put) /\ put \o << >> = put
    <3>1. IsCode(put) BY <1>10 DEF Leaves
    <3>. QED BY <3>1, EmptyAppend DEF IsCode
  <2>3. Leaves(R, m, code, {d}, Written(mem, at, b + k, u)) BY <1>10, <1>11, <2>1, <2>2 DEF Leaves
  <2>. QED BY <1>2, <1>13, <2>3 DEF StoredSo
<1>14. CASE b + k # n
  <2>1. code = put \o shr BY <1>14 DEF PackedCode86, put, one
  <2> HIDE DEF m1
  <2>2. Finds(R, m1, shr, {d}, d, w \div Values(k))
    <3>1. k \in 0 .. 8 BY <1>2
    <3>. QED BY <1>8, <1>12, <3>1, Shift86
  <2> HIDE DEF shr, d
  <2>3. Leaves(R, m1, shr, {d}, m1.mem) BY <1>12, <2>2, PreparesLeaves DEF Finds
  <2>4. Leaves(R, m, put \o shr, {d}, Written(mem, at, b + k, u))
    BY <1>10, <1>11, <1>12, <2>3, LeavesThen DEF m1
  <2>5. Run(m, put \o shr) = Run(m1, shr)
    <3>1. IsCode(put) /\ IsCode(shr) BY <1>10, <2>3 DEF Leaves
    <3>. QED BY <3>1, RunConcat DEF m1
  <2>6. w \div Values(k) = u \div Values(b + k)
    <3>1. (u \div Values(b)) \div Values(k) = u \div (Values(b) * Values(k))
      <4>1. u \in Int BY <1>8
      <4>. QED BY <1>7, <4>1, DivDiv
    <3>2. Values(b + k) = Values(b) * Values(k) BY <1>2, ValuesSum
    <3>. QED BY <3>1, <3>2 DEF w
  <2>7. Run(m, code).reg[d] = u \div Values(b + k) BY <2>1, <2>2, <2>5, <2>6 DEF Finds
  <2>. QED BY <2>1, <2>4, <2>7 DEF StoredSo, d
<1>. QED BY <1>13, <1>14

\* emit_store_packed stores the low n bytes of a register.
LEMMA StorePacked86 ==
  ASSUME X86, NEW m \in Machines(R), ~m.left, NEW base, P86(base) \in R, NEW src, Usable86(src), P86(base) # P86(src),
         NEW offset \in Int, NEW at \in 0 .. 100, m.reg[P86(base)] + offset = at, NEW n \in 1 .. 8, at + n <= Memory,
         NEW u, u = m.reg[P86(src)], NEW code, code = L!emit_store_packed(base, offset, src, n)
  PROVE  Leaves(R, m, code, {P86(src)}, Written(m.mem, at, n, u))
<1> DEFINE f == PackedPieces(base, src, offset, n)   d == P86(src)
           G == {x \in Seq(Chunk) \X (0 .. n) : StoredSo(m, All(f, x[1]), m.mem, at, x[2], n, d, u)}
<1>1. code = All(f, ChunksOf(n))
  <2>1. n \in 0 .. 16 OBVIOUS
  <2>. QED BY <2>1, PackedCode
<1>3. Zero \notin R BY NoZero DEF X86
<1>4. d \in R BY DEF Usable86
<1>5. u \in Word BY <1>3, <1>4, Operands DEF Word
<1>6. u \in Nat BY <1>5 DEF Word
<1>8. m.mem \in Mem BY MemIn
<1>9. DOMAIN f = Chunk /\ f = [c \in Chunk |-> f[c]] /\ \A c \in Chunk : IsCode(f[c])
  <2>1. \A c \in Chunk : IsCode(f[c])
    <3> SUFFICES ASSUME NEW c \in Chunk PROVE IsCode(f[c]) OBVIOUS
    <3> DEFINE i == L!Ins("shr", L!buf_putreg(src), 8, L!Wide(src), L!Imm(c.n * ByteBits), TRUE)
               put == L!emit_str_reg(base, L!Sized(src, c.n), offset + c.at)
    <3>1. f[c] = put \o (IF c.at + c.n = n THEN << >> ELSE <<i>>) BY DEF PackedPieces
    <3> HIDE DEF put, i, f
    <3>2. IsCode(put) /\ IsCode(<<i>>) /\ IsCode(<< >>) BY StrCode86, CodeOne, CodeNone DEF put
    <3>3. CASE c.at + c.n = n BY <3>1, <3>2, <3>3, CodeConcat
    <3>4. CASE c.at + c.n # n BY <3>1, <3>2, <3>4, CodeConcat
    <3>. QED BY <3>3, <3>4
  <2>2. DOMAIN f = Chunk /\ f = [c \in Chunk |-> f[c]] BY DEF PackedPieces
  <2>. QED BY <2>1, <2>2
<1>10. \A c \in Chunk : f[c] = PackedCode86(base, src, offset, c.n, c.at, n) BY DEF PackedPieces, PackedCode86
<1> HIDE DEF f
<1>11. <<(<< >>), 0>> \in G
  <2>1. Leaves(R, m, << >>, {d}, m.mem) BY LeavesNone
  <2>2. Written(m.mem, at, 0, u) = m.mem BY <1>8, WrittenNone
  <2>3. Leaves(R, m, All(f, << >>), {d}, Written(m.mem, at, 0, u)) BY <2>1, <2>2, AllNone
  <2>4. << >> \in Seq(Chunk) /\ 0 \in 0 .. n OBVIOUS
  <2>5. Run(m, All(f, << >>)).reg[d] = u \div Values(0)
    <3>1. Run(m, All(f, << >>)) = m BY AllNone, RunNone
    <3>. QED BY <3>1, <1>6, ValuesNone
  <2>. QED BY <2>3, <2>4, <2>5 DEF StoredSo
<1>12. ASSUME NEW s \in Seq(Chunk), NEW b \in 0 .. n, <<s, b>> \in G, NEW k \in Sizes, b + k <= n
       PROVE  <<s \o <<[n |-> k, at |-> b]>>, b + k>> \in G
  <2> DEFINE c == [n |-> k, at |-> b]   m2 == Run(m, All(f, s))   mem == m.mem   fc == f[c]   t == s \o <<c>>   e == b + k
  <2>1. c \in Chunk /\ c.n = k /\ c.at = b BY <1>12 DEF Chunk
  <2> HIDE DEF c
  <2>2. Leaves(R, m, All(f, s), {d}, Written(m.mem, at, b, u)) /\ m2.reg[d] = u \div Values(b)
    <3>1. StoredSo(m, All(f, s), m.mem, at, b, n, d, u) BY <1>12
    <3>2. b < n BY <1>12 DEF Sizes
    <3>. QED BY <3>1, <3>2 DEF StoredSo
  <2>3. m2 \in Machines(R) /\ ~m2.left /\ m2.mem = Written(mem, at, b, u) /\ \A r \in R \ {d} : m2.reg[r] = m.reg[r]
    BY <2>2 DEF Leaves
  <2>4. m2.reg[P86(base)] + offset = at BY <2>3
  <2>5. fc = PackedCode86(base, src, offset, k, b, n) BY <1>10, <2>1
  <2>6. n \in 0 .. 8 /\ at + (b + k) <= Memory
    <3>1. Memory \in Nat BY MachineAssumption
    <3>2. at \in Int /\ n \in 0 .. 8 /\ b \in 0 .. n /\ k \in Int /\ b + k <= n /\ at + n <= Memory BY <1>12 DEF Sizes
    <3> HIDE DEF mem, m2, fc, t, e
    <3>. QED BY <3>1, <3>2
  <2>7. StoredSo(m2, fc, mem, at, b + k, n, P86(src), u)
    <3>1. mem \in Mem BY <1>8
    <3> HIDE DEF mem, m2, fc
    <3>. QED BY <1>5, <1>12, <2>2, <2>3, <2>4, <2>5, <2>6, <3>1, PackedPiece86
  <2>8. All(f, t) = All(f, s) \o fc
    <3>1. AllThen(f, s, c) BY <1>9, <2>1, AllCode
    <3>. QED BY <3>1 DEF AllThen
  <2>9. t \in Seq(Chunk)
    <3>1. Appended(Chunk, s, c, s \o <<c>>) BY <2>1, AppendOne
    <3>. QED BY <3>1 DEF Appended
  <2>10. e \in 0 .. n BY <1>12 DEF Sizes
  <2> HIDE DEF fc, mem
  <2>11. Leaves(R, m, All(f, s) \o fc, {d}, Written(m.mem, at, e, u))
    <3>1. Leaves(R, m2, fc, {d}, Written(mem, at, e, u)) BY <2>7 DEF StoredSo
    <3>. QED BY <2>2, <3>1, LeavesThen DEF mem
  <2>12. e < n => Run(m, All(f, t)).reg[d] = u \div Values(e)
    <3>1. IsCode(fc) /\ IsCode(All(f, s)) BY <2>2, <2>7 DEF StoredSo, Leaves
    <3> DEFINE so_far == All(f, s)   all == All(f, t)
    <3>2. all = so_far \o fc /\ IsCode(so_far) BY <2>8, <3>1
    <3> HIDE DEF so_far, all
    <3>3. Run(m, so_far \o fc) = Run(Run(m, so_far), fc) BY <3>1, <3>2, RunConcat
    <3>4. Run(m, All(f, t)) = Run(m2, fc) BY <3>2, <3>3 DEF so_far, all
    <3>. QED BY <2>7, <3>4 DEF StoredSo
  <2>13. StoredSo(m, All(f, t), m.mem, at, e, n, d, u)
    <3> HIDE DEF e, t
    <3>. QED BY <2>8, <2>11, <2>12 DEF StoredSo
  <2> HIDE DEF t, e
  <2>14. <<t, e>> \in G BY <2>9, <2>10, <2>13
  <2>. QED BY <2>14 DEF t, e, c
<1>13. <<ChunksOf(n), n>> \in G
  <2>1. n \in 0 .. 16 OBVIOUS
  <2> HIDE DEF G
  <2>. QED BY <1>11, <1>12, <2>1, ChunksGood
<1>14. Leaves(R, m, All(f, ChunksOf(n)), {d}, Written(m.mem, at, n, u)) BY <1>13 DEF StoredSo
<1>. QED BY <1>1, <1>14

\* One part of a value of two registers: stored where it is, or as zero.
PutPart(base, r, written, at) == (IF written THEN << >> ELSE L!emit_zero_out(r)) \o L!emit_str_reg(base, r, at)

\* A part of an object is stored, zeros when nothing was written to it.
LEMMA PutPart86 ==
  ASSUME X86, NEW m \in Machines(R), ~m.left, NEW base, P86(base) \in R, NEW r, Usable86(r), P86(base) # P86(r),
         NEW written \in BOOLEAN, NEW offset \in Int, NEW at \in 0 .. 100, m.reg[P86(base)] + offset = at,
         at + r.rsize <= Memory, NEW code, code = PutPart(base, r, written, offset)
  PROVE  Leaves(R, m, code, {P86(r)}, Written(m.mem, at, r.rsize, IF written THEN Unsigned(m.reg[P86(r)], r.rsize) ELSE 0))
<1> DEFINE n == r.rsize   d == P86(r)   first == IF written THEN << >> ELSE L!emit_zero_out(r)
           m1 == Run(m, first)   put == L!emit_str_reg(base, r, offset)
           v == IF written THEN Unsigned(m.reg[P86(r)], r.rsize) ELSE 0
<1>1. n \in 0 .. 15 /\ d \in R BY Facts86
<1>2. Prepares(R, m, first, {d}) /\ Unsigned(m1.reg[d], n) = v
  <2>1. CASE written
    <3>1. first = << >> BY <2>1
    <3>2. m1 = m BY <3>1, RunNone
    <3>3. Prepares(R, m, << >>, {d}) BY PreparesNone
    <3>. QED BY <2>1, <3>1, <3>2, <3>3
  <2>2. CASE ~written
    <3>1. Computes(R, m, first, {}, P86(r), r.rsize, 0) BY <2>2, ZeroOut86
    <3>2. {} \union {d} = {d} OBVIOUS
    <3>3. Unsigned(0, n) = 0
      <4>1. 0 \in 0 .. Values(n) - 1 BY <1>1, ValuesPositive
      <4>. QED BY <1>1, <4>1, UnsignedSmall
    <3>. QED BY <2>2, <3>1, <3>2, <3>3 DEF Computes, Agree
  <2>. QED BY <2>1, <2>2
<1> HIDE DEF first, v
<1>3. m1 \in Machines(R) /\ ~m1.left /\ m1.mem = m.mem /\ \A q \in R \ {d} : m1.reg[q] = m.reg[q]
  BY <1>2, After
<1>4. m1.reg[P86(base)] + offset = at BY <1>3
<1>5. at \in Place8 BY DEF Place8
<1> HIDE DEF m1
<1>6. Leaves(R, m1, put, {}, Written(m.mem, at, n, v))
  <2>1. Leaves(R, m1, put, {}, Written(m1.mem, at, r.rsize, Unsigned(m1.reg[P86(r)], r.rsize)))
    BY <1>3, <1>4, <1>5, StrReg86
  <2>. QED BY <2>1, <1>2, <1>3
<1>7. Leaves(R, m, first, {d}, m.mem) BY <1>2, PreparesLeaves
<1> HIDE DEF put, d
<1>8. Leaves(R, m, first \o put, {d}, Written(m.mem, at, n, v)) BY <1>6, <1>7, LeavesThen DEF m1
<1>. QED BY <1>8 DEF PutPart, first, put, d, v, n

Part(m, r, n, written) == IF written THEN Unsigned(m.reg[P86(r)], n) ELSE 0
EightbyteCode86(base, offset, lo, lo_written, hi, hi_written, has_hi) ==
  PutPart(base, IF has_hi THEN L!Sized(lo, 8) ELSE lo, lo_written, offset)
    \o (IF has_hi THEN PutPart(base, L!Sized(hi, 8), hi_written, offset + 8) ELSE << >>)

\* emit_store_eightbytes puts one part or both.
LEMMA EightbyteCode ==
  \A base, offset, lo, lo_written, hi, hi_written : \A has_hi \in BOOLEAN :
     L!emit_store_eightbytes(base, offset, lo, lo_written, hi, hi_written, has_hi)
       = EightbyteCode86(base, offset, lo, lo_written, hi, hi_written, has_hi)
<1> SUFFICES ASSUME NEW base, NEW offset, NEW lo, NEW lo_written, NEW hi, NEW hi_written, NEW has_hi \in BOOLEAN
    PROVE  L!emit_store_eightbytes(base, offset, lo, lo_written, hi, hi_written, has_hi)
             = EightbyteCode86(base, offset, lo, lo_written, hi, hi_written, has_hi)
  OBVIOUS
<1>. QED BY Zenon DEF L!emit_store_eightbytes, EightbyteCode86, PutPart

\* emit_store_eightbytes of one part.
LEMMA LowPart86 ==
  ASSUME X86, NEW m \in Machines(R), ~m.left, NEW base, P86(base) \in R, NEW lo, Usable86(lo), P86(base) # P86(lo),
         NEW written \in BOOLEAN, NEW offset \in Int, NEW at \in 0 .. 100, m.reg[P86(base)] + offset = at,
         at + lo.rsize <= Memory, NEW hi, NEW hi_written,
         NEW code, code = L!emit_store_eightbytes(base, offset, lo, written, hi, hi_written, FALSE)
  PROVE  Leaves(R, m, code, {P86(lo)}, Written(m.mem, at, lo.rsize, Part(m, lo, lo.rsize, written)))
<1> DEFINE put == PutPart(base, lo, written, offset)
<1>1. code = put \o << >>
  <2>1. FALSE \in BOOLEAN OBVIOUS
  <2>2. code = EightbyteCode86(base, offset, lo, written, hi, hi_written, FALSE) BY Zenon, <2>1, EightbyteCode
  <2>. QED BY <2>2 DEF EightbyteCode86
<1>2. Leaves(R, m, put, {P86(lo)}, Written(m.mem, at, lo.rsize, IF written THEN Unsigned(m.reg[P86(lo)], lo.rsize) ELSE 0))
  BY PutPart86
<1>3. put \o << >> = put
  <2>1. IsCode(put) BY <1>2 DEF Leaves
  <2> HIDE DEF put
  <2>. QED BY <2>1, EmptyAppend DEF IsCode
<1>. QED BY <1>1, <1>2, <1>3 DEF Part

\* emit_store_eightbytes of both parts.
LEMMA BothParts86 ==
  ASSUME X86, NEW m \in Machines(R), ~m.left, NEW base, P86(base) \in R, NEW lo, Usable86(lo), P86(base) # P86(lo),
         NEW hi, Usable86(hi), P86(base) # P86(hi), P86(lo) # P86(hi),
         NEW lo_written \in BOOLEAN, NEW hi_written \in BOOLEAN,
         NEW offset \in Int, NEW at \in 0 .. 90, m.reg[P86(base)] + offset = at, at + 16 <= Memory,
         NEW code, code = L!emit_store_eightbytes(base, offset, lo, lo_written, hi, hi_written, TRUE)
  PROVE  Leaves(R, m, code, {P86(lo), P86(hi)},
                Written(Written(m.mem, at, 8, Part(m, lo, 8, lo_written)), at + 8, 8, Part(m, hi, 8, hi_written)))
<1> DEFINE one == L!Sized(lo, 8)   two == L!Sized(hi, 8)
           first == PutPart(base, one, lo_written, offset)   second == PutPart(base, two, hi_written, offset + 8)
           m1 == Run(m, first)   x == Part(m, lo, 8, lo_written)   y == Part(m, hi, 8, hi_written)
           mem1 == Written(m.mem, at, 8, x)
<1>1. code = first \o second
  <2>1. TRUE \in BOOLEAN OBVIOUS
  <2>2. code = EightbyteCode86(base, offset, lo, lo_written, hi, hi_written, TRUE) BY Zenon, <2>1, EightbyteCode
  <2>. QED BY <2>2 DEF EightbyteCode86
<1>2. /\ Usable86(one) /\ P86(one) = P86(lo) /\ one.rsize = 8
      /\ Usable86(two) /\ P86(two) = P86(hi) /\ two.rsize = 8
  <2>1. 8 \in Sizes BY DEF Sizes
  <2>. QED BY <2>1, Sized86
<1> HIDE DEF one, two
<1>3. at \in 0 .. 100 /\ at + 8 <= Memory /\ (at + 8) + 8 <= Memory /\ at + 8 \in 0 .. 100 /\ offset + 8 \in Int
  BY MachineAssumption
<1>4. Leaves(R, m, first, {P86(lo)}, mem1)
  <2>1. P86(base) # P86(one) /\ at + one.rsize <= Memory BY <1>2, <1>3
  <2>2. Leaves(R, m, first, {P86(one)}, Written(m.mem, at, one.rsize, IF lo_written THEN Unsigned(m.reg[P86(one)], one.rsize) ELSE 0))
    BY <1>2, <1>3, <2>1, PutPart86
  <2>. QED BY <1>2, <2>2 DEF Part
<1> HIDE DEF first, mem1
<1>5. m1 \in Machines(R) /\ ~m1.left /\ m1.mem = mem1 /\ \A r \in R \ {P86(lo)} : m1.reg[r] = m.reg[r]
  BY <1>4 DEF Leaves
<1>6. m1.reg[P86(base)] = m.reg[P86(base)] /\ m1.reg[P86(hi)] = m.reg[P86(hi)]
  <2>1. P86(hi) \in R BY DEF Usable86
  <2>. QED BY <1>5, <2>1
<1>7. m1.reg[P86(base)] + (offset + 8) = at + 8
  <2>1. Zero \notin R BY NoZero DEF X86
  <2>2. m.reg[P86(base)] \in Int BY <2>1, Operands
  <2>. QED BY <1>6, <2>2
<1> HIDE DEF m1
<1>8. Leaves(R, m1, second, {P86(hi)}, Written(mem1, at + 8, 8, y))
  <2> DEFINE p == at + 8   q == offset + 8   code2 == PutPart(base, two, hi_written, q)
  <2>1. P86(base) # P86(two) /\ p + two.rsize <= Memory BY <1>2, <1>3
  <2>2. p \in 0 .. 100 /\ q \in Int /\ m1.reg[P86(base)] + q = p BY <1>3, <1>7
  <2> HIDE DEF p, q
  <2>3. Leaves(R, m1, code2, {P86(two)}, Written(m1.mem, p, two.rsize, IF hi_written THEN Unsigned(m1.reg[P86(two)], two.rsize) ELSE 0))
    BY <1>2, <1>5, <2>1, <2>2, PutPart86
  <2>4. Leaves(R, m1, code2, {P86(hi)}, Written(mem1, p, 8, IF hi_written THEN Unsigned(m.reg[P86(hi)], 8) ELSE 0))
    BY <1>2, <1>5, <1>6, <2>3
  <2>. QED BY <2>4 DEF p, q, Part
<1> HIDE DEF second
<1>9. Leaves(R, m, first \o second, {P86(lo), P86(hi)}, Written(mem1, at + 8, 8, y))
  BY <1>4, <1>8, LeavesThen DEF m1
<1>. QED BY <1>1, <1>9 DEF mem1

-----------------------------------------------------------------------------
(* The aarch64 listing: instructions and constants.                       *)

\* The instructions of the aarch64 listing are those of the machine.
LEMMA InstanceArm ==
  /\ \A op, d, n, a, b, c : A!Ins(op, d, n, a, b, c) = Ins(op, d, n, a, b, c)
  /\ \A v : A!Imm(v) = Imm(v)
  /\ \A r, n : A!Low(r, n) = Low(r, n)
  /\ \A r, n, s : A!Extended(r, n, s) = Extended(r, n, s)
  /\ \A r, n, s, t : A!Scaled(r, n, s, t) = Scaled(r, n, s, t)
  /\ \A b, i, d : A!Address(b, i, d) = Address(b, i, d)
  /\ A!NoIndex = NoIndex /\ A!Zero = Zero
  /\ \A a, n, s : A!Loaded(a, n, s) = Loaded(a, n, s)
  /\ \A c : A!If(c) = If(c)
  /\ \A o, n, k : A!Piece(o, n, k) = Piece(o, n, k)
  /\ \A r, n : A!Sized(r, n) = Sized(r, n)
  /\ \A t, o, n, d : A!Reg(t, o, n, d) = Reg(t, o, n, d)
BY DEF A!Ins, Ins, A!Imm, Imm, A!Low, Low, A!Scaled, Scaled, A!Extended, Extended,
       A!Address, Address, A!NoIndex, NoIndex, A!Zero, Zero, A!Loaded, Loaded, A!If, If, A!Piece, Piece,
       A!Sized, Sized, A!Reg, Reg

\* The arithmetic of the aarch64 listing is that of the machine.
LEMMA InstanceValuesArm ==
  /\ A!TwoTo = TwoTo
  /\ \A n : A!Values(n) = Values(n)
  /\ \A v, n : A!Unsigned(v, n) = Unsigned(v, n)
  /\ \A v, n : A!Signed(v, n) = Signed(v, n)
<1>1. A!TwoTo = TwoTo BY DEF A!TwoTo, TwoTo
<1>2. \A n : A!Values(n) = Values(n) BY <1>1 DEF A!Values, Values
<1>. QED BY <1>1, <1>2 DEF A!Unsigned, Unsigned, A!Signed, Signed

PA(r) == A!get_regoff(r)
UsableA(r) == IsReg(r) /\ PA(r) \in R /\ r.rsize \in Sizes
\* The width a register is used at.
Wx(n) == IF n <= 4 THEN 4 ELSE 8

\* A register is used as w or x: four bytes or eight.
LEMMA WxFacts ==
  ASSUME NEW n \in Sizes
  PROVE  /\ A!get_wx(n) = Wx(n) /\ Wx(n) \in Sizes /\ Wx(n) \in 0 .. 15 /\ n \in 0 .. Wx(n) /\ Wx(n) \in 4 .. 8
         /\ n \in 0 .. 15 /\ n \in 0 .. 8 /\ n # 0 /\ n \in Int /\ (n = 8 <=> Wx(n) = 8) /\ (Wx(n) = 4 \/ Wx(n) = 8)
BY DEF Sizes, Wx, A!get_wx

\* The zero register is not one of aarch64's registers.
LEMMA NoZeroArm == ASSUME Arm PROVE Zero \notin R /\ conv \in Convs
BY NoZero DEF Arm, Convs

\* What the functions of aarch64 assume of a register, all at once.
LEMMA FactsA ==
  ASSUME Arm, NEW m \in Machines(R), NEW r, UsableA(r)
  PROVE  /\ PA(r) \in R /\ r.rsize \in Sizes /\ PA(r) # Zero
         /\ m.reg[PA(r)] \in Int /\ m.reg[PA(r)] \in 0 .. Values(8) - 1
         /\ \A n \in Sizes : Operand(m, Low(PA(r), n)) = Unsigned(m.reg[PA(r)], n)
         /\ \A n \in Sizes : \A s \in BOOLEAN : Operand(m, Extended(PA(r), n, s)) = Extend(m.reg[PA(r)], n, s)
         /\ \A s \in BOOLEAN : Extend(m.reg[PA(r)], r.rsize, s) \in Int
                               /\ Agree(Extend(m.reg[PA(r)], r.rsize, s), m.reg[PA(r)], r.rsize)
         /\ A!Width(r) = Wx(r.rsize)
         /\ A!Use(r) = Low(PA(r), Wx(r.rsize))
<1>1. PA(r) \in R /\ r.rsize \in Sizes /\ r.rsize \in 0 .. 15 BY SizesIn DEF UsableA
<1>2. Zero \notin R BY NoZeroArm
<1>3. /\ m.reg[PA(r)] \in Int /\ m.reg[PA(r)] \in 0 .. Values(8) - 1
      /\ \A n \in Sizes : Operand(m, Low(PA(r), n)) = Unsigned(m.reg[PA(r)], n)
      /\ \A n \in Sizes : \A s \in BOOLEAN : Operand(m, Extended(PA(r), n, s)) = Extend(m.reg[PA(r)], n, s)
  BY <1>1, <1>2, Operands
<1>4. \A s \in BOOLEAN : Extend(m.reg[PA(r)], r.rsize, s) \in Int
                         /\ Agree(Extend(m.reg[PA(r)], r.rsize, s), m.reg[PA(r)], r.rsize)
  BY <1>1, <1>3, ExtendInt
<1>5. A!Width(r) = Wx(r.rsize) BY <1>1, WxFacts DEF A!Width
<1>6. A!Use(r) = Low(PA(r), Wx(r.rsize)) BY <1>5, InstanceArm DEF A!Use, PA
<1>. QED BY <1>1, <1>2, <1>3, <1>4, <1>5, <1>6

\* One instruction that leaves the value in a register, at its width or at its size.
LEMMA OpCode ==
  ASSUME Arm, NEW dst, UsableA(dst), NEW op, NEW a, NEW b
  PROVE  A!Op(op, dst, a, b) = <<Ins(op, PA(dst), Wx(dst.rsize), a, b, FALSE)>>
BY InstanceArm, WxFacts DEF A!Op, A!Width, PA, UsableA

\* An instruction computes its result at the width of the register.
LEMMA OpWide ==
  ASSUME Arm, NEW m \in Machines(R), ~m.left, NEW dst, UsableA(dst), NEW op \in Alu, NEW a, NEW b, NEW v \in Int, NEW u \in Int,
         Result(Ins(op, PA(dst), Wx(dst.rsize), a, b, FALSE), Operand(m, a), Operand(m, b)) = u, Agree(u, v, Wx(dst.rsize)),
         NEW code, code = A!Op(op, dst, a, b)
  PROVE  Computes(R, m, code, {}, PA(dst), Wx(dst.rsize), v)
<1> DEFINE n == Wx(dst.rsize)   d == PA(dst)
<1>1. n \in Sizes /\ d \in R BY WxFacts DEF UsableA
<1>2. Zero \notin R /\ FALSE \in BOOLEAN BY NoZeroArm
<1>3. code = <<Ins(op, d, n, a, b, FALSE)>> BY OpCode
<1> HIDE DEF n, d
<1>4. Computes(R, m, <<Ins(op, d, n, a, b, FALSE)>>, {}, d, n, v) BY <1>1, <1>2, RunAlu, Zenon DEF n, d
<1>. QED BY <1>3, <1>4 DEF n, d

\* An instruction yields its result in the bytes of the type.
LEMMA OpYields ==
  ASSUME Arm, NEW m \in Machines(R), ~m.left, NEW dst, UsableA(dst), NEW op \in Alu, NEW a, NEW b, NEW v \in Int, NEW u \in Int,
         Result(Ins(op, PA(dst), Wx(dst.rsize), a, b, FALSE), Operand(m, a), Operand(m, b)) = u, Agree(u, v, dst.rsize),
         NEW code, code = A!Op(op, dst, a, b)
  PROVE  Yields(R, m, code, {}, PA(dst), dst.rsize, v)
<1> DEFINE n == Wx(dst.rsize)   d == PA(dst)   k == dst.rsize
<1>1. n \in 0 .. 15 /\ d \in R /\ k \in 0 .. n BY WxFacts DEF UsableA
<1>2. Agree(u, u, n) BY DEF Agree
<1>3. Computes(R, m, code, {}, d, n, u) BY <1>2, OpWide
<1> HIDE DEF n, d, k
<1>4. Yields(R, m, code, {}, d, k, u) BY <1>1, <1>3, ComputesYields
<1>5. Agree(u, v, k) BY DEF k
<1>6. Yields(R, m, code, {}, d, k, v) BY <1>4, <1>5 DEF Yields, Agree
<1>. QED BY <1>6 DEF d, k

\* What is computed at the width of the register is known in its type's
\* bytes.
LEMMA WideYields ==
  ASSUME Arm, NEW m \in Machines(R), NEW dst, UsableA(dst), NEW V, NEW code, NEW v \in Int,
         Computes(R, m, code, V, PA(dst), Wx(dst.rsize), v)
  PROVE  Yields(R, m, code, V, PA(dst), dst.rsize, v)
<1> DEFINE n == Wx(dst.rsize)   d == PA(dst)   k == dst.rsize
<1>1. n \in 0 .. 15 /\ d \in R /\ k \in 0 .. n BY WxFacts DEF UsableA
<1>2. Computes(R, m, code, V, d, n, v) OBVIOUS
<1> HIDE DEF n, d, k
<1>3. Yields(R, m, code, V, d, k, v) BY <1>1, <1>2, ComputesYields
<1>. QED BY <1>3 DEF d, k
\* The registers of an instruction are of one width.
LEMMA OneWidthCode ==
  ASSUME NEW x, NEW y, NEW z, x.rsize \in Sizes, y.rsize \in Sizes, z.rsize \in Sizes, Wx(x.rsize) = Wx(y.rsize), Wx(x.rsize) = Wx(z.rsize),
         NEW code
  PROVE  A!OneWidth({x, y}, code) = code /\ A!OneWidth({x, y, z}, code) = code
<1>1. A!Width(x) = Wx(x.rsize) /\ A!Width(y) = Wx(y.rsize) /\ A!Width(z) = Wx(z.rsize) BY WxFacts DEF A!Width
<1>. QED BY <1>1 DEF A!OneWidth

\* The types and pieces of the aarch64 listing are those of the model.
LEMMA InstanceTypesArm ==
  /\ A!Comptime = Comptime /\ A!NoBase = NoBase
  /\ \A b : A!Plain(b) = Plain(b)
  /\ \A t : A!dtype_size(t) = dtype_size(t)
  /\ \A n : A!ChunksOf(n) = ChunksOf(n)
  /\ \A s : A!Joined(s) = Joined(s)
  /\ \A d, w : A!dtype_wrap(d, w) = dtype_wrap(d, w)
  /\ \A t, n : A!Declarator(t, n) = Declarator(t, n)
<1>1. \A t, n : A!Declarator(t, n) = Declarator(t, n) BY DEF A!Declarator, Declarator
<1>2. A!NoDeclarator = NoDeclarator BY <1>1 DEF A!NoDeclarator, NoDeclarator
<1>3. \A t : A!dtype_outer(t) = dtype_outer(t) BY <1>2 DEF A!dtype_outer, dtype_outer
<1>4. \A t : A!dtype_unwrap(t) = dtype_unwrap(t) BY DEF A!dtype_unwrap, dtype_unwrap
<1>5. \A t : A!dtype_size(t) = dtype_size(t) BY <1>3, <1>4, Zenon DEF A!dtype_size, dtype_size, A!PointerSize, PointerSize
<1>6. \A d, w : A!dtype_wrap(d, w) = dtype_wrap(d, w) BY DEF A!dtype_wrap, dtype_wrap
<1>7. \A n : A!ChunksOf(n) = ChunksOf(n) BY DEF A!ChunksOf, ChunksOf
<1>8. \A s : A!Joined(s) = Joined(s) BY DEF A!Joined, Joined
<1>. QED BY <1>1, <1>5, <1>6, <1>7, <1>8 DEF A!Comptime, Comptime, A!NoBase, NoBase, A!Plain, Plain

\* A constant reads as itself.
LEMMA OperandImm == \A m, v : Operand(m, Imm(v)) = v
BY DEF Operand, Simple, Imm

\* A move gives what its operand reads.
LEMMA MovResult ==
  \A d, n, a, b, c, x, y : Result(Ins("mov", d, n, a, b, c), x, y) = x
BY DEF Result, Ins

\* A constant one instruction can move.
LEMMA MovAliasA ==
  ASSUME Arm, NEW m \in Machines(R), ~m.left, NEW dst, UsableA(dst), NEW v \in Int, A!MovImmediate(v, Wx(dst.rsize)),
         NEW code, code = A!MovAlias(dst, v)
  PROVE  Computes(R, m, code, {}, PA(dst), Wx(dst.rsize), v)
<1>1. A!Width(dst) = Wx(dst.rsize) BY FactsA
<1>2. code = A!Op("mov", dst, A!Imm(v), A!Imm(0)) BY <1>1, Zenon DEF A!MovAlias
<1>3. A!Imm(v) = Imm(v) /\ A!Imm(0) = Imm(0) BY InstanceArm
<1>4. code = A!Op("mov", dst, Imm(v), Imm(0)) BY <1>2, <1>3
<1>5. Operand(m, Imm(v)) = v BY OperandImm
<1>6. Result(Ins("mov", PA(dst), Wx(dst.rsize), Imm(v), Imm(0), FALSE), Operand(m, Imm(v)), Operand(m, Imm(0))) = v
  <2>1. Result(Ins("mov", PA(dst), Wx(dst.rsize), Imm(v), Imm(0), FALSE), Operand(m, Imm(v)), Operand(m, Imm(0))) = Operand(m, Imm(v))
    BY DEF Result, Ins
  <2>. QED BY <1>5, <2>1
<1>7. "mov" \in Alu /\ Agree(v, v, Wx(dst.rsize)) BY DEF Alu, Agree
<1>. QED BY <1>4, <1>6, <1>7, OpWide

\* A constant of a declared type.
LEMMA MovTypedA ==
  ASSUME Arm, NEW m \in Machines(R), ~m.left, NEW dst, UsableA(dst), dst.dtype.base # Comptime,
         NEW v \in Int, A!MovImmediate(v, Wx(dst.rsize)), NEW code, code = A!emit_mov(dst, v)
  PROVE  Computes(R, m, code, {}, PA(dst), Wx(dst.rsize), v)
<1>1. dst.dtype.base # A!Comptime BY InstanceTypesArm
<1>2. A!emit_mov(dst, v) = A!MovAlias(dst, v) BY <1>1, Zenon DEF A!emit_mov
<1>. QED BY <1>2, MovAliasA

\* A lane of a constant is two of its bytes.
LEMMA LaneIs == \A v, k : A!Lane(v, k) = (v \div Values(2 * k)) % Values(2)
BY InstanceValuesArm DEF A!Lane

\* A number below the divisor has no quotient.
LEMMA DivSmall == ASSUME NEW a \in Nat, NEW b \in Nat, a < b PROVE a \div b = 0
OBVIOUS

\* Constants of two bytes can be moved.
LEMMA SmallMovImmediate ==
  ASSUME NEW v \in 0 .. Values(2) - 1, NEW n \in {4, 8} PROVE A!MovImmediate(v, n)
<1>1. Values(2) \in Nat \ {0} /\ Values(n) \in Nat \ {0} /\ Values(2) <= Values(n)
  <2>1. 2 \in 0 .. 15 /\ n \in 0 .. 15 /\ 2 \in 0 .. n OBVIOUS
  <2>. QED BY <2>1, ValuesPositive, ValuesGrow
<1>2. v >= 0 - (Values(n) \div 2) /\ v < Values(n) BY <1>1
<1>3. \A j \in 1 .. 3 : A!Lane(v, j) = 0
  <2> SUFFICES ASSUME NEW j \in 1 .. 3 PROVE A!Lane(v, j) = 0 OBVIOUS
  <2>1. 2 \in 0 .. 2 * j /\ 2 * j \in 0 .. 15 OBVIOUS
  <2>2. Values(2) <= Values(2 * j) /\ Values(2 * j) \in Nat BY <2>1, ValuesGrow, ValuesPositive
  <2> DEFINE w == Values(2 * j)   b == Values(2)
  <2>3. v < w /\ v \in Nat /\ w \in Nat /\ b \in Nat \ {0} BY <1>1, <2>2
  <2> HIDE DEF w, b
  <2>4. v \div w = 0 BY <2>3, DivSmall
  <2>5. 0 % b = 0 BY <2>3
  <2>. QED BY <2>4, <2>5, LaneIs DEF w, b
<1>4. 0 \in 0 .. (n \div 2) - 1 /\ (n \div 2) - 1 <= 3 /\ n \div 2 \in Nat OBVIOUS
<1>5. A!Values(2) = Values(2) /\ A!Values(n) = Values(n) BY InstanceValuesArm
<1>6. \E c \in {0, A!Values(2) - 1}, k \in 0 .. (n \div 2) - 1 :
         \A j \in 0 .. (n \div 2) - 1 : j # k => A!Lane(v, j) = c
  <2>1. \A j \in 0 .. (n \div 2) - 1 : j # 0 => A!Lane(v, j) = 0
    <3> SUFFICES ASSUME NEW j \in 0 .. (n \div 2) - 1, j # 0 PROVE A!Lane(v, j) = 0 OBVIOUS
    <3>1. j \in 1 .. 3 BY <1>4
    <3>. QED BY <1>3, <3>1
  <2>. QED BY <1>4, <2>1
<1>. QED BY <1>2, <1>5, <1>6 DEF A!MovImmediate

\* A number below the divisor is its remainder.
LEMMA SmallMod == ASSUME NEW a \in Nat, NEW b \in Nat, a < b PROVE a % b = a
OBVIOUS
\* The remainder of a product, part by part.
LEMMA ModSplit ==
  ASSUME NEW a \in Nat \ {0}, NEW b \in Nat \ {0}, NEW v \in Nat
  PROVE  v % (a * b) = (v % a) + ((v \div a) % b) * a
<1> DEFINE q == v \div a   r == v % a
<1>1. v = a * q + r /\ r \in 0 .. a - 1 /\ q \in Nat OBVIOUS
<1> HIDE DEF q, r
<1> DEFINE p == q \div b   s == q % b
<1>2. q = b * p + s /\ s \in 0 .. b - 1 /\ p \in Nat BY <1>1
<1> HIDE DEF p, s
<1> DEFINE M == a * b   w == r + s * a
<1>3. M \in Nat \ {0} OBVIOUS
<1>4. w \in Nat /\ w < M
  <2>1. s * a \in Nat /\ s * a <= (b - 1) * a BY <1>2
  <2>2. (b - 1) * a = M - a BY <1>3
  <2> DEFINE sa == s * a
  <2>3. sa \in Nat /\ sa <= M - a BY <2>1, <2>2
  <2> HIDE DEF sa, M
  <2>4. r + sa \in Nat /\ r + sa < M BY <1>1, <1>3, <2>3
  <2>. QED BY <2>4 DEF sa
<1>5. v = w + p * M
  <2>1. a * (b * p + s) = (a * b) * p + s * a BY <1>2
  <2>2. (a * b) * p = p * (a * b) BY <1>2
  <2>3. a * (b * p + s) \in Int /\ s * a \in Int /\ p * (a * b) \in Int BY <1>2
  <2> DEFINE e == a * (b * p + s)   sa == s * a   pm == p * (a * b)
  <2>4. e = pm + sa /\ e \in Int /\ sa \in Int /\ pm \in Int BY <2>1, <2>2, <2>3
  <2>5. v = e + r BY <1>1, <1>2
  <2> HIDE DEF e, sa, pm
  <2>6. v = (r + sa) + pm BY <1>1, <2>4, <2>5
  <2>. QED BY <2>6 DEF sa, pm
<1>6. v % M = w % M
  <2>1. M \in Nat \ {0} /\ v \in Int /\ w \in Int /\ p \in Int BY <1>2, <1>3, <1>4
  <2> HIDE DEF M, w
  <2>. QED BY <1>5, <2>1, ModWitness
<1> HIDE DEF M, w
<1>7. w % M = w BY <1>3, <1>4, SmallMod
<1>. QED BY <1>6, <1>7 DEF M, w, q, r, s

\* The lanes of a value below one of them, and with it.
LEMMA LaneLow ==
  ASSUME NEW v \in Nat, NEW i \in 1 .. 3
  PROVE  /\ Unsigned(v, 2 * (i + 1)) = Unsigned(v, 2 * i) + A!Lane(v, i) * Values(2 * i)
         /\ A!Lane(v, i) \in 0 .. Values(2) - 1
<1>1. 2 * i \in 0 .. 15 /\ 2 \in 0 .. 15 /\ 2 * i \in Nat /\ 2 \in Nat /\ 2 * i + 2 \in 0 .. 15 /\ 2 * (i + 1) = 2 * i + 2 OBVIOUS
<1> DEFINE a == Values(2 * i)   b == Values(2)
<1>2. a \in Nat \ {0} /\ b \in Nat \ {0} BY <1>1, ValuesPositive
<1>3. Values(2 * (i + 1)) = a * b BY <1>1, ValuesSum
<1>4. A!Lane(v, i) = (v \div a) % b BY LaneIs
<1> HIDE DEF a, b
<1>5. v % (a * b) = (v % a) + ((v \div a) % b) * a BY <1>2, ModSplit
<1>6. (v \div a) % b \in 0 .. b - 1 BY <1>2
<1>. QED BY <1>3, <1>4, <1>5, <1>6 DEF Unsigned, a, b

\* The lowest lane is the low two bytes.
LEMMA LaneZero == ASSUME NEW v \in Nat PROVE A!Lane(v, 0) = Unsigned(v, 2) /\ A!Lane(v, 0) \in 0 .. Values(2) - 1
<1>1. 2 \in 0 .. 15 /\ 2 * 0 = 0 OBVIOUS
<1>2. Values(2) \in Nat \ {0} /\ Values(0) = 1 BY <1>1, ValuesPositive, ValuesNone
<1>3. A!Lane(v, 0) = (v \div 1) % Values(2) BY <1>1, <1>2, LaneIs
<1>4. v \div 1 = v OBVIOUS
<1> DEFINE b == Values(2)
<1>5. b \in Nat \ {0} BY <1>2
<1> HIDE DEF b
<1>6. v % b \in 0 .. b - 1 BY <1>5
<1>. QED BY <1>3, <1>4, <1>6 DEF Unsigned, b

LanePlaces == {0, 2, 4, 6}

\* What movz and movk put at a lane.
LEMMA PieceValue ==
  ASSUME NEW m, NEW c \in 0 .. Values(2) - 1, NEW at \in LanePlaces
  PROVE  /\ Operand(m, Piece(Imm(c), 2, at)) = c * Values(at) /\ c * Values(at) \in Int
         /\ Piece(Imm(c), 2, at).from = at /\ Piece(Imm(c), 2, at).n = 2
<1>1. Operand(m, Piece(Imm(c), 2, at)) = Unsigned(c, 2) * Values(at) BY DEF Operand, Piece, Simple, Imm
<1>2. 2 \in 0 .. 15 /\ at \in 0 .. 15 BY DEF LanePlaces
<1>3. Unsigned(c, 2) = c BY <1>2, UnsignedSmall
<1>4. Values(at) \in Nat /\ Values(2) \in Nat BY <1>2, ValuesPositive
<1>5. c * Values(at) \in Int BY <1>4
<1>. QED BY <1>1, <1>3, <1>5 DEF Piece

\* The first lane that is written: the others are cleared.
LEMMA LaneFirstA ==
  ASSUME Arm, NEW m \in Machines(R), ~m.left, NEW dst, UsableA(dst), NEW c \in 0 .. Values(2) - 1, NEW at \in LanePlaces,
         NEW code, code = A!emit_mov_lane(dst, c, at, FALSE)
  PROVE  Computes(R, m, code, {}, PA(dst), Wx(dst.rsize), c * Values(at))
<1>1. c \in 0 .. A!Values(2) - 1 BY InstanceValuesArm
<1>2. code = A!Op("mov", dst, A!Piece(A!Imm(c), 2, at), A!Imm(0)) BY <1>1, Zenon DEF A!emit_mov_lane
<1> DEFINE a == Piece(Imm(c), 2, at)   v == c * Values(at)   n == Wx(dst.rsize)
<1>3. code = A!Op("mov", dst, a, Imm(0)) BY <1>2, InstanceArm
<1>4. Operand(m, a) = v /\ v \in Int BY PieceValue
<1> HIDE DEF a, v, n
<1>5. Result(Ins("mov", PA(dst), Wx(dst.rsize), a, Imm(0), FALSE), Operand(m, a), Operand(m, Imm(0))) = v
  BY <1>4 DEF Result, Ins
<1>6. "mov" \in Alu /\ Agree(v, v, Wx(dst.rsize)) BY DEF Alu, Agree
<1>7. Computes(R, m, code, {}, PA(dst), Wx(dst.rsize), v) BY <1>3, <1>4, <1>5, <1>6, OpWide
<1>. QED BY <1>7 DEF v

\* One more lane, above those written so far.
LEMMA LaneNextA ==
  ASSUME Arm, NEW m \in Machines(R), ~m.left, NEW dst, UsableA(dst), NEW c \in 0 .. Values(2) - 1, NEW at \in {2, 4, 6},
         NEW x \in 0 .. Values(at) - 1, Unsigned(m.reg[PA(dst)], Wx(dst.rsize)) = x,
         NEW code, code = A!emit_mov_lane(dst, c, at, TRUE)
  PROVE  Computes(R, m, code, {}, PA(dst), Wx(dst.rsize), x + c * Values(at))
<1>1. c \in 0 .. A!Values(2) - 1 BY InstanceValuesArm
<1>2. code = A!Op("insert", dst, A!Use(dst), A!Piece(A!Imm(c), 2, at)) BY <1>1, Zenon DEF A!emit_mov_lane
<1> DEFINE a == A!Use(dst)   b == Piece(Imm(c), 2, at)   v == c * Values(at)   n == Wx(dst.rsize)
<1>3. code = A!Op("insert", dst, a, b) BY <1>2, InstanceArm
<1>4. Operand(m, b) = v /\ v \in Int /\ b.from = at /\ b.n = 2
  <2>1. at \in LanePlaces BY DEF LanePlaces
  <2>. QED BY <2>1, PieceValue
<1>5. Operand(m, a) = x
  <2>1. Wx(dst.rsize) \in Sizes BY WxFacts DEF UsableA
  <2>2. a = Low(PA(dst), Wx(dst.rsize)) BY FactsA
  <2>3. Operand(m, Low(PA(dst), Wx(dst.rsize))) = Unsigned(m.reg[PA(dst)], Wx(dst.rsize)) BY <2>1, FactsA
  <2>. QED BY <2>2, <2>3
<1>6. Unsigned(x, at + 2) = x /\ Unsigned(x, at) = x /\ x \in Int
  <2>1. at \in 0 .. at + 2 /\ at + 2 \in 0 .. 15 /\ at \in 0 .. 15 OBVIOUS
  <2>2. Values(at) <= Values(at + 2) /\ Values(at) \in Nat /\ Values(at + 2) \in Nat BY <2>1, ValuesGrow, ValuesPositive
  <2>3. x \in 0 .. Values(at + 2) - 1 BY <2>2
  <2>. QED BY <2>1, <2>3, UnsignedSmall
<1> HIDE DEF a, b, v, n
<1>7. Result(Ins("insert", PA(dst), Wx(dst.rsize), a, b, FALSE), Operand(m, a), Operand(m, b)) = x + v
  <2>1. Result(Ins("insert", PA(dst), Wx(dst.rsize), a, b, FALSE), x, v) = x - (Unsigned(x, b.from + b.n) - Unsigned(x, b.from)) + v
    BY DEF Result, Ins
  <2>2. b.from + b.n = at + 2 BY <1>4
  <2>3. x - (x - x) + v = x + v BY <1>4, <1>6
  <2>. QED BY <1>4, <1>5, <1>6, <2>1, <2>2, <2>3
<1>8. "insert" \in Alu /\ Agree(x + v, x + v, Wx(dst.rsize)) /\ x + v \in Int BY <1>4, <1>6 DEF Alu, Agree
<1>9. Computes(R, m, code, {}, PA(dst), Wx(dst.rsize), x + v) BY <1>3, <1>7, <1>8, OpWide
<1>. QED BY <1>9 DEF v

\* The lanes of a value, one after the other.
Used(v, n, k) == k \in 0 .. n \div 2 - 1 /\ A!Lane(v, k) # 0
WideLane(dst, v, n, k) == IF Used(v, n, k) THEN A!emit_mov_lane(dst, A!Lane(v, k), 2 * k, \E j \in 0 .. k - 1 : Used(v, n, j)) ELSE << >>
WideLanes(dst, v, n) == [k \in 1 .. n \div 2 |-> WideLane(dst, v, n, k - 1)]

\* emit_mov_wide writes the lanes that are not zero.
LEMMA WideCode ==
  ASSUME NEW dst, NEW v, NEW n, A!Width(dst) = n, n \in {4, 8}, v > Values(4) - 1 => A!Sized(dst, 8) = dst, \E k \in 0 .. n \div 2 - 1 : A!Lane(v, k) # 0
  PROVE  A!emit_mov_wide(dst, v) = Joined(WideLanes(dst, v, n))
<1> DEFINE w == IF v > A!Values(4) - 1 THEN A!Sized(dst, 8) ELSE dst
           used == {k \in 0 .. A!Width(w) \div 2 - 1 : A!Lane(v, k) # 0}
           lane(k) == IF k \in used THEN A!emit_mov_lane(w, A!Lane(v, k), 2 * k, \E j \in used : j < k) ELSE << >>
<1>1. A!emit_mov_wide(dst, v) = IF used = {} THEN A!emit_mov_lane(w, 0, 0, FALSE)
                                ELSE A!Joined([k \in 1 .. A!Width(w) \div 2 |-> lane(k - 1)]) BY Zenon DEF A!emit_mov_wide
<1>2. w = dst BY InstanceValuesArm
<1>3. used = {k \in 0 .. n \div 2 - 1 : A!Lane(v, k) # 0} BY <1>2
<1>4. used # {} BY <1>3
<1>5. [k \in 1 .. A!Width(w) \div 2 |-> lane(k - 1)] = WideLanes(dst, v, n)
  <2>1. A!Width(w) \div 2 = n \div 2 BY <1>2
  <2> SUFFICES ASSUME NEW k \in 1 .. n \div 2 PROVE lane(k - 1) = WideLane(dst, v, n, k - 1)
    BY <2>1 DEF WideLanes
  <2>2. k - 1 \in used <=> Used(v, n, k - 1) BY <1>3 DEF Used
  <2>3. (\E j \in used : j < k - 1) <=> (\E j \in 0 .. (k - 1) - 1 : Used(v, n, j)) BY <1>3 DEF Used
  <2>. QED BY <1>2, <2>2, <2>3 DEF WideLane
<1> HIDE DEF used, w, lane
<1>. QED BY <1>1, <1>4, <1>5, InstanceTypesArm

\* After the first i lanes: nothing is written yet, or what they hold.
LanesDone(m, dst, v, i, code) ==
  /\ Unsigned(v, 2 * i) = 0 => code = << >>
  /\ Unsigned(v, 2 * i) # 0 => Computes(R, m, code, {}, PA(dst), Wx(dst.rsize), Unsigned(v, 2 * i))

\* The lanes read together so far are a number.
LEMMA LowNat == ASSUME NEW v \in Nat, NEW i \in 0 .. 4
  PROVE Unsigned(v, 2 * i) \in Nat /\ Unsigned(v, 2 * i) \in 0 .. Values(2 * i) - 1 /\ Values(2 * i) \in Nat \ {0}
<1>1. 2 * i \in 0 .. 15 /\ v \in Int OBVIOUS
<1>. QED BY <1>1, UnsignedRange, ValuesPositive

\* A lane was written when the low bytes are not zero.
LEMMA AnyWritten ==
  ASSUME NEW v \in Nat, NEW n \in {4, 8}, NEW i \in 1 .. 4, i <= n \div 2
  PROVE  (\E j \in 0 .. i - 1 : Used(v, n, j)) <=> Unsigned(v, 2 * i) # 0
<1> DEFINE P(k) == (\E j \in 0 .. k - 1 : Used(v, n, j)) <=> Unsigned(v, 2 * k) # 0
<1>1. P(1)
  <2>1. \A j : j \in 0 .. 1 - 1 <=> j = 0 OBVIOUS
  <2>2. Used(v, n, 0) <=> A!Lane(v, 0) # 0 BY DEF Used
  <2>3. 2 * 1 = 2 OBVIOUS
  <2>. QED BY <2>1, <2>2, <2>3, LaneZero
<1>2. ASSUME NEW k \in 1 .. 3, k + 1 <= n \div 2, P(k) PROVE P(k + 1)
  <2>1. \A j : j \in 0 .. (k + 1) - 1 <=> j \in 0 .. k - 1 \/ j = k OBVIOUS
  <2>2. Used(v, n, k) <=> A!Lane(v, k) # 0 BY <1>2 DEF Used
  <2>3. Unsigned(v, 2 * (k + 1)) = Unsigned(v, 2 * k) + A!Lane(v, k) * Values(2 * k) /\ A!Lane(v, k) \in 0 .. Values(2) - 1 BY LaneLow
  <2>4. Unsigned(v, 2 * k) \in Nat /\ Values(2 * k) \in Nat \ {0}
    <3>1. k \in 0 .. 4 OBVIOUS
    <3>. QED BY <3>1, LowNat
  <2>5. A!Lane(v, k) \in Nat
    <3>1. 2 \in 0 .. 15 OBVIOUS
    <3>. QED BY <2>3, <3>1, ValuesPositive
  <2> DEFINE u == Unsigned(v, 2 * k)   c == A!Lane(v, k)   w == Values(2 * k)   z == Unsigned(v, 2 * (k + 1))
  <2>6. z # 0 <=> (u # 0 \/ c # 0)
    <3>1. z = u + c * w /\ u \in Nat /\ c \in Nat /\ w \in Nat \ {0} BY <2>3, <2>4, <2>5
    <3> HIDE DEF u, c, w, z
    <3>2. c # 0 => c * w > 0 BY <3>1
    <3>3. c = 0 => c * w = 0 BY <3>1
    <3>4. c * w \in Nat BY <3>1
    <3>. QED BY <3>1, <3>2, <3>3, <3>4
  <2>7. (\E j \in 0 .. (k + 1) - 1 : Used(v, n, j)) <=> ((\E j \in 0 .. k - 1 : Used(v, n, j)) \/ Used(v, n, k)) BY <2>1
  <2>. QED BY <1>2, <2>2, <2>6, <2>7
<1>3. i = 1 \/ i = 2 \/ i = 3 \/ i = 4 OBVIOUS
<1>4. n \div 2 \in Nat OBVIOUS
<1>5. i >= 2 => P(2)
  <2>1. 1 + 1 = 2 /\ 1 \in 1 .. 3 /\ (i >= 2 => 1 + 1 <= n \div 2) OBVIOUS
  <2>2. i >= 2 => P(1 + 1) BY <1>1, <1>2, <2>1
  <2>. QED BY <2>1, <2>2
<1>6. i >= 3 => P(3)
  <2>1. 2 + 1 = 3 /\ 2 \in 1 .. 3 /\ (i >= 3 => 2 + 1 <= n \div 2) OBVIOUS
  <2>2. i >= 3 => P(2 + 1) BY <1>5, <1>2, <2>1
  <2>. QED BY <2>1, <2>2
<1>7. i >= 4 => P(4)
  <2>1. 3 + 1 = 4 /\ 3 \in 1 .. 3 /\ (i >= 4 => 3 + 1 <= n \div 2) OBVIOUS
  <2>2. i >= 4 => P(3 + 1) BY <1>6, <1>2, <2>1
  <2>. QED BY <2>1, <2>2
<1>8. P(i)
  <2> HIDE DEF P
  <2>. QED BY <1>1, <1>3, <1>5, <1>6, <1>7
<1>. QED BY <1>8

\* After the first lane.
LEMMA LanesFirst ==
  ASSUME Arm, NEW m \in Machines(R), ~m.left, NEW dst, UsableA(dst), NEW v \in Nat, NEW n \in {4, 8},
         NEW code, code = WideLane(dst, v, n, 0)
  PROVE  LanesDone(m, dst, v, 1, code)
<1>1. Used(v, n, 0) <=> A!Lane(v, 0) # 0 BY DEF Used
<1>2. ~\E j \in 0 .. 0 - 1 : Used(v, n, j) OBVIOUS
<1>3. code = IF A!Lane(v, 0) # 0 THEN A!emit_mov_lane(dst, A!Lane(v, 0), 2 * 0, FALSE) ELSE << >>
  <2>1. (\E j \in 0 .. 0 - 1 : Used(v, n, j)) = FALSE BY <1>2
  <2>. QED BY <1>1, <2>1 DEF WideLane
<1> DEFINE c == A!Lane(v, 0)
<1>4. Unsigned(v, 2 * 1) = c /\ c \in 0 .. Values(2) - 1 /\ c \in Int
  <2>1. 2 * 1 = 2 /\ 2 \in 0 .. 15 OBVIOUS
  <2>. QED BY <2>1, LaneZero, ValuesPositive
<1>5. 2 * 0 = 0 /\ 0 \in LanePlaces BY DEF LanePlaces
<1>6. c * Values(0) = c BY <1>4, ValuesNone
<1>7. code = IF c # 0 THEN A!emit_mov_lane(dst, c, 0, FALSE) ELSE << >> BY <1>3, <1>5
<1> HIDE DEF c
<1>8. c # 0 => Computes(R, m, code, {}, PA(dst), Wx(dst.rsize), c * Values(0)) BY <1>4, <1>5, <1>7, LaneFirstA
<1>9. c # 0 => Computes(R, m, code, {}, PA(dst), Wx(dst.rsize), c) BY <1>6, <1>8
<1>. QED BY <1>4, <1>7, <1>9 DEF LanesDone

\* One more lane keeps those written.
LEMMA LanesNext ==
  ASSUME Arm, NEW m \in Machines(R), ~m.left, NEW dst, UsableA(dst), NEW v \in Nat, NEW n \in {4, 8}, Wx(dst.rsize) = n,
         NEW i \in 1 .. 3, i + 1 <= n \div 2, NEW first, LanesDone(m, dst, v, i, first), NEW lane, lane = WideLane(dst, v, n, i)
  PROVE  LanesDone(m, dst, v, i + 1, first \o lane)
<1> DEFINE d == PA(dst)   c == A!Lane(v, i)   at == 2 * i   u == Unsigned(v, at)   z == Unsigned(v, 2 * (i + 1))
<1>1. i \in 0 .. 4 /\ at \in {2, 4, 6} /\ at \in LanePlaces /\ at \in Nat BY DEF LanePlaces
<1>2. u \in Nat /\ u \in 0 .. Values(at) - 1 /\ Values(at) \in Nat \ {0} BY <1>1, LowNat
<1>3. z = u + c * Values(at) /\ c \in 0 .. Values(2) - 1 /\ c \in Nat
  <2>1. 2 \in 0 .. 15 OBVIOUS
  <2>2. z = u + c * Values(at) /\ c \in 0 .. Values(2) - 1 BY LaneLow, Zenon
  <2>3. Values(2) \in Nat BY <2>1, ValuesPositive
  <2> HIDE DEF z, u, c
  <2>. QED BY <2>2, <2>3
<1>4. Used(v, n, i) <=> c # 0 BY <1>1 DEF Used
<1>5. (\E j \in 0 .. i - 1 : Used(v, n, j)) <=> u # 0
  <2>1. i \in 1 .. 4 /\ i <= n \div 2 OBVIOUS
  <2>. QED BY <2>1, AnyWritten
<1>6. lane = IF c # 0 THEN A!emit_mov_lane(dst, c, at, u # 0) ELSE << >>
  <2>1. (\E j \in 0 .. i - 1 : Used(v, n, j)) = (u # 0) BY <1>5
  <2>. QED BY <1>4, <2>1 DEF WideLane
<1>7. Zero \notin R /\ d \in R BY NoZeroArm DEF UsableA
<1>8. (u = 0 => first = << >>) /\ (u # 0 => Computes(R, m, first, {}, d, n, u)) BY DEF LanesDone
<1>n. n \in 0 .. 15 /\ at \in 0 .. n OBVIOUS
<1>k. LanesDone(m, dst, v, i + 1, first \o lane) <=>
        /\ z = 0 => first \o lane = << >>
        /\ z # 0 => Computes(R, m, first \o lane, {}, d, n, z) BY DEF LanesDone
<1> DEFINE w == Values(at)
<1>w. w \in Nat \ {0} /\ z = u + c * w /\ u \in Nat /\ c \in Nat BY <1>2, <1>3
<1>9. CASE c = 0
  <2>1. lane = << >> /\ z = u
    <3>1. lane = << >> BY <1>6, <1>9
    <3> HIDE DEF c, w, z, u
    <3>. QED BY <1>9, <1>w, <3>1
  <2>2. u = 0 => first \o lane = << >> BY <1>8, <2>1
  <2>3. u # 0 => first \o lane = first
    <3>1. u # 0 => IsCode(first) BY <1>8 DEF Computes, Prepares
    <3>. QED BY <2>1, <3>1, EmptyAppend DEF IsCode
  <2> HIDE DEF c, w, z, u, d
  <2>. QED BY <1>8, <1>k, <2>1, <2>2, <2>3
<1>10. CASE c # 0 /\ u = 0
  <2>1. lane = A!emit_mov_lane(dst, c, at, FALSE)
    <3>1. (u # 0) = FALSE BY <1>10
    <3>. QED BY <1>6, <1>10, <3>1
  <2>2. Computes(R, m, lane, {}, d, n, c * w)
    <3> HIDE DEF c, at
    <3>. QED BY <1>1, <1>3, <2>1, LaneFirstA
  <2>3. first \o lane = lane
    <3>1. IsCode(lane) BY <2>2 DEF Computes, Prepares
    <3>. QED BY <1>8, <1>10, <3>1, EmptyAppend DEF IsCode
  <2>4. z # 0 /\ z = c * w
    <3> HIDE DEF c, w, z, u
    <3>1. c * w > 0 BY <1>w, <1>10
    <3>. QED BY <1>w, <1>10, <3>1
  <2> HIDE DEF c, w, z, u, d
  <2>. QED BY <1>k, <2>2, <2>3, <2>4
<1>11. CASE c # 0 /\ u # 0
  <2>1. lane = A!emit_mov_lane(dst, c, at, TRUE)
    <3>1. (u # 0) = TRUE BY <1>11
    <3>. QED BY <1>6, <1>11, <3>1
  <2> DEFINE m1 == Run(m, first)
  <2>2. Computes(R, m, first, {}, d, n, u) BY <1>8, <1>11
  <2>3. Prepares(R, m, first, {d}) /\ Agree(m1.reg[d], u, n)
    <3>1. {} \union {d} = {d} OBVIOUS
    <3>. QED BY <2>2, <3>1 DEF Computes
  <2>4. m1 \in Machines(R) /\ ~m1.left BY <2>3, After
  <2>5. Unsigned(m1.reg[d], n) = u
    <3>1. Values(at) <= Values(n) /\ Values(n) \in Nat BY <1>n, ValuesGrow, ValuesPositive
    <3>2. u \in 0 .. Values(n) - 1
      <4> DEFINE vn == Values(n)
      <4>1. w <= vn /\ vn \in Nat /\ u \in 0 .. w - 1 BY <1>2, <3>1
      <4> HIDE DEF w, vn, u
      <4>2. u \in 0 .. vn - 1 BY <1>w, <4>1
      <4>. QED BY <4>2 DEF vn
    <3>3. Unsigned(u, n) = u BY <1>n, <3>2, UnsignedSmall
    <3>. QED BY <2>3, <3>3 DEF Agree
  <2>6. Computes(R, m1, lane, {}, d, n, u + c * w)
    <3>1. u \in 0 .. Values(at) - 1 BY <1>2
    <3> HIDE DEF c, at, u, m1
    <3>. QED BY <1>1, <1>3, <2>1, <2>4, <2>5, <3>1, LaneNextA
  <2>7. z # 0 /\ u + c * w = z
    <3> HIDE DEF c, w, z, u
    <3>1. c * w > 0 BY <1>w, <1>11
    <3>. QED BY <1>w, <1>11, <3>1
  <2>8. Computes(R, m1, lane, {}, d, n, z) BY <2>6, <2>7
  <2> HIDE DEF d, z
  <2>9. Computes(R, m, first \o lane, {}, d, n, z) BY <2>3, <2>8, ComputesThen DEF m1
  <2>. QED BY <1>k, <2>7, <2>9
<1>. QED BY <1>9, <1>10, <1>11

\* An instruction is code.
LEMMA OpIsCode == ASSUME NEW op, NEW dst, NEW a, NEW b PROVE IsCode(A!Op(op, dst, a, b))
BY CodeOne DEF A!Op

\* A lane is code.
LEMMA LaneCode == ASSUME NEW dst, NEW c, NEW at, NEW w PROVE IsCode(A!emit_mov_lane(dst, c, at, w))
<1>1. A!emit_mov_lane(dst, c, at, w) = <<A!Bad>> \/ \E op, a, b : A!emit_mov_lane(dst, c, at, w) = A!Op(op, dst, a, b)
  BY Zenon DEF A!emit_mov_lane
<1>. QED BY <1>1, OpIsCode, CodeOne

\* The lanes are pieces of code.
LEMMA LanesCode ==
  ASSUME NEW dst, NEW v, NEW n \in {4, 8}
  PROVE  \E X : WideLanes(dst, v, n) \in Seq(Seq(X)) /\ Len(WideLanes(dst, v, n)) = n \div 2
<1> DEFINE s == WideLanes(dst, v, n)   C == 1 .. n \div 2
<1>1. DOMAIN s = C /\ s = [c \in C |-> s[c]] BY DEF WideLanes
<1>2. \A c \in C : IsCode(s[c])
  <2> SUFFICES ASSUME NEW c \in C PROVE IsCode(s[c]) OBVIOUS
  <2>1. s[c] = WideLane(dst, v, n, c - 1) BY DEF WideLanes
  <2>2. WideLane(dst, v, n, c - 1) = << >> \/ \E x, y, z : WideLane(dst, v, n, c - 1) = A!emit_mov_lane(dst, x, y, z)
    BY Zenon DEF WideLane
  <2>. QED BY <2>1, <2>2, LaneCode, CodeNone
<1> HIDE DEF s
<1>3. PICK X : s \in [C -> Seq(X)] BY <1>1, <1>2, CodeFunction
<1>4. n \div 2 \in Nat OBVIOUS
<1>5. s \in Seq(Seq(X)) /\ Len(s) = n \div 2 BY <1>3, <1>4
<1>. QED BY <1>5 DEF s

\* emit_mov_wide moves a constant of any width.
LEMMA MovWideA ==
  ASSUME Arm, NEW m \in Machines(R), ~m.left, NEW dst, UsableA(dst), NEW v \in Nat, v # 0, v < Values(8),
         v > Values(4) - 1 => dst.rsize = 8,
         NEW code, code = A!emit_mov_wide(dst, v)
  PROVE  Computes(R, m, code, {}, PA(dst), Wx(dst.rsize), v)
<1> DEFINE n == Wx(dst.rsize)   h == n \div 2   s == WideLanes(dst, v, n)   f == Upto(s)
<1>1. n \in {4, 8} /\ A!Width(dst) = n BY WxFacts, FactsA DEF UsableA
<1>2. h \in {2, 4} /\ 2 * h = n BY <1>1
<1>3. v > Values(4) - 1 => A!Sized(dst, 8) = dst
  <2> SUFFICES ASSUME v > Values(4) - 1 PROVE A!Sized(dst, 8) = dst OBVIOUS
  <2>1. IsReg(dst) /\ dst.rsize = 8 BY DEF UsableA
  <2>2. Sized(dst, 8) = Reg(dst.reg_type, dst.offset, 8, dst.dtype) BY <2>1, SizedReg
  <2>3. Sized(dst, 8) = dst BY <2>1, <2>2 DEF IsReg
  <2>. QED BY <2>3, InstanceArm
<1>4. Unsigned(v, n) = v
  <2>1. n \in 0 .. 15 /\ 4 \in 0 .. 15 BY <1>1
  <2>2. Values(4) \in Nat BY <2>1, ValuesPositive
  <2>3. v <= Values(4) - 1 \/ n = 8
    <3>1. v > Values(4) - 1 => n = 8 BY DEF Wx
    <3>2. v > Values(4) - 1 \/ v <= Values(4) - 1 BY <2>2
    <3>. QED BY <3>1, <3>2
  <2>4. Values(n) \in Nat /\ Values(4) <= Values(n)
    <3>1. 4 \in 0 .. n BY <1>1
    <3>. QED BY <2>1, <3>1, ValuesPositive, ValuesGrow
  <2>5. v \in 0 .. Values(n) - 1
    <3> HIDE DEF n
    <3>. QED BY <2>2, <2>3, <2>4
  <2>. QED BY <2>1, <2>5, UnsignedSmall
<1>5. \E k \in 0 .. h - 1 : A!Lane(v, k) # 0
  <2>1. h \in 1 .. 4 /\ h <= n \div 2 BY <1>2
  <2>2. Unsigned(v, 2 * h) # 0 BY <1>2, <1>4
  <2>3. \E j \in 0 .. h - 1 : Used(v, n, j) BY <1>1, <2>1, <2>2, AnyWritten
  <2>. QED BY <2>3 DEF Used
<1> HIDE DEF n
<1>6. code = Joined(s) BY <1>1, <1>3, <1>5, WideCode
<1>7. PICK X : s \in Seq(Seq(X)) /\ Len(s) = h BY <1>1, LanesCode
<1>8. \A i \in 1 .. h : s[i] = WideLane(dst, v, n, i - 1) BY DEF WideLanes
<1> HIDE DEF s
<1>9. /\ code = f[h]
      /\ \A i \in 1 .. h : f[i] = IF i = 1 THEN s[i] ELSE f[i - 1] \o s[i]
  <2>1. code = f[h] /\ f[0] = << >> /\ \A i \in 1 .. h : f[i] = f[i - 1] \o s[i] BY <1>6, <1>7, JoinedDef
  <2>2. << >> \o s[1] = s[1] /\ 1 \in 1 .. h BY <1>2, <1>7
  <2>3. f[1] = f[0] \o s[1]
    <3>1. 1 - 1 = 0 OBVIOUS
    <3> HIDE DEF f, h
    <3>2. f[1] = f[1 - 1] \o s[1] BY <2>1, <2>2
    <3>. QED BY <3>1, <3>2
  <2>4. f[1] = s[1]
    <3> HIDE DEF f
    <3>. QED BY <2>1, <2>2, <2>3
  <2>5. \A i \in 1 .. h : f[i] = IF i = 1 THEN s[i] ELSE f[i - 1] \o s[i]
    <3> HIDE DEF f, h
    <3>. QED BY <2>1, <2>4
  <2>. QED BY <2>1, <2>5
<1> HIDE DEF f, h
<1>10. LanesDone(m, dst, v, 1, f[1])
  <2>1. 1 \in 1 .. h /\ 1 - 1 = 0 BY <1>2
  <2>2. f[1] = s[1] /\ s[1] = WideLane(dst, v, n, 0) BY <1>8, <1>9, <2>1
  <2>3. f[1] = WideLane(dst, v, n, 0) BY <2>2
  <2>. QED BY <1>1, <2>3, LanesFirst
<1>11. ASSUME NEW i \in 1 .. 3, i + 1 <= h, LanesDone(m, dst, v, i, f[i]) PROVE LanesDone(m, dst, v, i + 1, f[i + 1])
  <2>1. i + 1 \in 1 .. h /\ i + 1 # 1 /\ (i + 1) - 1 = i BY <1>2, <1>11
  <2>2. f[i + 1] = f[(i + 1) - 1] \o s[i + 1] BY <1>9, <2>1, Zenon
  <2>3. s[i + 1] = WideLane(dst, v, n, (i + 1) - 1) BY <1>8, <2>1, Zenon
  <2>4. s[i + 1] = WideLane(dst, v, n, i) BY <2>1, <2>3
  <2>5. f[i + 1] = f[i] \o s[i + 1] BY <2>1, <2>2
  <2>6. i + 1 <= n \div 2 BY <1>11 DEF h
  <2>7. Wx(dst.rsize) = n BY DEF n
  <2> DEFINE first == f[i]   lane == s[i + 1]
  <2>8. LanesDone(m, dst, v, i, first) /\ lane = WideLane(dst, v, n, i) BY <1>11, <2>4
  <2> HIDE DEF first, lane
  <2>9. LanesDone(m, dst, v, i + 1, first \o lane) BY <1>1, <2>6, <2>7, <2>8, LanesNext
  <2>. QED BY <2>5, <2>9 DEF first, lane
<1>12. LanesDone(m, dst, v, 2, f[2])
  <2>1. 1 + 1 = 2 /\ 1 \in 1 .. 3 /\ 1 + 1 <= h BY <1>2
  <2>2. LanesDone(m, dst, v, 1 + 1, f[1 + 1]) BY <1>10, <1>11, <2>1
  <2>. QED BY <2>1, <2>2
<1>13. h = 4 => LanesDone(m, dst, v, 4, f[4])
  <2> SUFFICES ASSUME h = 4 PROVE LanesDone(m, dst, v, 4, f[4]) OBVIOUS
  <2>1. 2 + 1 = 3 /\ 2 \in 1 .. 3 /\ 2 + 1 <= h BY <1>2
  <2>2. LanesDone(m, dst, v, 2 + 1, f[2 + 1]) BY <1>12, <1>11, <2>1
  <2>3. LanesDone(m, dst, v, 3, f[3]) BY <2>1, <2>2
  <2>4. 3 + 1 = 4 /\ 3 \in 1 .. 3 /\ 3 + 1 <= h BY <1>2
  <2>5. LanesDone(m, dst, v, 3 + 1, f[3 + 1]) BY <2>3, <1>11, <2>4
  <2>. QED BY <2>4, <2>5
<1>14. LanesDone(m, dst, v, h, code) BY <1>2, <1>9, <1>12, <1>13
<1>15. Unsigned(v, 2 * h) = v BY <1>2, <1>4
<1>16. Computes(R, m, code, {}, PA(dst), Wx(dst.rsize), v) BY <1>14, <1>15 DEF LanesDone
<1>. QED BY <1>16

-----------------------------------------------------------------------------
(* The aarch64 listing: moves and sums.                                   *)

\* What an address is, in the aarch64 listing.
LEMMA InstanceAddrArm == \A t : A!is_addr(t) = is_addr(t)
<1>1. \A t : A!dtype_outer(t) = dtype_outer(t)
  BY DEF A!dtype_outer, dtype_outer, A!NoDeclarator, NoDeclarator, A!Declarator, Declarator
<1>2. \A t : A!dtype_unwrap(t) = dtype_unwrap(t) BY DEF A!dtype_unwrap, dtype_unwrap
<1>. QED BY <1>1, <1>2, Zenon DEF A!is_addr, is_addr

\* A register of a type of its size, and the value it has.
TypedA(r) ==
  UsableA(r) /\ r.dtype.base.size = r.rsize /\ r.dtype.base.sign \in BOOLEAN /\ ~is_addr(r.dtype) /\ r.dtype.base.tag = "FUND"
ExtA(m, r) == Extend(m.reg[PA(r)], r.rsize, r.dtype.base.sign)
\* A narrow value is kept extended to four bytes.
LoadedA(m, r) == TypedA(r) /\ (r.rsize <= 4 => m.reg[PA(r)] = Unsigned(ExtA(m, r), 4))

\* What a typed register reads as.
LEMMA ExtFactsA ==
  ASSUME Arm, NEW m \in Machines(R), NEW r, TypedA(r)
  PROVE  /\ UsableA(r) /\ PA(r) \in R /\ r.rsize \in Sizes /\ ExtA(m, r) \in Int /\ Agree(ExtA(m, r), m.reg[PA(r)], r.rsize)
         /\ Operand(m, Extended(PA(r), r.rsize, r.dtype.base.sign)) = ExtA(m, r)
         /\ Operand(m, A!Use(r)) = Unsigned(m.reg[PA(r)], Wx(r.rsize))
         /\ Operand(m, A!Use(r)) \in Int /\ Agree(Operand(m, A!Use(r)), ExtA(m, r), r.rsize)
<1>1. UsableA(r) /\ r.dtype.base.sign \in BOOLEAN /\ r.rsize \in Sizes BY DEF TypedA, UsableA
<1>2. Wx(r.rsize) \in Sizes /\ Wx(r.rsize) \in 0 .. 15 /\ r.rsize \in 0 .. Wx(r.rsize) BY <1>1, WxFacts
<1>3. m.reg[PA(r)] \in Int BY <1>1, FactsA
<1>4. Operand(m, A!Use(r)) = Unsigned(m.reg[PA(r)], Wx(r.rsize))
  <2>1. A!Use(r) = Low(PA(r), Wx(r.rsize)) BY <1>1, FactsA
  <2>2. Operand(m, Low(PA(r), Wx(r.rsize))) = Unsigned(m.reg[PA(r)], Wx(r.rsize)) BY <1>1, <1>2, FactsA
  <2>. QED BY <2>1, <2>2
<1>5. ExtA(m, r) \in Int /\ Agree(ExtA(m, r), m.reg[PA(r)], r.rsize) BY <1>1, FactsA DEF ExtA
<1>6. Operand(m, Extended(PA(r), r.rsize, r.dtype.base.sign)) = ExtA(m, r) BY <1>1, FactsA DEF ExtA
<1> DEFINE w == m.reg[PA(r)]   n == Wx(r.rsize)   k == r.rsize
<1>7. Unsigned(w, n) \in Int /\ Agree(Unsigned(w, n), w, n) BY <1>2, <1>3, UnsignedRange, AgreeUnsigned
<1>8. Agree(Unsigned(w, n), w, k)
  <2>1. n \in 0 .. 15 /\ k \in 0 .. n /\ w \in Int BY <1>2, <1>3
  <2> HIDE DEF w, n, k
  <2>. QED BY <1>7, <2>1, AgreeFewer
<1>9. Agree(Operand(m, A!Use(r)), ExtA(m, r), k) BY <1>4, <1>5, <1>8 DEF Agree
<1>. QED BY <1>1, <1>4, <1>5, <1>6, <1>7, <1>9 DEF UsableA

\* A loaded register is its value at the width it is used.
LEMMA WholeValueA ==
  ASSUME Arm, NEW m \in Machines(R), NEW r, LoadedA(m, r)
  PROVE  /\ Extend(Unsigned(m.reg[PA(r)], Wx(r.rsize)), Wx(r.rsize), r.dtype.base.sign) = ExtA(m, r)
<1>1. TypedA(r) /\ UsableA(r) /\ r.dtype.base.sign \in BOOLEAN /\ r.rsize \in Sizes BY DEF TypedA, UsableA, LoadedA
<1> DEFINE w == m.reg[PA(r)]   n == Wx(r.rsize)   k == r.rsize   s == r.dtype.base.sign   e == ExtA(m, r)
<1>2. n \in 0 .. 15 /\ k \in 0 .. n /\ w \in Int /\ e \in Int /\ k \in 0 .. 15 BY <1>1, WxFacts, ExtFactsA, FactsA
<1>3. Agree(Unsigned(w, n), w, n) /\ Unsigned(w, n) \in Int BY <1>2, AgreeUnsigned, UnsignedRange
<1>4. Extend(Unsigned(w, n), n, s) = Extend(w, n, s) BY <1>3, ExtendAgree
<1>5. e = Extend(w, k, s) BY DEF ExtA
<1>6. CASE k = 8
  <2>1. n = 8 BY <1>6 DEF Wx
  <2>. QED BY <1>4, <1>5, <1>6, <2>1
<1>7. CASE k <= 4
  <2>1. n = 4 /\ w = Unsigned(e, 4) BY <1>7 DEF Wx, LoadedA
  <2>2. Agree(w, e, 4) BY <1>2, <2>1, AgreeUnsigned
  <2>3. Extend(w, n, s) = Extend(e, n, s) BY <2>1, <2>2, ExtendAgree
  <2> HIDE DEF w, n, k, s, e
  <2>4. Extend(Extend(w, k, s), n, s) = Extend(w, k, s) BY <1>1, <1>2, ExtendTwice DEF s
  <2>. QED BY <1>4, <1>5, <2>3, <2>4 DEF w, n, k, s, e
<1>. QED BY <1>1, <1>6, <1>7 DEF Sizes

\* A constant of no declared type.
LEMMA MovUntypedA ==
  ASSUME Arm, NEW m \in Machines(R), ~m.left, NEW dst, UsableA(dst), dst.dtype.base = Comptime,
         NEW v \in Int, v < 0 => A!MovImmediate(v, Wx(dst.rsize)) /\ FitsSigned(v, 4), v < Values(8),
         v > Values(4) - 1 => dst.rsize = 8, NEW code, code = A!emit_mov(dst, v)
  PROVE  Computes(R, m, code, {}, PA(dst), Wx(dst.rsize), v)
<1>1. dst.dtype.base = A!Comptime /\ A!Values(2) = Values(2) /\ A!Signed(v, 4) = Signed(v, 4) BY InstanceTypesArm, InstanceValuesArm
<1>2. 2 \in 0 .. 15 /\ 4 \in 0 .. 15 /\ 2 \in 0 .. 4 /\ 2 < 4 OBVIOUS
<1>3. Values(2) \in Nat \ {0} /\ Values(4) \in Nat \ {0} /\ 2 * Values(2) <= Values(4) BY <1>2, ValuesPositive, ValuesGrow
<1>4. CASE v <= Values(2) - 1
  <2>1. ~(v > Values(2) - 1) BY <1>3, <1>4
  <2>2. code = A!MovAlias(dst, A!Signed(v, 4)) BY <1>1, <1>4, <2>1, Zenon DEF A!emit_mov
  <2>3. Signed(v, 4) = v
    <3>1. CASE v < 0 BY <3>1 DEF FitsSigned
    <3>2. CASE v >= 0
      <4>1. 0 - Values(4) <= 2 * v /\ 2 * v < Values(4) BY <1>3, <1>4, <3>2
      <4>. QED BY <1>2, <4>1, SignedSmall
    <3>. QED BY <3>1, <3>2
  <2>4. A!MovImmediate(v, Wx(dst.rsize))
    <3>1. CASE v < 0 BY <3>1
    <3>2. CASE v >= 0
      <4>1. v \in 0 .. Values(2) - 1 BY <1>3, <1>4, <3>2
      <4>2. Wx(dst.rsize) \in {4, 8} BY DEF Wx
      <4>. QED BY <4>1, <4>2, SmallMovImmediate
    <3>. QED BY <3>1, <3>2
  <2>. QED BY <1>1, <2>2, <2>3, <2>4, MovAliasA
<1>5. CASE v > Values(2) - 1
  <2>1. ~(v <= Values(2) - 1) BY <1>3, <1>5
  <2>2. code = A!emit_mov_wide(dst, v) BY <1>1, <1>5, <2>1, Zenon DEF A!emit_mov
  <2>3. v \in Nat /\ v # 0 BY <1>3, <1>5
  <2>. QED BY <2>2, <2>3, MovWideA
<1>. QED BY <1>3, <1>4, <1>5

\* emit_zero_out clears a register.
LEMMA ZeroOutA ==
  ASSUME Arm, NEW m \in Machines(R), ~m.left, NEW dst, UsableA(dst), dst.dtype.base # Comptime, NEW code, code = A!emit_zero_out(dst)
  PROVE  Computes(R, m, code, {}, PA(dst), Wx(dst.rsize), 0)
<1>1. code = A!emit_mov(dst, 0) BY Zenon DEF A!emit_zero_out
<1>2. A!MovImmediate(0, Wx(dst.rsize))
  <2>1. Wx(dst.rsize) \in {4, 8} BY DEF Wx
  <2>2. 2 \in 0 .. 15 OBVIOUS
  <2>3. 0 \in 0 .. Values(2) - 1 BY <2>2, ValuesPositive
  <2>. QED BY <2>1, <2>3, SmallMovImmediate
<1>. QED BY <1>1, <1>2, MovTypedA

\* The registers by number.
LEMMA UsePA == \A r : A!get_regoff(r) = PA(r)
BY DEF PA

\* A move computes what its operand reads.
LEMMA ComputesMov ==
  ASSUME Arm, NEW m \in Machines(R), ~m.left, NEW dst, UsableA(dst), NEW a, NEW v \in Int, Operand(m, a) = v,
         NEW code, code = A!Op("mov", dst, a, Imm(0))
  PROVE  Computes(R, m, code, {}, PA(dst), Wx(dst.rsize), v)
<1>1. Result(Ins("mov", PA(dst), Wx(dst.rsize), a, Imm(0), FALSE), Operand(m, a), Operand(m, Imm(0))) = v
  BY DEF Result, Ins
<1>2. "mov" \in Alu /\ Agree(v, v, Wx(dst.rsize)) BY DEF Alu, Agree
<1>. QED BY <1>1, <1>2, OpWide

\* A narrower source is extended by its type.
LEMMA WidenA ==
  ASSUME Arm, NEW m \in Machines(R), ~m.left, NEW dst, UsableA(dst), ~is_addr(dst.dtype), NEW src, TypedA(src), dst.rsize > src.rsize,
         NEW code, code = A!emit_mov_reg(dst, src)
  PROVE  Computes(R, m, code, {}, PA(dst), Wx(dst.rsize), ExtA(m, src))
<1>1. dst # src BY DEF TypedA, UsableA, Sizes
<1>2. ~A!is_addr(dst.dtype) BY InstanceAddrArm
<1>3. src.rsize \in {1, 2, 4} /\ src.rsize = src.dtype.base.size BY DEF TypedA, UsableA, Sizes
<1>4. ~(dst.rsize <= src.rsize) BY DEF TypedA, UsableA, Sizes
<1>5. code = A!type_conv(dst, src) BY <1>1, <1>2, <1>4, Zenon DEF A!emit_mov_reg
<1>6. ~(src.dtype.base.size \notin {1, 2, 4}) BY <1>3
<1>7. code = A!Op("mov", dst, A!Extended(A!get_regoff(src), src.dtype.base.size, src.dtype.base.sign), A!Imm(0))
  BY <1>5, <1>6, Zenon DEF A!type_conv
<1> DEFINE a == Extended(PA(src), src.rsize, src.dtype.base.sign)
<1>8. code = A!Op("mov", dst, a, Imm(0)) BY <1>3, <1>7, InstanceArm, UsePA
<1>9. Operand(m, a) = ExtA(m, src) /\ ExtA(m, src) \in Int BY ExtFactsA
<1> HIDE DEF a
<1>. QED BY <1>8, <1>9, ComputesMov

\* Of one size: the low bytes.
LEMMA CopyA ==
  ASSUME Arm, NEW m \in Machines(R), ~m.left, NEW dst, UsableA(dst), ~is_addr(dst.dtype), NEW src, TypedA(src), dst.rsize = src.rsize,
         NEW code, code = A!emit_mov_reg(dst, src)
  PROVE  Yields(R, m, code, {}, PA(dst), dst.rsize, ExtA(m, src))
<1>1. ~A!is_addr(dst.dtype) BY InstanceAddrArm
<1>2. ~(dst.rsize > src.rsize) /\ dst.rsize <= src.rsize BY DEF TypedA, UsableA, Sizes
<1>3. ExtA(m, src) \in Int /\ Agree(ExtA(m, src), m.reg[PA(src)], src.rsize) /\ m.reg[PA(src)] \in Int BY ExtFactsA, FactsA
<1>4. CASE dst = src
  <2>1. code = << >> BY <1>1, <1>2, <1>4, Zenon DEF A!emit_mov_reg
  <2>2. Prepares(R, m, code, {} \union {PA(dst)}) /\ Run(m, code) = m BY <2>1, PreparesNone, RunNone
  <2>3. Agree(m.reg[PA(dst)], ExtA(m, src), dst.rsize) BY <1>3, <1>4 DEF Agree
  <2>. QED BY <2>2, <2>3 DEF Yields
<1>5. CASE dst # src
  <2>1. code = A!Op("mov", dst, A!Low(A!get_regoff(src), A!Width(dst)), A!Imm(0)) BY <1>1, <1>2, <1>5, Zenon DEF A!emit_mov_reg
  <2> DEFINE a == A!Use(src)   v == Operand(m, a)
  <2>2. A!Width(dst) = A!Width(src) BY DEF A!Width
  <2>3. a = A!Low(A!get_regoff(src), A!Width(dst)) BY <2>2 DEF A!Use
  <2>4. code = A!Op("mov", dst, a, Imm(0)) BY <2>1, <2>3, InstanceArm
  <2>5. v \in Int /\ Agree(v, ExtA(m, src), dst.rsize) BY ExtFactsA
  <2> HIDE DEF a
  <2>6. Result(Ins("mov", PA(dst), Wx(dst.rsize), a, Imm(0), FALSE), Operand(m, a), Operand(m, Imm(0))) = v
    BY DEF Result, Ins
  <2>7. "mov" \in Alu BY DEF Alu
  <2> HIDE DEF v
  <2>. QED BY <1>3, <2>4, <2>5, <2>6, <2>7, OpYields
<1>. QED BY <1>4, <1>5

\* emit_mov_reg moves a register, extended by its type when it is narrower.
LEMMA MovRegA ==
  ASSUME Arm, NEW m \in Machines(R), ~m.left, NEW dst, UsableA(dst), ~is_addr(dst.dtype), NEW src, TypedA(src), dst.rsize >= src.rsize,
         NEW code, code = A!emit_mov_reg(dst, src)
  PROVE  Yields(R, m, code, {}, PA(dst), dst.rsize, ExtA(m, src))
<1>1. dst.rsize > src.rsize \/ dst.rsize = src.rsize BY DEF TypedA, UsableA, Sizes
<1>2. ExtA(m, src) \in Int BY ExtFactsA
<1>3. CASE dst.rsize > src.rsize
  <2>1. Computes(R, m, code, {}, PA(dst), Wx(dst.rsize), ExtA(m, src)) BY <1>3, WidenA
  <2>. QED BY <1>2, <2>1, WideYields
<1>. QED BY <1>1, <1>3, CopyA

\* What an instruction on two registers or on a register and a constant leaves.
SumOf(op, x, y) == CASE op = "add" -> x + y [] op = "sub" -> x - y

\* A sum or difference of operands that agree with two numbers.
LEMMA SumYields ==
  ASSUME Arm, NEW m \in Machines(R), ~m.left, NEW dst, UsableA(dst), NEW op \in {"add", "sub"}, NEW a, NEW b,
         NEW x \in Int, NEW y \in Int, NEW p \in Int, NEW q \in Int, Operand(m, a) = p, Operand(m, b) = q,
         Agree(p, x, dst.rsize), Agree(q, y, dst.rsize), NEW code, code = A!Op(op, dst, a, b)
  PROVE  Yields(R, m, code, {}, PA(dst), dst.rsize, SumOf(op, x, y)) /\ SumOf(op, x, y) \in Int
<1> DEFINE u == SumOf(op, p, q)   v == SumOf(op, x, y)
<1>1. u \in Int /\ v \in Int /\ op \in Alu BY DEF SumOf, Alu
<1>2. Agree(u, v, dst.rsize)
  <2>1. dst.rsize \in 0 .. 15 BY SizesIn DEF UsableA
  <2>2. Agree(p + q, x + y, dst.rsize) /\ Agree(p - q, x - y, dst.rsize) BY <2>1, AgreeSum, AgreeDifference
  <2>. QED BY <2>2 DEF SumOf
<1>3. Result(Ins(op, PA(dst), Wx(dst.rsize), a, b, FALSE), Operand(m, a), Operand(m, b)) = u
  <2>1. Result(Ins(op, PA(dst), Wx(dst.rsize), a, b, FALSE), p, q) = u BY DEF Result, Ins, SumOf
  <2>. QED BY <2>1
<1> HIDE DEF u, v
<1>4. Yields(R, m, code, {}, PA(dst), dst.rsize, v) BY <1>1, <1>2, <1>3, OpYields
<1>. QED BY <1>1, <1>4 DEF v

\* emit_rri adds or subtracts a constant.
LEMMA ConstantA ==
  ASSUME Arm, NEW m \in Machines(R), ~m.left, NEW dst, UsableA(dst), NEW lhs, TypedA(lhs), dst.rsize = lhs.rsize,
         NEW op \in {"add", "sub"}, NEW v \in Int, A!AddImmediate(v), NEW code, code = A!emit_rri(op, dst, lhs, v)
  PROVE  Yields(R, m, code, {}, PA(dst), dst.rsize, SumOf(op, ExtA(m, lhs), v)) /\ SumOf(op, ExtA(m, lhs), v) \in Int
<1>1. code = A!OneWidth({dst, lhs}, A!Op(op, dst, A!Use(lhs), A!Imm(v))) BY Zenon DEF A!emit_rri
<1>2. dst.rsize \in Sizes /\ lhs.rsize \in Sizes BY DEF UsableA
<1>3. code = A!Op(op, dst, A!Use(lhs), Imm(v)) BY <1>1, <1>2, OneWidthCode, InstanceArm
<1> DEFINE a == A!Use(lhs)   p == Operand(m, a)   x == ExtA(m, lhs)
<1>4. p \in Int /\ x \in Int /\ Agree(p, x, dst.rsize) BY ExtFactsA
<1>5. Operand(m, Imm(v)) = v /\ Agree(v, v, dst.rsize) BY OperandImm DEF Agree
<1>6. Operand(m, a) = p OBVIOUS
<1>7. code = A!Op(op, dst, a, Imm(v)) BY <1>3
<1> HIDE DEF a, p, x
<1>8. Yields(R, m, code, {}, PA(dst), dst.rsize, SumOf(op, x, v)) /\ SumOf(op, x, v) \in Int BY <1>4, <1>5, <1>6, <1>7, SumYields
<1>. QED BY <1>8 DEF x

\* emit_add adds a constant.
LEMMA AddA ==
  ASSUME Arm, NEW m \in Machines(R), ~m.left, NEW dst, UsableA(dst), ~is_addr(dst.dtype), NEW lhs, TypedA(lhs), dst.rsize = lhs.rsize,
         NEW v \in Int, A!AddImmediate(v), NEW code, code = A!emit_add(dst, lhs, v)
  PROVE  Yields(R, m, code, {}, PA(dst), dst.rsize, ExtA(m, lhs) + v)
<1>1. ExtA(m, lhs) \in Int BY ExtFactsA
<1>2. CASE v = 0
  <2>1. code = A!emit_mov_reg(dst, lhs) BY <1>2, Zenon DEF A!emit_add
  <2>2. ExtA(m, lhs) + v = ExtA(m, lhs) BY <1>1, <1>2
  <2>. QED BY <2>1, <2>2, CopyA
<1>3. CASE v # 0
  <2>1. code = A!emit_rri("add", dst, lhs, v) BY <1>3, Zenon DEF A!emit_add
  <2>2. SumOf("add", ExtA(m, lhs), v) = ExtA(m, lhs) + v BY DEF SumOf
  <2>3. "add" \in {"add", "sub"} OBVIOUS
  <2>. QED BY <2>1, <2>2, <2>3, ConstantA
<1>. QED BY <1>2, <1>3

\* emit_sub subtracts a constant.
LEMMA SubA ==
  ASSUME Arm, NEW m \in Machines(R), ~m.left, NEW dst, UsableA(dst), ~is_addr(dst.dtype), NEW lhs, TypedA(lhs), dst.rsize = lhs.rsize,
         NEW v \in Int, A!AddImmediate(v), NEW code, code = A!emit_sub(dst, lhs, v)
  PROVE  Yields(R, m, code, {}, PA(dst), dst.rsize, ExtA(m, lhs) - v)
<1>1. ExtA(m, lhs) \in Int BY ExtFactsA
<1>2. CASE v = 0
  <2>1. code = A!emit_mov_reg(dst, lhs) BY <1>2, Zenon DEF A!emit_sub
  <2>2. ExtA(m, lhs) - v = ExtA(m, lhs) BY <1>1, <1>2
  <2>. QED BY <2>1, <2>2, CopyA
<1>3. CASE v # 0
  <2>1. code = A!emit_rri("sub", dst, lhs, v) BY <1>3, Zenon DEF A!emit_sub
  <2>2. SumOf("sub", ExtA(m, lhs), v) = ExtA(m, lhs) - v BY DEF SumOf
  <2>3. "sub" \in {"add", "sub"} OBVIOUS
  <2>. QED BY <2>1, <2>2, <2>3, ConstantA
<1>. QED BY <1>2, <1>3

\* The narrower operand, extended by its type.
LEMMA NarrowA ==
  ASSUME Arm, NEW m \in Machines(R), NEW r, TypedA(r), r.rsize # 8
  PROVE  Operand(m, A!Narrow(r)) = ExtA(m, r) /\ ExtA(m, r) \in Int
<1>1. r.rsize \in {1, 2, 4} /\ r.dtype.base.size = r.rsize /\ r.dtype.base.tag # "NULL" BY DEF TypedA, UsableA, Sizes
<1>2. A!Narrow(r) = A!Extended(A!get_regoff(r), IF r.dtype.base.tag # "NULL" /\ r.dtype.base.size \in {1, 2} THEN r.dtype.base.size ELSE 4,
                               r.dtype.base.sign) BY DEF A!Narrow
<1>3. (IF r.dtype.base.tag # "NULL" /\ r.dtype.base.size \in {1, 2} THEN r.dtype.base.size ELSE 4) = r.rsize BY <1>1
<1>4. A!Narrow(r) = Extended(PA(r), r.rsize, r.dtype.base.sign) BY <1>2, <1>3, InstanceArm, UsePA
<1>. QED BY <1>4, ExtFactsA

\* emit_rrr on registers of one size.
LEMMA BothA ==
  ASSUME Arm, NEW m \in Machines(R), ~m.left, NEW dst, UsableA(dst), NEW lhs, TypedA(lhs), NEW rhs, TypedA(rhs),
         dst.rsize = lhs.rsize, dst.rsize = rhs.rsize,
         NEW op \in {"add", "sub"}, NEW code, code = A!emit_rrr(op, dst, lhs, rhs)
  PROVE  Yields(R, m, code, {}, PA(dst), dst.rsize, SumOf(op, ExtA(m, lhs), ExtA(m, rhs))) /\ SumOf(op, ExtA(m, lhs), ExtA(m, rhs)) \in Int
<1>1. code = A!OneWidth({dst, lhs, rhs}, A!Op(op, dst, A!Use(lhs), A!Use(rhs))) BY Zenon DEF A!emit_rrr
<1>2. dst.rsize \in Sizes BY DEF UsableA
<1>3. code = A!Op(op, dst, A!Use(lhs), A!Use(rhs))
  <2> DEFINE c == A!Op(op, dst, A!Use(lhs), A!Use(rhs))
  <2> HIDE DEF c
  <2> DEFINE n == dst.rsize
  <2>0. n \in Sizes /\ dst.rsize = n /\ lhs.rsize = n /\ rhs.rsize = n BY <1>2
  <2> HIDE DEF n
  <2>1. A!Width(dst) = Wx(n) /\ A!Width(lhs) = Wx(n) /\ A!Width(rhs) = Wx(n) BY <2>0, WxFacts DEF A!Width
  <2>2. A!OneWidth({dst, lhs, rhs}, c) = c BY <2>1 DEF A!OneWidth
  <2>. QED BY <1>1, <2>2 DEF c
<1> DEFINE a == A!Use(lhs)   b == A!Use(rhs)   p == Operand(m, a)   q == Operand(m, b)   x == ExtA(m, lhs)   y == ExtA(m, rhs)
<1>4. p \in Int /\ x \in Int /\ Agree(p, x, dst.rsize) BY ExtFactsA
<1>5. q \in Int /\ y \in Int /\ Agree(q, y, dst.rsize) BY ExtFactsA
<1>6. Operand(m, a) = p /\ Operand(m, b) = q /\ code = A!Op(op, dst, a, b) BY <1>3
<1> HIDE DEF a, b, p, q, x, y
<1>8. Yields(R, m, code, {}, PA(dst), dst.rsize, SumOf(op, x, y)) /\ SumOf(op, x, y) \in Int BY <1>4, <1>5, <1>6, SumYields
<1>. QED BY <1>8 DEF x, y

\* A wide operand and a narrower one.
LEMMA WithNarrowA ==
  ASSUME Arm, NEW m \in Machines(R), ~m.left, NEW dst, UsableA(dst), NEW lhs, TypedA(lhs), NEW rhs, TypedA(rhs),
         dst.rsize = lhs.rsize, rhs.rsize # 8,
         NEW op \in {"add", "sub"}, NEW code, code = A!OneWidth({dst, lhs}, A!Op(op, dst, A!Use(lhs), A!Narrow(rhs)))
  PROVE  Yields(R, m, code, {}, PA(dst), dst.rsize, SumOf(op, ExtA(m, lhs), ExtA(m, rhs))) /\ SumOf(op, ExtA(m, lhs), ExtA(m, rhs)) \in Int
<1>2. dst.rsize \in Sizes /\ lhs.rsize \in Sizes BY DEF UsableA
<1>3. code = A!Op(op, dst, A!Use(lhs), A!Narrow(rhs)) BY <1>2, OneWidthCode
<1> DEFINE a == A!Use(lhs)   b == A!Narrow(rhs)   p == Operand(m, a)   x == ExtA(m, lhs)   y == ExtA(m, rhs)
<1>4. p \in Int /\ x \in Int /\ Agree(p, x, dst.rsize) BY ExtFactsA
<1>5. y \in Int /\ Agree(y, y, dst.rsize) /\ Operand(m, b) = y BY NarrowA DEF Agree
<1>6. Operand(m, a) = p /\ code = A!Op(op, dst, a, b) BY <1>3
<1> HIDE DEF a, b, p, x, y
<1>8. Yields(R, m, code, {}, PA(dst), dst.rsize, SumOf(op, x, y)) /\ SumOf(op, x, y) \in Int BY <1>4, <1>5, <1>6, SumYields
<1>. QED BY <1>8 DEF x, y

\* emit_add_reg adds two registers, the narrower one extended.
LEMMA AddRegA ==
  ASSUME Arm, NEW m \in Machines(R), ~m.left, NEW dst, UsableA(dst), NEW lhs, TypedA(lhs), NEW rhs, TypedA(rhs),
         dst.rsize = (IF lhs.rsize > rhs.rsize THEN lhs.rsize ELSE rhs.rsize),
         NEW code, code = A!emit_add_reg(dst, lhs, rhs)
  PROVE  Yields(R, m, code, {}, PA(dst), dst.rsize, ExtA(m, lhs) + ExtA(m, rhs))
<1>1. lhs.rsize \in Sizes /\ rhs.rsize \in Sizes BY DEF TypedA, UsableA
<1>2. ExtA(m, lhs) \in Int /\ ExtA(m, rhs) \in Int BY ExtFactsA
<1>3. \A x, y : SumOf("add", x, y) = x + y BY DEF SumOf
<1>4. "add" \in {"add", "sub"} OBVIOUS
<1>5. CASE lhs.rsize = rhs.rsize
  <2>1. code = A!emit_rrr("add", dst, lhs, rhs) BY <1>5, Zenon DEF A!emit_add_reg
  <2>2. dst.rsize = lhs.rsize /\ dst.rsize = rhs.rsize BY <1>5
  <2>. QED BY <1>3, <1>4, <2>1, <2>2, BothA
<1>6. CASE lhs.rsize > rhs.rsize
  <2>1. lhs.rsize # rhs.rsize /\ rhs.rsize # 8 /\ dst.rsize = lhs.rsize BY <1>1, <1>6 DEF Sizes
  <2>2. A!Longer(lhs, rhs) = lhs /\ A!Shorter(lhs, rhs) = rhs BY <1>6, Zenon DEF A!Longer, A!Shorter
  <2>3. code = A!OneWidth({dst, A!Longer(lhs, rhs)}, A!Op("add", dst, A!Use(A!Longer(lhs, rhs)), A!Narrow(A!Shorter(lhs, rhs))))
    BY <2>1, Zenon DEF A!emit_add_reg
  <2>4. code = A!OneWidth({dst, lhs}, A!Op("add", dst, A!Use(lhs), A!Narrow(rhs))) BY <2>2, <2>3
  <2>. QED BY <1>3, <1>4, <2>1, <2>4, WithNarrowA
<1>7. CASE rhs.rsize > lhs.rsize
  <2>1. lhs.rsize # rhs.rsize /\ lhs.rsize # 8 /\ dst.rsize = rhs.rsize /\ ~(lhs.rsize > rhs.rsize) BY <1>1, <1>7 DEF Sizes
  <2>2. A!Longer(lhs, rhs) = rhs /\ A!Shorter(lhs, rhs) = lhs BY <2>1, Zenon DEF A!Longer, A!Shorter
  <2>3. code = A!OneWidth({dst, A!Longer(lhs, rhs)}, A!Op("add", dst, A!Use(A!Longer(lhs, rhs)), A!Narrow(A!Shorter(lhs, rhs))))
    BY <2>1, Zenon DEF A!emit_add_reg
  <2>4. code = A!OneWidth({dst, rhs}, A!Op("add", dst, A!Use(rhs), A!Narrow(lhs))) BY <2>2, <2>3
  <2>5. Yields(R, m, code, {}, PA(dst), dst.rsize, SumOf("add", ExtA(m, rhs), ExtA(m, lhs))) BY <1>4, <2>1, <2>4, WithNarrowA
  <2>6. SumOf("add", ExtA(m, rhs), ExtA(m, lhs)) = ExtA(m, lhs) + ExtA(m, rhs) BY <1>2, <1>3
  <2>. QED BY <2>5, <2>6
<1>. QED BY <1>1, <1>5, <1>6, <1>7 DEF Sizes

\* The temporary register, of the type of a narrower operand.
TempA(n, dtype) == A!ScratchReg(8, n, dtype)

\* The register the listing takes for itself.
LEMMA TempFactsA ==
  ASSUME Arm, NEW n \in Sizes, NEW dtype
  PROVE  /\ UsableA(TempA(n, dtype)) /\ PA(TempA(n, dtype)) = 16 /\ TempA(n, dtype).rsize = n /\ TempA(n, dtype).dtype = dtype
         /\ TempA(n, dtype) = Reg("SCRATCH", 8, n, dtype)
<1>1. TempA(n, dtype) = Reg("SCRATCH", 8, n, dtype) BY InstanceArm DEF TempA, A!ScratchReg
<1>2. A!get_regoff(Reg("SCRATCH", 8, n, dtype)) = 16 BY DEF A!get_regoff, Reg
<1>3. 16 \in R BY DEF Arm, R, Class, RegistersOf
<1>4. IsReg(Reg("SCRATCH", 8, n, dtype)) /\ Reg("SCRATCH", 8, n, dtype).rsize = n /\ Reg("SCRATCH", 8, n, dtype).dtype = dtype
  BY DEF IsReg, Reg
<1>. QED BY <1>1, <1>2, <1>3, <1>4 DEF UsableA, PA

\* emit_sub_reg subtracts a register, the narrower one extended.
LEMMA SubRegA ==
  ASSUME Arm, NEW m \in Machines(R), ~m.left, NEW dst, UsableA(dst), NEW lhs, TypedA(lhs), NEW rhs, TypedA(rhs),
         dst.rsize = (IF lhs.rsize > rhs.rsize THEN lhs.rsize ELSE rhs.rsize), PA(rhs) # 16,
         NEW code, code = A!emit_sub_reg(dst, lhs, rhs)
  PROVE  Yields(R, m, code, {16}, PA(dst), dst.rsize, ExtA(m, lhs) - ExtA(m, rhs))
<1>1. lhs.rsize \in Sizes /\ rhs.rsize \in Sizes BY DEF TypedA, UsableA
<1>2. ExtA(m, lhs) \in Int /\ ExtA(m, rhs) \in Int BY ExtFactsA
<1>3. \A x, y : SumOf("sub", x, y) = x - y BY DEF SumOf
<1>4. "sub" \in {"add", "sub"} OBVIOUS
<1>m. \A v : Yields(R, m, code, {}, PA(dst), dst.rsize, v) => Yields(R, m, code, {16}, PA(dst), dst.rsize, v)
  <2>1. {} \union {PA(dst)} \subseteq {16} \union {PA(dst)} OBVIOUS
  <2>. QED BY <2>1, KeepsMore DEF Yields, Prepares
<1>5. CASE lhs.rsize = rhs.rsize
  <2>1. code = A!emit_rrr("sub", dst, lhs, rhs)
    <3>1. ~(rhs.rsize < lhs.rsize) /\ ~(lhs.rsize < rhs.rsize) BY <1>1, <1>5 DEF Sizes
    <3>. QED BY <3>1, <1>5, Zenon DEF A!emit_sub_reg
  <2>2. dst.rsize = lhs.rsize /\ dst.rsize = rhs.rsize BY <1>5
  <2>. QED BY <1>3, <1>4, <1>m, <2>1, <2>2, BothA
<1>6. CASE rhs.rsize < lhs.rsize
  <2>1. lhs.rsize # rhs.rsize /\ rhs.rsize # 8 /\ dst.rsize = lhs.rsize /\ ~(lhs.rsize < rhs.rsize) BY <1>1, <1>6 DEF Sizes
  <2>2. code = A!OneWidth({dst, lhs}, A!Op("sub", dst, A!Use(lhs), A!Narrow(rhs))) BY <2>1, <1>6, Zenon DEF A!emit_sub_reg
  <2>. QED BY <1>3, <1>4, <1>m, <2>1, <2>2, WithNarrowA
<1>7. CASE lhs.rsize < rhs.rsize
  <2>1. lhs.rsize # rhs.rsize /\ dst.rsize = rhs.rsize /\ ~(rhs.rsize < lhs.rsize) BY <1>1, <1>7 DEF Sizes
  <2> DEFINE tmp == TempA(dst.rsize, lhs.dtype)   first == A!emit_mov_reg(tmp, lhs)   second == A!emit_rrr("sub", dst, tmp, rhs)
             m1 == Run(m, first)
  <2>2. code = first \o second BY <2>1, <1>7, Zenon DEF A!emit_sub_reg, TempA
  <2>3. UsableA(tmp) /\ PA(tmp) = 16 /\ tmp.rsize = dst.rsize /\ tmp.dtype = lhs.dtype /\ dst.rsize \in Sizes
    BY TempFactsA DEF UsableA
  <2>4. ~is_addr(tmp.dtype) /\ tmp.rsize > lhs.rsize BY <1>1, <1>7, <2>1, <2>3 DEF TypedA, Sizes
  <2> HIDE DEF tmp
  <2>5. Computes(R, m, first, {}, PA(tmp), Wx(tmp.rsize), ExtA(m, lhs)) BY <2>3, <2>4, WidenA
  <2>6. Prepares(R, m, first, {16}) /\ Yields(R, m, first, {}, PA(tmp), tmp.rsize, ExtA(m, lhs))
    <3>1. {} \union {PA(tmp)} = {16} BY <2>3
    <3>2. Yields(R, m, first, {}, PA(tmp), tmp.rsize, ExtA(m, lhs)) BY <1>2, <2>3, <2>5, WideYields
    <3>. QED BY <2>5, <3>1, <3>2 DEF Computes
  <2>7. m1 \in Machines(R) /\ ~m1.left /\ \A r \in R \ {16} : m1.reg[r] = m.reg[r] BY <2>6, After
  <2>8. Agree(m1.reg[16], ExtA(m, lhs), dst.rsize) BY <2>3, <2>6 DEF Yields
  <2>9. ExtA(m1, rhs) = ExtA(m, rhs)
    <3>1. PA(rhs) \in R \ {16} BY DEF TypedA, UsableA
    <3>. QED BY <2>7, <3>1 DEF ExtA
  <2> HIDE DEF first, m1
  <2>10. second = A!Op("sub", dst, A!Use(tmp), A!Use(rhs))
    <3>1. second = A!OneWidth({dst, tmp, rhs}, A!Op("sub", dst, A!Use(tmp), A!Use(rhs))) BY Zenon DEF A!emit_rrr
    <3>2. dst.rsize \in Sizes /\ tmp.rsize \in Sizes BY <2>3
    <3> DEFINE c == A!Op("sub", dst, A!Use(tmp), A!Use(rhs))
    <3> HIDE DEF c
    <3> DEFINE n == dst.rsize
    <3>0. n \in Sizes /\ dst.rsize = n /\ tmp.rsize = n /\ rhs.rsize = n BY <2>1, <2>3, <3>2
    <3> HIDE DEF n
    <3>4. A!Width(dst) = Wx(n) /\ A!Width(tmp) = Wx(n) /\ A!Width(rhs) = Wx(n) BY <3>0, WxFacts DEF A!Width
    <3>3. A!OneWidth({dst, tmp, rhs}, c) = c BY <3>4 DEF A!OneWidth
    <3>. QED BY <3>1, <3>3 DEF c
  <2> DEFINE a == A!Use(tmp)   b == A!Use(rhs)   p == Operand(m1, a)   q == Operand(m1, b)   x == ExtA(m, lhs)   y == ExtA(m, rhs)
  <2>11. q \in Int /\ Agree(q, y, dst.rsize) BY <2>1, <2>7, <2>9, ExtFactsA
  <2>12. p \in Int /\ Agree(p, x, dst.rsize)
    <3> DEFINE n == Wx(tmp.rsize)   w == m1.reg[16]   k == dst.rsize
    <3>1. n \in Sizes /\ n \in 0 .. 15 /\ k \in 0 .. n BY <2>3, WxFacts
    <3>2. a = Low(PA(tmp), n) BY <2>3, <2>7, FactsA
    <3>3. p = Unsigned(w, n) /\ w \in Int
      <4>1. Operand(m1, Low(PA(tmp), n)) = Unsigned(m1.reg[PA(tmp)], n) /\ m1.reg[PA(tmp)] \in Int BY <2>3, <2>7, <3>1, FactsA
      <4>. QED BY <2>3, <3>2, <4>1
    <3>4. Agree(w, x, k) BY <2>8
    <3> HIDE DEF n, w, k, p, x
    <3>5. p \in Int /\ Agree(p, w, n) BY <3>1, <3>3, UnsignedRange, AgreeUnsigned
    <3>6. Agree(p, w, k) BY <3>1, <3>3, <3>5, AgreeFewer
    <3>7. Agree(p, x, k) BY <3>4, <3>6 DEF Agree
    <3>. QED BY <3>5, <3>7 DEF k
  <2>13. Operand(m1, a) = p /\ Operand(m1, b) = q /\ second = A!Op("sub", dst, a, b) /\ x \in Int /\ y \in Int BY <1>2, <2>10
  <2> HIDE DEF a, b, p, q, x, y, second
  <2>14. Yields(R, m1, second, {}, PA(dst), dst.rsize, SumOf("sub", x, y)) BY <1>4, <2>7, <2>11, <2>12, <2>13, SumYields
  <2>15. Prepares(R, m1, second, {PA(dst)}) /\ Agree(Run(m1, second).reg[PA(dst)], x - y, dst.rsize)
    <3>1. {} \union {PA(dst)} = {PA(dst)} OBVIOUS
    <3>. QED BY <1>3, <2>14, <3>1 DEF Yields
  <2>16. Prepares(R, m, code, {16} \union {PA(dst)})
    <3>1. {16} \subseteq {16} \union {PA(dst)} /\ {PA(dst)} \subseteq {16} \union {PA(dst)} OBVIOUS
    <3>2. Prepares(R, Run(m, first), second, {PA(dst)}) BY <2>15 DEF m1
    <3>. QED BY <2>2, <2>6, <3>1, <3>2, PreparesThen
  <2>17. Run(m, code) = Run(m1, second) BY <2>2, <2>6, <2>15, RunConcat DEF Prepares, m1
  <2>. QED BY <2>15, <2>16, <2>17 DEF Yields, x, y
<1>. QED BY <1>1, <1>5, <1>6, <1>7 DEF Sizes

\* emit_lsl multiplies by a power of two.
LEMMA LslA ==
  ASSUME Arm, NEW m \in Machines(R), ~m.left, NEW dst, UsableA(dst), NEW lhs, TypedA(lhs), dst.rsize = lhs.rsize,
         NEW v \in 0 .. 5, NEW code, code = A!emit_lsl(dst, lhs, v)
  PROVE  Yields(R, m, code, {}, PA(dst), dst.rsize, ExtA(m, lhs) * TwoTo[v])
<1>1. dst.rsize \in Sizes /\ lhs.rsize \in Sizes BY DEF UsableA
<1>2. v \in 0 .. A!Width(dst) * ByteBits - 1
  <2>1. A!Width(dst) = 4 \/ A!Width(dst) = 8 BY <1>1, FactsA, WxFacts
  <2>2. ByteBits \in Nat /\ ByteBits >= 2 BY MachineAssumption, ConventionsAssumption
  <2>3. A!Width(dst) * ByteBits \in Nat /\ A!Width(dst) * ByteBits >= 8 BY <2>1, <2>2
  <2>. QED BY <2>3
<1>3. code = A!OneWidth({dst, lhs}, A!Op("shl", dst, A!Use(lhs), A!Imm(v))) BY <1>2, Zenon DEF A!emit_lsl
<1>4. code = A!Op("shl", dst, A!Use(lhs), Imm(v)) BY <1>1, <1>3, OneWidthCode, InstanceArm
<1> DEFINE a == A!Use(lhs)   p == Operand(m, a)   x == ExtA(m, lhs)   t == TwoTo[v]
<1>5. p \in Int /\ x \in Int /\ Agree(p, x, dst.rsize) BY ExtFactsA
<1>6. t \in Int /\ dst.rsize \in 0 .. 15
  <2>1. v \in 0 .. 15 OBVIOUS
  <2>. QED BY <1>1, <2>1, TwoToSmall, SizesIn
<1>7. Operand(m, a) = p /\ Operand(m, Imm(v)) = v /\ code = A!Op("shl", dst, a, Imm(v)) BY <1>4, OperandImm
<1> HIDE DEF a, p, x
<1>8. Result(Ins("shl", PA(dst), Wx(dst.rsize), a, Imm(v), FALSE), p, v) = p * t BY DEF Result, Ins
<1> HIDE DEF t
<1>9. Agree(p * t, x * t, dst.rsize) /\ p * t \in Int /\ x * t \in Int
  <2>1. p * t \in Int /\ x * t \in Int BY <1>5, <1>6
  <2> DEFINE n == dst.rsize
  <2>2. n \in 0 .. 15 /\ Agree(p, x, n) BY <1>5, <1>6
  <2> HIDE DEF n
  <2>3. Agree(p * t, x * t, n) BY <1>5, <1>6, <2>2, AgreeProduct
  <2>. QED BY <2>1, <2>3 DEF n
<1>10. Result(Ins("shl", PA(dst), Wx(dst.rsize), a, Imm(v), FALSE), Operand(m, a), Operand(m, Imm(v))) = p * t BY <1>7, <1>8
<1>11. "shl" \in Alu BY DEF Alu
<1> DEFINE u == p * t   z == x * t
<1>12. u \in Int /\ z \in Int /\ Agree(u, z, dst.rsize)
       /\ Result(Ins("shl", PA(dst), Wx(dst.rsize), a, Imm(v), FALSE), Operand(m, a), Operand(m, Imm(v))) = u BY <1>9, <1>10
<1> HIDE DEF u, z
<1>13. Yields(R, m, code, {}, PA(dst), dst.rsize, z) BY <1>7, <1>11, <1>12, OpYields
<1>. QED BY <1>13 DEF z, x, t

-----------------------------------------------------------------------------
(* The aarch64 listing: comparisons.                                      *)

\* A comparison sets flags that answer the conditions.
LEMMA CompareA ==
  ASSUME Arm, NEW m \in Machines(R), ~m.left, NEW lhs, UsableA(lhs), NEW b, NEW x, NEW y \in Int,
         x = Unsigned(m.reg[PA(lhs)], Wx(lhs.rsize)), Operand(m, b) = y,
         NEW X \in Int, NEW Y \in Int, NEW conds, Tells(conds, x, y, Wx(lhs.rsize), X, Y), NEW code, code = A!Compare(lhs, b)
  PROVE  Compared(R, m, code, {}, conds, X, Y)
<1> DEFINE n == Wx(lhs.rsize)   a == Low(PA(lhs), n)
<1>1. n \in Sizes /\ n \in 0 .. 15 BY WxFacts DEF UsableA
<1>2. A!Use(lhs) = a /\ A!Width(lhs) = n /\ m.reg[PA(lhs)] \in Int BY FactsA
<1>3. Operand(m, a) = x BY <1>1, FactsA
<1>4. code = <<Ins("cmp", Zero, n, a, b, FALSE)>> BY <1>2, InstanceArm DEF A!Compare
<1>5. x \in Int BY <1>1, <1>2, UnsignedRange
<1>6. Tells(conds, x, y, n, X, Y) OBVIOUS
<1> HIDE DEF n, a
<1>7. Compared(R, m, <<Ins("cmp", Zero, n, a, b, FALSE)>>, {}, conds, X, Y) BY <1>1, <1>3, <1>5, <1>6, RunCompare
<1>. QED BY <1>4, <1>7

\* emit_cmp compares with a constant.
LEMMA CmpA ==
  ASSUME Arm, NEW m \in Machines(R), ~m.left, NEW lhs, LoadedA(m, lhs), NEW v \in Int, A!AddImmediate(v),
         NEW sign, sign = lhs.dtype.base.sign, lhs.rsize = 8 \/ v = Extend(v, lhs.rsize, sign),
         NEW X, NEW Y, X = ExtA(m, lhs), Y = Extend(v, lhs.rsize, sign), NEW code, code = A!emit_cmp(lhs, v)
  PROVE  Compared(R, m, code, {}, Equalities \union Orders(sign), X, Y)
<1>1. code = A!Compare(lhs, A!Imm(v)) BY Zenon DEF A!emit_cmp
<1>2. code = A!Compare(lhs, Imm(v)) BY <1>1, InstanceArm
<1> DEFINE n == Wx(lhs.rsize)   x == Unsigned(m.reg[PA(lhs)], n)   k == lhs.rsize
<1>3. TypedA(lhs) /\ UsableA(lhs) /\ sign \in BOOLEAN /\ k \in Sizes BY DEF LoadedA, TypedA, UsableA
<1>4. n \in 0 .. 15 /\ k \in 0 .. n /\ (k = 8 => n = 8) BY <1>3, WxFacts
<1>5. x \in Int /\ Extend(x, n, sign) = X
  <2>1. m.reg[PA(lhs)] \in Int BY <1>3, FactsA
  <2>. QED BY <1>3, <1>4, <2>1, UnsignedRange, WholeValueA
<1>6. Extend(v, n, sign) = Y
  <2>1. CASE k = 8 BY <1>4, <2>1
  <2>2. CASE v = Extend(v, k, sign)
    <3>1. sign = sign \/ (k < n /\ sign) OBVIOUS
    <3> HIDE DEF n, k
    <3>2. Extend(Extend(v, k, sign), n, sign) = Extend(v, k, sign) BY <1>3, <1>4, <3>1, ExtendTwice
    <3>3. Extend(v, n, sign) = Extend(v, k, sign) BY <2>2, <3>2
    <3>. QED BY <3>3 DEF k
  <2>. QED BY <2>1, <2>2
<1>7. Operand(m, Imm(v)) = v BY OperandImm
<1> DEFINE conds == Equalities \union Orders(sign)
<1>8. conds \subseteq Equalities \union Orders(sign) OBVIOUS
<1> HIDE DEF n, x, conds
<1>9. Tells(conds, x, v, n, X, Y) /\ X \in Int /\ Y \in Int BY <1>3, <1>4, <1>5, <1>6, <1>8, TellsValues
<1> DEFINE b == Imm(v)
<1>10. Operand(m, b) = v /\ code = A!Compare(lhs, b) BY <1>2, <1>7
<1>11. Tells(conds, x, v, Wx(lhs.rsize), X, Y) /\ x = Unsigned(m.reg[PA(lhs)], Wx(lhs.rsize)) BY <1>9 DEF n, x
<1> HIDE DEF b
<1>12. Compared(R, m, code, {}, conds, X, Y) BY <1>3, <1>9, <1>10, <1>11, CompareA
<1>. QED BY <1>12 DEF conds

\* emit_cond_set turns the flags into 0 or 1.
LEMMA CondSetA ==
  ASSUME Arm, NEW m \in Machines(R), ~m.left, NEW dst, UsableA(dst), NEW cond,
         NEW v, v = (IF Holds(cond, m.flags) THEN 1 ELSE 0), NEW code, code = A!emit_cond_set(dst, cond)
  PROVE  Yields(R, m, code, {}, PA(dst), dst.rsize, v)
<1>1. code = A!Op("mov", dst, A!If(cond), A!Imm(0)) BY Zenon DEF A!emit_cond_set
<1>2. code = A!Op("mov", dst, If(cond), Imm(0)) BY <1>1, InstanceArm
<1>3. Operand(m, If(cond)) = v /\ v \in Int BY DEF Operand, If
<1> DEFINE a == If(cond)
<1> HIDE DEF a
<1>4. Computes(R, m, code, {}, PA(dst), Wx(dst.rsize), v) BY <1>2, <1>3, ComputesMov DEF a
<1>. QED BY <1>3, <1>4, WideYields

\* Registers of one size, or with a narrower second one.
LEMMA CmpSameA ==
  ASSUME Arm, NEW m \in Machines(R), ~m.left, NEW lhs, NEW rhs, LoadedA(m, lhs), LoadedA(m, rhs), lhs.rsize = rhs.rsize,
         NEW sign, lhs.dtype.base.sign = sign, rhs.dtype.base.sign = sign,
         NEW conds, conds \subseteq Equalities \union Orders(sign), NEW code, code = A!Compare(lhs, A!Use(rhs))
  PROVE  Compared(R, m, code, {}, conds, ExtA(m, lhs), ExtA(m, rhs))
<1> DEFINE n == Wx(lhs.rsize)   x == Unsigned(m.reg[PA(lhs)], n)   y == Unsigned(m.reg[PA(rhs)], n)   b == A!Use(rhs)
           X == ExtA(m, lhs)   Y == ExtA(m, rhs)
<1>1. TypedA(lhs) /\ UsableA(lhs) /\ TypedA(rhs) /\ UsableA(rhs) /\ sign \in BOOLEAN /\ lhs.rsize \in Sizes BY DEF LoadedA, TypedA, UsableA
<1>2. n \in 0 .. 15 BY <1>1, WxFacts
<1>3. x \in Int /\ y \in Int
  <2>1. m.reg[PA(lhs)] \in Int /\ m.reg[PA(rhs)] \in Int BY <1>1, FactsA
  <2>. QED BY <1>2, <2>1, UnsignedRange
<1>4. Extend(x, n, sign) = X /\ Extend(y, n, sign) = Y BY WholeValueA
<1>5. Operand(m, b) = y BY <1>1, ExtFactsA
<1>6. x = Unsigned(m.reg[PA(lhs)], Wx(lhs.rsize)) /\ n = Wx(lhs.rsize) OBVIOUS
<1>7. code = A!Compare(lhs, b) OBVIOUS
<1> HIDE DEF n, x, y, b, X, Y
<1>8. Tells(conds, x, y, n, X, Y) /\ X \in Int /\ Y \in Int BY <1>1, <1>2, <1>3, <1>4, TellsValues
<1>9. Compared(R, m, code, {}, conds, X, Y) BY <1>1, <1>3, <1>5, <1>6, <1>7, <1>8, CompareA
<1>. QED BY <1>9 DEF X, Y

\* A comparison with a narrower register extends it.
LEMMA CmpNarrowA ==
  ASSUME Arm, NEW m \in Machines(R), ~m.left, NEW lhs, NEW rhs, LoadedA(m, lhs), TypedA(rhs), rhs.rsize < lhs.rsize,
         NEW l, lhs.dtype.base.sign = l, rhs.dtype.base.sign = l \/ l,
         NEW conds, conds \subseteq Equalities \union Orders(l), NEW code, code = A!Compare(lhs, A!Narrow(rhs))
  PROVE  Compared(R, m, code, {}, conds, ExtA(m, lhs), ExtA(m, rhs))
<1> DEFINE n == Wx(lhs.rsize)   x == Unsigned(m.reg[PA(lhs)], n)   b == A!Narrow(rhs)   r == rhs.dtype.base.sign   k == rhs.rsize
           X == ExtA(m, lhs)   Y == ExtA(m, rhs)
<1>1. TypedA(lhs) /\ UsableA(lhs) /\ UsableA(rhs) /\ l \in BOOLEAN /\ r \in BOOLEAN /\ lhs.rsize \in Sizes /\ k \in Sizes BY DEF LoadedA, TypedA, UsableA
<1>2. n \in 0 .. 15 /\ k \in 0 .. n /\ k < n /\ k # 8 BY <1>1 DEF Sizes, Wx
<1>3. x \in Int /\ m.reg[PA(rhs)] \in Int
  <2>1. m.reg[PA(lhs)] \in Int /\ m.reg[PA(rhs)] \in Int BY <1>1, FactsA
  <2>. QED BY <1>2, <2>1, UnsignedRange
<1>4. Extend(x, n, l) = X BY WholeValueA
<1>5. Operand(m, b) = Y /\ Y \in Int BY <1>2, NarrowA
<1>6. Extend(Y, n, l) = Y
  <2> DEFINE w == m.reg[PA(rhs)]
  <2>1. Y = Extend(w, k, r) BY DEF ExtA
  <2>2. w \in Int /\ (r = l \/ (k < n /\ l)) BY <1>2, <1>3
  <2> HIDE DEF w, n, k, r, Y
  <2>3. Extend(Extend(w, k, r), n, l) = Extend(w, k, r) BY <1>1, <1>2, <2>2, ExtendTwice
  <2>. QED BY <2>1, <2>3
<1>7. code = A!Compare(lhs, b) /\ x = Unsigned(m.reg[PA(lhs)], Wx(lhs.rsize)) /\ n = Wx(lhs.rsize) OBVIOUS
<1> HIDE DEF n, x, b, X, Y, k, r
<1>8. Tells(conds, x, Y, n, X, Y) /\ X \in Int /\ Y \in Int BY <1>1, <1>2, <1>3, <1>4, <1>5, <1>6, TellsValues
<1>9. Compared(R, m, code, {}, conds, X, Y) BY <1>1, <1>3, <1>5, <1>7, <1>8, CompareA
<1>. QED BY <1>9 DEF X, Y

\* A narrower first one is extended into the temporary register.
LEMMA CmpWiderA ==
  ASSUME Arm, NEW m \in Machines(R), ~m.left, NEW lhs, NEW rhs, TypedA(lhs), LoadedA(m, rhs), lhs.rsize < rhs.rsize, PA(rhs) # 16,
         NEW l, lhs.dtype.base.sign = l, rhs.dtype.base.sign = l,
         NEW conds, conds \subseteq Equalities \union Orders(l),
         NEW code, code = A!emit_mov_reg(TempA(rhs.rsize, lhs.dtype), lhs) \o A!Compare(TempA(rhs.rsize, lhs.dtype), A!Use(rhs))
  PROVE  Compared(R, m, code, {16}, conds, ExtA(m, lhs), ExtA(m, rhs))
<1> DEFINE tmp == TempA(rhs.rsize, lhs.dtype)   first == A!emit_mov_reg(tmp, lhs)   second == A!Compare(tmp, A!Use(rhs))   m1 == Run(m, first)
           n == Wx(rhs.rsize)   x == Unsigned(m1.reg[16], n)   y == Unsigned(m1.reg[PA(rhs)], n)   b == A!Use(rhs)   k == lhs.rsize
           X == ExtA(m, lhs)   Y == ExtA(m, rhs)
<1>1. /\ TypedA(rhs) /\ UsableA(lhs) /\ UsableA(rhs) /\ l \in BOOLEAN /\ rhs.rsize \in Sizes /\ k \in Sizes /\ ~is_addr(lhs.dtype)
  BY DEF LoadedA, TypedA, UsableA
<1>2. n \in 0 .. 15 /\ k \in 0 .. n BY <1>1 DEF Sizes, Wx
<1>3. UsableA(tmp) /\ PA(tmp) = 16 /\ tmp.rsize = rhs.rsize /\ tmp.dtype = lhs.dtype BY <1>1, TempFactsA
<1>4. code = first \o second OBVIOUS
<1>5. X \in Int /\ X = Extend(m.reg[PA(lhs)], k, l) /\ m.reg[PA(lhs)] \in Int BY <1>1, ExtFactsA, FactsA DEF ExtA
<1>6. tmp.rsize > lhs.rsize /\ ~is_addr(tmp.dtype) BY <1>1, <1>3 DEF Sizes
<1>n. n = Wx(tmp.rsize) BY <1>3
<1> HIDE DEF tmp, X, n
<1>7. Computes(R, m, first, {}, 16, n, X)
  <2>1. Computes(R, m, first, {}, PA(tmp), Wx(tmp.rsize), ExtA(m, lhs)) BY <1>3, <1>6, WidenA
  <2>. QED BY <1>3, <1>n, <2>1 DEF X
<1>8. Prepares(R, m, first, {16}) /\ Agree(m1.reg[16], X, n)
  <2>1. {} \union {16} = {16} OBVIOUS
  <2>. QED BY <1>7, <2>1 DEF Computes
<1>9. m1 \in Machines(R) /\ ~m1.left /\ \A r \in R \ {16} : m1.reg[r] = m.reg[r] BY <1>8, After
<1>10. m1.reg[PA(rhs)] = m.reg[PA(rhs)]
  <2>1. PA(rhs) \in R \ {16} BY <1>1 DEF UsableA
  <2>. QED BY <1>9, <2>1
<1>11. LoadedA(m1, rhs) /\ ExtA(m1, rhs) = Y BY <1>10 DEF LoadedA, ExtA
<1> HIDE DEF first, m1
<1>12. x \in Int /\ y \in Int
  <2>1. m1.reg[PA(tmp)] \in Int /\ m1.reg[PA(rhs)] \in Int BY <1>1, <1>3, <1>9, FactsA
  <2>. QED BY <1>2, <1>3, <2>1, UnsignedRange
<1>13. Extend(x, n, l) = X
  <2>1. x = Unsigned(X, n) BY <1>8 DEF Agree
  <2>2. Agree(x, X, n) BY <1>2, <1>5, <2>1, AgreeUnsigned
  <2>3. Extend(x, n, l) = Extend(X, n, l) BY <2>2, ExtendAgree
  <2> DEFINE w == m.reg[PA(lhs)]
  <2>4. w \in Int /\ X = Extend(w, k, l) BY <1>5
  <2> HIDE DEF w, k
  <2>5. Extend(Extend(w, k, l), n, l) = Extend(w, k, l) BY <1>1, <1>2, <2>4, ExtendTwice
  <2>. QED BY <2>3, <2>4, <2>5
<1>14. Extend(y, n, l) = Y BY <1>9, <1>11, WholeValueA DEF n
<1>15. Operand(m1, b) = y BY <1>1, <1>9, ExtFactsA DEF n
<1>16. x = Unsigned(m1.reg[PA(tmp)], Wx(tmp.rsize)) BY <1>3, <1>n
<1>17. second = A!Compare(tmp, b) OBVIOUS
<1> HIDE DEF x, y, b, Y, second
<1>18. Tells(conds, x, y, n, X, Y) /\ X \in Int /\ Y \in Int BY <1>1, <1>2, <1>12, <1>13, <1>14, TellsValues
<1>19. Compared(R, m1, second, {}, conds, X, Y) BY <1>3, <1>9, <1>12, <1>15, <1>16, <1>17, <1>18, <1>n, CompareA
<1>20. Compared(R, m, first \o second, {16}, conds, X, Y) BY <1>8, <1>19, ComparedThen DEF m1
<1>. QED BY <1>4, <1>20 DEF X, Y

\* emit_cmp_reg compares registers of any two sizes.
LEMMA CmpRegA ==
  ASSUME Arm, NEW m \in Machines(R), ~m.left, NEW lhs, NEW rhs, LoadedA(m, lhs), LoadedA(m, rhs), PA(rhs) # 16,
         NEW l, NEW r, lhs.dtype.base.sign = l, rhs.dtype.base.sign = r,
         NEW conds, conds \subseteq Equalities \union Orders(l), NEW cond \in conds,
         lhs.rsize = rhs.rsize => l = r,
         lhs.rsize > rhs.rsize => l = r \/ l,
         lhs.rsize < rhs.rsize => l = r /\ cond \notin Equalities,
         NEW code, code = A!emit_cmp_reg(lhs, rhs, cond)
  PROVE  Compared(R, m, code, {16}, conds, ExtA(m, lhs), ExtA(m, rhs))
<1>1. lhs.rsize \in Sizes /\ rhs.rsize \in Sizes /\ TypedA(lhs) /\ TypedA(rhs) BY DEF LoadedA, TypedA, UsableA
<1>m. \A X, Y : Compared(R, m, code, {}, conds, X, Y) => Compared(R, m, code, {16}, conds, X, Y)
  <2>1. {} \subseteq {16} OBVIOUS
  <2>. QED BY <2>1, KeepsMore DEF Compared, Prepares
<1>2. CASE lhs.rsize = rhs.rsize
  <2>1. ~(rhs.rsize < lhs.rsize) /\ ~(lhs.rsize < rhs.rsize) BY <1>1, <1>2 DEF Sizes
  <2>2. code = A!Compare(lhs, A!Use(rhs)) BY <1>2, <2>1, Zenon DEF A!emit_cmp_reg
  <2>3. rhs.dtype.base.sign = l BY <1>2
  <2>4. Compared(R, m, code, {}, conds, ExtA(m, lhs), ExtA(m, rhs)) BY <1>2, <2>2, <2>3, CmpSameA
  <2>. QED BY <1>m, <2>4
<1>3. CASE rhs.rsize < lhs.rsize
  <2>1. lhs.rsize # rhs.rsize /\ ~(lhs.rsize < rhs.rsize) /\ lhs.rsize > rhs.rsize BY <1>1, <1>3 DEF Sizes
  <2>2. code = A!Compare(lhs, A!Narrow(rhs)) BY <1>3, <2>1, Zenon DEF A!emit_cmp_reg
  <2>3. rhs.dtype.base.sign = l \/ l BY <2>1
  <2>4. Compared(R, m, code, {}, conds, ExtA(m, lhs), ExtA(m, rhs)) BY <1>1, <1>3, <2>2, <2>3, CmpNarrowA
  <2>. QED BY <1>m, <2>4
<1>4. CASE lhs.rsize < rhs.rsize
  <2>1. lhs.rsize # rhs.rsize /\ ~(rhs.rsize < lhs.rsize) BY <1>1, <1>4 DEF Sizes
  <2>2. cond \notin {"EQ", "NE"} BY <1>4 DEF Equalities
  <2>3. code = A!emit_mov_reg(TempA(rhs.rsize, lhs.dtype), lhs) \o A!Compare(TempA(rhs.rsize, lhs.dtype), A!Use(rhs))
    BY <1>4, <2>1, <2>2, Zenon DEF A!emit_cmp_reg, TempA
  <2>4. rhs.dtype.base.sign = l BY <1>4
  <2>. QED BY <1>1, <1>4, <2>3, <2>4, CmpWiderA
<1>. QED BY <1>1, <1>2, <1>3, <1>4 DEF Sizes

-----------------------------------------------------------------------------
(* The aarch64 listing: stores and loads.                                 *)

\* The bytes of a register, or zeros of the zero register, put somewhere.
LEMMA SizeA ==
  ASSUME NEW r, r.rsize \in Sizes, ~is_addr(r.dtype)
  PROVE  A!AccessSize(r) = r.rsize
<1>1. ~A!is_addr(r.dtype) BY InstanceAddrArm
<1>2. r.rsize = 1 \/ r.rsize = 2 \/ r.rsize = 4 \/ r.rsize = 8 BY DEF Sizes
<1>. QED BY <1>1, <1>2 DEF A!AccessSize

\* A store writes the bytes of the type.
LEMMA StoreA ==
  ASSUME NEW m \in Machines(R), ~m.left, NEW src, src.rsize \in Sizes, ~is_addr(src.dtype),
         NEW w \in Int, Operand(m, Low(PA(src), Wx(src.rsize))) = w, NEW v \in Int, Agree(w, v, src.rsize),
         NEW address, NEW at \in Place8, Operand(m, address) = at, at + src.rsize <= Memory,
         NEW code, code = A!Store(src, address)
  PROVE  Leaves(R, m, code, {}, Written(m.mem, at, src.rsize, v))
<1> DEFINE n == src.rsize   a == Low(PA(src), Wx(n))
<1>1. n \in Sizes /\ n \in 0 .. 15 BY SizesIn
<1>2. A!AccessSize(src) = n /\ A!Width(src) = Wx(n) BY SizeA, WxFacts DEF A!Width
<1>3. code = <<Ins("store", Zero, n, a, address, FALSE)>> BY <1>2, InstanceArm, UsePA DEF A!Store
<1>4. at \in Nat /\ at \in Int /\ Operand(m, a) = w BY PlaceValue
<1>5. m.mem \in Mem BY MemIn
<1>6. Written(m.mem, at, n, w) = Written(m.mem, at, n, v)
  <2>1. DOMAIN m.mem \subseteq Int BY <1>5, MemDomain
  <2> DEFINE mem == m.mem
  <2> HIDE DEF mem, n
  <2>. QED BY <1>1, <1>4, <2>1, WrittenAgree DEF mem, n
<1>7. at + n <= Memory OBVIOUS
<1> HIDE DEF n, a
<1>8. Leaves(R, m, <<Ins("store", Zero, n, a, address, FALSE)>>, {}, Written(m.mem, at, n, w))
  BY <1>1, <1>4, <1>7, RunStore
<1>. QED BY <1>3, <1>6, <1>8 DEF n

\* A place of the frame or behind a pointer, and one with a register as its offset.
LEMMA DisplacedA ==
  ASSUME Arm, NEW m \in Machines(R), NEW base, PA(base) \in R, NEW offset \in Int,
         NEW at \in Place8, m.reg[PA(base)] + offset = at
  PROVE  Denotes(m, A!At_(base, offset), at)
<1> DEFINE b == PA(base)
<1>1. A!At_(base, offset) = Address(b, NoIndex, offset) BY InstanceArm, UsePA DEF A!At_
<1>2. Zero \notin R BY NoZeroArm
<1>3. Simple(m, NoIndex) = 0 /\ m.reg[b] \in Int BY <1>2, NoIndexValue, Operands
<1>4. (m.reg[b] + Simple(m, NoIndex)) + offset = at /\ Simple(m, NoIndex) \in Int BY <1>3
<1> HIDE DEF b
<1>5. b \in R BY DEF b
<1>. QED BY <1>1, <1>2, <1>4, <1>5, AtPlace DEF Denotes

\* A register, shifted, added to another denotes a place.
LEMMA IndexedA ==
  ASSUME Arm, NEW m \in Machines(R), NEW base, PA(base) \in R, NEW index, PA(index) \in R, NEW shift, NEW n \in Sizes, TwoTo[shift] = n,
         NEW h \in Int, m.reg[PA(index)] = h, NEW at \in Place8, m.reg[PA(base)] + h * n = at
  PROVE  Denotes(m, A!Indexed(base, index, shift), at)
<1> DEFINE b == PA(base)   i == PA(index)   s == Scaled(i, 8, FALSE, n)
<1>1. A!Indexed(base, index, shift) = Address(b, s, 0) BY InstanceArm, InstanceValuesArm, UsePA DEF A!Indexed
<1>2. Zero \notin R BY NoZeroArm
<1>3. Simple(m, s) = h * n /\ m.reg[b] \in Int /\ n \in Int /\ h * n \in Int
  <2>1. n \in Int BY SizesIn
  <2>. QED BY <1>2, <2>1, SimpleIndex
<1>4. (m.reg[b] + Simple(m, s)) + 0 = at /\ Simple(m, s) \in Int /\ b \in R
  <2> DEFINE hn == h * n
  <2>1. m.reg[b] + hn = at /\ hn \in Int /\ Simple(m, s) = hn BY <1>3
  <2> HIDE DEF hn, s
  <2>. QED BY <1>3, <2>1
<1> HIDE DEF b, s
<1>5. 0 \in Int OBVIOUS
<1>. QED BY <1>1, <1>2, <1>4, <1>5, AtPlace DEF Denotes

\* The shift of each element size multiplies by it.
LEMMA ShiftsA == /\ TwoTo[A!ShiftOf(1)] = 1 /\ TwoTo[A!ShiftOf(2)] = 2 /\ TwoTo[A!ShiftOf(4)] = 4 /\ TwoTo[A!ShiftOf(8)] = 8
<1>1. A!ShiftOf(1) = 0 /\ A!ShiftOf(2) = 1 /\ A!ShiftOf(4) = 2 /\ A!ShiftOf(8) = 3 BY DEF A!ShiftOf
<1>2. 15 * ByteBits \in Nat /\ 15 * ByteBits >= 15 BY MachineAssumption
<1>3. 1 \in 1 .. 15 * ByteBits /\ 2 \in 1 .. 15 * ByteBits /\ 3 \in 1 .. 15 * ByteBits BY <1>2
<1>4. TwoTo[1] = 2 * TwoTo[1 - 1] /\ TwoTo[2] = 2 * TwoTo[2 - 1] /\ TwoTo[3] = 2 * TwoTo[3 - 1] /\ TwoTo[0] = 1
  BY <1>3, TwoToDef
<1>5. 1 - 1 = 0 /\ 2 - 1 = 1 /\ 3 - 1 = 2 OBVIOUS
<1>6. TwoTo[1] = 2 BY <1>4, <1>5
<1>7. TwoTo[2] = 4 BY <1>4, <1>5, <1>6
<1>8. TwoTo[3] = 8 BY <1>4, <1>5, <1>7
<1>. QED BY <1>1, <1>4, <1>6, <1>7, <1>8

\* Near enough for a load or a store.
LEMMA NearA == ASSUME NEW n, NEW offset \in 0 - 256 .. 255 PROVE A!Displacement(n, offset)
BY DEF A!Displacement

\* The bytes a register holds, as a store reads them.
LEMMA HeldA ==
  ASSUME Arm, NEW m \in Machines(R), NEW src, UsableA(src)
  PROVE  /\ Operand(m, Low(PA(src), Wx(src.rsize))) \in Int
         /\ Agree(Operand(m, Low(PA(src), Wx(src.rsize))), Unsigned(m.reg[PA(src)], src.rsize), src.rsize)
         /\ Unsigned(m.reg[PA(src)], src.rsize) \in Int
<1> DEFINE n == Wx(src.rsize)   k == src.rsize   w == m.reg[PA(src)]
<1>1. n \in Sizes /\ n \in 0 .. 15 /\ k \in 0 .. n /\ k \in 0 .. 15 BY WxFacts, SizesIn DEF UsableA
<1>2. w \in Int /\ Operand(m, Low(PA(src), n)) = Unsigned(w, n) BY <1>1, FactsA
<1> HIDE DEF n, k, w
<1>3. Unsigned(w, n) \in Int /\ Agree(Unsigned(w, n), w, n) /\ Unsigned(w, k) \in Int /\ Agree(Unsigned(w, k), w, k)
  BY <1>1, <1>2, UnsignedRange, AgreeUnsigned
<1>4. Agree(Unsigned(w, n), w, k) BY <1>1, <1>2, <1>3, AgreeFewer
<1>5. Agree(Unsigned(w, n), Unsigned(w, k), k) BY <1>3, <1>4 DEF Agree
<1>. QED BY <1>2, <1>3, <1>5 DEF n, k, w

\* emit_str_reg stores the bytes of a register.
LEMMA StrRegA ==
  ASSUME Arm, NEW m \in Machines(R), ~m.left, NEW dst, PA(dst) \in R, NEW src, UsableA(src), ~is_addr(src.dtype),
         NEW offset \in 0 - 256 .. 255,
         NEW at \in Place8, m.reg[PA(dst)] + offset = at, at + src.rsize <= Memory, NEW code, code = A!emit_str_reg(dst, src, offset)
  PROVE  Leaves(R, m, code, {}, Written(m.mem, at, src.rsize, Unsigned(m.reg[PA(src)], src.rsize)))
<1> DEFINE address == A!At_(dst, offset)   v == Unsigned(m.reg[PA(src)], src.rsize)   w == Operand(m, Low(PA(src), Wx(src.rsize)))
<1>1. A!Displacement(A!AccessSize(src), offset) BY NearA
<1>2. code = A!Store(src, address) BY <1>1, Zenon DEF A!emit_str_reg
<1>3. offset \in Int /\ src.rsize \in Sizes BY DEF UsableA
<1>4. Operand(m, address) = at BY <1>3, DisplacedA DEF Denotes
<1>5. w \in Int /\ Agree(w, v, src.rsize) /\ v \in Int BY HeldA
<1>6. Operand(m, Low(PA(src), Wx(src.rsize))) = w OBVIOUS
<1> HIDE DEF address, v, w
<1>7. Leaves(R, m, code, {}, Written(m.mem, at, src.rsize, v)) BY <1>2, <1>3, <1>4, <1>5, <1>6, StoreA
<1>. QED BY <1>7 DEF v

\* A load of the bytes at an address.
LEMMA LoadA ==
  ASSUME Arm, NEW m \in Machines(R), ~m.left, NEW dst, UsableA(dst), ~is_addr(dst.dtype), dst.dtype.base.sign \in BOOLEAN,
         NEW address, NEW at \in Place8, Denotes(m, address, at), at + dst.rsize <= Memory, NEW code, code = A!Load(dst, address)
  PROVE  Yields(R, m, code, {}, PA(dst), dst.rsize, BytesIn(m.mem, at, dst.rsize))
<1> DEFINE n == dst.rsize   s == (n <= 2 /\ dst.dtype.base.sign)   a == Loaded(address, n, s)   y == BytesIn(m.mem, at, n)   v == Operand(m, a)
<1>1. n \in Sizes /\ n \in 0 .. 15 /\ s \in BOOLEAN BY SizesIn DEF UsableA
<1>2. A!AccessSize(dst) = n BY <1>1, SizeA
<1>3. code = A!Op("mov", dst, a, Imm(0)) BY <1>2, InstanceArm DEF A!Load
<1>4. at \in Nat /\ Zero \notin R /\ At(m, address) = at BY PlaceValue, NoZeroArm DEF Denotes
<1>5. v = Extend(y, n, s) /\ y \in Int
  <2> HIDE DEF n, s
  <2>1. at + n <= Memory BY DEF n
  <2>. QED BY <1>1, <1>4, <2>1, LoadValue
<1>6. v \in Int /\ Agree(v, y, n)
  <2> HIDE DEF n, s, y, v
  <2>. QED BY <1>1, <1>5, ExtendInt
<1>7. Operand(m, a) = v OBVIOUS
<1> HIDE DEF s, a, y, v
<1>8. Result(Ins("mov", PA(dst), Wx(dst.rsize), a, Imm(0), FALSE), Operand(m, a), Operand(m, Imm(0))) = v BY <1>7 DEF Result, Ins
<1>9. "mov" \in Alu BY DEF Alu
<1>10. Yields(R, m, code, {}, PA(dst), dst.rsize, y) BY <1>3, <1>5, <1>6, <1>8, <1>9, OpYields
<1>. QED BY <1>10 DEF y

\* emit_ldr loads the bytes at a displacement.
LEMMA LdrA ==
  ASSUME Arm, NEW m \in Machines(R), ~m.left, NEW dst, UsableA(dst), ~is_addr(dst.dtype), dst.dtype.base.sign \in BOOLEAN,
         NEW src, PA(src) \in R, NEW offset \in 0 - 256 .. 255,
         NEW at \in Place8, m.reg[PA(src)] + offset = at, at + dst.rsize <= Memory, NEW code, code = A!emit_ldr(dst, src, offset)
  PROVE  Yields(R, m, code, {}, PA(dst), dst.rsize, BytesIn(m.mem, at, dst.rsize))
<1> DEFINE address == A!At_(src, offset)
<1>1. A!Displacement(A!AccessSize(dst), offset) BY NearA
<1>2. code = A!Load(dst, address) BY <1>1, Zenon DEF A!emit_ldr
<1>3. offset \in Int OBVIOUS
<1>4. Denotes(m, address, at) BY <1>3, DisplacedA
<1> HIDE DEF address
<1>. QED BY <1>2, <1>4, LoadA

\* A plain type is no address.
LEMMA PlainNoAddr == ASSUME NEW b PROVE ~is_addr(Plain(b)) /\ Plain(b).base = b
<1>1. Plain(b).decl = << >> /\ Plain(b).base = b BY DEF Plain
<1>2. dtype_outer(Plain(b)) = NoDeclarator /\ NoDeclarator.tag = "NONE" BY <1>1 DEF dtype_outer, NoDeclarator, Declarator
<1>. QED BY <1>1, <1>2 DEF is_addr

\* A constant in the register for intermediate results.
HoldsTemp(m, code, n, v) == Prepares(R, m, code, {16}) /\ Unsigned(Run(m, code).reg[16], n) = Unsigned(v, n)

\* A constant is moved to the register the listing takes for itself.
LEMMA MovTempA ==
  ASSUME Arm, NEW m \in Machines(R), ~m.left, NEW n \in Sizes, NEW b, b # Comptime, NEW v \in Int, A!MovImmediate(v, Wx(n)),
         NEW code, code = A!emit_mov(TempA(n, Plain(b)), v)
  PROVE  HoldsTemp(m, code, n, v)
<1> DEFINE t == TempA(n, Plain(b))
<1>1. UsableA(t) /\ PA(t) = 16 /\ t.rsize = n /\ t.dtype = Plain(b) BY TempFactsA
<1>2. t.dtype.base # Comptime BY <1>1, PlainNoAddr
<1> HIDE DEF t
<1>3. code = A!emit_mov(t, v) BY DEF t
<1>4. Computes(R, m, code, {}, PA(t), Wx(t.rsize), v) BY <1>1, <1>2, <1>3, MovTypedA
<1>5. Yields(R, m, code, {}, PA(t), t.rsize, v) BY <1>1, <1>4, WideYields
<1>6. {} \union {16} = {16} OBVIOUS
<1>. QED BY <1>1, <1>5, <1>6 DEF Yields, HoldsTemp, Agree

\* imm_to_reg takes that register.
LEMMA ImmRegA == \A dst : A!imm_to_reg(dst) = TempA(dst.dtype.base.size, Plain(dst.dtype.base))
BY InstanceTypesArm DEF A!imm_to_reg, TempA

\* What is stored of a constant in that register.
LEMMA StoredTempA ==
  ASSUME Arm, NEW m \in Machines(R), ~m.left, NEW n \in Sizes, NEW v \in Int, NEW first, HoldsTemp(m, first, n, v), NEW at \in Place8,
         NEW second, Leaves(R, Run(m, first), second, {}, Written(Run(m, first).mem, at, n, Unsigned(Run(m, first).reg[16], n)))
  PROVE  Leaves(R, m, first \o second, {16}, Written(m.mem, at, n, v))
<1> DEFINE m1 == Run(m, first)   w == Unsigned(m1.reg[16], n)
<1>1. Prepares(R, m, first, {16}) /\ w = Unsigned(v, n) BY DEF HoldsTemp
<1>2. m1.mem = m.mem BY <1>1, After
<1>3. n \in 0 .. 15 /\ at \in Int /\ at \in Nat BY SizesIn, PlaceValue
<1>4. m.mem \in Mem BY MemIn
<1>5. DOMAIN m.mem \subseteq Int BY <1>4, MemDomain
<1>6. w \in Int /\ Agree(w, v, n) BY <1>1, <1>3, UnsignedRange, AgreeUnsigned
<1> DEFINE mem == m.mem
<1>7. DOMAIN mem \subseteq Int BY <1>5
<1>8. Leaves(R, m1, second, {}, Written(mem, at, n, w)) BY <1>2
<1>9. Leaves(R, m, first, {16}, m.mem) BY <1>1, PreparesLeaves
<1> HIDE DEF mem, w
<1>10. Written(mem, at, n, w) = Written(mem, at, n, v) BY <1>3, <1>6, <1>7, Zenon, WrittenAgree
<1>11. Leaves(R, m1, second, {}, Written(mem, at, n, v)) BY <1>8, <1>10
<1>. QED BY <1>9, <1>11, LeavesThen DEF mem

\* emit_str_imm stores a constant through it.
LEMMA StrImmA ==
  ASSUME Arm, NEW m \in Machines(R), ~m.left, NEW dst, PA(dst) \in R, PA(dst) # 16, NEW n \in Sizes, dst.dtype.base.size = n,
         dst.dtype.base # Comptime, NEW v \in Int, A!MovImmediate(v, Wx(n)), NEW offset \in 0 - 256 .. 255,
         NEW at \in Place8, m.reg[PA(dst)] + offset = at, at + n <= Memory, NEW code, code = A!emit_str_imm(dst, v, offset)
  PROVE  Leaves(R, m, code, {16}, Written(m.mem, at, n, v))
<1> DEFINE b == dst.dtype.base   t == TempA(n, Plain(b))   first == A!emit_mov(t, v)   second == A!emit_str_reg(dst, t, offset)   m1 == Run(m, first)
<1>1. code = first \o second BY ImmRegA DEF A!emit_str_imm
<1>2. UsableA(t) /\ PA(t) = 16 /\ t.rsize = n /\ t.dtype = Plain(b) /\ ~is_addr(t.dtype) BY TempFactsA, PlainNoAddr
<1>3. HoldsTemp(m, first, n, v) BY MovTempA
<1> HIDE DEF first
<1>4. m1 \in Machines(R) /\ ~m1.left /\ m1.mem = m.mem /\ \A r \in R \ {16} : m1.reg[r] = m.reg[r]
  BY <1>3, After DEF HoldsTemp
<1>5. m1.reg[PA(dst)] + offset = at BY <1>4
<1> HIDE DEF m1, t
<1>6. Leaves(R, m1, second, {}, Written(m1.mem, at, t.rsize, Unsigned(m1.reg[PA(t)], t.rsize)))
  BY <1>2, <1>4, <1>5, StrRegA
<1>7. Leaves(R, m1, second, {}, Written(m1.mem, at, n, Unsigned(m1.reg[16], n))) BY <1>2, <1>6
<1> HIDE DEF second
<1>. QED BY <1>1, <1>3, <1>7, StoredTempA DEF m1

\* With a register as an offset.
LEMMA OffsetA ==
  ASSUME Arm, NEW m \in Machines(R), NEW base, PA(base) \in R, NEW index, PA(index) \in R,
         NEW at \in Place8, m.reg[PA(base)] + m.reg[PA(index)] = at
  PROVE  Denotes(m, A!Indexed(base, index, 0), at)
<1> DEFINE h == m.reg[PA(index)]
<1>1. TwoTo[0] = 1 /\ 1 \in Sizes BY TwoToFirst DEF Sizes
<1>2. h \in Int /\ m.reg[PA(base)] \in Int BY NoZeroArm, Operands
<1>3. m.reg[PA(base)] + h * 1 = at /\ m.reg[PA(index)] = h
  <2> HIDE DEF h
  <2>1. h * 1 = h BY <1>2
  <2>. QED BY <2>1 DEF h
<1> HIDE DEF h
<1>. QED BY <1>1, <1>2, <1>3, IndexedA

\* emit_str_regoff stores at an offset in a register.
LEMMA StrRegoffA ==
  ASSUME Arm, NEW m \in Machines(R), ~m.left, NEW dst, PA(dst) \in R, NEW src, UsableA(src), ~is_addr(src.dtype), NEW offset, PA(offset) \in R,
         NEW at \in Place8, m.reg[PA(dst)] + m.reg[PA(offset)] = at, at + src.rsize <= Memory,
         NEW code, code = A!emit_str_regoff(dst, src, offset)
  PROVE  Leaves(R, m, code, {}, Written(m.mem, at, src.rsize, Unsigned(m.reg[PA(src)], src.rsize)))
<1> DEFINE address == A!Indexed(dst, offset, 0)   v == Unsigned(m.reg[PA(src)], src.rsize)   w == Operand(m, Low(PA(src), Wx(src.rsize)))
<1>1. code = A!Store(src, address) BY DEF A!emit_str_regoff
<1>2. Operand(m, address) = at BY OffsetA DEF Denotes
<1>3. w \in Int /\ Agree(w, v, src.rsize) /\ v \in Int BY HeldA
<1>4. Operand(m, Low(PA(src), Wx(src.rsize))) = w /\ src.rsize \in Sizes BY DEF UsableA
<1> HIDE DEF address, v, w
<1>5. Leaves(R, m, code, {}, Written(m.mem, at, src.rsize, v)) BY <1>1, <1>2, <1>3, <1>4, StoreA
<1>. QED BY <1>5 DEF v

\* emit_str_imm_regoff stores a constant at an offset in a register.
LEMMA StrImmRegoffA ==
  ASSUME Arm, NEW m \in Machines(R), ~m.left, NEW dst, PA(dst) \in R, PA(dst) # 16, NEW n \in Sizes, dst.dtype.base.size = n,
         dst.dtype.base # Comptime, NEW v \in Int, A!MovImmediate(v, Wx(n)), NEW offset, PA(offset) \in R, PA(offset) # 16,
         NEW at \in Place8, m.reg[PA(dst)] + m.reg[PA(offset)] = at, at + n <= Memory, NEW code, code = A!emit_str_imm_regoff(dst, v, offset)
  PROVE  Leaves(R, m, code, {16}, Written(m.mem, at, n, v))
<1> DEFINE b == dst.dtype.base   t == TempA(n, Plain(b))   first == A!emit_mov(t, v)   second == A!emit_str_regoff(dst, t, offset)   m1 == Run(m, first)
<1>1. code = first \o second BY ImmRegA DEF A!emit_str_imm_regoff
<1>2. UsableA(t) /\ PA(t) = 16 /\ t.rsize = n /\ t.dtype = Plain(b) /\ ~is_addr(t.dtype) BY TempFactsA, PlainNoAddr
<1>3. HoldsTemp(m, first, n, v) BY MovTempA
<1> HIDE DEF first
<1>4. m1 \in Machines(R) /\ ~m1.left /\ m1.mem = m.mem /\ \A r \in R \ {16} : m1.reg[r] = m.reg[r]
  BY <1>3, After DEF HoldsTemp
<1>5. m1.reg[PA(dst)] + m1.reg[PA(offset)] = at BY <1>4
<1> HIDE DEF m1, t
<1>6. Leaves(R, m1, second, {}, Written(m1.mem, at, t.rsize, Unsigned(m1.reg[PA(t)], t.rsize)))
  BY <1>2, <1>4, <1>5, StrRegoffA
<1>7. Leaves(R, m1, second, {}, Written(m1.mem, at, n, Unsigned(m1.reg[16], n))) BY <1>2, <1>6
<1> HIDE DEF second
<1>. QED BY <1>1, <1>3, <1>7, StoredTempA DEF m1

\* emit_ldr_reg loads from an offset in a register.
LEMMA LdrRegA ==
  ASSUME Arm, NEW m \in Machines(R), ~m.left, NEW dst, UsableA(dst), ~is_addr(dst.dtype), dst.dtype.base.sign \in BOOLEAN,
         NEW src, PA(src) \in R, NEW offset, PA(offset) \in R,
         NEW at \in Place8, m.reg[PA(src)] + m.reg[PA(offset)] = at, at + dst.rsize <= Memory, NEW code, code = A!emit_ldr_reg(dst, src, offset)
  PROVE  Yields(R, m, code, {}, PA(dst), dst.rsize, BytesIn(m.mem, at, dst.rsize))
<1> DEFINE address == A!Indexed(src, offset, 0)
<1>1. code = A!Load(dst, address) BY DEF A!emit_ldr_reg
<1>2. Denotes(m, address, at) BY OffsetA
<1> HIDE DEF address
<1>. QED BY <1>1, <1>2, LoadA

-----------------------------------------------------------------------------
(* The aarch64 listing: elements of arrays.                               *)

\* The number of each kind of register (get_regoff).
LEMMA PlacesA ==
  ASSUME Arm
  PROVE  /\ \A r : Place(r) = PA(r)
         /\ \A i, n, d : PA(Reg("SCRATCH", i, n, d)) = i + 8
         /\ \A i, n, d : PA(Reg("NREG", i, n, d)) = i + 19
         /\ \A i, n, d : PA(Reg("PARAM", i, n, d)) = i
         /\ \A i, n, d : PA(Reg("FRAME", i, n, d)) = 29
         /\ \A i, n, d : PA(Reg("STACK", i, n, d)) = 31
<1>1. \A r : Place(r) = PA(r) BY Zenon DEF Place, PA
<1>2. \A t, i, n, d : Reg(t, i, n, d).reg_type = t /\ Reg(t, i, n, d).offset = i BY DEF Reg
<1> QED BY <1>1, <1>2 DEF PA, A!get_regoff

\* The registers of aarch64.
LEMMA RegistersA ==
  ASSUME Arm
  PROVE  R = 0 .. 4 \union 8 .. 11 \union {16, 29, 31} \union 19 .. 24
BY DEF Arm, R, Class, RegistersOf

\* A register has what it was made of.
LEMMA RegIs == ASSUME NEW t, NEW i, NEW n, NEW d
  PROVE /\ IsReg(Reg(t, i, n, d)) /\ Reg(t, i, n, d).rsize = n /\ Reg(t, i, n, d).dtype = d
        /\ Reg(t, i, n, d).reg_type = t /\ Reg(t, i, n, d).offset = i
BY DEF Reg, IsReg

\* A scratch register that holds an address.
LEMMA ScratchA ==
  ASSUME Arm, NEW i \in 0 .. 3, NEW d
  PROVE  /\ A!ScratchReg(i, 8, d) = Reg("SCRATCH", i, 8, d) /\ UsableA(A!ScratchReg(i, 8, d))
         /\ PA(A!ScratchReg(i, 8, d)) = i + 8 /\ A!ScratchReg(i, 8, d).rsize = 8
<1>1. A!ScratchReg(i, 8, d) = Reg("SCRATCH", i, 8, d) BY InstanceArm DEF A!ScratchReg
<1>2. i + 8 \in R /\ 8 \in Sizes BY RegistersA DEF Sizes
<1>. QED BY <1>1, <1>2, PlacesA, RegIs DEF UsableA

\* The frame pointer.
LEMMA FrameRegA ==
  ASSUME Arm PROVE A!Frame = Reg("FRAME", 0, 8, Plain(NoBase)) /\ UsableA(A!Frame) /\ PA(A!Frame) = 29 /\ A!Frame.rsize = 8
<1>1. A!Frame = Reg("FRAME", 0, 8, Plain(NoBase)) BY InstanceArm, InstanceTypesArm DEF A!Frame
<1>2. 29 \in R /\ 8 \in Sizes BY RegistersA DEF Sizes
<1>. QED BY <1>1, <1>2, PlacesA, RegIs DEF UsableA

\* A place in the frame.
LEMMA FramePlaceA ==
  ASSUME Arm, NEW m \in Machines(R), ~m.left, NEW dst, UsableA(dst), dst.rsize = 8, NEW off \in 1 .. 100,
         NEW at \in Place8, m.reg[29] - off = at, NEW c, c = A!emit_sub(dst, A!Frame, off)
  PROVE  Finds(R, m, c, {PA(dst)}, PA(dst), at)
<1> DEFINE a == A!Use(A!Frame)   p == m.reg[29]
<1>1. UsableA(A!Frame) /\ PA(A!Frame) = 29 /\ A!Frame.rsize = 8 BY FrameRegA
<1>2. off # 0 /\ off \in Int /\ A!AddImmediate(off) BY DEF A!AddImmediate
<1>3. c = A!emit_rri("sub", dst, A!Frame, off) BY <1>2, Zenon DEF A!emit_sub
<1>4. c = A!OneWidth({dst, A!Frame}, A!Op("sub", dst, A!Use(A!Frame), A!Imm(off))) BY <1>2, <1>3, Zenon DEF A!emit_rri
<1>5. 8 \in Sizes BY DEF Sizes
<1>6. c = A!Op("sub", dst, a, Imm(off)) BY <1>1, <1>4, <1>5, OneWidthCode, InstanceArm
<1>7. 8 \in 0 .. 15 /\ p \in Int /\ p \in 0 .. Values(8) - 1 /\ Operand(m, a) = p
  <2>1. p \in Int /\ p \in 0 .. Values(8) - 1 /\ Operand(m, Low(29, 8)) = Unsigned(p, 8) /\ a = Low(29, Wx(8)) BY <1>1, <1>5, FactsA
  <2>2. Wx(8) = 8 BY DEF Wx
  <2>. QED BY <2>1, <2>2, UnsignedSmall
<1>8. Operand(m, Imm(off)) = off BY OperandImm
<1>9. Agree(p, p, dst.rsize) /\ Agree(off, off, dst.rsize) BY DEF Agree
<1>10. p - off = at OBVIOUS
<1> HIDE DEF a, p
<1>11. Yields(R, m, c, {}, PA(dst), dst.rsize, SumOf("sub", p, off)) BY <1>2, <1>6, <1>7, <1>8, <1>9, SumYields
<1>12. SumOf("sub", p, off) = at BY <1>10 DEF SumOf
<1>13. Prepares(R, m, c, {PA(dst)}) /\ Agree(Run(m, c).reg[PA(dst)], at, 8)
  <2>1. {} \union {PA(dst)} = {PA(dst)} OBVIOUS
  <2>. QED BY <1>11, <1>12, <2>1 DEF Yields
<1>14. Run(m, c) \in Machines(R) /\ ~Run(m, c).left BY <1>13, After
<1>15. Run(m, c).reg[PA(dst)] \in 0 .. Values(8) - 1 BY <1>14, FactsA
<1>16. Run(m, c).reg[PA(dst)] = at BY <1>13, <1>15, WordIs
<1>. QED BY <1>13, <1>14, <1>16 DEF Finds

\* An array on the stack or behind a register, and where it is.
FoundA(m, array, place) ==
  /\ IsReg(array)
  /\ \/ array.reg_type = "STACK" /\ array.offset \in 1 .. 100 /\ m.reg[29] - array.offset = place
     \/ array.reg_type # "STACK" /\ PA(array) \in R /\ m.reg[PA(array)] = place
MemA(array) ==
  IF OnStack(array) THEN A!ScratchReg(3, 8, A!dtype_wrap(array.dtype, A!Declarator("ADDR", 1))) ELSE array
ReadyA(array) == IF OnStack(array) THEN A!emit_sub(MemA(array), A!Frame, array.offset) ELSE << >>
ReadiesA(m, c, array, place) ==
  LET m1 == Run(m, c)
  IN  /\ Prepares(R, m, c, {11}) /\ m1 \in Machines(R) /\ ~m1.left /\ m1.mem = m.mem
      /\ PA(MemA(array)) \in R /\ m1.reg[PA(MemA(array))] = place
      /\ \A r \in R \ {11} : m1.reg[r] = m.reg[r]

\* Before an access the place of the array is in a register.
LEMMA ReadyArrayA ==
  ASSUME Arm, NEW m \in Machines(R), ~m.left, NEW array, NEW place \in Place8, FoundA(m, array, place)
  PROVE  ReadiesA(m, ReadyA(array), array, place)
<1> DEFINE c == ReadyA(array)   mem == MemA(array)
<1>1. CASE array.reg_type = "STACK"
  <2>1. OnStack(array) /\ array.offset \in 1 .. 100 /\ m.reg[29] - array.offset = place BY <1>1 DEF OnStack, FoundA
  <2>2. UsableA(mem) /\ PA(mem) = 11 /\ mem.rsize = 8
    <3>1. 3 \in 0 .. 3 /\ 3 + 8 = 11 OBVIOUS
    <3>. QED BY <2>1, <3>1, ScratchA DEF MemA
  <2>3. c = A!emit_sub(mem, A!Frame, array.offset) BY <2>1, Zenon DEF ReadyA
  <2>4. 11 \in R BY <2>2 DEF UsableA
  <2> HIDE DEF c, mem
  <2>5. Finds(R, m, c, {PA(mem)}, PA(mem), place) BY <2>1, <2>2, <2>3, FramePlaceA
  <2>6. Prepares(R, m, c, {11}) /\ Run(m, c).reg[11] = place BY <2>2, <2>5 DEF Finds
  <2>. QED BY <2>2, <2>4, <2>6, After DEF ReadiesA, c, mem
<1>2. CASE array.reg_type # "STACK"
  <2>1. ~OnStack(array) /\ PA(array) \in R /\ m.reg[PA(array)] = place BY <1>2 DEF OnStack, FoundA
  <2>2. c = << >> /\ mem = array BY <2>1 DEF ReadyA, MemA
  <2>3. Run(m, << >>) = m /\ Prepares(R, m, << >>, {11}) BY RunNone, PreparesNone
  <2>. QED BY <2>1, <2>2, <2>3 DEF ReadiesA
<1>. QED BY <1>1, <1>2

IndexA(m, index, h) == h \in {0, 1} /\ PA(index) \in R /\ PA(index) # 11 /\ m.reg[PA(index)] = h
PlaceOf(array, index, n) == A!Indexed(MemA(array), index, A!ShiftOf(n))

\* emit_array_access finds the array and stores or loads the element.
LEMMA AccessCodeA ==
  ASSUME NEW array, NEW index, NEW n \in Sizes, array.dtype.base.size = n
  PROVE  /\ \A src : A!emit_array_access(array, src, index, TRUE) = ReadyA(array) \o A!Store(src, PlaceOf(array, index, n))
         /\ \A dst : A!emit_array_access(dst, array, index, FALSE) = ReadyA(array) \o A!Load(dst, PlaceOf(array, index, n))
<1> DEFINE onStack == array.reg_type = "STACK" /\ array.offset # 0
           mem3 == IF onStack THEN A!ScratchReg(3, 8, A!dtype_wrap(array.dtype, A!Declarator("ADDR", 1))) ELSE array
           c3 == IF onStack THEN A!emit_sub(mem3, A!Frame, array.offset) ELSE << >>
           at3 == A!Indexed(mem3, index, A!ShiftOf(array.dtype.base.size))
<1>1. array.dtype.base.size \in {1, 2, 4, 8} BY DEF Sizes
<1>2. mem3 = MemA(array) BY DEF MemA, OnStack
<1>3. c3 = ReadyA(array) BY DEF ReadyA, MemA, OnStack
<1>4. at3 = PlaceOf(array, index, n) BY <1>2 DEF PlaceOf
<1>5. ASSUME NEW src PROVE A!emit_array_access(array, src, index, TRUE) = c3 \o A!Store(src, at3)
  BY <1>1, Zenon DEF A!emit_array_access
<1>6. ASSUME NEW dst PROVE A!emit_array_access(dst, array, index, FALSE) = c3 \o A!Load(dst, at3)
  BY <1>1, Zenon DEF A!emit_array_access
<1>. QED BY <1>3, <1>4, <1>5, <1>6

\* Where the element is, once the array's place is in a register.
LEMMA PlaceFoundA ==
  ASSUME Arm, NEW m \in Machines(R), ~m.left, NEW array, NEW place \in Place8, FoundA(m, array, place),
         NEW index, NEW h, IndexA(m, index, h), NEW n \in Sizes, NEW at \in Place8, place + h * n = at
  PROVE  /\ ReadiesA(m, ReadyA(array), array, place)
         /\ Denotes(Run(m, ReadyA(array)), PlaceOf(array, index, n), at)
<1> DEFINE m1 == Run(m, ReadyA(array))   mem == MemA(array)
<1>1. ReadiesA(m, ReadyA(array), array, place) BY ReadyArrayA
<1>2. m1 \in Machines(R) /\ PA(mem) \in R /\ m1.reg[PA(mem)] = place /\ m1.reg[PA(index)] = h /\ PA(index) \in R
  BY <1>1 DEF ReadiesA, IndexA
<1>3. h \in Int BY DEF IndexA
<1>4. TwoTo[A!ShiftOf(n)] = n BY ShiftsA DEF Sizes
<1> DEFINE shift == A!ShiftOf(n)
<1> HIDE DEF m1, mem, shift
<1>5. m1.reg[PA(mem)] + h * n = at BY <1>2
<1>6. TwoTo[shift] = n BY <1>4 DEF shift
<1>7. Denotes(m1, A!Indexed(mem, index, shift), at) BY <1>2, <1>3, <1>5, <1>6, IndexedA
<1>. QED BY <1>1, <1>7 DEF PlaceOf, m1, mem, shift

\* emit_array_access stores an element.
LEMMA ArrayStoreA ==
  ASSUME Arm, NEW m \in Machines(R), ~m.left, NEW array, NEW place \in Place8, FoundA(m, array, place),
         NEW index, NEW h, IndexA(m, index, h), NEW n \in Sizes, array.dtype.base.size = n,
         NEW src, UsableA(src), src.rsize = n, ~is_addr(src.dtype), PA(src) # 11,
         NEW at \in Place8, place + h * n = at, at + n <= Memory,
         NEW code, code = A!emit_array_access(array, src, index, TRUE)
  PROVE  Leaves(R, m, code, {11}, Written(m.mem, at, n, Unsigned(m.reg[PA(src)], n)))
<1> DEFINE c1 == ReadyA(array)   m1 == Run(m, c1)   address == PlaceOf(array, index, n)   c2 == A!Store(src, address)
           v == Unsigned(m1.reg[PA(src)], n)   w == Operand(m1, Low(PA(src), Wx(src.rsize)))
<1>1. code = c1 \o c2 BY AccessCodeA
<1>2. ReadiesA(m, c1, array, place) /\ Denotes(m1, address, at) BY PlaceFoundA
<1>3. m1 \in Machines(R) /\ ~m1.left /\ m1.mem = m.mem /\ Prepares(R, m, c1, {11}) BY <1>2 DEF ReadiesA
<1>4. m1.reg[PA(src)] = m.reg[PA(src)]
  <2>1. PA(src) \in R \ {11} BY DEF UsableA
  <2>. QED BY <1>2, <2>1 DEF ReadiesA
<1>5. Operand(m1, address) = at BY <1>2 DEF Denotes
<1>6. Leaves(R, m, c1, {11}, m.mem) BY <1>3, PreparesLeaves
<1> HIDE DEF m1, c1
<1>7. w \in Int /\ Agree(w, v, src.rsize) /\ v \in Int BY <1>3, HeldA
<1>8. Operand(m1, Low(PA(src), Wx(src.rsize))) = w /\ src.rsize \in Sizes BY DEF UsableA
<1> HIDE DEF address, v, w
<1>9. Leaves(R, m1, c2, {}, Written(m.mem, at, n, v)) BY <1>3, <1>5, <1>7, <1>8, StoreA
<1> HIDE DEF c2
<1>10. Leaves(R, m, c1 \o c2, {11}, Written(m.mem, at, n, v)) BY <1>6, <1>9, LeavesThen DEF m1
<1>. QED BY <1>1, <1>4, <1>10 DEF v

\* emit_array_access loads an element.
LEMMA ArrayLoadA ==
  ASSUME Arm, NEW m \in Machines(R), ~m.left, NEW array, NEW place \in Place8, FoundA(m, array, place),
         NEW index, NEW h, IndexA(m, index, h), NEW n \in Sizes, array.dtype.base.size = n,
         NEW dst, UsableA(dst), dst.rsize = n, ~is_addr(dst.dtype), dst.dtype.base.sign \in BOOLEAN,
         NEW at \in Place8, place + h * n = at, at + n <= Memory,
         NEW code, code = A!emit_array_access(dst, array, index, FALSE)
  PROVE  Yields(R, m, code, {11}, PA(dst), n, BytesIn(m.mem, at, n))
<1> DEFINE c1 == ReadyA(array)   m1 == Run(m, c1)   address == PlaceOf(array, index, n)   c2 == A!Load(dst, address)
           v == BytesIn(m.mem, at, n)
<1>1. code = c1 \o c2 BY AccessCodeA
<1>2. ReadiesA(m, c1, array, place) /\ Denotes(m1, address, at) BY PlaceFoundA
<1>3. m1 \in Machines(R) /\ ~m1.left /\ m1.mem = m.mem /\ Prepares(R, m, c1, {11}) BY <1>2 DEF ReadiesA
<1> HIDE DEF m1, c1, address
<1>4. Yields(R, m1, c2, {}, PA(dst), n, BytesIn(m1.mem, at, n)) BY <1>2, <1>3, LoadA
<1>5. Yields(R, m1, c2, {}, PA(dst), n, v) BY <1>3, <1>4
<1> HIDE DEF c2, v
<1>6. Prepares(R, m, c1 \o c2, {11} \union {PA(dst)})
  <2> DEFINE U == {11} \union {PA(dst)}
  <2>1. {11} \subseteq U /\ {} \union {PA(dst)} \subseteq U OBVIOUS
  <2> HIDE DEF U
  <2>. QED BY <1>3, <1>5, <2>1, PreparesThen DEF m1, Yields, U
<1>7. Run(m, c1 \o c2) = Run(m1, c2) BY <1>3, <1>5, RunConcat DEF m1, Yields, Prepares
<1>. QED BY <1>1, <1>5, <1>6, <1>7 DEF Yields, v

\* The powers of two below a byte's values.
LEMMA SmallPowers ==
  /\ TwoTo[0] = 1 /\ TwoTo[1] = 2 /\ TwoTo[2] = 4 /\ TwoTo[3] = 8 /\ TwoTo[4] = 16 /\ TwoTo[5] = 32 /\ TwoTo[6] = 64 /\ TwoTo[7] = 128
<1>1. \A k \in 1 .. 7 : TwoTo[k] = 2 * TwoTo[k - 1]
  <2>1. \A k \in 1 .. 7 : k \in 1 .. 15 * ByteBits BY MachineAssumption
  <2>. QED BY <2>1, TwoToDef
<1>2. 1 \in 1 .. 7 /\ 2 \in 1 .. 7 /\ 3 \in 1 .. 7 /\ 4 \in 1 .. 7 /\ 5 \in 1 .. 7 /\ 6 \in 1 .. 7 /\ 7 \in 1 .. 7
  /\ 1 - 1 = 0 /\ 2 - 1 = 1 /\ 3 - 1 = 2 /\ 4 - 1 = 3 /\ 5 - 1 = 4 /\ 6 - 1 = 5 /\ 7 - 1 = 6 OBVIOUS
<1>. QED BY <1>1, <1>2, TwoToFirst

\* The size of an element is the power of two of its lowest bit.
LEMMA LowestBitA ==
  ASSUME NEW size \in {1, 4, 8}
  PROVE  TwoTo[A!LowestBit(size)] = size
<1> DEFINE P(s) == size % TwoTo[s] = 0 /\ size % TwoTo[s + 1] # 0   bit == CHOOSE s \in 0 .. 6 : P(s)
<1>1. A!LowestBit(size) = bit BY InstanceValuesArm DEF A!LowestBit
<1>2. \A s \in 0 .. 6 : P(s) <=> TwoTo[s] = size
  <2> SUFFICES ASSUME NEW s \in 0 .. 6 PROVE P(s) <=> TwoTo[s] = size OBVIOUS
  <2>1. CASE s = 0 BY <2>1, SmallPowers
  <2>2. CASE s = 1 BY <2>2, SmallPowers
  <2>3. CASE s = 2 BY <2>3, SmallPowers
  <2>4. CASE s = 3 BY <2>4, SmallPowers
  <2>5. CASE s = 4 BY <2>5, SmallPowers
  <2>6. CASE s = 5 BY <2>6, SmallPowers
  <2>7. CASE s = 6 BY <2>7, SmallPowers
  <2>. QED BY <2>1, <2>2, <2>3, <2>4, <2>5, <2>6, <2>7
<1>3. \E s \in 0 .. 6 : P(s)
  <2>1. \E s \in 0 .. 6 : TwoTo[s] = size BY SmallPowers
  <2>. QED BY <1>2, <2>1
<1> HIDE DEF P
<1>4. bit \in 0 .. 6 /\ P(bit) BY <1>3
<1>. QED BY <1>1, <1>2, <1>4

\* An operand of the instruction that scales a register.
LEMMA ScaledA ==
  ASSUME Arm, NEW m \in Machines(R), NEW r, UsableA(r), NEW n \in Sizes, NEW s \in BOOLEAN, NEW times \in Int,
         NEW h, Extend(m.reg[PA(r)], n, s) = h
  PROVE  Operand(m, Scaled(PA(r), n, s, times)) = h * times
<1>1. PA(r) # Zero BY FactsA
<1>2. RegValue(m, PA(r)) = m.reg[PA(r)] BY <1>1 DEF RegValue
<1> DEFINE o == Scaled(PA(r), n, s, times)
<1>3. o.k = "reg" /\ o.r = PA(r) /\ o.n = n /\ o.sign = s /\ o.times = times BY DEF Scaled
<1> HIDE DEF o
<1>4. Simple(m, o) = h * times BY <1>2, <1>3 DEF Simple
<1>5. Operand(m, o) = Simple(m, o) BY <1>3 DEF Operand
<1>. QED BY <1>4, <1>5 DEF o

BaseA(object) == IF object.reg_type = "STACK" THEN A!ScratchReg(0, 8, A!Plain(A!NoBase)) ELSE object
FindBaseA(object) == IF object.reg_type = "STACK" THEN A!emit_sub(BaseA(object), A!Frame, object.offset) ELSE << >>
ScaledIndex(index, times) ==
  IF index.dtype.base.size >= 8 THEN Scaled(PA(index), 8, FALSE, times)
  ELSE Scaled(PA(index), index.dtype.base.size, index.dtype.base.sign, times)
FindsA(m, c, object, place) ==
  LET m1 == Run(m, c)
  IN  /\ Prepares(R, m, c, {8}) /\ m1 \in Machines(R) /\ ~m1.left
      /\ UsableA(BaseA(object)) /\ BaseA(object).rsize = 8 /\ m1.reg[PA(BaseA(object))] = place
      /\ \A r \in R \ {8} : m1.reg[r] = m.reg[r]

\* The place of an array, in the frame or behind a pointer.
LEMMA FindBaseCodeA ==
  ASSUME Arm, NEW m \in Machines(R), ~m.left, NEW object, NEW place \in Place8, FoundA(m, object, place),
         object.reg_type # "STACK" => object.rsize = 8
  PROVE  FindsA(m, FindBaseA(object), object, place)
<1> DEFINE c == FindBaseA(object)   base == BaseA(object)
<1>1. CASE object.reg_type = "STACK"
  <2>1. object.offset \in 1 .. 100 /\ m.reg[29] - object.offset = place BY <1>1 DEF FoundA
  <2>2. UsableA(base) /\ PA(base) = 8 /\ base.rsize = 8
    <3>1. 0 \in 0 .. 3 /\ 0 + 8 = 8 OBVIOUS
    <3>. QED BY <1>1, <3>1, ScratchA DEF BaseA
  <2>3. c = A!emit_sub(base, A!Frame, object.offset) BY <1>1, Zenon DEF FindBaseA
  <2> HIDE DEF c, base
  <2>4. Finds(R, m, c, {PA(base)}, PA(base), place) BY <2>1, <2>2, <2>3, FramePlaceA
  <2>5. Prepares(R, m, c, {8}) /\ Run(m, c).reg[8] = place BY <2>2, <2>4 DEF Finds
  <2>. QED BY <2>2, <2>5, After DEF FindsA, c, base
<1>2. CASE object.reg_type # "STACK"
  <2>1. UsableA(object) /\ m.reg[PA(object)] = place /\ object.rsize = 8 BY <1>2 DEF FoundA, UsableA, Sizes
  <2>2. c = << >> /\ base = object BY <1>2 DEF FindBaseA, BaseA
  <2>3. Run(m, << >>) = m /\ Prepares(R, m, << >>, {8}) BY RunNone, PreparesNone
  <2>. QED BY <2>1, <2>2, <2>3 DEF FindsA
<1>. QED BY <1>1, <1>2

ElemCode(dst, object, index, size) ==
  A!emit_elem_addr(dst, object, index)
    = FindBaseA(object) \o A!Op("add", dst, A!Use(BaseA(object)), ScaledIndex(index, size))

\* emit_elem_addr adds the shifted index to the place of the array.
LEMMA ElemCodeA ==
  ASSUME Arm, NEW dst, UsableA(dst), dst.rsize = 8, NEW object, UsableA(BaseA(object)), BaseA(object).rsize = 8,
         NEW size \in {1, 4, 8}, object.dtype.base.size = size, NEW index
  PROVE  ElemCode(dst, object, index, size)
<1> DEFINE base == IF object.reg_type = "STACK" THEN A!ScratchReg(0, 8, A!Plain(A!NoBase)) ELSE object
           t == index.dtype.base   times == A!TwoTo[A!LowestBit(object.dtype.base.size)]
           pre == IF object.reg_type = "STACK" THEN A!emit_sub(base, A!Frame, object.offset) ELSE << >>
           x == IF t.size >= 8 THEN A!Scaled(A!get_regoff(index), 8, FALSE, times) ELSE A!Scaled(A!get_regoff(index), t.size, t.sign, times)
<1>1. A!emit_elem_addr(dst, object, index) = pre \o A!OneWidth({dst, base}, A!Op("add", dst, A!Use(base), x))
  BY DEF A!emit_elem_addr
<1>2. base = BaseA(object) /\ pre = FindBaseA(object) BY DEF BaseA, FindBaseA
<1>3. times = size BY LowestBitA, InstanceValuesArm
<1>4. x = ScaledIndex(index, size) BY <1>3, InstanceArm, UsePA DEF ScaledIndex
<1> HIDE DEF base, pre, x
<1>5. 8 \in Sizes BY DEF Sizes
<1>6. A!OneWidth({dst, base}, A!Op("add", dst, A!Use(base), x)) = A!Op("add", dst, A!Use(base), x) BY <1>2, <1>5, OneWidthCode
<1>7. A!emit_elem_addr(dst, object, index)
        = FindBaseA(object) \o A!Op("add", dst, A!Use(BaseA(object)), ScaledIndex(index, size))
  BY <1>1, <1>2, <1>4, <1>6
<1>. QED BY <1>7 DEF ElemCode

\* emit_elem_addr computes the address of an element.
LEMMA ElemAddrA ==
  ASSUME Arm, NEW m \in Machines(R), ~m.left, NEW object, NEW place \in Place8, FoundA(m, object, place),
         object.reg_type # "STACK" => object.rsize = 8,
         NEW index, TypedA(index), NEW h \in {0, 1}, m.reg[PA(index)] = h, ExtA(m, index) = h, PA(index) # 8,
         NEW size \in {1, 4, 8}, object.dtype.base.size = size,
         NEW dst, UsableA(dst), dst.rsize = 8,
         NEW at \in Place8, place + h * size = at, NEW code, code = A!emit_elem_addr(dst, object, index)
  PROVE  Yields(R, m, code, {8}, PA(dst), 8, at)
<1> DEFINE c1 == FindBaseA(object)   m1 == Run(m, c1)   base == BaseA(object)   a == A!Use(base)   b == ScaledIndex(index, size)
           c2 == A!Op("add", dst, a, b)   q == h * size
<1>1. FindsA(m, c1, object, place) BY FindBaseCodeA
<1>2. /\ Prepares(R, m, c1, {8}) /\ m1 \in Machines(R) /\ ~m1.left
      /\ UsableA(base) /\ base.rsize = 8 /\ m1.reg[PA(base)] = place
  BY <1>1 DEF FindsA
<1>3. m1.reg[PA(index)] = h
  <2>1. PA(index) \in R \ {8} BY DEF TypedA, UsableA
  <2>. QED BY <1>1, <2>1 DEF FindsA
<1>4. code = c1 \o c2
  <2>1. UsableA(BaseA(object)) /\ BaseA(object).rsize = 8 BY <1>2
  <2>2. ElemCode(dst, object, index, size) BY <2>1, ElemCodeA, Zenon
  <2>. QED BY <2>2, Zenon DEF ElemCode
<1> HIDE DEF m1, c1, base
<1>5. Operand(m1, a) = place /\ place \in Int
  <2>1. 8 \in Sizes /\ Wx(8) = 8 BY DEF Sizes, Wx
  <2>2. a = Low(PA(base), 8) /\ Operand(m1, Low(PA(base), 8)) = Unsigned(place, 8) BY <1>2, <2>1, FactsA
  <2>3. Unsigned(place, 8) = place /\ place \in Int BY PlaceValue DEF Place8
  <2>. QED BY <2>2, <2>3
<1>6. Operand(m1, b) = q
  <2>1. index.dtype.base.size = index.rsize /\ index.rsize \in Sizes /\ index.dtype.base.sign \in BOOLEAN /\ UsableA(index)
        /\ size \in Int
    BY DEF TypedA, UsableA
  <2>2. CASE index.rsize = 8
    <3>1. b = Scaled(PA(index), 8, FALSE, size) BY <2>1, <2>2 DEF ScaledIndex
    <3>2. Extend(h, 8, FALSE) = h
      <4>1. h \in Place8 BY DEF Place8
      <4>. QED BY <4>1, PlaceValue DEF Extend
    <3>3. 8 \in Sizes /\ FALSE \in BOOLEAN BY DEF Sizes
    <3>4. Extend(m1.reg[PA(index)], 8, FALSE) = h BY <1>3, <3>2
    <3> DEFINE s == FALSE   k == 8
    <3>5. s \in BOOLEAN /\ k \in Sizes /\ Extend(m1.reg[PA(index)], k, s) = h /\ b = Scaled(PA(index), k, s, size) BY <3>1, <3>3, <3>4
    <3> HIDE DEF s, k
    <3>. QED BY <1>2, <2>1, <3>5, ScaledA
  <2>3. CASE index.rsize # 8
    <3>0. ~(index.dtype.base.size >= 8) BY <2>1, <2>3 DEF Sizes
    <3>1. b = Scaled(PA(index), index.rsize, index.dtype.base.sign, size) BY <2>1, <3>0 DEF ScaledIndex
    <3>2. Extend(m1.reg[PA(index)], index.rsize, index.dtype.base.sign) = h BY <1>3 DEF ExtA
    <3>. QED BY <1>2, <2>1, <3>1, <3>2, ScaledA
  <2>. QED BY <2>2, <2>3
<1>7. q \in Int /\ place + q = at BY <1>5
<1> HIDE DEF a, b, q
<1>8. Agree(place, place, dst.rsize) /\ Agree(q, q, dst.rsize) BY DEF Agree
<1>9. Yields(R, m1, c2, {}, PA(dst), dst.rsize, SumOf("add", place, q)) BY <1>2, <1>5, <1>6, <1>7, <1>8, SumYields
<1>10. SumOf("add", place, q) = at BY <1>7 DEF SumOf
<1>11. Yields(R, m1, c2, {}, PA(dst), 8, at) BY <1>9, <1>10
<1> HIDE DEF c2
<1>12. Prepares(R, m, c1 \o c2, {8} \union {PA(dst)})
  <2> DEFINE U == {8} \union {PA(dst)}
  <2>1. {8} \subseteq U /\ {} \union {PA(dst)} \subseteq U OBVIOUS
  <2> HIDE DEF U
  <2>. QED BY <1>2, <1>11, <2>1, PreparesThen DEF m1, Yields, U
<1>13. Run(m, c1 \o c2) = Run(m1, c2) BY <1>2, <1>11, RunConcat DEF m1, Yields, Prepares
<1>. QED BY <1>4, <1>11, <1>12, <1>13 DEF Yields

-----------------------------------------------------------------------------
(* The aarch64 listing: objects, piece by piece.                          *)

\* A register of another size is the same register.
LEMMA SizedA ==
  ASSUME Arm, NEW r, UsableA(r), NEW n \in Sizes
  PROVE  /\ UsableA(A!Sized(r, n)) /\ PA(A!Sized(r, n)) = PA(r) /\ A!Sized(r, n).rsize = n
         /\ A!Sized(r, n).dtype = r.dtype
<1>1. A!Sized(r, n) = Sized(r, n) BY InstanceArm
<1>2. /\ IsReg(Sized(r, n)) /\ Sized(r, n).rsize = n /\ Sized(r, n).dtype = r.dtype
      /\ Sized(r, n).reg_type = r.reg_type /\ Sized(r, n).offset = r.offset
  BY SizedReg DEF UsableA
<1>3. PA(Sized(r, n)) = PA(r) BY <1>2 DEF PA, A!get_regoff
<1>. QED BY <1>1, <1>2, <1>3 DEF UsableA

\* What is stored of a register, or of the zero register.
LEMMA StrAnyA ==
  ASSUME Arm, NEW m \in Machines(R), ~m.left, NEW dst, PA(dst) \in R, NEW src, src.rsize \in Sizes, ~is_addr(src.dtype),
         NEW offset \in 0 - 256 .. 255, NEW w \in Int, Operand(m, Low(PA(src), Wx(src.rsize))) = w, NEW v \in Int, Agree(w, v, src.rsize),
         NEW at \in Place8, m.reg[PA(dst)] + offset = at, at + src.rsize <= Memory, NEW code, code = A!emit_str_reg(dst, src, offset)
  PROVE  Leaves(R, m, code, {}, Written(m.mem, at, src.rsize, v))
<1> DEFINE address == A!At_(dst, offset)
<1>1. A!Displacement(A!AccessSize(src), offset) BY NearA
<1>2. code = A!Store(src, address) BY <1>1, Zenon DEF A!emit_str_reg
<1>3. offset \in Int OBVIOUS
<1>4. Operand(m, address) = at BY <1>3, DisplacedA DEF Denotes
<1> HIDE DEF address
<1>. QED BY <1>2, <1>4, StoreA

\* A store of a register is code.
LEMMA StrCodeA == ASSUME NEW base, NEW src, NEW offset PROVE IsCode(A!emit_str_reg(base, src, offset))
<1>1. CASE A!Displacement(A!AccessSize(src), offset) BY <1>1, CodeOne DEF A!emit_str_reg, A!Store
<1>2. CASE ~A!Displacement(A!AccessSize(src), offset) BY <1>2, CodeOne DEF A!emit_str_reg
<1>. QED BY <1>1, <1>2

ZeroIs(r, n) == r.rsize = n /\ ~is_addr(r.dtype) /\ PA(r) = Zero /\ IsReg(r)

\* The zero register at each size.
LEMMA ZeroRegisterA ==
  /\ ZeroIs(A!wzr, 4) /\ ZeroIs(A!xzr, 8) /\ \A n \in Sizes : ZeroIs(A!Sized(A!wzr, n), n)
<1> DEFINE d == Plain(NoBase)
<1>1. A!wzr = Reg("NONE", 0, 4, d) /\ A!xzr = Reg("NONE", 0, 8, d) BY InstanceArm, InstanceTypesArm DEF A!wzr, A!xzr
<1>2. ~is_addr(d) BY PlainNoAddr
<1> HIDE DEF d
<1>3. \A n : ZeroIs(Reg("NONE", 0, n, d), n)
  <2> SUFFICES ASSUME NEW n PROVE ZeroIs(Reg("NONE", 0, n, d), n) OBVIOUS
  <2>1. /\ Reg("NONE", 0, n, d).reg_type = "NONE" /\ Reg("NONE", 0, n, d).rsize = n /\ Reg("NONE", 0, n, d).dtype = d
        /\ IsReg(Reg("NONE", 0, n, d))
    BY RegIs
  <2> DEFINE r == Reg("NONE", 0, n, d)
  <2> HIDE DEF r
  <2>2. PA(r) = Zero BY <2>1, InstanceArm DEF PA, A!get_regoff, r
  <2>. QED BY <1>2, <2>1, <2>2 DEF ZeroIs, r
<1>4. \A n : A!Sized(A!wzr, n) = Reg("NONE", 0, n, d) BY <1>1, InstanceArm DEF Reg, Sized
<1>. QED BY <1>1, <1>3, <1>4

\* The zero register reads as zero.
LEMMA ZeroOperandA ==
  ASSUME NEW m, NEW n \in Sizes PROVE Operand(m, Low(Zero, n)) = 0 /\ Agree(0, 0, n)
<1>1. Unsigned(0, n) = 0
  <2>1. n \in 0 .. 15 BY SizesIn
  <2>2. 0 \in 0 .. Values(n) - 1 BY <2>1, ValuesPositive
  <2>. QED BY <2>1, <2>2, UnsignedSmall
<1> DEFINE u == Unsigned(0, n)
<1>2. Simple(m, Low(Zero, n)) = u * 1 BY DEF Simple, Low, Scaled, RegValue, Extend
<1>3. Operand(m, Low(Zero, n)) = Simple(m, Low(Zero, n)) BY DEF Operand, Low, Scaled
<1> HIDE DEF u
<1>. QED BY <1>1, <1>2, <1>3 DEF u, Agree

\* One more piece of zeros.
LEMMA ZeroPieceA ==
  ASSUME Arm, NEW m \in Machines(R), ~m.left, NEW base, PA(base) \in R,
         NEW offset \in 0 - 100 .. 100, NEW at \in 0 .. 100, m.reg[PA(base)] + offset = at, NEW mem \in Mem,
         NEW b \in 0 .. 16, NEW k \in Sizes, b + k <= 16, at + (b + k) <= Memory, m.mem = Written(mem, at, b, 0),
         NEW code, code = A!emit_str_reg(base, A!Sized(A!wzr, k), offset + b)
  PROVE  Leaves(R, m, code, {}, Written(mem, at, b + k, 0))
<1> DEFINE src == A!Sized(A!wzr, k)   p == offset + b   q == at + b
<1>1. ZeroIs(src, k) BY ZeroRegisterA
<1> HIDE DEF src
<1>2. k \in 1 .. 8 /\ k \in 0 .. 15 /\ b \in Int /\ at \in Int /\ k \in Int /\ offset \in Int BY DEF Sizes
<1>3. m.reg[PA(base)] \in Int BY NoZeroArm, Operands
<1>4. m.reg[PA(base)] + p = q BY <1>2, <1>3
<1>5. q \in Place8 /\ q + k <= Memory /\ p \in 0 - 256 .. 255 BY <1>2, MachineAssumption DEF Place8
<1>6. Operand(m, Low(PA(src), Wx(src.rsize))) = 0 /\ Agree(0, 0, src.rsize)
  <2>1. Wx(k) \in Sizes BY WxFacts
  <2>. QED BY <1>1, <2>1, ZeroOperandA DEF ZeroIs
<1>7. src.rsize \in Sizes /\ ~is_addr(src.dtype) /\ src.rsize = k BY <1>1 DEF ZeroIs
<1>8. code = A!emit_str_reg(base, src, p) BY DEF src
<1> HIDE DEF p, q
<1>9. Leaves(R, m, code, {}, Written(m.mem, q, src.rsize, 0))
  <2> DEFINE z == 0
  <2>1. z \in Int /\ Operand(m, Low(PA(src), Wx(src.rsize))) = z /\ Agree(z, z, src.rsize) BY <1>6
  <2> HIDE DEF z
  <2>2. q + src.rsize <= Memory BY <1>5, <1>7
  <2>3. Leaves(R, m, code, {}, Written(m.mem, q, src.rsize, z)) BY <1>4, <1>5, <1>7, <1>8, <2>1, <2>2, StrAnyA
  <2>. QED BY <2>3 DEF z
<1>10. Written(Written(mem, at, b, 0), at + b, k, 0) = Written(mem, at, b + k, 0)
  <2>1. CASE b = 16 BY <1>2, <2>1
  <2>2. CASE b # 16
    <3>1. b \in 0 .. 15 BY <2>2
    <3>2. Values(b) \in Nat \ {0} BY <3>1, ValuesPositive
    <3> DEFINE V == Values(b)
    <3>3. 0 \div V = 0
      <4> HIDE DEF V
      <4>. QED BY <3>2 DEF V
    <3>4. b + k \in 0 .. 16 /\ b \in Nat /\ k \in Nat /\ 0 \in Int BY <1>2
    <3>5. Written(Written(mem, at, b, 0), at + b, k, 0 \div Values(b)) = Written(mem, at, b + k, 0)
      BY <1>2, <3>4, WrittenParts
    <3>. QED BY <3>3, <3>5
  <2>. QED BY <2>1, <2>2
<1>. QED BY <1>7, <1>9, <1>10 DEF q

\* The pieces of the aarch64 listing are those of the machine.
LEMMA InstanceEachArm ==
  /\ \A n : A!ChunksOf(n) = ChunksOf(n)
  /\ \A s : A!Joined(s) = Joined(s)
  /\ \A t : A!dtype_size(t) = dtype_size(t)
BY Zenon DEF A!ChunksOf, ChunksOf, A!Joined, Joined, A!dtype_size, dtype_size, A!dtype_outer, dtype_outer, A!dtype_unwrap,
   dtype_unwrap, A!PointerSize, PointerSize, A!NoDeclarator, NoDeclarator, A!Declarator, Declarator

\* A register of the program or the zero register, and its eight bytes.
ValueA(m, r, v) == (PA(r) \in R /\ v = m.reg[PA(r)]) \/ (PA(r) = Zero /\ v = 0)

\* What a register or the zero register reads as.
LEMMA ValueOperandA ==
  ASSUME Arm, NEW m \in Machines(R), NEW r, NEW v, ValueA(m, r, v)
  PROVE  Operand(m, Low(PA(r), 8)) = v /\ v \in Int
<1>1. 8 \in Sizes /\ 8 \in 0 .. 15 BY DEF Sizes
<1>2. CASE PA(r) \in R /\ v = m.reg[PA(r)]
  <2>1. Operand(m, Low(PA(r), 8)) = Unsigned(m.reg[PA(r)], 8) /\ v \in 0 .. Values(8) - 1 /\ v \in Int
    BY <1>1, <1>2, NoZeroArm, Operands
  <2>2. Unsigned(v, 8) = v BY <1>1, <2>1, UnsignedSmall
  <2>. QED BY <1>2, <2>1, <2>2
<1>3. CASE PA(r) = Zero /\ v = 0 BY <1>1, <1>3, ZeroOperandA
<1>. QED BY <1>2, <1>3 DEF ValueA

\* emit_stp stores two registers side by side.
LEMMA StpA ==
  ASSUME Arm, NEW m \in Machines(R), ~m.left, NEW base, PA(base) \in R, NEW lo, NEW hi, NEW v, NEW w, ValueA(m, lo, v), ValueA(m, hi, w),
         NEW offset \in 0 - 100 .. 100, offset % 8 = 0, NEW at \in 0 .. 100, m.reg[PA(base)] + offset = at, at + 16 <= Memory,
         NEW code, code = A!emit_stp(lo, hi, base, offset)
  PROVE  Leaves(R, m, code, {}, Written(Written(m.mem, at, 8, v), at + 8, 8, w))
<1> DEFINE a1 == A!At_(base, offset)   a2 == A!At_(base, offset + 8)   l == Low(PA(lo), 8)   h == Low(PA(hi), 8)
           i1 == Ins("store", Zero, 8, l, a1, FALSE)   i2 == Ins("store", Zero, 8, h, a2, FALSE)   m1 == Run(m, <<i1>>)
           p == at + 8   q == offset + 8   mem1 == Written(m.mem, at, 8, v)
<1>1. code = <<i1, i2>>
  <2>1. ~(offset % 8 # 0 \/ offset \notin 0 - 512 .. 504) OBVIOUS
  <2>2. code = <<A!Ins("store", A!Zero, 8, A!Low(A!get_regoff(lo), 8), A!At_(base, offset), FALSE),
                 A!Ins("store", A!Zero, 8, A!Low(A!get_regoff(hi), 8), A!At_(base, offset + 8), FALSE)>>
    BY <2>1, Zenon DEF A!emit_stp
  <2>. QED BY <2>2, InstanceArm, UsePA
<1>2. /\ 8 \in Sizes /\ at \in Place8 /\ p \in Place8 /\ at \in Nat /\ p \in Nat /\ at + 8 <= Memory /\ p + 8 <= Memory
      /\ offset \in Int /\ q \in Int /\ m.reg[PA(base)] \in Int
  <2>1. m.reg[PA(base)] \in Int BY NoZeroArm, Operands
  <2>. QED BY <2>1, MachineAssumption DEF Sizes, Place8
<1>3. m.reg[PA(base)] + q = p BY <1>2
<1>4. Operand(m, l) = v /\ v \in Int BY ValueOperandA
<1>5. Operand(m, a1) = at BY <1>2, DisplacedA DEF Denotes
<1> HIDE DEF a1, l
<1>6. Leaves(R, m, <<i1>>, {}, mem1) BY <1>2, <1>4, <1>5, RunStore
<1> HIDE DEF i1, mem1
<1>7. m1 \in Machines(R) /\ ~m1.left /\ m1.mem = mem1 /\ \A r \in R : m1.reg[r] = m.reg[r] BY <1>6 DEF Leaves
<1>8. ValueA(m1, hi, w) /\ m1.reg[PA(base)] + q = p BY <1>3, <1>7 DEF ValueA
<1> HIDE DEF m1, p, q
<1>9. Operand(m1, h) = w /\ w \in Int BY <1>7, <1>8, ValueOperandA
<1>10. Operand(m1, A!At_(base, q)) = p BY <1>2, <1>7, <1>8, DisplacedA DEF Denotes
<1>11. Operand(m1, a2) = p BY <1>10 DEF q
<1> HIDE DEF a2, h
<1>12. Leaves(R, m1, <<i2>>, {}, Written(mem1, p, 8, w)) BY <1>2, <1>7, <1>9, <1>11, RunStore
<1> HIDE DEF i2
<1>13. Leaves(R, m, <<i1>> \o <<i2>>, {}, Written(mem1, p, 8, w)) BY <1>6, <1>12, LeavesThen DEF m1
<1>. QED BY <1>1, <1>13, PairCode DEF mem1, p

ZeroPiecesA(base, offset) == [c \in Chunk |-> A!emit_str_reg(base, A!Sized(A!wzr, c.n), offset + c.at)]

\* No things have no code.
LEMMA EachNone == ASSUME NEW f(_) PROVE Joined([i \in DOMAIN << >> |-> f(i)]) = << >>
<1>1. [i \in DOMAIN << >> |-> f(i)] = << >> OBVIOUS
<1>. QED BY <1>1, JoinedNone

\* Nothing is copied in no pieces.
LEMMA NoChunks == ChunksOf(0) = << >>
<1> DEFINE G == {<<(<< >>), 0>>}
<1>1. 0 \in 0 .. 16 /\ <<(<< >>), 0>> \in G OBVIOUS
<1>2. ASSUME NEW s \in Seq(Chunk), NEW b \in 0 .. 0, <<s, b>> \in G, NEW k \in Sizes, b + k <= 0
      PROVE  <<s \o <<[n |-> k, at |-> b]>>, b + k>> \in G
  BY <1>2 DEF Sizes
<1> HIDE DEF G
<1>3. <<ChunksOf(0), 0>> \in G BY <1>1, <1>2, ChunksGood
<1>. QED BY <1>3 DEF G

\* emit_zerofill of fewer than sixteen bytes is piece by piece.
LEMMA ZerofillCodeA ==
  ASSUME NEW base, NEW offset \in Int, NEW dtype, NEW n \in 1 .. 15, dtype_size(dtype) = n
  PROVE  A!emit_zerofill(base, offset, dtype) = All(ZeroPiecesA(base, offset), ChunksOf(n))
<1> DEFINE f == ZeroPiecesA(base, offset)   s == ChunksOf(n)   size == A!dtype_size(dtype)   pairs == size \div 16
           steps == [k \in 1 .. pairs |-> 16 * (k - 1)]   t == A!ChunksOf(size % 16)
           first == A!Joined([i \in DOMAIN steps |-> A!emit_stp(A!xzr, A!xzr, base, offset + steps[i])])
           second == A!Joined([i \in DOMAIN t |-> A!emit_str_reg(base, A!Sized(A!wzr, t[i].n), offset + 16 * pairs + t[i].at)])
<1>1. A!emit_zerofill(base, offset, dtype) = first \o second BY DEF A!emit_zerofill, A!Each
<1>2. size = n /\ pairs = 0 /\ size % 16 = n BY InstanceEachArm
<1>3. t = s BY <1>2, InstanceEachArm
<1>4. first = << >>
  <2>1. steps = << >> BY <1>2
  <2> HIDE DEF steps
  <2>2. Joined([i \in DOMAIN << >> |-> A!emit_stp(A!xzr, A!xzr, base, offset + steps[i])]) = << >> BY EachNone
  <2>. QED BY <2>1, <2>2, InstanceEachArm
<1>5. s \in Seq(Chunk)
  <2>1. n \in 0 .. 16 OBVIOUS
  <2>. QED BY <2>1, ChunksSeq
<1>6. offset + 16 * pairs = offset BY <1>2
<1> DEFINE o == offset + 16 * pairs
<1>7. o = offset BY <1>6
<1> HIDE DEF s, t, pairs, first, o
<1>8. [i \in DOMAIN s |-> A!emit_str_reg(base, A!Sized(A!wzr, s[i].n), offset + s[i].at)] = Coded(f, s)
  <2>1. \A i \in DOMAIN s : s[i] \in Chunk BY <1>5
  <2>2. \A c \in Chunk : f[c] = A!emit_str_reg(base, A!Sized(A!wzr, c.n), offset + c.at) BY DEF ZeroPiecesA
  <2> HIDE DEF f
  <2>3. \A i \in DOMAIN s : f[s[i]] = A!emit_str_reg(base, A!Sized(A!wzr, s[i].n), offset + s[i].at) BY <2>1, <2>2
  <2>. QED BY <2>3 DEF Coded
<1>9. second = All(f, s)
  <2>1. second = A!Joined([i \in DOMAIN s |-> A!emit_str_reg(base, A!Sized(A!wzr, s[i].n), o + s[i].at)]) BY <1>3 DEF o
  <2>2. second = Joined([i \in DOMAIN s |-> A!emit_str_reg(base, A!Sized(A!wzr, s[i].n), offset + s[i].at)]) BY <1>7, <2>1, InstanceEachArm
  <2>. QED BY <1>8, <2>2 DEF All
<1>10. << >> \o second = second
  <2>1. IsCode(second)
    <3>1. \A c \in Chunk : IsCode(f[c]) BY StrCodeA DEF ZeroPiecesA
    <3>2. DOMAIN f = Chunk /\ f = [c \in Chunk |-> f[c]] BY DEF ZeroPiecesA
    <3> HIDE DEF f
    <3>3. n \in 0 .. 16 OBVIOUS
    <3> DEFINE G == {x \in Seq(Chunk) \X (0 .. n) : IsCode(All(f, x[1]))}
    <3>4. <<(<< >>), 0>> \in G
      <4>1. << >> \in Seq(Chunk) /\ 0 \in 0 .. n OBVIOUS
      <4>. QED BY <4>1, AllNone, CodeNone
    <3>5. ASSUME NEW u \in Seq(Chunk), NEW b \in 0 .. n, <<u, b>> \in G, NEW k \in Sizes, b + k <= n
          PROVE  <<u \o <<[n |-> k, at |-> b]>>, b + k>> \in G
      <4> DEFINE c == [n |-> k, at |-> b]   v == u \o <<c>>   e == b + k
      <4>1. c \in Chunk BY <3>5 DEF Chunk
      <4> HIDE DEF c
      <4>2. AllThen(f, u, c) BY <3>1, <3>2, <4>1, AllCode
      <4>3. IsCode(All(f, u)) /\ IsCode(f[c]) BY <3>1, <3>5, <4>1
      <4>4. IsCode(All(f, v))
        <5> DEFINE all == All(f, u)   fc == f[c]
        <5>1. IsCode(all) /\ IsCode(fc) BY <4>3
        <5>2. All(f, v) = all \o fc BY <4>2 DEF AllThen
        <5> HIDE DEF all, fc
        <5>. QED BY <5>1, <5>2, CodeConcat
      <4>5. Appended(Chunk, u, c, u \o <<c>>) BY <4>1, AppendOne
      <4>6. v \in Seq(Chunk) /\ e \in 0 .. n BY <3>5, <4>5 DEF Appended, Sizes
      <4> HIDE DEF v, e
      <4>7. <<v, e>> \in G BY <4>4, <4>6
      <4>. QED BY <4>7 DEF v, e, c
    <3>6. <<ChunksOf(n), n>> \in G
      <4> HIDE DEF G
      <4>. QED BY <3>3, <3>4, <3>5, ChunksGood
    <3>. QED BY <1>9, <3>6 DEF s
  <2> HIDE DEF second
  <2>. QED BY <2>1, EmptyAppend DEF IsCode
<1>. QED BY <1>1, <1>4, <1>9, <1>10 DEF s

\* emit_zerofill of fewer than sixteen bytes.
LEMMA ZerofillSmallA ==
  ASSUME Arm, NEW m \in Machines(R), ~m.left, NEW base, PA(base) \in R,
         NEW offset \in 0 - 100 .. 100, NEW at \in 0 .. 100, m.reg[PA(base)] + offset = at,
         NEW n \in 1 .. 15, at + n <= Memory, NEW dtype, dtype_size(dtype) = n,
         NEW code, code = A!emit_zerofill(base, offset, dtype)
  PROVE  Leaves(R, m, code, {}, Written(m.mem, at, n, 0))
<1> DEFINE f == ZeroPiecesA(base, offset)
           G == {x \in Seq(Chunk) \X (0 .. n) : Leaves(R, m, All(f, x[1]), {}, Written(m.mem, at, x[2], 0))}
<1>1. code = All(f, ChunksOf(n)) BY ZerofillCodeA
<1>8. m.mem \in Mem BY MemIn
<1>9. DOMAIN f = Chunk /\ f = [c \in Chunk |-> f[c]] /\ \A c \in Chunk : IsCode(f[c])
  BY StrCodeA DEF ZeroPiecesA
<1>10. \A c \in Chunk : f[c] = A!emit_str_reg(base, A!Sized(A!wzr, c.n), offset + c.at) BY DEF ZeroPiecesA
<1> HIDE DEF f
<1>11. <<(<< >>), 0>> \in G
  <2>1. Leaves(R, m, << >>, {}, m.mem) BY LeavesNone
  <2>2. Written(m.mem, at, 0, 0) = m.mem BY <1>8, WrittenNone
  <2>3. Leaves(R, m, All(f, << >>), {}, Written(m.mem, at, 0, 0)) BY <2>1, <2>2, AllNone
  <2>4. << >> \in Seq(Chunk) /\ 0 \in 0 .. n OBVIOUS
  <2>. QED BY <2>3, <2>4
<1>12. ASSUME NEW s \in Seq(Chunk), NEW b \in 0 .. n, <<s, b>> \in G, NEW k \in Sizes, b + k <= n
       PROVE  <<s \o <<[n |-> k, at |-> b]>>, b + k>> \in G
  <2> DEFINE c == [n |-> k, at |-> b]   m2 == Run(m, All(f, s))
  <2>1. c \in Chunk /\ c.n = k /\ c.at = b BY <1>12 DEF Chunk
  <2> HIDE DEF c
  <2>2. Leaves(R, m, All(f, s), {}, Written(m.mem, at, b, 0)) BY <1>12
  <2>3. m2 \in Machines(R) /\ ~m2.left /\ m2.mem = Written(m.mem, at, b, 0) /\ \A r \in R : m2.reg[r] = m.reg[r]
    BY <2>2 DEF Leaves
  <2>4. m2.reg[PA(base)] + offset = at BY <2>3
  <2> HIDE DEF m2
  <2>5. f[c] = A!emit_str_reg(base, A!Sized(A!wzr, k), offset + b) BY <1>10, <2>1
  <2>6. b \in 0 .. 16 /\ b + k <= 16 /\ at + (b + k) <= Memory
    <3>1. k \in 1 .. 8 /\ b + k <= n /\ Memory \in Nat /\ at + n <= Memory BY MachineAssumption, <1>12 DEF Sizes
    <3>. QED BY <3>1
  <2>7. Leaves(R, m2, f[c], {}, Written(m.mem, at, b + k, 0))
    <3> DEFINE mem == m.mem   fc == f[c]
    <3>1. mem \in Mem /\ m2.mem = Written(mem, at, b, 0) BY <1>8, <2>3
    <3>2. fc = A!emit_str_reg(base, A!Sized(A!wzr, k), offset + b) BY <2>5
    <3>3. m2 \in Machines(R) /\ ~m2.left BY <2>3
    <3> HIDE DEF mem, fc
    <3>4. Leaves(R, m2, fc, {}, Written(mem, at, b + k, 0))
      BY <2>4, <2>6, <3>1, <3>2, <3>3, ZeroPieceA
    <3>. QED BY <3>4 DEF mem, fc
  <2>8. Leaves(R, m, All(f, s) \o f[c], {}, Written(m.mem, at, b + k, 0))
    BY <2>2, <2>7, LeavesThen DEF m2
  <2>9. All(f, s \o <<c>>) = All(f, s) \o f[c]
    <3>1. AllThen(f, s, c) BY <1>9, <2>1, AllCode
    <3>. QED BY <3>1 DEF AllThen
  <2>10. s \o <<c>> \in Seq(Chunk)
    <3>1. Appended(Chunk, s, c, s \o <<c>>) BY <2>1, AppendOne
    <3>. QED BY <3>1 DEF Appended
  <2>11. b + k \in 0 .. n BY <1>12 DEF Sizes
  <2>12. Leaves(R, m, All(f, s \o <<c>>), {}, Written(m.mem, at, b + k, 0)) BY <2>8, <2>9
  <2> DEFINE t == s \o <<c>>   e == b + k
  <2>13. t \in Seq(Chunk) /\ e \in 0 .. n /\ Leaves(R, m, All(f, t), {}, Written(m.mem, at, e, 0)) BY <2>10, <2>11, <2>12
  <2> HIDE DEF t, e
  <2>14. <<t, e>> \in G BY <2>13
  <2>. QED BY <2>14 DEF t, e, c
<1>13. <<ChunksOf(n), n>> \in G
  <2>1. n \in 0 .. 16 OBVIOUS
  <2> HIDE DEF G
  <2>. QED BY <1>11, <1>12, <2>1, ChunksGood
<1>14. Leaves(R, m, All(f, ChunksOf(n)), {}, Written(m.mem, at, n, 0)) BY <1>13
<1>. QED BY <1>1, <1>14

\* emit_zerofill of sixteen bytes is one pair.
LEMMA ZeroPairA ==
  ASSUME Arm, NEW m \in Machines(R), ~m.left, NEW base, PA(base) \in R,
         NEW offset \in 0 - 100 .. 100, offset % 8 = 0, NEW at \in 0 .. 100, m.reg[PA(base)] + offset = at, at + 16 <= Memory,
         NEW dtype, dtype_size(dtype) = 16, NEW code, code = A!emit_zerofill(base, offset, dtype)
  PROVE  Leaves(R, m, code, {}, Written(m.mem, at, 16, 0))
<1> DEFINE size == A!dtype_size(dtype)   pairs == size \div 16
           steps == [k \in 1 .. pairs |-> 16 * (k - 1)]   t == A!ChunksOf(size % 16)
           first == A!Joined([i \in DOMAIN steps |-> A!emit_stp(A!xzr, A!xzr, base, offset + steps[i])])
           second == A!Joined([i \in DOMAIN t |-> A!emit_str_reg(base, A!Sized(A!wzr, t[i].n), offset + 16 * pairs + t[i].at)])
           stp == A!emit_stp(A!xzr, A!xzr, base, offset)
<1>1. code = first \o second BY DEF A!emit_zerofill, A!Each
<1>2. size = 16 /\ pairs = 1 /\ size % 16 = 0 BY InstanceEachArm
<1>3. second = << >>
  <2>1. t = << >> BY <1>2, InstanceEachArm, NoChunks
  <2> HIDE DEF t
  <2>2. Joined([i \in DOMAIN << >> |-> A!emit_str_reg(base, A!Sized(A!wzr, t[i].n), offset + 16 * pairs + t[i].at)]) = << >> BY EachNone
  <2>. QED BY <2>1, <2>2, InstanceEachArm
<1>4. Leaves(R, m, stp, {}, Written(m.mem, at, 16, 0))
  <2> DEFINE z == 0   mem == m.mem   xz == A!xzr
  <2>1. PA(xz) = Zero BY ZeroRegisterA DEF ZeroIs
  <2>2. ValueA(m, xz, z) BY <2>1 DEF ValueA
  <2> HIDE DEF z, xz
  <2>3. Leaves(R, m, A!emit_stp(xz, xz, base, offset), {}, Written(Written(m.mem, at, 8, z), at + 8, 8, z)) BY <2>2, StpA
  <2>4. Written(Written(mem, at, 8, z), at + 8, 8, z) = Written(mem, at, 16, z)
    <3>1. 8 \in 0 .. 15 /\ 8 \in Nat /\ 8 + 8 \in 0 .. 16 /\ 8 + 8 = 16 /\ at \in Int /\ z \in Int BY DEF z
    <3>2. Values(8) \in Nat \ {0} BY <3>1, ValuesPositive
    <3> DEFINE V == Values(8)
    <3>3. z \div V = z
      <4> HIDE DEF V
      <4>. QED BY <3>2 DEF V, z
    <3>4. mem \in Mem BY MemIn
    <3> HIDE DEF mem
    <3>5. Written(Written(mem, at, 8, z), at + 8, 8, z \div Values(8)) = Written(mem, at, 8 + 8, z) BY <3>1, <3>4, WrittenParts
    <3>. QED BY <3>1, <3>3, <3>5
  <2>. QED BY <2>3, <2>4 DEF z, xz
<1>5. IsCode(stp) BY <1>4 DEF Leaves
<1>6. first = stp
  <2>1. steps = <<0>>
    <3>1. steps = [k \in 1 .. 1 |-> 16 * (k - 1)] BY <1>2
    <3>2. 1 .. 1 = {1} /\ 16 * (1 - 1) = 0 OBVIOUS
    <3>3. DOMAIN <<0>> = 1 .. 1 /\ <<0>>[1] = 0 OBVIOUS
    <3>. QED BY <3>1, <3>2, <3>3
  <2> HIDE DEF steps
  <2>2. DOMAIN steps = {1} /\ steps[1] = 0 BY <2>1
  <2>3. offset + steps[1] = offset BY <2>2
  <2> DEFINE codes == [i \in DOMAIN steps |-> A!emit_stp(A!xzr, A!xzr, base, offset + steps[i])]
  <2>4. codes[1] = stp /\ DOMAIN codes = {1}
    <3> HIDE DEF stp
    <3>1. codes[1] = A!emit_stp(A!xzr, A!xzr, base, offset + steps[1]) BY <2>2
    <3>. QED BY <2>2, <2>3, <3>1 DEF stp
  <2>5. codes = [i \in DOMAIN codes |-> codes[i]] OBVIOUS
  <2> HIDE DEF codes, stp
  <2>6. codes = <<stp>>
    <3>1. DOMAIN <<stp>> = {1} /\ <<stp>>[1] = stp /\ <<stp>> = [i \in {1} |-> stp] OBVIOUS
    <3>. QED BY <2>4, <2>5, <3>1
  <2>7. Joined(<<stp>>) = stp BY <1>5, JoinedSingle DEF IsCode
  <2>. QED BY <2>6, <2>7, InstanceEachArm DEF codes
<1> HIDE DEF first, second, stp
<1>7. stp \o << >> = stp BY <1>5, EmptyAppend DEF IsCode
<1>. QED BY <1>1, <1>3, <1>4, <1>6, <1>7

\* emit_zerofill leaves zeros in every byte of the object and no other.
LEMMA ZerofillA ==
  ASSUME Arm, NEW m \in Machines(R), ~m.left, NEW base, PA(base) \in R,
         NEW offset \in 0 - 100 .. 100, offset % 8 = 0, NEW at \in 0 .. 100, m.reg[PA(base)] + offset = at,
         NEW n \in 1 .. 16, at + n <= Memory, NEW dtype, dtype_size(dtype) = n,
         NEW code, code = A!emit_zerofill(base, offset, dtype)
  PROVE  Leaves(R, m, code, {}, Written(m.mem, at, n, 0))
<1>1. CASE n = 16 BY <1>1, ZeroPairA
<1>2. CASE n # 16
  <2>1. n \in 1 .. 15 BY <1>2
  <2>. QED BY <2>1, ZerofillSmallA
<1>. QED BY <1>1, <1>2

ShiftDown(src, k) == A!Op("shr", A!Sized(src, 8), A!Low(A!get_regoff(src), 8), A!Imm(k * ByteBits))
PackedPiecesA(base, src, offset, n) ==
  [c \in Chunk |-> A!emit_str_reg(base, A!Sized(src, c.n), offset + c.at)
                     \o (IF c.at + c.n = n THEN << >> ELSE ShiftDown(src, c.n))]

\* emit_store_packed stores a register piece by piece.
LEMMA PackedCodeA ==
  ASSUME NEW base, NEW offset, NEW src, NEW n \in 0 .. 16
  PROVE  A!emit_store_packed(base, offset, src, n) = All(PackedPiecesA(base, src, offset, n), ChunksOf(n))
<1> DEFINE f == PackedPiecesA(base, src, offset, n)   s == ChunksOf(n)
           shr(k) == A!Op("shr", A!Sized(src, 8), A!Low(A!get_regoff(src), 8), A!Imm(k * ByteBits))
<1>1. s \in Seq(Chunk) BY ChunksSeq
<1>2. A!emit_store_packed(base, offset, src, n) =
        A!Joined([i \in DOMAIN A!ChunksOf(n) |->
              A!emit_str_reg(base, A!Sized(src, A!ChunksOf(n)[i].n), offset + A!ChunksOf(n)[i].at)
              \o (IF A!ChunksOf(n)[i].at + A!ChunksOf(n)[i].n = n THEN << >> ELSE shr(A!ChunksOf(n)[i].n))])
  BY DEF A!emit_store_packed, A!Each
<1>3. A!ChunksOf(n) = s BY InstanceEachArm
<1>5. \A c \in Chunk : f[c] = A!emit_str_reg(base, A!Sized(src, c.n), offset + c.at) \o (IF c.at + c.n = n THEN << >> ELSE shr(c.n))
  BY DEF PackedPiecesA, ShiftDown
<1> HIDE DEF s, f, shr
<1>4. [i \in DOMAIN s |-> A!emit_str_reg(base, A!Sized(src, s[i].n), offset + s[i].at)
                            \o (IF s[i].at + s[i].n = n THEN << >> ELSE shr(s[i].n))] = Coded(f, s)
  <2>1. \A i \in DOMAIN s : s[i] \in Chunk BY <1>1
  <2>3. \A i \in DOMAIN s : f[s[i]] = A!emit_str_reg(base, A!Sized(src, s[i].n), offset + s[i].at)
                            \o (IF s[i].at + s[i].n = n THEN << >> ELSE shr(s[i].n)) BY <2>1, <1>5
  <2>. QED BY <2>3 DEF Coded
<1>. QED BY <1>2, <1>3, <1>4, InstanceEachArm DEF All, f, s

\* The code of one piece: its bytes are stored, those after it move down.
PackedCodeOfA(base, src, offset, k, b, n) ==
  A!emit_str_reg(base, A!Sized(src, k), offset + b) \o (IF b + k = n THEN << >> ELSE ShiftDown(src, k))

\* A shift is code.
LEMMA ShiftCodeA == \A src, k : IsCode(ShiftDown(src, k))
BY CodeOne DEF ShiftDown, A!Op

\* A shift moves the bytes after a piece down.
LEMMA ShiftA ==
  ASSUME Arm, NEW m \in Machines(R), ~m.left, NEW src, UsableA(src), NEW w \in Word, m.reg[PA(src)] = w, NEW k \in 0 .. 8,
         NEW code, code = ShiftDown(src, k)
  PROVE  Finds(R, m, code, {PA(src)}, PA(src), w \div Values(k))
<1> DEFINE d == PA(src)   v == w \div Values(k)   y == k * ByteBits   one == A!Sized(src, 8)
<1>1. 8 \in Sizes /\ Wx(8) = 8 BY DEF Sizes, Wx
<1>2. UsableA(one) /\ PA(one) = d /\ one.rsize = 8 BY <1>1, SizedA
<1> HIDE DEF one
<1>3. code = A!Op("shr", one, Low(d, 8), Imm(y)) BY InstanceArm, UsePA DEF ShiftDown, one
<1>4. w \in Int /\ w \in Nat /\ w \in 0 .. Values(8) - 1 /\ 8 \in 0 .. 15 /\ k \in 0 .. 15 /\ Values(8) \in Nat
  BY ValuesPositive DEF Word
<1>5. Unsigned(w, 8) = w BY <1>4, UnsignedSmall
<1>6. Operand(m, Low(d, 8)) = w /\ Operand(m, Imm(y)) = y BY <1>1, <1>5, FactsA, OperandImm
<1>7. Result(Ins("shr", d, 8, Low(d, 8), Imm(y), FALSE), w, y) = v
  <2>1. TwoTo[y] = Values(k) BY DEF Values
  <2> HIDE DEF y
  <2>2. Result(Ins("shr", d, 8, Low(d, 8), Imm(y), FALSE), w, y) = Unsigned(w, 8) \div TwoTo[y] BY DEF Result, Ins
  <2>. QED BY <2>1, <2>2, <1>5
<1>8. v \in Nat /\ v <= w
  <2>1. Values(k) \in Nat \ {0} BY <1>4, ValuesPositive
  <2> DEFINE V == Values(k)
  <2> HIDE DEF V
  <2>2. w \div V \in Nat /\ w \div V <= w BY <1>4, <2>1 DEF V
  <2>. QED BY <2>2 DEF V
<1>9. v \in Int /\ Agree(v, v, 8) /\ v \in 0 .. Values(8) - 1 /\ "shr" \in Alu
  BY <1>4, <1>8 DEF Agree, Alu
<1> DEFINE a == Low(d, 8)   b == Imm(y)
<1>10. Result(Ins("shr", PA(one), Wx(one.rsize), a, b, FALSE), Operand(m, a), Operand(m, b)) = v /\ Agree(v, v, Wx(one.rsize))
  BY <1>1, <1>2, <1>6, <1>7, <1>9
<1> HIDE DEF d, v, y, a, b
<1>11. code = A!Op("shr", one, a, b) BY <1>3 DEF a, b
<1>12. Computes(R, m, code, {}, PA(one), Wx(one.rsize), v) BY <1>2, <1>9, <1>10, <1>11, OpWide
<1>13. Prepares(R, m, code, {d}) /\ Agree(Run(m, code).reg[d], v, 8)
  <2>1. {} \union {d} = {d} OBVIOUS
  <2>. QED BY <1>1, <1>2, <1>12, <2>1 DEF Computes
<1>14. Run(m, code) \in Machines(R) /\ ~Run(m, code).left BY <1>13, After
<1>15. Run(m, code).reg[d] = v
  <2>1. Run(m, code).reg[d] \in 0 .. Values(8) - 1
    <3>1. d \in R BY DEF d, UsableA
    <3>. QED BY <1>14, <3>1, NoZeroArm, Operands
  <2>2. Unsigned(Run(m, code).reg[d], 8) = Run(m, code).reg[d] BY <1>4, <2>1, UnsignedSmall
  <2>3. Unsigned(v, 8) = v BY <1>4, <1>9, UnsignedSmall
  <2>. QED BY <1>13, <2>2, <2>3 DEF Agree
<1>. QED BY <1>13, <1>14, <1>15 DEF Finds, d, v

\* One more piece of a packed object is stored.
LEMMA PackedPieceA ==
  ASSUME Arm, NEW m \in Machines(R), ~m.left, NEW base, PA(base) \in R, NEW src, UsableA(src), ~is_addr(src.dtype), PA(base) # PA(src),
         NEW offset \in 0 - 100 .. 100, NEW at \in 0 .. 100, m.reg[PA(base)] + offset = at, NEW mem \in Mem, NEW u \in Word,
         NEW n \in 0 .. 8, NEW b \in 0 .. n, NEW k \in Sizes, b + k <= n, at + (b + k) <= Memory,
         m.mem = Written(mem, at, b, u), m.reg[PA(src)] = u \div Values(b),
         NEW code, code = PackedCodeOfA(base, src, offset, k, b, n)
  PROVE  StoredSo(m, code, mem, at, b + k, n, PA(src), u)
<1> DEFINE one == A!Sized(src, k)   w == u \div Values(b)   d == PA(src)
           put == A!emit_str_reg(base, one, offset + b)   m1 == Run(m, put)
           shr == ShiftDown(src, k)
<1>1. UsableA(one) /\ PA(one) = PA(src) /\ one.rsize = k /\ ~is_addr(one.dtype) BY SizedA
<1> HIDE DEF one
<1>2. /\ k \in 1 .. 8 /\ k \in 0 .. 15 /\ k \in Int /\ k \in Nat /\ b \in Int /\ b \in Nat /\ at \in Int /\ offset \in Int
      /\ b \in 0 .. 15 /\ b + k \in 0 .. 15 /\ b + k \in 0 .. 16
  BY DEF Sizes
<1>3. Zero \notin R BY NoZeroArm
<1>4. m.reg[PA(base)] \in Int BY <1>3, Operands
<1>5. m.reg[PA(base)] + (offset + b) = at + b BY <1>2, <1>4
<1>6. at + b \in Place8 /\ (at + b) + k <= Memory BY <1>2, MachineAssumption DEF Place8
<1>7. Values(b) \in Nat \ {0} /\ Values(k) \in Nat \ {0} /\ Values(8) \in Nat \ {0} BY <1>2, ValuesPositive
<1>8. u \in Nat /\ w \in Nat /\ w <= u /\ w \in Int /\ w \in Word
  <2> DEFINE V == Values(b)
  <2>1. u \in Nat /\ u <= Values(8) - 1 BY <1>7 DEF Word
  <2> HIDE DEF V
  <2>2. u \div V \in Nat /\ u \div V <= u BY <1>7, <2>1 DEF V
  <2>. QED BY <1>7, <2>1, <2>2 DEF V, Word
<1>9. m.reg[PA(one)] = w BY <1>1
<1>10. Leaves(R, m, put, {}, Written(m.mem, at + b, k, Unsigned(w, k)))
  <2>1. offset + b \in 0 - 256 .. 255 BY <1>2
  <2>2. (at + b) + one.rsize <= Memory BY <1>1, <1>6
  <2>3. Leaves(R, m, A!emit_str_reg(base, one, offset + b), {}, Written(m.mem, at + b, one.rsize, Unsigned(m.reg[PA(one)], one.rsize)))
    BY <1>1, <1>5, <1>6, <2>1, <2>2, StrRegA
  <2>. QED BY <1>1, <1>9, <2>3
<1>11. Written(m.mem, at + b, k, Unsigned(w, k)) = Written(mem, at, b + k, u)
  <2>1. Agree(Unsigned(w, k), w, k) BY <1>2, <1>8, AgreeUnsigned
  <2>2. m.mem \in Mem BY MemIn
  <2>3. DOMAIN m.mem \subseteq Int BY <2>2, MemDomain
  <2>4. Unsigned(w, k) \in Int BY <1>2, <1>8, UnsignedRange
  <2>5. at + b \in Int BY <1>2
  <2>6. Written(m.mem, at + b, k, Unsigned(w, k)) = Written(m.mem, at + b, k, w)
    <3> DEFINE p == at + b   x == Unsigned(w, k)   mem0 == m.mem
    <3>1. p \in Int /\ x \in Int /\ Agree(x, w, k) /\ DOMAIN mem0 \subseteq Int /\ k \in 0 .. 15 /\ w \in Int
      BY <1>2, <1>8, <2>1, <2>3, <2>4, <2>5
    <3> HIDE DEF p, x, mem0
    <3>2. Written(mem0, p, k, x) = Written(mem0, p, k, w) BY <3>1, WrittenAgree
    <3>. QED BY <3>2 DEF p, x, mem0
  <2>7. u \in Int BY <1>8
  <2>8. Written(Written(mem, at, b, u), at + b, k, u \div Values(b)) = Written(mem, at, b + k, u)
    BY <1>2, <2>7, WrittenParts
  <2>. QED BY <2>6, <2>8
<1> HIDE DEF put, w
<1>12. m1 \in Machines(R) /\ ~m1.left /\ m1.mem = Written(mem, at, b + k, u) /\ m1.reg[d] = w
  <2>1. d \in R BY DEF UsableA
  <2>. QED BY <1>10, <1>11, <2>1 DEF Leaves, w
<1>13. CASE b + k = n
  <2>1. code = put \o << >> BY <1>13 DEF PackedCodeOfA, put, one
  <2>2. IsCode(put) /\ put \o << >> = put
    <3>1. IsCode(put) BY <1>10 DEF Leaves
    <3>. QED BY <3>1, EmptyAppend DEF IsCode
  <2>3. Leaves(R, m, code, {d}, Written(mem, at, b + k, u)) BY <1>10, <1>11, <2>1, <2>2 DEF Leaves
  <2>. QED BY <1>2, <1>13, <2>3 DEF StoredSo
<1>14. CASE b + k # n
  <2>1. code = put \o shr BY <1>14 DEF PackedCodeOfA, put, one
  <2> HIDE DEF m1
  <2>2. Finds(R, m1, shr, {d}, d, w \div Values(k))
    <3>1. k \in 0 .. 8 BY <1>2
    <3>. QED BY <1>8, <1>12, <3>1, ShiftA
  <2> HIDE DEF shr, d
  <2>3. Leaves(R, m1, shr, {d}, m1.mem) BY <1>12, <2>2, PreparesLeaves DEF Finds
  <2>4. Leaves(R, m, put \o shr, {d}, Written(mem, at, b + k, u))
    BY <1>10, <1>11, <1>12, <2>3, LeavesThen DEF m1
  <2>5. Run(m, put \o shr) = Run(m1, shr)
    <3>1. IsCode(put) /\ IsCode(shr) BY <1>10, <2>3 DEF Leaves
    <3>. QED BY <3>1, RunConcat DEF m1
  <2>6. w \div Values(k) = u \div Values(b + k)
    <3>1. (u \div Values(b)) \div Values(k) = u \div (Values(b) * Values(k))
      <4>1. u \in Int BY <1>8
      <4>. QED BY <1>7, <4>1, DivDiv
    <3>2. Values(b + k) = Values(b) * Values(k) BY <1>2, ValuesSum
    <3>. QED BY <3>1, <3>2 DEF w
  <2>7. Run(m, code).reg[d] = u \div Values(b + k) BY <2>1, <2>2, <2>5, <2>6 DEF Finds
  <2>. QED BY <2>1, <2>4, <2>7 DEF StoredSo, d
<1>. QED BY <1>13, <1>14

\* emit_store_packed stores the low n bytes of a register.
LEMMA StorePackedA ==
  ASSUME Arm, NEW m \in Machines(R), ~m.left, NEW base, PA(base) \in R, NEW src, UsableA(src), ~is_addr(src.dtype), PA(base) # PA(src),
         NEW offset \in 0 - 100 .. 100, NEW at \in 0 .. 100, m.reg[PA(base)] + offset = at, NEW n \in 1 .. 8, at + n <= Memory,
         NEW u, u = m.reg[PA(src)], NEW code, code = A!emit_store_packed(base, offset, src, n)
  PROVE  Leaves(R, m, code, {PA(src)}, Written(m.mem, at, n, u))
<1> DEFINE f == PackedPiecesA(base, src, offset, n)   d == PA(src)
           G == {x \in Seq(Chunk) \X (0 .. n) : StoredSo(m, All(f, x[1]), m.mem, at, x[2], n, d, u)}
<1>1. code = All(f, ChunksOf(n))
  <2>1. n \in 0 .. 16 OBVIOUS
  <2>. QED BY <2>1, PackedCodeA
<1>3. Zero \notin R BY NoZeroArm
<1>4. d \in R BY DEF UsableA
<1>5. u \in Word BY <1>3, <1>4, Operands DEF Word
<1>6. u \in Nat BY <1>5 DEF Word
<1>8. m.mem \in Mem BY MemIn
<1>9. DOMAIN f = Chunk /\ f = [c \in Chunk |-> f[c]] /\ \A c \in Chunk : IsCode(f[c])
  <2>1. \A c \in Chunk : IsCode(f[c])
    <3> SUFFICES ASSUME NEW c \in Chunk PROVE IsCode(f[c]) OBVIOUS
    <3> DEFINE put == A!emit_str_reg(base, A!Sized(src, c.n), offset + c.at)   shr == ShiftDown(src, c.n)
    <3>1. f[c] = put \o (IF c.at + c.n = n THEN << >> ELSE shr) BY DEF PackedPiecesA
    <3>2. IsCode(put) /\ IsCode(shr) /\ IsCode(<< >>) BY StrCodeA, ShiftCodeA, CodeNone
    <3> HIDE DEF put, shr, f
    <3>3. CASE c.at + c.n = n BY <3>1, <3>2, <3>3, CodeConcat
    <3>4. CASE c.at + c.n # n BY <3>1, <3>2, <3>4, CodeConcat
    <3>. QED BY <3>3, <3>4
  <2>2. DOMAIN f = Chunk /\ f = [c \in Chunk |-> f[c]] BY DEF PackedPiecesA
  <2>. QED BY <2>1, <2>2
<1>10. \A c \in Chunk : f[c] = PackedCodeOfA(base, src, offset, c.n, c.at, n) BY DEF PackedPiecesA, PackedCodeOfA
<1> HIDE DEF f
<1>11. <<(<< >>), 0>> \in G
  <2>1. Leaves(R, m, << >>, {d}, m.mem) BY LeavesNone
  <2>2. Written(m.mem, at, 0, u) = m.mem BY <1>8, WrittenNone
  <2>3. Leaves(R, m, All(f, << >>), {d}, Written(m.mem, at, 0, u)) BY <2>1, <2>2, AllNone
  <2>4. << >> \in Seq(Chunk) /\ 0 \in 0 .. n OBVIOUS
  <2>5. Run(m, All(f, << >>)).reg[d] = u \div Values(0)
    <3>1. Run(m, All(f, << >>)) = m BY AllNone, RunNone
    <3>. QED BY <3>1, <1>6, ValuesNone
  <2>. QED BY <2>3, <2>4, <2>5 DEF StoredSo
<1>12. ASSUME NEW s \in Seq(Chunk), NEW b \in 0 .. n, <<s, b>> \in G, NEW k \in Sizes, b + k <= n
       PROVE  <<s \o <<[n |-> k, at |-> b]>>, b + k>> \in G
  <2> DEFINE c == [n |-> k, at |-> b]   m2 == Run(m, All(f, s))   mem == m.mem   fc == f[c]   t == s \o <<c>>   e == b + k
  <2>1. c \in Chunk /\ c.n = k /\ c.at = b BY <1>12 DEF Chunk
  <2> HIDE DEF c
  <2>2. Leaves(R, m, All(f, s), {d}, Written(m.mem, at, b, u)) /\ m2.reg[d] = u \div Values(b)
    <3>1. StoredSo(m, All(f, s), m.mem, at, b, n, d, u) BY <1>12
    <3>2. b < n BY <1>12 DEF Sizes
    <3>. QED BY <3>1, <3>2 DEF StoredSo
  <2>3. m2 \in Machines(R) /\ ~m2.left /\ m2.mem = Written(mem, at, b, u) /\ \A r \in R \ {d} : m2.reg[r] = m.reg[r]
    BY <2>2 DEF Leaves
  <2>4. m2.reg[PA(base)] + offset = at BY <2>3
  <2>5. fc = PackedCodeOfA(base, src, offset, k, b, n) BY <1>10, <2>1
  <2>6. n \in 0 .. 8 /\ at + (b + k) <= Memory BY MachineAssumption, <1>12 DEF Sizes
  <2>7. StoredSo(m2, fc, mem, at, b + k, n, PA(src), u)
    <3>1. mem \in Mem BY <1>8
    <3> HIDE DEF mem, m2, fc
    <3>. QED BY <1>5, <1>12, <2>2, <2>3, <2>4, <2>5, <2>6, <3>1, PackedPieceA
  <2>8. All(f, t) = All(f, s) \o fc
    <3>1. AllThen(f, s, c) BY <1>9, <2>1, AllCode
    <3>. QED BY <3>1 DEF AllThen
  <2>9. t \in Seq(Chunk)
    <3>1. Appended(Chunk, s, c, s \o <<c>>) BY <2>1, AppendOne
    <3>. QED BY <3>1 DEF Appended
  <2>10. e \in 0 .. n BY <1>12 DEF Sizes
  <2> HIDE DEF fc, mem
  <2>11. Leaves(R, m, All(f, s) \o fc, {d}, Written(m.mem, at, e, u))
    <3>1. Leaves(R, m2, fc, {d}, Written(mem, at, e, u)) BY <2>7 DEF StoredSo
    <3>. QED BY <2>2, <3>1, LeavesThen DEF mem
  <2>12. e < n => Run(m, All(f, t)).reg[d] = u \div Values(e)
    <3>1. IsCode(fc) /\ IsCode(All(f, s)) BY <2>2, <2>7 DEF StoredSo, Leaves
    <3> DEFINE so_far == All(f, s)   all == All(f, t)
    <3>2. all = so_far \o fc /\ IsCode(so_far) BY <2>8, <3>1
    <3> HIDE DEF so_far, all
    <3>3. Run(m, so_far \o fc) = Run(Run(m, so_far), fc) BY <3>1, <3>2, RunConcat
    <3>4. Run(m, All(f, t)) = Run(m2, fc) BY <3>2, <3>3 DEF so_far, all
    <3>. QED BY <2>7, <3>4 DEF StoredSo
  <2>13. StoredSo(m, All(f, t), m.mem, at, e, n, d, u)
    <3> HIDE DEF e, t
    <3>. QED BY <2>8, <2>11, <2>12 DEF StoredSo
  <2> HIDE DEF t, e
  <2>14. <<t, e>> \in G BY <2>9, <2>10, <2>13
  <2>. QED BY <2>14 DEF t, e, c
<1>13. <<ChunksOf(n), n>> \in G
  <2>1. n \in 0 .. 16 OBVIOUS
  <2> HIDE DEF G
  <2>. QED BY <1>11, <1>12, <2>1, ChunksGood
<1>14. Leaves(R, m, All(f, ChunksOf(n)), {d}, Written(m.mem, at, n, u)) BY <1>13 DEF StoredSo
<1>. QED BY <1>1, <1>14

PartA(m, r, n, written) == IF written THEN Unsigned(m.reg[PA(r)], n) ELSE 0

\* emit_store_eightbytes of one part.
LEMMA LowPartA ==
  ASSUME Arm, NEW m \in Machines(R), ~m.left, NEW base, PA(base) \in R, NEW lo, UsableA(lo), ~is_addr(lo.dtype),
         NEW written \in BOOLEAN, NEW offset \in 0 - 100 .. 100, NEW at \in 0 .. 100, m.reg[PA(base)] + offset = at,
         at + lo.rsize <= Memory, NEW hi, NEW hi_written,
         NEW code, code = A!emit_store_eightbytes(base, offset, lo, written, hi, hi_written, FALSE)
  PROVE  Leaves(R, m, code, {}, Written(m.mem, at, lo.rsize, PartA(m, lo, lo.rsize, written)))
<1> DEFINE none == [lo EXCEPT !.reg_type = "NONE"]
<1>1. code = A!emit_str_reg(base, IF written THEN lo ELSE none, offset) BY Zenon DEF A!emit_store_eightbytes
<1>2. offset \in 0 - 256 .. 255 /\ at \in Place8 BY DEF Place8
<1>3. CASE written
  <2>1. code = A!emit_str_reg(base, lo, offset) BY <1>1, <1>3
  <2>2. Leaves(R, m, code, {}, Written(m.mem, at, lo.rsize, Unsigned(m.reg[PA(lo)], lo.rsize))) BY <1>2, <2>1, StrRegA
  <2>. QED BY <1>3, <2>2 DEF PartA
<1>4. CASE ~written
  <2>1. code = A!emit_str_reg(base, none, offset) BY <1>1, <1>4
  <2>2. none.rsize = lo.rsize /\ none.dtype = lo.dtype /\ none.reg_type = "NONE" BY DEF UsableA, IsReg
  <2> HIDE DEF none
  <2>3. PA(none) = Zero BY <2>2, InstanceArm DEF PA, A!get_regoff
  <2>4. none.rsize \in Sizes /\ ~is_addr(none.dtype) /\ Wx(none.rsize) \in Sizes
    <3>1. lo.rsize \in Sizes BY DEF UsableA
    <3>. QED BY <2>2, <3>1, WxFacts
  <2> DEFINE z == 0
  <2>5. Operand(m, Low(PA(none), Wx(none.rsize))) = z /\ z \in Int /\ Agree(z, z, none.rsize)
    BY <2>3, <2>4, ZeroOperandA
  <2> HIDE DEF z
  <2>6. Leaves(R, m, code, {}, Written(m.mem, at, none.rsize, z)) BY <1>2, <2>1, <2>2, <2>4, <2>5, StrAnyA
  <2>. QED BY <1>4, <2>2, <2>6 DEF PartA, z
<1>. QED BY <1>3, <1>4

WholePart(m, r, written) == IF written THEN m.reg[PA(r)] ELSE 0
PairReady(m, base, offset, lo, hi, at) ==
  /\ m \in Machines(R) /\ ~m.left /\ PA(base) \in R /\ UsableA(lo) /\ UsableA(hi)
  /\ offset \in 0 - 100 .. 100 /\ offset % 8 = 0 /\ at \in 0 .. 100
  /\ m.reg[PA(base)] + offset = at /\ at + 16 <= Memory
PairLeaves(m, base, offset, lo, lo_written, hi, hi_written, at) ==
  Leaves(R, m, A!emit_store_eightbytes(base, offset, lo, lo_written, hi, hi_written, TRUE), {},
         Written(Written(m.mem, at, 8, WholePart(m, lo, lo_written)), at + 8, 8, WholePart(m, hi, hi_written)))

\* emit_store_eightbytes of both parts is one pair.
LEMMA BothPartsA ==
  ASSUME Arm, NEW m, NEW base, NEW offset, NEW lo, NEW hi, NEW at, PairReady(m, base, offset, lo, hi, at),
         NEW lo_written \in BOOLEAN, NEW hi_written \in BOOLEAN
  PROVE  PairLeaves(m, base, offset, lo, lo_written, hi, hi_written, at)
<1> DEFINE code == A!emit_store_eightbytes(base, offset, lo, lo_written, hi, hi_written, TRUE)
           one == IF lo_written THEN lo ELSE A!xzr   two == IF hi_written THEN hi ELSE A!xzr
           v == WholePart(m, lo, lo_written)   w == WholePart(m, hi, hi_written)
<1>0. /\ m \in Machines(R) /\ ~m.left /\ PA(base) \in R /\ UsableA(lo) /\ UsableA(hi)
      /\ offset \in 0 - 100 .. 100 /\ offset % 8 = 0 /\ at \in 0 .. 100
      /\ m.reg[PA(base)] + offset = at /\ at + 16 <= Memory
  BY Zenon DEF PairReady
<1>1. code = A!emit_stp(one, two, base, offset) BY Zenon DEF A!emit_store_eightbytes
<1>2. PA(A!xzr) = Zero BY ZeroRegisterA DEF ZeroIs
<1>3. ValueA(m, one, v)
  <2>1. CASE lo_written BY <1>0, <2>1 DEF ValueA, WholePart, UsableA
  <2>2. CASE ~lo_written BY <1>0, <1>2, <2>2 DEF ValueA, WholePart
  <2>. QED BY <2>1, <2>2
<1>4. ValueA(m, two, w)
  <2>1. CASE hi_written BY <1>0, <2>1 DEF ValueA, WholePart, UsableA
  <2>2. CASE ~hi_written BY <1>0, <1>2, <2>2 DEF ValueA, WholePart
  <2>. QED BY <2>1, <2>2
<1> HIDE DEF code, one, two, v, w
<1>5. Leaves(R, m, code, {}, Written(Written(m.mem, at, 8, v), at + 8, 8, w)) BY <1>0, <1>1, <1>3, <1>4, StpA
<1>. QED BY <1>5, Zenon DEF PairLeaves, code, v, w
=============================================================================
