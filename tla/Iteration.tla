------------------------------ MODULE Iteration ------------------------------
(***************************************************************************)
(* Induction on the natural numbers in a form the provers can use, and the *)
(* existence of the functions a LET defines by recursion on a number.      *)
(*                                                                         *)
(* The library states induction for a predicate P(_), which no installed   *)
(* prover instantiates.  A set in the place of the predicate does as well: *)
(* S == {n \in Nat : P(n)}.                                                *)
(***************************************************************************)
EXTENDS Integers, WellFoundedInduction, TLAPS

\* A non-empty set of naturals has a least element.
LEMMA NatLeast ==
  ASSUME NEW T \in SUBSET Nat, T # {}
  PROVE  \E x \in T : \A y \in T : x <= y
<1>1. \E x \in T : \A y \in T : ~ (<<y, x>> \in OpToRel(<, Nat))
  BY NatLessThanWellFounded, WFMin
<1>2. PICK x \in T : \A y \in T : ~ (<<y, x>> \in OpToRel(<, Nat))
  BY <1>1
<1>3. \A y \in T : ~ (y < x)
  BY <1>2 DEF OpToRel
<1>4. x \in Int /\ \A y \in T : y \in Int
  OBVIOUS
<1> QED
  BY <1>3, <1>4

\* A set that contains 0 and the successor of each of its naturals contains
\* every natural.
LEMMA NatInduct ==
  ASSUME NEW S, 0 \in S, \A n \in Nat : n \in S => n + 1 \in S
  PROVE  \A n \in Nat : n \in S
<1> SUFFICES ASSUME Nat \ S # {} PROVE FALSE
  OBVIOUS
<1>1. PICK x \in Nat \ S : \A y \in Nat \ S : x <= y
  BY NatLeast
<1>2. x # 0 /\ x - 1 \in Nat
  BY <1>1
<1>3. x - 1 \in S
  BY <1>1, <1>2
<1> QED
  BY <1>1, <1>2, <1>3

\* The iterates of a function g from x, first over an initial segment.
Iterates(n, S, x, g) ==
  {h \in [0 .. n -> S] : h[0] = x /\ \A i \in 1 .. n : h[i] = g[h[i - 1]]}

\* There are n iterates, for every n.
LEMMA IteratesExist ==
  ASSUME NEW S, NEW x \in S, NEW g \in [S -> S]
  PROVE  \A n \in Nat : Iterates(n, S, x, g) # {}
<1> DEFINE Good == {n \in Nat : Iterates(n, S, x, g) # {}}
<1>1. 0 \in Good
  <2>1. [i \in 0 .. 0 |-> x] \in Iterates(0, S, x, g)
    BY DEF Iterates
  <2> QED
    BY <2>1
<1>2. ASSUME NEW n \in Nat, n \in Good PROVE n + 1 \in Good
  <2>1. PICK h \in Iterates(n, S, x, g) : TRUE
    BY <1>2
  <2>2. [i \in 0 .. n + 1 |-> IF i = n + 1 THEN g[h[n]] ELSE h[i]]
          \in Iterates(n + 1, S, x, g)
    BY <2>1 DEF Iterates
  <2> QED
    BY <2>2
<1>3. \A n \in Nat : n \in Good
  <2> HIDE DEF Good
  <2> QED
    BY <1>1, <1>2, NatInduct
<1> QED
  BY <1>3

\* Two lists of iterates agree as far as the shorter one goes.
LEMMA IteratesAgree ==
  ASSUME NEW S, NEW x \in S, NEW g \in [S -> S],
         NEW n \in Nat, NEW m \in 0 .. n,
         NEW h \in Iterates(n, S, x, g), NEW k \in Iterates(m, S, x, g)
  PROVE  \A i \in 0 .. m : h[i] = k[i]
<1> DEFINE E == {i \in Nat : i \in 0 .. m => h[i] = k[i]}
<1>1. 0 \in E
  BY DEF Iterates
<1>2. \A i \in Nat : i \in E => i + 1 \in E
  <2> SUFFICES ASSUME NEW i \in Nat, i \in E, i + 1 \in 0 .. m PROVE h[i + 1] = k[i + 1]
    OBVIOUS
  <2>1. i \in 0 .. m /\ i + 1 \in 1 .. m /\ i + 1 \in 1 .. n /\ (i + 1) - 1 = i
    OBVIOUS
  <2> QED
    BY <2>1 DEF Iterates
<1>3. \A i \in Nat : i \in E
  <2> HIDE DEF E
  <2> QED
    BY <1>1, <1>2, NatInduct
<1> QED
  BY <1>3

\* Iterating without end: the recursion equation has a solution on Nat.
LEMMA IterationExists ==
  ASSUME NEW S, NEW x \in S, NEW g \in [S -> S]
  PROVE  \E f \in [Nat -> S] : f[0] = x /\ \A n \in Nat \ {0} : f[n] = g[f[n - 1]]
<1> DEFINE c(n) == CHOOSE h \in Iterates(n, S, x, g) : TRUE
           f == [n \in Nat |-> c(n)[n]]
<1>1. ASSUME NEW n \in Nat PROVE c(n) \in Iterates(n, S, x, g)
  BY IteratesExist
<1> HIDE DEF c
<1>2. ASSUME NEW n \in Nat PROVE c(n)[n] \in S
  BY <1>1 DEF Iterates
<1>3. f \in [Nat -> S]
  BY <1>2
<1>4. f[0] = x
  BY <1>1 DEF Iterates
<1>5. ASSUME NEW n \in Nat \ {0} PROVE f[n] = g[f[n - 1]]
  <2>1. n \in Nat /\ n - 1 \in Nat /\ n \in 1 .. n /\ n - 1 \in 0 .. n /\ n - 1 \in 0 .. (n - 1)
    OBVIOUS
  <2>2. c(n) \in Iterates(n, S, x, g) /\ c(n - 1) \in Iterates(n - 1, S, x, g)
    BY <1>1, <2>1
  <2>3. \A i \in 0 .. (n - 1) : c(n)[i] = c(n - 1)[i]
    BY <2>1, <2>2, IteratesAgree
  <2>4. c(n)[n - 1] = c(n - 1)[n - 1]
    BY <2>1, <2>3
  <2>5. c(n)[n] = g[c(n)[n - 1]]
    BY <2>1, <2>2 DEF Iterates
  <2> QED
    BY <2>1, <2>4, <2>5
<1> HIDE DEF f
<1> QED
  BY <1>3, <1>4, <1>5

\* The same, over 0 .. n, for a step that depends on its number.
FoldSteps(n, S, x, g) ==
  {f \in [0 .. n -> S] : f[0] = x /\ \A i \in 1 .. n : f[i] = g[<<i, f[i - 1]>>]}

LEMMA FoldStepsExist ==
  ASSUME NEW S, NEW x \in S, NEW m \in Nat, NEW g \in [(1 .. m) \X S -> S]
  PROVE  FoldSteps(m, S, x, g) # {}
<1> DEFINE Folds(k) == FoldSteps(k, S, x, g)
           Good == {k \in Nat : k <= m => Folds(k) # {}}
<1>1. 0 \in Good
  <2>1. [i \in 0 .. 0 |-> x] \in Folds(0)
    BY DEF FoldSteps
  <2> QED
    BY <2>1
<1>2. ASSUME NEW k \in Nat, k \in Good PROVE k + 1 \in Good
  <2> SUFFICES ASSUME k + 1 <= m PROVE Folds(k + 1) # {}
    OBVIOUS
  <2>1. PICK f \in Folds(k) : TRUE
    BY <1>2
  <2>2. k + 1 \in 1 .. m /\ f[k] \in S
    BY <2>1 DEF FoldSteps
  <2>3. g[<<k + 1, f[k]>>] \in S
    BY <2>2
  <2> DEFINE r == [i \in 0 .. k + 1 |-> IF i = k + 1 THEN g[<<k + 1, f[k]>>] ELSE f[i]]
  <2>4. r \in [0 .. k + 1 -> S] /\ r[0] = x
    BY <2>1, <2>3 DEF FoldSteps
  <2>5. ASSUME NEW n \in 1 .. k + 1 PROVE r[n] = g[<<n, r[n - 1]>>]
    <3>1. n - 1 \in 0 .. k /\ r[n - 1] = f[n - 1]
      OBVIOUS
    <3>2. CASE n = k + 1
      <4>1. n - 1 = k /\ r[n] = g[<<k + 1, f[k]>>]
        BY <3>2
      <4> HIDE DEF r
      <4> QED
        BY <3>1, <3>2, <4>1
    <3>3. CASE n # k + 1
      <4>1. n \in 1 .. k /\ r[n] = f[n]
        BY <3>3
      <4> QED
        BY <2>1, <3>1, <4>1 DEF FoldSteps
    <3> QED
      BY <3>2, <3>3
  <2> HIDE DEF r
  <2> QED
    BY <2>4, <2>5 DEF FoldSteps
<1>3. \A k \in Nat : k \in Good
  <2> HIDE DEF Good
  <2> QED
    BY <1>1, <1>2, NatInduct
<1> QED
  BY <1>3
=============================================================================
