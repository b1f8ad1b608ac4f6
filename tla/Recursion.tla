----------------------------- MODULE Recursion ------------------------------
(***************************************************************************)
(* Induction over the natural numbers, and what a function that is defined *)
(* by recursion over them is: lemmas for the proofs about the embedding of *)
(* a context.  The library's theorems on induction take an operator that   *)
(* the provers cannot instantiate; here a set and a function take its      *)
(* place, and what remains is that < is well-founded.                      *)
(***************************************************************************)
EXTENDS Integers, WellFoundedInduction, TLAPS

\* A set that has zero, and with any number the next, has all numbers.
LEMMA Induction ==
  ASSUME NEW T, 0 \in T, \A n \in Nat : n \in T => n + 1 \in T
  PROVE  Nat \subseteq T
<1> DEFINE Missing == Nat \ T
           R == OpToRel(<, Nat)
<1>1. SUFFICES ASSUME Missing # {} PROVE FALSE
  OBVIOUS
<1>2. IsWellFoundedOn(R, Nat)
  BY NatLessThanWellFounded
<1>3. PICK n \in Missing : \A k \in Missing : <<k, n>> \notin R
  <2> HIDE DEF R
  <2>1. Missing \subseteq Nat
    OBVIOUS
  <2> HIDE DEF Missing
  <2> QED
    BY <1>1, <1>2, <2>1, WFMin
<1>4. n \in Nat /\ n # 0 /\ n \notin T
  OBVIOUS
<1>5. n - 1 \in Nat /\ (n - 1) + 1 = n /\ n - 1 < n
  BY <1>4
<1>6. n - 1 \notin T
  BY <1>4, <1>5
<1>7. n - 1 \in Missing
  BY <1>5, <1>6
<1>8. <<n - 1, n>> \in R
  BY <1>4, <1>5 DEF OpToRel
<1> QED
  BY <1>3, <1>7, <1>8

\* A recursion starts with base, and goes on, to the last number, with what step
\* makes of what was before.
IsRecursion(S, base, last, step) ==
  base \in S /\ last \in Nat /\ step \in [1..last -> [S -> S]]

\* There is a function that is defined by a recursion.
LEMMA RecursionExists ==
  ASSUME NEW S, NEW base, NEW last, NEW step,
         IsRecursion(S, base, last, step)
  PROVE  \E f \in [0..last -> S] :
           /\ f[0] = base
           /\ \A i \in 1..last : f[i] = step[i][f[i - 1]]
<1>0. base \in S /\ last \in Nat /\ step \in [1..last -> [S -> S]]
  BY DEF IsRecursion
<1> USE <1>0
<1> DEFINE Is(f, n) ==
             /\ f \in [0..n -> S]
             /\ f[0] = base
             /\ \A i \in 1..n : f[i] = step[i][f[i - 1]]
           T == {n \in Nat : n <= last => \E f : Is(f, n)}
<1>1. 0 \in T
  <2>1. Is([i \in 0..0 |-> base], 0)
    OBVIOUS
  <2> QED
    BY <2>1
<1>2. ASSUME NEW n \in Nat, n \in T
      PROVE  n + 1 \in T
  <2>1. SUFFICES ASSUME n + 1 <= last PROVE \E f : Is(f, n + 1)
    OBVIOUS
  <2>2. PICK f : Is(f, n)
    BY <1>2, <2>1
  <2> DEFINE g == [i \in 0..(n + 1) |->
                     IF i = n + 1 THEN step[n + 1][f[n]] ELSE f[i]]
  <2>3. f[n] \in S /\ step[n + 1] \in [S -> S]
    BY <2>1, <2>2
  <2>4. g \in [0..(n + 1) -> S]
    BY <2>2, <2>3
  <2>5. g[0] = base
    BY <2>2
  <2>6. ASSUME NEW i \in 1..(n + 1)
        PROVE  g[i] = step[i][g[i - 1]]
    <3>1. CASE i = n + 1
      BY <3>1
    <3>2. CASE i # n + 1
      <4>1. i \in 1..n /\ i - 1 \in 0..n /\ i - 1 # n + 1
        BY <3>2
      <4>2. g[i] = f[i] /\ g[i - 1] = f[i - 1]
        BY <4>1
      <4> QED
        BY <2>2, <4>1, <4>2
    <3> QED
      BY <3>1, <3>2
  <2> HIDE DEF g
  <2>7. Is(g, n + 1)
    BY <2>4, <2>5, <2>6
  <2> QED
    BY <2>7
<1>3. last \in T
  <2> HIDE DEF T
  <2> QED
    BY <1>1, <1>2, Induction
<1> QED
  BY <1>3
=============================================================================
