--------------------------- MODULE LoadingProofs ----------------------------
(***************************************************************************)
(* What setting up a context does: the types of what the parser and the    *)
(* linker leave behind, the blocks they allocate and the errors they       *)
(* report.  Lemmas for the proofs about the embedding of a context.        *)
(***************************************************************************)
EXTENDS EmbeddingProperties, Recursion, SequenceTheorems, FiniteSetTheorems

-----------------------------------------------------------------------------
(***************************************************************************)
(* A module that has been set up in part.                                  *)
(***************************************************************************)

\* The parser's places, and the numbers of imports and bodies that functions
\* have, are those of something that is there; what has no binary has none but
\* host functions.
ModuleOK(x) ==
  /\ x.next >= 1
  /\ x.nextBody >= 1
  /\ x.binary = NoBinary => x.next = 1
  /\ \A f \in 1..Len(x.functions) :
       /\ x.functions[f].import <= Len(x.imports)
       /\ x.functions[f].position <= Len(x.binary.items)
       /\ x.binary = NoBinary => x.functions[f].native

\* The blocks that a module owns are counted.
LEMMA OwnedByType ==
  ASSUME NEW x \in Module
  PROVE  OwnedBy(x) \in Nat
<1> DEFINE a == x.customs
           b == x.signatures
           c == Len(x.imports)
           d == Len(x.functions)
           e == Len(x.tables)
           f == x.memories
           g == Len(x.exports)
           h == IF x.name = NoName THEN 9 ELSE 10
<1>1. /\ a \in Nat /\ b \in Nat /\ c \in Nat /\ d \in Nat
      /\ e \in Nat /\ f \in Nat /\ g \in Nat
  BY LenProperties DEF Module
<1>2. h \in Nat
  OBVIOUS
<1>3. OwnedBy(x) = h + a + 2 * b + 2 * c + d + e + f + g
  BY DEF OwnedBy
<1> HIDE DEF a, b, c, d, e, f, g, h
<1> QED
  BY <1>1, <1>2, <1>3

\* The plans of the host, module by module
LEMMA PlanType ==
  ASSUME plan \in Plans
  PROVE  /\ plan \in Seq(Planned)
         /\ \A m \in 1..Len(plan) : plan[m] \in Planned
BY LoadingAssumption, ElementOfSeq

\* The item that the parser has got to is one, whatever it is read as.
LEMMA ItemType ==
  ASSUME NEW x \in Module, NEW i \in 1..Len(x.binary.items)
  PROVE  ItemAt(x, i) \in Item
<1>1. x.binary \in Binary
  BY DEF Module
<1>2. x.binary.items \in Seq(Item)
  BY <1>1 DEF Binary
<1>3. x.binary.items[i] \in Item
  BY <1>2, ElementOfSeq
<1>4. Zeros(x.binary.items[i].section) \in Item
  <2> DEFINE s == x.binary.items[i].section
  <2>1. s \in Section
    BY <1>3 DEF Item
  <2>2. EmptyName \in Names
    BY LoadingAssumption
  <2>3. <<>> \in Seq(Nat)
    BY EmptySeq
  <2> DEFINE known == s \notin {"type", "global"}
             index == IF s = "element" THEN 0 ELSE 1
  <2>4. known \in BOOLEAN /\ index \in Nat
    OBVIOUS
  <2>5. Zeros(s) = [section |-> s, there |-> FALSE, known |-> known,
                    module |-> EmptyName, name |-> EmptyName,
                    index |-> index, list |-> <<>>]
    BY DEF Zeros
  <2> HIDE DEF s, known, index
  <2>6. Zeros(s) \in Item
    BY <2>1, <2>2, <2>3, <2>4, <2>5 DEF Item
  <2> QED
    BY <2>6 DEF s
<1> QED
  BY <1>3, <1>4 DEF ItemAt

\* A set of numbers that has some has a first one.
LEMMA FirstIs ==
  ASSUME NEW S, S \subseteq Nat, S # {}
  PROVE  First(S) \in S /\ \A j \in S : First(S) <= j
<1> DEFINE R == OpToRel(<, Nat)
<1>1. IsWellFoundedOn(R, Nat)
  BY NatLessThanWellFounded
<1>2. PICK i \in S : \A j \in S : <<j, i>> \notin R
  <2> HIDE DEF R
  <2> QED
    BY <1>1, WFMin
<1>3. ASSUME NEW j \in S
      PROVE  i <= j
  <2>1. i \in Nat /\ j \in Nat
    OBVIOUS
  <2>2. ~(j < i)
    BY <1>2, <2>1 DEF OpToRel
  <2> QED
    BY <2>1, <2>2
<1> QED
  BY <1>3 DEF First

-----------------------------------------------------------------------------
(***************************************************************************)
(* The blocks that the context owns: the sum over its modules.             *)
(***************************************************************************)
Sum(ms) ==
  LET upTo[m \in 0..Len(ms)] ==
        IF m = 0 THEN ContextBlocks ELSE upTo[m - 1] + OwnedBy(ms[m])
  IN upTo

\* The sum is what its recursive definition says.
LEMMA SumIs ==
  ASSUME NEW ms \in Seq(Module)
  PROVE  /\ Sum(ms)[0] = ContextBlocks
         /\ \A m \in 1..Len(ms) : Sum(ms)[m] = Sum(ms)[m - 1] + OwnedBy(ms[m])
         /\ \A m \in 0..Len(ms) : Sum(ms)[m] \in Nat
<1> DEFINE Eq(f) == f = [m \in 0..Len(ms) |->
                           IF m = 0 THEN ContextBlocks
                           ELSE f[m - 1] + OwnedBy(ms[m])]
           step  == [m \in 1..Len(ms) |-> [s \in Nat |-> s + OwnedBy(ms[m])]]
<1>1. \A m \in 1..Len(ms) : OwnedBy(ms[m]) \in Nat
  BY OwnedByType, ElementOfSeq
<1>2. Sum(ms) = CHOOSE f : Eq(f)
  BY DEF Sum
<1>3. \E f : Eq(f)
  <2>1. step \in [1..Len(ms) -> [Nat -> Nat]]
    BY <1>1
  <2>2. ContextBlocks \in Nat /\ Len(ms) \in Nat
    BY DEF ContextBlocks
  <2>3. PICK f \in [0..Len(ms) -> Nat] :
          /\ f[0] = ContextBlocks
          /\ \A i \in 1..Len(ms) : f[i] = step[i][f[i - 1]]
    <3>1. IsRecursion(Nat, ContextBlocks, Len(ms), step)
      BY <2>1, <2>2 DEF IsRecursion
    <3> HIDE DEF step
    <3> QED
      BY <3>1, RecursionExists
  <2>4. ASSUME NEW i \in 1..Len(ms)
        PROVE  step[i][f[i - 1]] = f[i - 1] + OwnedBy(ms[i])
    <3>1. f[i - 1] \in Nat
      OBVIOUS
    <3> QED
      BY <3>1
  <2> HIDE DEF step
  <2>5. ASSUME NEW i \in 0..Len(ms)
        PROVE  f[i] = IF i = 0 THEN ContextBlocks
                      ELSE f[i - 1] + OwnedBy(ms[i])
    BY <2>3, <2>4
  <2>6. Eq(f)
    BY <2>3, <2>5
  <2> QED
    BY <2>6
<1>4. Eq(Sum(ms))
  BY <1>2, <1>3
<1>5. /\ Sum(ms)[0] = ContextBlocks
      /\ \A m \in 1..Len(ms) : Sum(ms)[m] = Sum(ms)[m - 1] + OwnedBy(ms[m])
  BY <1>4
<1>6. \A m \in 0..Len(ms) : Sum(ms)[m] \in Nat
  <2> DEFINE T == {n \in Nat : n <= Len(ms) => Sum(ms)[n] \in Nat}
  <2>1. 0 \in T
    BY <1>5 DEF ContextBlocks
  <2>2. \A n \in Nat : n \in T => n + 1 \in T
    BY <1>1, <1>5
  <2>3. Nat \subseteq T
    <3> HIDE DEF T
    <3> QED
      BY <2>1, <2>2, Induction
  <2> QED
    BY <2>3
<1> QED
  BY <1>5, <1>6

\* The sum after a module has been created: one summand more.
LEMMA SumAppended ==
  ASSUME NEW ms \in Seq(Module), NEW x \in Module
  PROVE  Sum(Append(ms, x))[Len(ms) + 1] = Sum(ms)[Len(ms)] + OwnedBy(x)
<1> DEFINE ns == Append(ms, x)
           n  == Len(ms)
<1>1. /\ ns \in Seq(Module) /\ Len(ns) = n + 1 /\ n \in Nat
      /\ \A m \in 1..n : ns[m] = ms[m]
      /\ ns[n + 1] = x
  OBVIOUS
<1> HIDE DEF ns
<1>2. /\ Sum(ns)[0] = ContextBlocks
      /\ \A m \in 1..(n + 1) : Sum(ns)[m] = Sum(ns)[m - 1] + OwnedBy(ns[m])
  BY <1>1, SumIs
<1>3. /\ Sum(ms)[0] = ContextBlocks
      /\ \A m \in 1..n : Sum(ms)[m] = Sum(ms)[m - 1] + OwnedBy(ms[m])
  BY SumIs
<1> HIDE DEF n
<1> DEFINE T == {k \in Nat : k <= n => Sum(ns)[k] = Sum(ms)[k]}
<1>4. 0 \in T
  BY <1>2, <1>3
<1>5. ASSUME NEW k \in Nat, k \in T
      PROVE  k + 1 \in T
  BY <1>1, <1>2, <1>3, <1>5
<1>6. n \in T
  <2> HIDE DEF T
  <2> QED
    BY <1>1, <1>4, <1>5, Induction
<1>7. Sum(ns)[n] = Sum(ms)[n]
  BY <1>1, <1>6
<1>8. Sum(ns)[n + 1] = Sum(ns)[n] + OwnedBy(x)
  BY <1>1, <1>2
<1> QED
  BY <1>7, <1>8 DEF ns, n

\* The sum after a module has changed: one summand is another.
LEMMA SumChanged ==
  ASSUME NEW ms \in Seq(Module), NEW m \in 1..Len(ms), NEW x \in Module
  PROVE  Sum([ms EXCEPT ![m] = x])[Len(ms)] + OwnedBy(ms[m])
           = Sum(ms)[Len(ms)] + OwnedBy(x)
<1> DEFINE ns == [ms EXCEPT ![m] = x]
           n  == Len(ms)
<1>1. /\ ns \in Seq(Module) /\ Len(ns) = n /\ n \in Nat
      /\ \A k \in 1..n : k # m => ns[k] = ms[k]
      /\ ns[m] = x
  OBVIOUS
<1> HIDE DEF ns
<1>2. /\ Sum(ns)[0] = ContextBlocks
      /\ \A k \in 1..n : Sum(ns)[k] = Sum(ns)[k - 1] + OwnedBy(ns[k])
      /\ \A k \in 0..n : Sum(ns)[k] \in Nat
  BY <1>1, SumIs
<1>3. /\ Sum(ms)[0] = ContextBlocks
      /\ \A k \in 1..n : Sum(ms)[k] = Sum(ms)[k - 1] + OwnedBy(ms[k])
      /\ \A k \in 0..n : Sum(ms)[k] \in Nat
  BY SumIs
<1>4. /\ OwnedBy(x) \in Nat
      /\ \A k \in 1..n : OwnedBy(ms[k]) \in Nat
  BY OwnedByType, ElementOfSeq
<1>5. m \in 1..n
  OBVIOUS
<1> HIDE DEF n
<1> DEFINE T == {k \in Nat : k <= n =>
                   IF k < m THEN Sum(ns)[k] = Sum(ms)[k]
                   ELSE Sum(ns)[k] + OwnedBy(ms[m]) = Sum(ms)[k] + OwnedBy(x)}
<1>6. 0 \in T
  BY <1>2, <1>3, <1>5
<1>7. ASSUME NEW k \in Nat, k \in T
      PROVE  k + 1 \in T
  <2>1. SUFFICES ASSUME k + 1 <= n
                 PROVE  IF k + 1 < m THEN Sum(ns)[k + 1] = Sum(ms)[k + 1]
                        ELSE Sum(ns)[k + 1] + OwnedBy(ms[m])
                               = Sum(ms)[k + 1] + OwnedBy(x)
    OBVIOUS
  <2>2. /\ k + 1 \in 1..n /\ (k + 1) - 1 = k /\ k \in 0..n
    BY <1>1, <2>1
  <2>3. /\ Sum(ns)[k + 1] = Sum(ns)[k] + OwnedBy(ns[k + 1])
        /\ Sum(ms)[k + 1] = Sum(ms)[k] + OwnedBy(ms[k + 1])
        /\ Sum(ns)[k] \in Nat /\ Sum(ms)[k] \in Nat
        /\ OwnedBy(ms[k + 1]) \in Nat
    BY <1>2, <1>3, <1>4, <2>2
  <2>4. CASE k + 1 < m
    <3>1. Sum(ns)[k] = Sum(ms)[k] /\ ns[k + 1] = ms[k + 1]
      BY <1>1, <1>5, <1>7, <2>1, <2>2, <2>4
    <3> QED
      BY <2>3, <2>4, <3>1
  <2>5. CASE k + 1 = m
    <3>1. Sum(ns)[k] = Sum(ms)[k] /\ ns[k + 1] = x
      BY <1>1, <1>5, <1>7, <2>1, <2>2, <2>5
    <3> QED
      BY <1>4, <2>3, <2>5, <3>1
  <2>6. CASE k + 1 > m
    <3>1. /\ Sum(ns)[k] + OwnedBy(ms[m]) = Sum(ms)[k] + OwnedBy(x)
          /\ ns[k + 1] = ms[k + 1]
      BY <1>1, <1>5, <1>7, <2>1, <2>2, <2>6
    <3>2. OwnedBy(ms[m]) \in Nat /\ m \in Nat /\ ~(k + 1 < m)
      BY <1>1, <1>4, <1>5, <2>6
    <3> DEFINE a == Sum(ns)[k]
               b == OwnedBy(ms[m])
               c == Sum(ms)[k]
               d == OwnedBy(x)
               e == OwnedBy(ms[k + 1])
               p == Sum(ns)[k + 1]
               q == Sum(ms)[k + 1]
    <3>3. /\ a \in Nat /\ b \in Nat /\ c \in Nat /\ d \in Nat /\ e \in Nat
          /\ p = a + e /\ q = c + e /\ a + b = c + d
      BY <1>4, <2>3, <3>1, <3>2
    <3> HIDE DEF a, b, c, d, e, p, q
    <3>4. p + b = q + d
      BY <3>3
    <3> QED
      BY <3>2, <3>4 DEF b, d, p, q
  <2>7. k + 1 < m \/ k + 1 = m \/ k + 1 > m
    BY <1>1, <1>5
  <2> QED
    BY <2>4, <2>5, <2>6, <2>7, Zenon
<1>8. n \in T
  <2> HIDE DEF T
  <2> QED
    BY <1>1, <1>6, <1>7, Induction
<1>9. Sum(ns)[n] + OwnedBy(ms[m]) = Sum(ms)[n] + OwnedBy(x)
  BY <1>1, <1>5, <1>8
<1> QED
  BY <1>9 DEF ns, n

\* What the context owns is that sum.
LEMMA OwnedIs ==
  /\ Owned = Sum(modules)[Len(modules)]
  /\ Owned' = Sum(modules')[Len(modules')]
BY DEF Owned, Sum

-----------------------------------------------------------------------------
(***************************************************************************)
(* Tables.                                                                 *)
(***************************************************************************)
Larger(a, b) == IF a > b THEN a ELSE b

Filled(table, start, elements) ==
  LET filled[i \in 0..Len(elements)] ==
        IF i = 0 THEN Padded(table, start)
        ELSE Placed(filled[i - 1], start + i, elements[i])
  IN filled

\* Padding reaches up to the segment's start.
LEMMA PaddedIs ==
  ASSUME NEW table \in Seq(Nat), NEW start \in Nat
  PROVE  /\ Padded(table, start) \in Seq(Nat)
         /\ Len(Padded(table, start)) = Larger(start, Len(table))
         /\ \A k \in 1..Len(Padded(table, start)) :
              Padded(table, start)[k] = IF k <= Len(table) THEN table[k] ELSE 0
<1> DEFINE n == IF start > Len(table) THEN start - Len(table) ELSE 0
           zeros == [i \in 1..n |-> 0]
<1>1. n \in Nat /\ Len(table) \in Nat
      /\ Len(table) + n = Larger(start, Len(table))
  BY DEF Larger
<1>2. Padded(table, start) = table \o zeros
  BY DEF Padded
<1> HIDE DEF n
<1>3. /\ zeros \in Seq(Nat) /\ Len(zeros) = n
      /\ \A k \in 1..n : zeros[k] = 0
  BY <1>1
<1> HIDE DEF zeros
<1>4. /\ Padded(table, start) \in Seq(Nat)
      /\ Len(Padded(table, start)) = Larger(start, Len(table))
  BY <1>1, <1>2, <1>3, ConcatProperties
<1>5. ASSUME NEW k \in 1..Len(Padded(table, start))
      PROVE  Padded(table, start)[k] = IF k <= Len(table) THEN table[k] ELSE 0
  <2>1. k \in 1..(Len(table) + n)
    BY <1>1, <1>4
  <2>2. Padded(table, start)[k] = IF k <= Len(table) THEN table[k]
                                  ELSE zeros[k - Len(table)]
    BY <1>2, <1>3, <2>1, ConcatProperties
  <2>3. CASE k <= Len(table)
    BY <2>2, <2>3
  <2>4. CASE ~(k <= Len(table))
    <3>1. k - Len(table) \in 1..n
      BY <1>1, <2>1, <2>4
    <3> QED
      BY <1>3, <2>2, <2>4, <3>1
  <2> QED
    BY <2>3, <2>4
<1> QED
  BY <1>4, <1>5

\* The table t with an element, which is entry number at if that comes next
HasPlaced(table, at, element, t) ==
  /\ t \in Seq(Nat)
  /\ Len(t) = IF Len(table) < at THEN Len(table) + 1 ELSE Len(table)
  /\ at <= Len(table) + 1 =>
       \A k \in 1..Len(t) : t[k] = IF k = at THEN element ELSE table[k]

\* Placing an element
LEMMA PlacedIs ==
  ASSUME NEW table \in Seq(Nat), NEW at \in Nat \ {0}, NEW element \in Nat
  PROVE  HasPlaced(table, at, element, Placed(table, at, element))
<1>1. CASE Len(table) < at
  BY <1>1 DEF Placed, HasPlaced
<1>2. CASE ~(Len(table) < at)
  BY <1>2 DEF Placed, HasPlaced
<1> QED
  BY <1>1, <1>2

\* Entry k of the table that a segment from start on is put into
EntryOf(table, start, elements, k) ==
  IF k \in (start + 1)..(start + Len(elements)) THEN elements[k - start]
  ELSE IF k <= Len(table) THEN table[k]
  ELSE 0

\* A segment reaches from its start as far as it has elements, which are the
\* entries there; the others are what they were, and the new ones 0.
LEMMA WithElementsIs ==
  ASSUME NEW table \in Seq(Nat), NEW start \in Nat, NEW elements \in Seq(Nat)
  PROVE  /\ WithElements(table, start, elements) \in Seq(Nat)
         /\ Len(WithElements(table, start, elements)) =
              Larger(start + Len(elements), Larger(start, Len(table)))
         /\ \A k \in 1..Len(WithElements(table, start, elements)) :
              WithElements(table, start, elements)[k]
                = EntryOf(table, start, elements, k)
<1> DEFINE n     == Len(elements)
           p     == Larger(start, Len(table))
           F     == Filled(table, start, elements)
           Eq(f) == f = [i \in 0..n |->
                           IF i = 0 THEN Padded(table, start)
                           ELSE Placed(f[i - 1], start + i, elements[i])]
           step  == [i \in 1..n |-> [t \in Seq(Nat) |->
                                       Placed(t, start + i, elements[i])]]
           entry(i, k) == IF k \in (start + 1)..(start + i)
                            THEN elements[k - start]
                          ELSE Padded(table, start)[k]
<1>1. /\ n \in Nat /\ p \in Nat /\ p >= start
      /\ \A i \in 1..n : elements[i] \in Nat /\ start + i \in Nat \ {0}
  BY ElementOfSeq DEF Larger
<1>2. F = CHOOSE f : Eq(f)
  BY DEF Filled
<1>3. Padded(table, start) \in Seq(Nat) /\ Len(Padded(table, start)) = p
  BY PaddedIs
<1>4. \A i \in 1..n, t \in Seq(Nat) :
        HasPlaced(t, start + i, elements[i], Placed(t, start + i, elements[i]))
  BY <1>1, PlacedIs
<1>5. \E f : Eq(f)
  <2>1. step \in [1..n -> [Seq(Nat) -> Seq(Nat)]]
    BY <1>4 DEF HasPlaced
  <2>2. PICK f \in [0..n -> Seq(Nat)] :
          /\ f[0] = Padded(table, start)
          /\ \A i \in 1..n : f[i] = step[i][f[i - 1]]
    <3>1. IsRecursion(Seq(Nat), Padded(table, start), n, step)
      BY <1>1, <1>3, <2>1 DEF IsRecursion
    <3> HIDE DEF step, n
    <3> QED
      BY <3>1, RecursionExists
  <2> HIDE DEF n
  <2>3. ASSUME NEW i \in 1..n
        PROVE  step[i][f[i - 1]] = Placed(f[i - 1], start + i, elements[i])
    <3>1. f[i - 1] \in Seq(Nat)
      BY <1>1
    <3> QED
      BY <3>1
  <2> HIDE DEF step
  <2>4. ASSUME NEW i \in 0..n
        PROVE  f[i] = IF i = 0 THEN Padded(table, start)
                      ELSE Placed(f[i - 1], start + i, elements[i])
    BY <1>1, <2>2, <2>3
  <2>5. Eq(f)
    BY <2>2, <2>4
  <2> QED
    BY <2>5
<1>6. Eq(F)
  BY <1>2, <1>5
<1> HIDE DEF F, p, n
<1>7. /\ F[0] = Padded(table, start)
      /\ \A i \in 1..n : F[i] = Placed(F[i - 1], start + i, elements[i])
  BY <1>1, <1>6
<1> HIDE DEF Eq
<1> DEFINE Right(i) == /\ F[i] \in Seq(Nat)
                       /\ Len(F[i]) = Larger(start + i, p)
                       /\ \A k \in 1..Len(F[i]) : F[i][k] = entry(i, k)
           T == {i \in Nat : i <= n => Right(i)}
<1>8. 0 \in T
  <2>1. F[0] \in Seq(Nat) /\ Len(F[0]) = Larger(start + 0, p)
    BY <1>1, <1>3, <1>7 DEF Larger
  <2>2. \A k \in 1..Len(F[0]) : k \notin (start + 1)..(start + 0)
    OBVIOUS
  <2>3. \A k \in 1..Len(F[0]) : F[0][k] = entry(0, k)
    BY <1>7, <2>2
  <2> QED
    BY <2>1, <2>3
<1>9. ASSUME NEW i \in Nat, i \in T
      PROVE  i + 1 \in T
  <2>1. SUFFICES ASSUME i + 1 <= n
                 PROVE  Right(i + 1)
    <3> HIDE DEF Right
    <3> QED
      OBVIOUS
  <2>2. i + 1 \in 1..n /\ (i + 1) - 1 = i
    BY <1>1, <2>1
  <2>3. /\ F[i] \in Seq(Nat) /\ Len(F[i]) = Larger(start + i, p)
        /\ \A k \in 1..Len(F[i]) : F[i][k] = entry(i, k)
    BY <1>1, <1>9, <2>1
  <2>4. F[i + 1] = Placed(F[i], start + (i + 1), elements[i + 1])
    BY <1>7, <2>2
  <2>5. HasPlaced(F[i], start + (i + 1), elements[i + 1], F[i + 1])
    BY <1>4, <2>2, <2>3, <2>4
  <2>6. Len(F[i + 1]) = Larger(start + (i + 1), p)
    BY <1>1, <2>3, <2>5 DEF Larger, HasPlaced
  <2>7. start + (i + 1) <= Len(F[i]) + 1
    BY <1>1, <2>3 DEF Larger
  <2>8. ASSUME NEW k \in 1..Len(F[i + 1])
        PROVE  F[i + 1][k] = entry(i + 1, k)
    <3>1. F[i + 1][k] = IF k = start + (i + 1) THEN elements[i + 1]
                        ELSE F[i][k]
      BY <2>5, <2>7 DEF HasPlaced
    <3>2. CASE k = start + (i + 1)
      <4>1. k \in (start + 1)..(start + (i + 1)) /\ k - start = i + 1
        BY <3>2
      <4> QED
        BY <3>1, <3>2, <4>1
    <3>3. CASE k # start + (i + 1)
      <4>1. k \in 1..Len(F[i])
        BY <1>1, <2>3, <2>6, <3>3 DEF Larger
      <4>2. k \in (start + 1)..(start + (i + 1))
              <=> k \in (start + 1)..(start + i)
        BY <3>3
      <4>3. F[i + 1][k] = entry(i, k)
        BY <2>3, <3>1, <3>3, <4>1
      <4> QED
        BY <4>2, <4>3
    <3> QED
      BY <3>2, <3>3
  <2> QED
    BY <2>5, <2>6, <2>8 DEF HasPlaced
<1>10. n \in T
  <2> HIDE DEF T
  <2> QED
    BY <1>1, <1>8, <1>9, Induction
<1>11. /\ F[n] \in Seq(Nat) /\ Len(F[n]) = Larger(start + n, p)
       /\ \A k \in 1..Len(F[n]) : F[n][k] = entry(n, k)
  BY <1>1, <1>10
<1>12. WithElements(table, start, elements) = F[n]
  BY DEF WithElements, F, Filled, n
<1>13. ASSUME NEW k \in 1..Len(F[n])
       PROVE  F[n][k] = EntryOf(table, start, elements, k)
  <2>1. F[n][k] = entry(n, k)
    BY <1>11
  <2>2. CASE k \in (start + 1)..(start + n)
    BY <2>1, <2>2 DEF EntryOf, n
  <2>3. CASE k \notin (start + 1)..(start + n)
    <3>1. k \in 1..p
      BY <1>1, <1>11, <2>3 DEF Larger
    <3>2. F[n][k] = IF k <= Len(table) THEN table[k] ELSE 0
      BY <1>3, <2>1, <2>3, <3>1, PaddedIs
    <3> QED
      BY <2>3, <3>2 DEF EntryOf, n
  <2> QED
    BY <2>2, <2>3
<1> QED
  BY <1>11, <1>12, <1>13 DEF n, p

\* A table that was within its limit and has outgrown it has met it.
LEMMA LimitIsMet ==
  ASSUME NEW table \in Seq(Nat), NEW start \in Nat, NEW elements \in Seq(Nat),
         Len(table) <= MaxTableSize,
         Len(WithElements(table, start, elements)) > MaxTableSize
  PROVE  LimitMet(table, start, elements)
<1> DEFINE p == Len(Padded(table, start))
           n == Len(elements)
           M == MaxTableSize
<1>1. /\ p \in Nat /\ p >= start /\ n \in Nat /\ M \in Nat
      /\ p > M \/ start + n > M
  BY PaddedIs, WithElementsIs, LoadingAssumption DEF Larger
<1>2. LimitMet(table, start, elements) <=>
        \/ Len(table) <= M /\ M < p
        \/ \E i \in 1..n : M = IF start + i - 1 > p THEN start + i - 1 ELSE p
  BY DEF LimitMet
<1> HIDE DEF p, n, M
<1>3. CASE p > M
  BY <1>1, <1>2, <1>3 DEF M
<1>4. CASE p = M
  <2>1. 1 \in 1..n /\ ~(start + 1 - 1 > p)
    BY <1>1, <1>4
  <2> QED
    BY <1>2, <1>4, <2>1
<1>5. CASE p < M
  <2> DEFINE i == (M - start) + 1
  <2>1. i \in 1..n /\ start + i - 1 = M
    BY <1>1, <1>5
  <2> HIDE DEF i
  <2> QED
    BY <1>2, <1>5, <2>1
<1> QED
  BY <1>1, <1>3, <1>4, <1>5

-----------------------------------------------------------------------------
(***************************************************************************)
(* What holds while modules are set up.                                    *)
(***************************************************************************)
Damaged(x) ==
  \/ x.tables # <<>> /\ Len(x.tables[1]) > MaxTableSize
  \/ \E i \in 1..(x.next - 1) : ~x.binary.items[i].there

LoadInv ==
  /\ plan \in Plans
  /\ modules \in Seq(Module)
  /\ Len(modules) <= Len(plan)
  /\ \A m \in 1..Len(modules) : ModuleOK(modules[m])
  /\ \A m \in 1..Len(modules) : Damaged(modules[m]) => error # "none"
  /\ error \in Errors
  /\ task \in Task
  /\ task.call # "none" => task.module \in 1..Len(modules)
  /\ task.call = "none" => task = NoTask
  /\ task.call = "parse" => Current.binary # NoBinary
  /\ task.call = "link" => task.import >= 1
  /\ answer \in Answer
  /\ heap \in Nat
  /\ lost \in Nat

\* y declares what x does, and an export or an unresolved import more, if any.
Declares(x, y) ==
  \/ y.exports = x.exports /\ y.imports = x.imports
  \/ \E e \in Export : y.exports = Append(x.exports, e) /\ y.imports = x.imports
  \/ \E i \in Import : /\ y.imports = Append(x.imports, i)
                       /\ i.resolvedModule = 0
                       /\ y.exports = x.exports

\* One module becomes x, of the same name and binary; what it owns more has been
\* allocated, and what else has been is lost; an error stays, and damage makes
\* one.
Edits(m, x) ==
  /\ x \in Module /\ ModuleOK(x) /\ Declares(modules[m], x)
  /\ x.name = modules[m].name /\ x.binary = modules[m].binary
  /\ modules' = [modules EXCEPT ![m] = x]
  /\ \E a, l \in Nat : /\ heap' = heap + a /\ lost' = lost + l
                       /\ OwnedBy(x) + l = OwnedBy(modules[m]) + a
  /\ error' \in Errors
  /\ error # "none" => error' # "none"
  /\ Damaged(x) => Damaged(modules[m]) \/ error' # "none"
  /\ plan' = plan
  /\ task' = task \/ task' = NoTask
  /\ \/ answer' = answer
     \/ answer' \in Answer /\ answer'.call = "parse" /\ task' = NoTask

\* The module that the parser or the linker has to do with
LEMMA CurrentType ==
  ASSUME LoadInv, task.call # "none"
  PROVE  /\ task.module \in 1..Len(modules)
         /\ Current \in Module
         /\ ModuleOK(Current)
BY ElementOfSeq DEF LoadInv, Current

\* The item that the parser reads
LEMMA ReadType ==
  ASSUME LoadInv, AtItem
  PROVE  /\ Current.next \in 1..Len(Current.binary.items)
         /\ Read \in Item
         /\ ReadError \in Errors
         /\ error # "none" => ReadError # "none"
         /\ ~Current.binary.items[Current.next].there => ReadError # "none"
<1>1. /\ Current \in Module /\ ModuleOK(Current)
      /\ Current.next <= Len(Current.binary.items)
  BY CurrentType DEF AtItem
<1>2. Current.next \in Nat /\ Len(Current.binary.items) \in Nat
  BY <1>1 DEF Module, Binary
<1>3. Current.next \in 1..Len(Current.binary.items)
  BY <1>1, <1>2 DEF ModuleOK
<1>4. Read \in Item
  BY <1>1, <1>3, ItemType DEF Read
<1>5. ReadError \in Errors /\ (error # "none" => ReadError # "none")
  BY DEF LoadInv, ReadError, Errors
<1>6. ~Current.binary.items[Current.next].there => ReadError # "none"
  BY DEF Read, ReadError, ItemAt, Zeros
<1> QED
  BY <1>3, <1>4, <1>5, <1>6

\* An item is taken, with no error but that of reading past the end.
LEMMA ParsedEdits ==
  ASSUME LoadInv, AtItem, NEW x \in Module, NEW e \in Errors, NEW b \in Nat,
         Parsed(x, e, b), ModuleOK(x), Declares(Current, x),
         x.name = Current.name, x.binary = Current.binary,
         OwnedBy(x) = OwnedBy(Current) + b,
         ReadError # "none" => e # "none",
         x.tables # <<>> /\ Len(x.tables[1]) > MaxTableSize =>
           \/ Current.tables # <<>> /\ Len(Current.tables[1]) > MaxTableSize
           \/ e # "none"
  PROVE  \E y : Edits(task.module, y)
<1> DEFINE y == [x EXCEPT !.next = Current.next + 1]
           m == task.module
<1>1. /\ m \in 1..Len(modules) /\ Current \in Module
      /\ Current.next \in 1..Len(Current.binary.items)
      /\ Current = modules[m]
      /\ error # "none" => ReadError # "none"
      /\ ~Current.binary.items[Current.next].there => ReadError # "none"
  BY CurrentType, ReadType DEF AtItem, Current
<1>2. Current.next \in Nat
  BY <1>1 DEF Module
<1>3. /\ y \in Module
      /\ y.next = Current.next + 1
      /\ y.name = x.name /\ y.binary = x.binary /\ y.tables = x.tables
      /\ y.nextBody = x.nextBody /\ y.functions = x.functions
      /\ y.imports = x.imports /\ y.exports = x.exports
      /\ y.customs = x.customs /\ y.signatures = x.signatures
      /\ y.memories = x.memories
  <2> DEFINE n == Current.next + 1
  <2>1. n \in Nat
    BY <1>2
  <2> HIDE DEF n
  <2>2. [x EXCEPT !.next = n] \in Module
    BY <2>1 DEF Module
  <2>3. y = [x EXCEPT !.next = n] /\ n = Current.next + 1
    BY DEF n
  <2> HIDE DEF y
  <2> QED
    BY <2>2, <2>3 DEF Module
<1>4. /\ modules' = [modules EXCEPT ![m] = y]
      /\ error' = e /\ heap' = heap + b /\ lost' = lost
      /\ plan' = plan /\ task' = task /\ answer' = answer
  BY DEF Parsed, Allocates
<1> HIDE DEF y, m
<1>5. ModuleOK(y)
  <2>1. Current.binary # NoBinary
    BY DEF LoadInv, AtItem
  <2> QED
    BY <1>2, <1>3, <2>1 DEF ModuleOK
<1>6. OwnedBy(y) = OwnedBy(x)
  BY <1>3 DEF OwnedBy
<1>7. Damaged(y) => Damaged(Current) \/ e # "none"
  <2>1. SUFFICES ASSUME NEW i \in 1..Current.next,
                        ~Current.binary.items[i].there, e = "none"
                 PROVE  \E j \in 1..(Current.next - 1) :
                          ~Current.binary.items[j].there
    BY <1>2, <1>3 DEF Damaged
  <2>2. i # Current.next
    BY <1>1, <2>1
  <2>3. i \in 1..(Current.next - 1)
    BY <1>2, <2>2
  <2> QED
    BY <2>1, <2>3
<1>8. \E a, l \in Nat : /\ heap' = heap + a /\ lost' = lost + l
                        /\ OwnedBy(y) + l = OwnedBy(modules[m]) + a
  <2>1. OwnedBy(Current) \in Nat /\ lost \in Nat
    BY <1>1, OwnedByType DEF LoadInv
  <2>2. lost' = lost + 0 /\ OwnedBy(y) + 0 = OwnedBy(modules[m]) + b
    BY <1>1, <1>4, <1>6, <2>1
  <2> QED
    BY <1>4, <2>2
<1>9. /\ error # "none" => error' # "none"
      /\ error' \in Errors
      /\ Damaged(y) => Damaged(modules[m]) \/ error' # "none"
      /\ y.name = modules[m].name /\ y.binary = modules[m].binary
  BY <1>1, <1>3, <1>4, <1>7
<1>10. Declares(modules[m], y)
  BY <1>1, <1>3 DEF Declares
<1>11. Edits(m, y)
  BY <1>3, <1>4, <1>5, <1>8, <1>9, <1>10, Zenon DEF Edits
<1> QED
  BY <1>11 DEF m

\* An item is refused; the module is as it was but for the parser's place.
LEMMA RefusedEdits ==
  ASSUME LoadInv, AtItem, NEW x \in Module, NEW e \in Errors \ {"none"},
         NEW b \in Nat, Refused(x, e, b), ModuleOK(x),
         x.name = Current.name, x.binary = Current.binary,
         x.tables = Current.tables, x.next = Current.next,
         x.exports = Current.exports, x.imports = Current.imports,
         OwnedBy(x) = OwnedBy(Current)
  PROVE  \E y : Edits(task.module, y)
<1> DEFINE m == task.module
<1>1. /\ m \in 1..Len(modules) /\ Current \in Module /\ Current = modules[m]
  BY CurrentType DEF AtItem, Current
<1>2. /\ modules' = [modules EXCEPT ![m] = x]
      /\ error' = e /\ heap' = heap + b /\ lost' = lost + b
      /\ plan' = plan /\ task' = NoTask
      /\ answer' = [call |-> "parse", module |-> m, ok |-> FALSE]
  BY DEF Refused, Loses, Told
<1>3. answer' \in Answer /\ answer'.call = "parse"
  BY <1>1, <1>2 DEF Answer
<1> HIDE DEF m
<1>4. OwnedBy(x) + b = OwnedBy(modules[m]) + b
  BY <1>1
<1>5. Damaged(x) => Damaged(modules[m])
  BY <1>1 DEF Damaged
<1>6. Declares(modules[m], x)
  BY <1>1 DEF Declares
<1>7. Edits(m, x)
  BY <1>1, <1>2, <1>3, <1>4, <1>5, <1>6, Zenon DEF Edits
<1> QED
  BY <1>7 DEF m

-----------------------------------------------------------------------------
(***************************************************************************)
(* The parser, section by section.                                         *)
(***************************************************************************)

\* What the module is that the parser goes on with, and what it reads
LEMMA ParsingType ==
  ASSUME LoadInv, NEW section, Parsing(section)
  PROVE  /\ AtItem
         /\ Current \in Module /\ ModuleOK(Current)
         /\ OwnedBy(Current) \in Nat
         /\ Current.next \in 1..Len(Current.binary.items)
         /\ Current.binary # NoBinary
         /\ Read \in Item
         /\ ReadError \in Errors
<1>1. AtItem /\ task.call # "none" /\ task.call = "parse"
  BY DEF Parsing, AtItem
<1>2. /\ Current \in Module /\ ModuleOK(Current)
      /\ Current.next \in 1..Len(Current.binary.items)
      /\ Read \in Item /\ ReadError \in Errors
  BY <1>1, CurrentType, ReadType
<1>3. Current.binary # NoBinary
  BY <1>1 DEF LoadInv
<1> QED
  BY <1>1, <1>2, <1>3, OwnedByType

\* Counts and lengths of lists
LEMMA CountsType ==
  ASSUME NEW x \in Module
  PROVE  /\ x.customs \in Nat /\ x.signatures \in Nat /\ x.memories \in Nat
         /\ Len(x.imports) \in Nat /\ Len(x.functions) \in Nat
         /\ Len(x.tables) \in Nat /\ Len(x.exports) \in Nat
BY LenProperties DEF Module

\* The blocks that a module owns, by what its counts and lists have more
More(x, y) ==
  (y.customs - x.customs) + 2 * (y.signatures - x.signatures)
    + 2 * (Len(y.imports) - Len(x.imports))
    + (Len(y.functions) - Len(x.functions))
    + (Len(y.tables) - Len(x.tables)) + (y.memories - x.memories)
    + (Len(y.exports) - Len(x.exports))

\* A module owns what it owned, and what has been added.
LEMMA OwnedMore ==
  ASSUME NEW x \in Module, NEW y \in Module, y.name = x.name
  PROVE  OwnedBy(y) = OwnedBy(x) + More(x, y)
<1> DEFINE n(z) == IF z.name = NoName THEN 9 ELSE 10
           a == x.customs
           b == x.signatures
           c == Len(x.imports)
           d == Len(x.functions)
           e == Len(x.tables)
           f == x.memories
           g == Len(x.exports)
           h == n(x)
           a2 == y.customs
           b2 == y.signatures
           c2 == Len(y.imports)
           d2 == Len(y.functions)
           e2 == Len(y.tables)
           f2 == y.memories
           g2 == Len(y.exports)
<1>1. /\ a \in Nat /\ b \in Nat /\ c \in Nat /\ d \in Nat
      /\ e \in Nat /\ f \in Nat /\ g \in Nat
      /\ a2 \in Nat /\ b2 \in Nat /\ c2 \in Nat /\ d2 \in Nat
      /\ e2 \in Nat /\ f2 \in Nat /\ g2 \in Nat
  BY LenProperties DEF Module
<1>2. h \in Nat
  OBVIOUS
<1>3. /\ OwnedBy(x) = h + a + 2 * b + 2 * c + d + e + f + g
      /\ OwnedBy(y) = h + a2 + 2 * b2 + 2 * c2 + d2 + e2 + f2 + g2
  BY DEF OwnedBy
<1>4. More(x, y) = (a2 - a) + 2 * (b2 - b) + 2 * (c2 - c) + (d2 - d) + (e2 - e)
                     + (f2 - f) + (g2 - g)
  BY DEF More
<1> HIDE DEF a, b, c, d, e, f, g, h, a2, b2, c2, d2, e2, f2, g2
<1> QED
  BY <1>1, <1>2, <1>3, <1>4

\* Another value of customs
LEMMA CustomsChanged ==
  ASSUME NEW x \in Module, NEW v \in Nat, NEW y,
         y = [x EXCEPT !.customs = v]
  PROVE  /\ y \in Module
         /\ y.customs = v
         /\ y.name = x.name /\ y.binary = x.binary /\ y.next = x.next
         /\ y.nextBody = x.nextBody /\ y.signatures = x.signatures
         /\ y.memories = x.memories
         /\ y.functions = x.functions /\ y.imports = x.imports
         /\ y.exports = x.exports
         /\ y.tables = x.tables
BY DEF Module

\* Another value of signatures
LEMMA SignaturesChanged ==
  ASSUME NEW x \in Module, NEW v \in Nat, NEW y,
         y = [x EXCEPT !.signatures = v]
  PROVE  /\ y \in Module
         /\ y.signatures = v
         /\ y.name = x.name /\ y.binary = x.binary /\ y.next = x.next
         /\ y.nextBody = x.nextBody /\ y.customs = x.customs
         /\ y.memories = x.memories
         /\ y.functions = x.functions /\ y.imports = x.imports
         /\ y.exports = x.exports
         /\ y.tables = x.tables
BY DEF Module

\* Another value of memories
LEMMA MemoriesChanged ==
  ASSUME NEW x \in Module, NEW v \in Nat, NEW y,
         y = [x EXCEPT !.memories = v]
  PROVE  /\ y \in Module
         /\ y.memories = v
         /\ y.name = x.name /\ y.binary = x.binary /\ y.next = x.next
         /\ y.nextBody = x.nextBody /\ y.customs = x.customs
         /\ y.signatures = x.signatures
         /\ y.functions = x.functions /\ y.imports = x.imports
         /\ y.exports = x.exports
         /\ y.tables = x.tables
BY DEF Module

\* Another value of functions
LEMMA FunctionsChanged ==
  ASSUME NEW x \in Module, NEW v \in Seq(Function), NEW y,
         y = [x EXCEPT !.functions = v]
  PROVE  /\ y \in Module
         /\ y.functions = v
         /\ y.name = x.name /\ y.binary = x.binary /\ y.next = x.next
         /\ y.nextBody = x.nextBody /\ y.customs = x.customs
         /\ y.signatures = x.signatures
         /\ y.memories = x.memories /\ y.imports = x.imports
         /\ y.exports = x.exports
         /\ y.tables = x.tables
BY DEF Module

\* Another value of imports
LEMMA ImportsChanged ==
  ASSUME NEW x \in Module, NEW v \in Seq(Import), NEW y,
         y = [x EXCEPT !.imports = v]
  PROVE  /\ y \in Module
         /\ y.imports = v
         /\ y.name = x.name /\ y.binary = x.binary /\ y.next = x.next
         /\ y.nextBody = x.nextBody /\ y.customs = x.customs
         /\ y.signatures = x.signatures
         /\ y.memories = x.memories /\ y.functions = x.functions
         /\ y.exports = x.exports
         /\ y.tables = x.tables
BY DEF Module

\* Another value of exports
LEMMA ExportsChanged ==
  ASSUME NEW x \in Module, NEW v \in Seq(Export), NEW y,
         y = [x EXCEPT !.exports = v]
  PROVE  /\ y \in Module
         /\ y.exports = v
         /\ y.name = x.name /\ y.binary = x.binary /\ y.next = x.next
         /\ y.nextBody = x.nextBody /\ y.customs = x.customs
         /\ y.signatures = x.signatures
         /\ y.memories = x.memories /\ y.functions = x.functions
         /\ y.imports = x.imports
         /\ y.tables = x.tables
BY DEF Module

\* Another value of tables
LEMMA TablesChanged ==
  ASSUME NEW x \in Module, NEW v \in Seq(Seq(Nat)), NEW y,
         y = [x EXCEPT !.tables = v]
  PROVE  /\ y \in Module
         /\ y.tables = v
         /\ y.name = x.name /\ y.binary = x.binary /\ y.next = x.next
         /\ y.nextBody = x.nextBody /\ y.customs = x.customs
         /\ y.signatures = x.signatures
         /\ y.memories = x.memories /\ y.functions = x.functions
         /\ y.imports = x.imports
         /\ y.exports = x.exports
BY DEF Module

\* Another value of nextBody
LEMMA NextBodyChanged ==
  ASSUME NEW x \in Module, NEW v \in Nat, NEW y,
         y = [x EXCEPT !.nextBody = v]
  PROVE  /\ y \in Module
         /\ y.nextBody = v
         /\ y.name = x.name /\ y.binary = x.binary /\ y.next = x.next
         /\ y.customs = x.customs /\ y.signatures = x.signatures
         /\ y.memories = x.memories
         /\ y.functions = x.functions /\ y.imports = x.imports
         /\ y.exports = x.exports
         /\ y.tables = x.tables
BY DEF Module

\* Another value of name
LEMMA NameChanged ==
  ASSUME NEW x \in Module, NEW v \in Names \cup {NoName}, NEW y,
         y = [x EXCEPT !.name = v]
  PROVE  /\ y \in Module
         /\ y.name = v
         /\ y.binary = x.binary /\ y.next = x.next /\ y.nextBody = x.nextBody
         /\ y.customs = x.customs /\ y.signatures = x.signatures
         /\ y.memories = x.memories
         /\ y.functions = x.functions /\ y.imports = x.imports
         /\ y.exports = x.exports
         /\ y.tables = x.tables
BY DEF Module

\* Another value of binary
LEMMA BinaryChanged ==
  ASSUME NEW x \in Module, NEW v \in Binary, NEW y,
         y = [x EXCEPT !.binary = v]
  PROVE  /\ y \in Module
         /\ y.binary = v
         /\ y.name = x.name /\ y.next = x.next /\ y.nextBody = x.nextBody
         /\ y.customs = x.customs /\ y.signatures = x.signatures
         /\ y.memories = x.memories
         /\ y.functions = x.functions /\ y.imports = x.imports
         /\ y.exports = x.exports
         /\ y.tables = x.tables
BY DEF Module

\* A custom section is counted.
LEMMA CustomParsed ==
  ASSUME LoadInv, Parsing("custom"),
         Parsed([Current EXCEPT !.customs = @ + 1], ReadError, 1)
  PROVE  \E y : Edits(task.module, y)
<1> DEFINE n == Current.customs
           v == n + 1
           x == [Current EXCEPT !.customs = v]
<1>1. /\ AtItem /\ Current \in Module /\ ModuleOK(Current)
      /\ OwnedBy(Current) \in Nat /\ ReadError \in Errors
  BY ParsingType
<1>2. Parsed(x, ReadError, 1)
  OBVIOUS
<1>3. n \in Nat
  BY <1>1 DEF Module
<1>4. v = n + 1 /\ v \in Nat
  BY <1>3
<1> HIDE DEF v
<1>5. x = [Current EXCEPT !.customs = v]
  OBVIOUS
<1> HIDE DEF x
<1>6. /\ x \in Module /\ x.customs = v
      /\ x.name = Current.name /\ x.binary = Current.binary
      /\ x.next = Current.next /\ x.nextBody = Current.nextBody
      /\ x.functions = Current.functions /\ x.imports = Current.imports
      /\ x.exports = Current.exports /\ x.tables = Current.tables
      /\ x.customs = v
      /\ x.signatures = Current.signatures
      /\ x.memories = Current.memories
  BY <1>1, <1>4, <1>5, CustomsChanged
<1>7. ModuleOK(x)
  BY <1>1, <1>6 DEF ModuleOK
<1>8. OwnedBy(x) = OwnedBy(Current) + 1
  <2>1. OwnedBy(x) = OwnedBy(Current) + More(Current, x)
    BY <1>1, <1>6, OwnedMore
  <2>2. More(Current, x) = 1
    BY <1>1, <1>3, <1>4, <1>6, CountsType DEF More
  <2> QED
    BY <2>1, <2>2
<1>9. Declares(Current, x)
  BY <1>6 DEF Declares
<1> QED
  BY <1>1, <1>2, <1>6, <1>7, <1>8, <1>9, ParsedEdits

\* A function type is counted.
LEMMA TypeParsed ==
  ASSUME LoadInv, Parsing("type"),
         Parsed([Current EXCEPT !.signatures = @ + 1], ReadError, 2)
  PROVE  \E y : Edits(task.module, y)
<1> DEFINE n == Current.signatures
           v == n + 1
           x == [Current EXCEPT !.signatures = v]
<1>1. /\ AtItem /\ Current \in Module /\ ModuleOK(Current)
      /\ OwnedBy(Current) \in Nat /\ ReadError \in Errors
  BY ParsingType
<1>2. Parsed(x, ReadError, 2)
  OBVIOUS
<1>3. n \in Nat
  BY <1>1 DEF Module
<1>4. v = n + 1 /\ v \in Nat
  BY <1>3
<1> HIDE DEF v
<1>5. x = [Current EXCEPT !.signatures = v]
  OBVIOUS
<1> HIDE DEF x
<1>6. /\ x \in Module /\ x.signatures = v
      /\ x.name = Current.name /\ x.binary = Current.binary
      /\ x.next = Current.next /\ x.nextBody = Current.nextBody
      /\ x.functions = Current.functions /\ x.imports = Current.imports
      /\ x.exports = Current.exports /\ x.tables = Current.tables
      /\ x.customs = Current.customs
      /\ x.signatures = v
      /\ x.memories = Current.memories
  BY <1>1, <1>4, <1>5, SignaturesChanged
<1>7. ModuleOK(x)
  BY <1>1, <1>6 DEF ModuleOK
<1>8. OwnedBy(x) = OwnedBy(Current) + 2
  <2>1. OwnedBy(x) = OwnedBy(Current) + More(Current, x)
    BY <1>1, <1>6, OwnedMore
  <2>2. More(Current, x) = 2
    BY <1>1, <1>3, <1>4, <1>6, CountsType DEF More
  <2> QED
    BY <2>1, <2>2
<1>9. Declares(Current, x)
  BY <1>6 DEF Declares
<1> QED
  BY <1>1, <1>2, <1>6, <1>7, <1>8, <1>9, ParsedEdits

\* A memory is counted.
LEMMA MemoryParsed ==
  ASSUME LoadInv, Parsing("memory"),
         Parsed([Current EXCEPT !.memories = @ + 1], ReadError, 1)
  PROVE  \E y : Edits(task.module, y)
<1> DEFINE n == Current.memories
           v == n + 1
           x == [Current EXCEPT !.memories = v]
<1>1. /\ AtItem /\ Current \in Module /\ ModuleOK(Current)
      /\ OwnedBy(Current) \in Nat /\ ReadError \in Errors
  BY ParsingType
<1>2. Parsed(x, ReadError, 1)
  OBVIOUS
<1>3. n \in Nat
  BY <1>1 DEF Module
<1>4. v = n + 1 /\ v \in Nat
  BY <1>3
<1> HIDE DEF v
<1>5. x = [Current EXCEPT !.memories = v]
  OBVIOUS
<1> HIDE DEF x
<1>6. /\ x \in Module /\ x.memories = v
      /\ x.name = Current.name /\ x.binary = Current.binary
      /\ x.next = Current.next /\ x.nextBody = Current.nextBody
      /\ x.functions = Current.functions /\ x.imports = Current.imports
      /\ x.exports = Current.exports /\ x.tables = Current.tables
      /\ x.customs = Current.customs
      /\ x.signatures = Current.signatures
      /\ x.memories = v
  BY <1>1, <1>4, <1>5, MemoriesChanged
<1>7. ModuleOK(x)
  BY <1>1, <1>6 DEF ModuleOK
<1>8. OwnedBy(x) = OwnedBy(Current) + 1
  <2>1. OwnedBy(x) = OwnedBy(Current) + More(Current, x)
    BY <1>1, <1>6, OwnedMore
  <2>2. More(Current, x) = 1
    BY <1>1, <1>3, <1>4, <1>6, CountsType DEF More
  <2> QED
    BY <2>1, <2>2
<1>9. Declares(Current, x)
  BY <1>6 DEF Declares
<1> QED
  BY <1>1, <1>2, <1>6, <1>7, <1>8, <1>9, ParsedEdits

\* A function is declared.
LEMMA FunctionParsed ==
  ASSUME LoadInv, Parsing("function"),
         Parsed([Current EXCEPT !.functions =
                   Append(@, [import |-> 0, native |-> FALSE,
                              signature |-> Read.index, position |-> 0])],
                ReadError, 1)
  PROVE  \E y : Edits(task.module, y)
<1> DEFINE item == [import |-> 0, native |-> FALSE,
                           signature |-> Read.index, position |-> 0]
           list == Current.functions
           v == Append(list, item)
           x == [Current EXCEPT !.functions = v]
<1>1. /\ AtItem /\ Current \in Module /\ ModuleOK(Current) /\ Read \in Item
      /\ OwnedBy(Current) \in Nat /\ ReadError \in Errors
      /\ Current.binary # NoBinary
  BY ParsingType
<1>2. Parsed(x, ReadError, 1)
  OBVIOUS
<1>3. item \in Function
  BY <1>1 DEF Item, Function
<1>4. list \in Seq(Function)
  BY <1>1 DEF Module
<1> HIDE DEF item, list
<1>5. v \in Seq(Function) /\ Len(v) = Len(list) + 1 /\ Len(list) \in Nat
      /\ (\A i \in 1..Len(list) : v[i] = list[i]) /\ v[Len(list) + 1] = item
  BY <1>3, <1>4
<1> HIDE DEF v
<1>6. x = [Current EXCEPT !.functions = v]
  OBVIOUS
<1> HIDE DEF x
<1>7. /\ x \in Module
      /\ x.name = Current.name /\ x.binary = Current.binary
      /\ x.next = Current.next /\ x.nextBody = Current.nextBody
      /\ x.customs = Current.customs /\ x.signatures = Current.signatures
      /\ x.memories = Current.memories /\ x.functions = v
      /\ x.imports = Current.imports /\ x.exports = Current.exports
      /\ x.tables = Current.tables
  BY <1>1, <1>5, <1>6, FunctionsChanged
<1>8. ModuleOK(x)
  <2>1. ASSUME NEW f \in 1..Len(v)
        PROVE  v[f].import <= Len(Current.imports)
                 /\ v[f].position <= Len(Current.binary.items)
    <3>1. CASE f = Len(list) + 1
      <4>1. v[f].import = 0 /\ v[f].position = 0
        BY <1>5, <3>1 DEF item
      <4>2. Len(Current.imports) \in Nat /\ Len(Current.binary.items) \in Nat
        BY <1>1, LenProperties DEF Module, Binary
      <4> QED
        BY <4>1, <4>2
    <3>2. CASE f \in 1..Len(list)
      BY <1>1, <1>5, <3>2 DEF ModuleOK, list
    <3> QED
      BY <1>5, <3>1, <3>2
  <2> QED
    BY <1>1, <1>7, <2>1 DEF ModuleOK
<1>9. OwnedBy(x) = OwnedBy(Current) + 1
  <2>1. OwnedBy(x) = OwnedBy(Current) + More(Current, x)
    BY <1>1, <1>7, OwnedMore
  <2>2. More(Current, x) = 1
    BY <1>1, <1>5, <1>7, CountsType DEF More, list
  <2> QED
    BY <2>1, <2>2
<1>10. Declares(Current, x)
  BY <1>7 DEF Declares
<1> QED
  BY <1>1, <1>2, <1>7, <1>8, <1>9, <1>10, ParsedEdits

\* An export is declared.
LEMMA ExportParsed ==
  ASSUME LoadInv, Parsing("export"),
         Parsed([Current EXCEPT !.exports =
                   Append(@, [name |-> Read.name, isFunction |-> Read.known,
                           index |-> Read.index])], ReadError, 1)
  PROVE  \E y : Edits(task.module, y)
<1> DEFINE item == [name |-> Read.name, isFunction |-> Read.known,
                           index |-> Read.index]
           list == Current.exports
           v == Append(list, item)
           x == [Current EXCEPT !.exports = v]
<1>1. /\ AtItem /\ Current \in Module /\ ModuleOK(Current) /\ Read \in Item
      /\ OwnedBy(Current) \in Nat /\ ReadError \in Errors
      /\ Current.binary # NoBinary
  BY ParsingType
<1>2. Parsed(x, ReadError, 1)
  OBVIOUS
<1>3. item \in Export
  BY <1>1 DEF Item, Export
<1>4. list \in Seq(Export)
  BY <1>1 DEF Module
<1> HIDE DEF item, list
<1>5. v \in Seq(Export) /\ Len(v) = Len(list) + 1 /\ Len(list) \in Nat
      /\ (\A i \in 1..Len(list) : v[i] = list[i]) /\ v[Len(list) + 1] = item
  BY <1>3, <1>4
<1> HIDE DEF v
<1>6. x = [Current EXCEPT !.exports = v]
  OBVIOUS
<1> HIDE DEF x
<1>7. /\ x \in Module
      /\ x.name = Current.name /\ x.binary = Current.binary
      /\ x.next = Current.next /\ x.nextBody = Current.nextBody
      /\ x.customs = Current.customs /\ x.signatures = Current.signatures
      /\ x.memories = Current.memories /\ x.functions = Current.functions
      /\ x.imports = Current.imports /\ x.exports = v
      /\ x.tables = Current.tables
  BY <1>1, <1>5, <1>6, ExportsChanged
<1>8. ModuleOK(x)
  BY <1>1, <1>7 DEF ModuleOK
<1>9. OwnedBy(x) = OwnedBy(Current) + 1
  <2>1. OwnedBy(x) = OwnedBy(Current) + More(Current, x)
    BY <1>1, <1>7, OwnedMore
  <2>2. More(Current, x) = 1
    BY <1>1, <1>5, <1>7, CountsType DEF More, list
  <2> QED
    BY <2>1, <2>2
<1>10. Declares(Current, x)
  BY <1>3, <1>7 DEF Declares, v, list
<1> QED
  BY <1>1, <1>2, <1>7, <1>8, <1>9, <1>10, ParsedEdits

\* A table is declared.
LEMMA TableParsed ==
  ASSUME LoadInv, Parsing("table"),
         Parsed([Current EXCEPT !.tables = Append(@, <<>>)], ReadError, 1)
  PROVE  \E y : Edits(task.module, y)
<1> DEFINE list == Current.tables
           v == Append(list, <<>>)
           x == [Current EXCEPT !.tables = v]
<1>1. /\ AtItem /\ Current \in Module /\ ModuleOK(Current)
      /\ OwnedBy(Current) \in Nat /\ ReadError \in Errors
  BY ParsingType
<1>2. Parsed(x, ReadError, 1)
  OBVIOUS
<1>3. list \in Seq(Seq(Nat)) /\ <<>> \in Seq(Nat)
  BY <1>1, EmptySeq DEF Module
<1> HIDE DEF list
<1>4. /\ v \in Seq(Seq(Nat)) /\ Len(v) = Len(list) + 1 /\ Len(list) \in Nat
      /\ \A i \in 1..Len(list) : v[i] = list[i]
      /\ v[Len(list) + 1] = <<>>
  BY <1>3
<1> HIDE DEF v
<1>5. x = [Current EXCEPT !.tables = v]
  OBVIOUS
<1> HIDE DEF x
<1>6. /\ x \in Module
      /\ x.name = Current.name /\ x.binary = Current.binary
      /\ x.next = Current.next /\ x.nextBody = Current.nextBody
      /\ x.customs = Current.customs /\ x.signatures = Current.signatures
      /\ x.memories = Current.memories /\ x.functions = Current.functions
      /\ x.imports = Current.imports /\ x.exports = Current.exports
      /\ x.tables = v
  BY <1>1, <1>4, <1>5, TablesChanged
<1>7. ModuleOK(x)
  BY <1>1, <1>6 DEF ModuleOK
<1>8. OwnedBy(x) = OwnedBy(Current) + 1
  <2>1. OwnedBy(x) = OwnedBy(Current) + More(Current, x)
    BY <1>1, <1>6, OwnedMore
  <2>2. Len(x.tables) - Len(Current.tables) = 1
    BY <1>4, <1>6 DEF list
  <2>3. More(Current, x) = 1
    BY <1>1, <1>6, <2>2, CountsType DEF More
  <2> QED
    BY <2>1, <2>3
<1>9. x.tables # <<>> /\ Len(x.tables[1]) > MaxTableSize =>
        Current.tables # <<>> /\ Len(Current.tables[1]) > MaxTableSize
  <2>1. CASE list = <<>>
    <3>1. v[1] = <<>> /\ MaxTableSize \in Nat
      BY <1>4, <2>1, LoadingAssumption
    <3> QED
      BY <1>6, <3>1
  <2>2. CASE list # <<>>
    <3>1. Len(list) # 0
      BY <1>3, <2>2, EmptySeq
    <3>2. 1 \in 1..Len(list)
      BY <1>4, <3>1
    <3>3. v[1] = list[1]
      BY <1>4, <3>2
    <3> QED
      BY <1>6, <2>2, <3>3 DEF list
  <2> QED
    BY <2>1, <2>2
<1>10. Declares(Current, x)
  BY <1>6 DEF Declares
<1> QED
  BY <1>1, <1>2, <1>6, <1>7, <1>8, <1>9, <1>10, ParsedEdits

\* An item of which nothing is kept
LEMMA NothingParsed ==
  ASSUME LoadInv, NEW section, Parsing(section), Parsed(Current, ReadError, 0)
  PROVE  \E y : Edits(task.module, y)
<1>1. /\ AtItem /\ Current \in Module /\ ModuleOK(Current)
      /\ OwnedBy(Current) \in Nat /\ ReadError \in Errors
  BY ParsingType
<1>2. OwnedBy(Current) = OwnedBy(Current) + 0
  BY <1>1
<1>3. Declares(Current, Current)
  BY <1>1 DEF Declares
<1> QED
  BY <1>1, <1>2, <1>3, ParsedEdits

\* An item that the parser refuses
LEMMA ItemRefused ==
  ASSUME LoadInv, NEW section, Parsing(section),
         NEW e \in Errors \ {"none"}, NEW b \in Nat, Refused(Current, e, b)
  PROVE  \E y : Edits(task.module, y)
<1>1. AtItem /\ Current \in Module /\ ModuleOK(Current)
  BY ParsingType
<1> QED
  BY <1>1, RefusedEdits

\* An import becomes a function too.
LEMMA ImportParsed ==
  ASSUME LoadInv, Parsing("import"),
         Parsed(WithImport(Current, Read), ReadError, 3)
  PROVE  \E y : Edits(task.module, y)
<1> DEFINE function == [import |-> Len(Current.imports) + 1, native |-> FALSE,
                        signature |-> Read.index, position |-> 0]
           import == [module |-> Read.module, name |-> Read.name,
                      resolvedModule |-> 0, index |-> 0]
           fs == Current.functions
           is == Current.imports
           v  == Append(fs, function)
           w  == Append(is, import)
           z  == [Current EXCEPT !.functions = v]
           x  == [z EXCEPT !.imports = w]
<1>1. /\ AtItem /\ Current \in Module /\ ModuleOK(Current) /\ Read \in Item
      /\ OwnedBy(Current) \in Nat /\ ReadError \in Errors
      /\ Current.binary # NoBinary
  BY ParsingType
<1>2. Parsed(x, ReadError, 3)
  <2>1. WithImport(Current, Read) = x
    BY <1>1 DEF WithImport, Module
  <2> QED
    BY <2>1
<1>3. fs \in Seq(Function) /\ is \in Seq(Import)
  BY <1>1 DEF Module
<1>4. function \in Function /\ import \in Import
  BY <1>1, <1>3 DEF Item, Function, Import
<1>5. /\ function.import = Len(is) + 1 /\ function.position = 0
      /\ import.resolvedModule = 0
  OBVIOUS
<1> HIDE DEF function, import, fs, is
<1>6. /\ v \in Seq(Function) /\ Len(v) = Len(fs) + 1 /\ Len(fs) \in Nat
      /\ \A i \in 1..Len(fs) : v[i] = fs[i]
      /\ v[Len(fs) + 1] = function
      /\ w \in Seq(Import) /\ Len(w) = Len(is) + 1 /\ Len(is) \in Nat
  BY <1>3, <1>4
<1> HIDE DEF v, w
<1>7. z = [Current EXCEPT !.functions = v] /\ x = [z EXCEPT !.imports = w]
  OBVIOUS
<1> HIDE DEF z, x
<1>8. /\ x \in Module
      /\ x.name = Current.name /\ x.binary = Current.binary
      /\ x.next = Current.next /\ x.nextBody = Current.nextBody
      /\ x.customs = Current.customs /\ x.signatures = Current.signatures
      /\ x.memories = Current.memories /\ x.functions = v
      /\ x.imports = w /\ x.exports = Current.exports
      /\ x.tables = Current.tables
  <2>1. /\ z \in Module /\ z.functions = v
        /\ z.name = Current.name /\ z.binary = Current.binary
        /\ z.next = Current.next /\ z.nextBody = Current.nextBody
        /\ z.customs = Current.customs /\ z.signatures = Current.signatures
        /\ z.memories = Current.memories /\ z.exports = Current.exports
        /\ z.tables = Current.tables
    BY <1>1, <1>6, <1>7, FunctionsChanged
  <2>2. /\ x \in Module /\ x.imports = w
        /\ x.name = z.name /\ x.binary = z.binary
        /\ x.next = z.next /\ x.nextBody = z.nextBody
        /\ x.customs = z.customs /\ x.signatures = z.signatures
        /\ x.memories = z.memories /\ x.functions = z.functions
        /\ x.exports = z.exports /\ x.tables = z.tables
    <3>1. z \in Module /\ w \in Seq(Import) /\ x = [z EXCEPT !.imports = w]
      BY <1>6, <1>7, <2>1
    <3> QED
      BY <3>1, ImportsChanged
  <2> QED
    BY <2>1, <2>2
<1>9. ModuleOK(x)
  <2>1. ASSUME NEW f \in 1..Len(v)
        PROVE  v[f].import <= Len(w)
                 /\ v[f].position <= Len(Current.binary.items)
    <3>1. CASE f = Len(fs) + 1
      <4>1. Len(Current.binary.items) \in Nat
        BY <1>1, LenProperties DEF Module, Binary
      <4> QED
        BY <1>5, <1>6, <3>1, <4>1
    <3>2. CASE f \in 1..Len(fs)
      <4>1. /\ fs[f].import <= Len(is)
            /\ fs[f].position <= Len(Current.binary.items)
        BY <1>1, <3>2 DEF ModuleOK, fs, is
      <4>2. fs[f] \in Function
        BY <1>3, <3>2, ElementOfSeq
      <4>3. fs[f].import \in Nat
        BY <4>2 DEF Function
      <4> QED
        BY <1>6, <3>2, <4>1, <4>3
    <3> QED
      BY <1>6, <3>1, <3>2
  <2> QED
    BY <1>1, <1>8, <2>1 DEF ModuleOK
<1>10. OwnedBy(x) = OwnedBy(Current) + 3
  <2>1. OwnedBy(x) = OwnedBy(Current) + More(Current, x)
    BY <1>1, <1>8, OwnedMore
  <2>2. /\ Len(x.functions) - Len(Current.functions) = 1
        /\ Len(x.imports) - Len(Current.imports) = 1
    BY <1>6, <1>8 DEF fs, is
  <2>3. /\ x.customs - Current.customs = 0
        /\ x.signatures - Current.signatures = 0
        /\ x.memories - Current.memories = 0
        /\ Len(x.tables) - Len(Current.tables) = 0
        /\ Len(x.exports) - Len(Current.exports) = 0
    BY <1>1, <1>8, CountsType
  <2>4. More(Current, x) = 0 + 2 * 0 + 2 * 1 + 1 + 0 + 0 + 0
    BY <2>2, <2>3 DEF More
  <2> QED
    BY <2>1, <2>4
<1>11. Declares(Current, x)
  BY <1>4, <1>5, <1>8 DEF Declares, w, is
<1> QED
  BY <1>1, <1>2, <1>8, <1>9, <1>10, <1>11, ParsedEdits

\* A segment is placed in the first table.
LEMMA ElementParsed ==
  ASSUME LoadInv, Parsing("element"), Current.tables # <<>>,
         Parsed([Current EXCEPT !.tables[1] =
                   WithElements(@, Read.index, Read.list)],
                IF LimitMet(Current.tables[1], Read.index, Read.list)
                  THEN "limit_exceeded" ELSE ReadError,
                0)
  PROVE  \E y : Edits(task.module, y)
<1> DEFINE list  == Current.tables
           start == Read.index
           elements == Read.list
           table == list[1]
           u == WithElements(table, start, elements)
           v == [list EXCEPT ![1] = u]
           x == [Current EXCEPT !.tables = v]
           e == IF LimitMet(table, start, elements)
                  THEN "limit_exceeded" ELSE ReadError
<1>1. /\ AtItem /\ Current \in Module /\ ModuleOK(Current) /\ Read \in Item
      /\ OwnedBy(Current) \in Nat /\ ReadError \in Errors
  BY ParsingType
<1>2. Parsed(x, e, 0)
  <2>1. [Current EXCEPT !.tables[1] = WithElements(@, Read.index, Read.list)]
          = x
    BY <1>1 DEF Module
  <2> QED
    BY <2>1
<1>3. /\ list \in Seq(Seq(Nat)) /\ list # <<>>
      /\ start \in Nat /\ elements \in Seq(Nat)
  BY <1>1 DEF Module, Item
<1>4. e \in Errors /\ (ReadError # "none" => e # "none")
  BY <1>1 DEF Errors
<1>5. LimitMet(table, start, elements) => e # "none"
  OBVIOUS
<1> HIDE DEF list, start, elements, e
<1>6. Len(list) \in Nat /\ 1 \in 1..Len(list)
  <2>1. Len(list) \in Nat /\ Len(list) # 0
    BY <1>3, EmptySeq
  <2> QED
    BY <2>1
<1>7. table \in Seq(Nat)
  BY <1>3, <1>6, ElementOfSeq
<1> HIDE DEF table
<1>8. u \in Seq(Nat)
  BY <1>3, <1>7, WithElementsIs
<1>9. Len(u) > MaxTableSize => Len(table) > MaxTableSize \/ e # "none"
  <2>1. Len(table) \in Nat /\ MaxTableSize \in Nat
    BY <1>7, LoadingAssumption
  <2>2. Len(u) > MaxTableSize /\ Len(table) <= MaxTableSize => e # "none"
    BY <1>3, <1>5, <1>7, LimitIsMet
  <2> QED
    BY <2>1, <2>2
<1> HIDE DEF u
<1>10. /\ v \in Seq(Seq(Nat)) /\ Len(v) = Len(list) /\ v[1] = u
       /\ v # <<>>
  BY <1>3, <1>6, <1>8
<1> HIDE DEF v
<1>11. x = [Current EXCEPT !.tables = v]
  OBVIOUS
<1> HIDE DEF x
<1>12. /\ x \in Module
       /\ x.name = Current.name /\ x.binary = Current.binary
       /\ x.next = Current.next /\ x.nextBody = Current.nextBody
       /\ x.customs = Current.customs /\ x.signatures = Current.signatures
       /\ x.memories = Current.memories /\ x.functions = Current.functions
       /\ x.imports = Current.imports /\ x.exports = Current.exports
       /\ x.tables = v
  BY <1>1, <1>10, <1>11, TablesChanged
<1>13. ModuleOK(x)
  BY <1>1, <1>12 DEF ModuleOK
<1>14. Len(x.tables) = Len(Current.tables)
  BY <1>10, <1>12 DEF list
<1>15. OwnedBy(x) = OwnedBy(Current)
  BY <1>12, <1>14 DEF OwnedBy
<1>16. OwnedBy(x) = OwnedBy(Current) + 0
  BY <1>1, <1>15
<1>17. x.tables # <<>> /\ Len(x.tables[1]) > MaxTableSize =>
         \/ Current.tables # <<>> /\ Len(Current.tables[1]) > MaxTableSize
         \/ e # "none"
  BY <1>3, <1>9, <1>10, <1>12 DEF list, table
<1>18. Declares(Current, x)
  BY <1>12 DEF Declares
<1> QED
  BY <1>1, <1>2, <1>4, <1>12, <1>13, <1>16, <1>17, <1>18, ParsedEdits

\* A body that no function is left for
LEMMA CodeRefused ==
  ASSUME LoadInv, Parsing("code"),
         LET n == Len(Current.functions) IN
         Refused([Current EXCEPT
                    !.nextBody = IF @ > n THEN @ + 1 ELSE n + 2],
                 "code_body_mismatch", 0)
  PROVE  \E y : Edits(task.module, y)
<1> DEFINE n == Len(Current.functions)
           b == Current.nextBody
           v == IF b > n THEN b + 1 ELSE n + 2
           x == [Current EXCEPT !.nextBody = v]
<1>1. AtItem /\ Current \in Module /\ ModuleOK(Current)
  BY ParsingType
<1>2. Refused(x, "code_body_mismatch", 0)
  OBVIOUS
<1>3. n \in Nat /\ b \in Nat
  BY <1>1, CountsType DEF Module
<1> HIDE DEF n, b
<1>4. v \in Nat /\ v >= 1
  BY <1>3
<1> HIDE DEF v
<1>5. x = [Current EXCEPT !.nextBody = v]
  OBVIOUS
<1> HIDE DEF x
<1>6. /\ x \in Module /\ x.nextBody = v
      /\ x.name = Current.name /\ x.binary = Current.binary
      /\ x.next = Current.next
      /\ x.customs = Current.customs /\ x.signatures = Current.signatures
      /\ x.memories = Current.memories /\ x.functions = Current.functions
      /\ x.imports = Current.imports /\ x.exports = Current.exports
      /\ x.tables = Current.tables
  BY <1>1, <1>4, <1>5, NextBodyChanged
<1>7. ModuleOK(x)
  BY <1>1, <1>4, <1>6 DEF ModuleOK
<1>8. OwnedBy(x) = OwnedBy(Current)
  BY <1>6 DEF OwnedBy
<1>9. "code_body_mismatch" \in Errors \ {"none"} /\ 0 \in Nat
  BY DEF Errors
<1> QED
  BY <1>1, <1>2, <1>6, <1>7, <1>8, <1>9, RefusedEdits

\* A body goes to the first function that is left for one.
LEMMA CodeParsed ==
  ASSUME LoadInv, Parsing("code"), Bodiless(Current) # {},
         LET f == First(Bodiless(Current)) IN
         Parsed([Current EXCEPT !.nextBody = f + 1,
                                !.functions[f].position = Current.next],
                ReadError, 0)
  PROVE  \E y : Edits(task.module, y)
<1> DEFINE f  == First(Bodiless(Current))
           fs == Current.functions
           p  == Current.next
           g  == [fs[f] EXCEPT !.position = p]
           v  == [fs EXCEPT ![f] = g]
           n  == f + 1
           z  == [Current EXCEPT !.functions = v]
           x  == [z EXCEPT !.nextBody = n]
<1>1. /\ AtItem /\ Current \in Module /\ ModuleOK(Current)
      /\ OwnedBy(Current) \in Nat /\ ReadError \in Errors
      /\ Current.next \in 1..Len(Current.binary.items)
      /\ Current.binary # NoBinary
  BY ParsingType
<1>2. f \in 1..Len(fs)
  <2>1. Current.nextBody \in Nat /\ Current.nextBody >= 1
    BY <1>1 DEF Module, ModuleOK
  <2>2. /\ Bodiless(Current) \subseteq Nat
        /\ Bodiless(Current) \subseteq 1..Len(fs)
    BY <2>1 DEF Bodiless
  <2> QED
    BY <2>2, FirstIs
<1>3. fs \in Seq(Function) /\ p \in Nat
  BY <1>1 DEF Module
<1>4. Parsed(x, ReadError, 0)
  <2>1. [Current EXCEPT !.nextBody = f + 1,
                        !.functions[f].position = Current.next] = x
    <3> HIDE DEF f
    <3> QED
      BY <1>1 DEF Module
  <2> QED
    BY <2>1
<1> HIDE DEF f, fs
<1>5. n \in Nat /\ n >= 1
  BY <1>2
<1> HIDE DEF n
<1>6. fs[f] \in Function
  BY <1>2, <1>3, ElementOfSeq
<1>7. /\ g \in Function /\ g.position = p
      /\ g.import = fs[f].import /\ g.native = fs[f].native
  BY <1>3, <1>6 DEF Function
<1> HIDE DEF g
<1>8. /\ v \in Seq(Function) /\ Len(v) = Len(fs) /\ v[f] = g
      /\ \A i \in 1..Len(fs) : i # f => v[i] = fs[i]
  BY <1>2, <1>3, <1>7
<1> HIDE DEF v
<1>9. z = [Current EXCEPT !.functions = v] /\ x = [z EXCEPT !.nextBody = n]
  OBVIOUS
<1> HIDE DEF z, x
<1>10. /\ x \in Module /\ x.nextBody = n
       /\ x.name = Current.name /\ x.binary = Current.binary
       /\ x.next = Current.next
       /\ x.customs = Current.customs /\ x.signatures = Current.signatures
       /\ x.memories = Current.memories /\ x.functions = v
       /\ x.imports = Current.imports /\ x.exports = Current.exports
       /\ x.tables = Current.tables
  <2>1. /\ z \in Module /\ z.functions = v
        /\ z.name = Current.name /\ z.binary = Current.binary
        /\ z.next = Current.next
        /\ z.customs = Current.customs /\ z.signatures = Current.signatures
        /\ z.memories = Current.memories /\ z.imports = Current.imports
        /\ z.exports = Current.exports /\ z.tables = Current.tables
    BY <1>1, <1>8, <1>9, FunctionsChanged
  <2>2. /\ x \in Module /\ x.nextBody = n
        /\ x.name = z.name /\ x.binary = z.binary
        /\ x.next = z.next
        /\ x.customs = z.customs /\ x.signatures = z.signatures
        /\ x.memories = z.memories /\ x.functions = z.functions
        /\ x.imports = z.imports
        /\ x.exports = z.exports /\ x.tables = z.tables
    <3>1. z \in Module /\ n \in Nat /\ x = [z EXCEPT !.nextBody = n]
      BY <1>5, <1>9, <2>1
    <3> QED
      BY <3>1, NextBodyChanged
  <2> QED
    BY <2>1, <2>2
<1>11. ModuleOK(x)
  <2>1. ASSUME NEW i \in 1..Len(fs)
        PROVE  v[i].import <= Len(Current.imports)
                 /\ v[i].position <= Len(Current.binary.items)
    <3>1. fs[i].import <= Len(Current.imports)
            /\ fs[i].position <= Len(Current.binary.items)
      BY <1>1 DEF ModuleOK, fs
    <3>2. CASE i = f
      <4>1. p <= Len(Current.binary.items)
        BY <1>1
      <4> QED
        BY <1>7, <1>8, <3>1, <3>2, <4>1
    <3>3. CASE i # f
      BY <1>8, <3>1, <3>3
    <3> QED
      BY <3>2, <3>3
  <2>2. x.next >= 1 /\ x.nextBody >= 1
    BY <1>1, <1>5, <1>10
  <2> QED
    BY <1>1, <1>8, <1>10, <2>1, <2>2 DEF ModuleOK
<1>12. Len(x.functions) = Len(Current.functions)
  BY <1>8, <1>10 DEF fs
<1>13. OwnedBy(x) = OwnedBy(Current)
  BY <1>10, <1>12 DEF OwnedBy
<1>14. OwnedBy(x) = OwnedBy(Current) + 0
  BY <1>1, <1>13
<1>15. Declares(Current, x)
  BY <1>10 DEF Declares
<1> QED
  BY <1>1, <1>4, <1>10, <1>11, <1>14, <1>15, ParsedEdits

\* The steps of the parser that take an item
ParserStep ==
  \/ ParseCustom \/ ParseType \/ ParseImport \/ ParseFunction \/ ParseTable
  \/ ParseMemory \/ ParseGlobal \/ ParseExport \/ ParseElement \/ ParseCode
  \/ ParseData \/ ParseUnknown

\* Each of them edits the module that is parsed.
LEMMA ParserEdits ==
  ASSUME LoadInv, ParserStep
  PROVE  \E y : Edits(task.module, y)
<1>1. /\ {"not_implemented", "invalid_index"} \subseteq Errors \ {"none"}
      /\ 0 \in Nat /\ 2 \in Nat
  BY DEF Errors
<1>2. CASE ParseCustom
  BY <1>2, CustomParsed DEF ParseCustom
<1>3. CASE ParseType
  BY <1>1, <1>3, TypeParsed, ItemRefused DEF ParseType
<1>4. CASE ParseImport
  BY <1>1, <1>4, ImportParsed, ItemRefused DEF ParseImport
<1>5. CASE ParseFunction
  BY <1>5, FunctionParsed DEF ParseFunction
<1>6. CASE ParseTable
  BY <1>6, TableParsed DEF ParseTable
<1>7. CASE ParseMemory
  BY <1>7, MemoryParsed DEF ParseMemory
<1>8. CASE ParseGlobal
  BY <1>1, <1>8, NothingParsed, ItemRefused DEF ParseGlobal
<1>9. CASE ParseExport
  BY <1>9, ExportParsed DEF ParseExport
<1>10. CASE ParseElement
  BY <1>1, <1>10, ElementParsed, ItemRefused DEF ParseElement
<1>11. CASE ParseCode
  BY <1>11, CodeParsed, CodeRefused DEF ParseCode
<1>12. CASE ParseData
  BY <1>1, <1>12, NothingParsed, ItemRefused DEF ParseData
<1>13. CASE ParseUnknown
  BY <1>1, <1>13, ItemRefused DEF ParseUnknown
<1> QED
  BY <1>2, <1>3, <1>4, <1>5, <1>6, <1>7, <1>8, <1>9, <1>10, <1>11, <1>12,
     <1>13 DEF ParserStep

-----------------------------------------------------------------------------
(***************************************************************************)
(* Every step that sets up modules keeps what holds while they are set up. *)
(***************************************************************************)

\* What else has been allocated belongs to the context, or is lost.
Accounted ==
  \E a, l \in Nat : /\ heap' = heap + a /\ lost' = lost + l
                    /\ Owned' + l = Owned + a

\* What becomes of the rest of the state
Tells ==
  /\ plan' = plan
  /\ error' \in Errors
  /\ error # "none" => error' # "none"
  /\ task' \in Task
  /\ task'.call # "none" => task'.module \in 1..Len(modules)
  /\ task'.call = "none" => task' = NoTask
  /\ task'.call = "link" => task'.import >= 1
  /\ answer' \in Answer

\* Module m becomes x.
Replaces(m, x) ==
  /\ x \in Module /\ ModuleOK(x)
  /\ modules' = [modules EXCEPT ![m] = x]
  /\ x.binary = modules[m].binary \/ modules[m].binary = NoBinary
  /\ \E a, l \in Nat : /\ heap' = heap + a /\ lost' = lost + l
                       /\ OwnedBy(x) + l = OwnedBy(modules[m]) + a
  /\ Damaged(x) => Damaged(modules[m]) \/ error' # "none"
  /\ task'.call = "parse" =>
       task'.module = m /\ x.binary # NoBinary

\* The sum over the modules is a number.
LEMMA OwnedType ==
  ASSUME modules \in Seq(Module)
  PROVE  Owned \in Nat
<1>1. Len(modules) \in 0..Len(modules)
  OBVIOUS
<1> QED
  BY <1>1, SumIs, OwnedIs

\* A module is replaced.
LEMMA ReplacesKeeps ==
  ASSUME LoadInv, Tells, NEW m \in 1..Len(modules), NEW x, Replaces(m, x)
  PROVE  LoadInv' /\ Accounted
<1>1. /\ modules \in Seq(Module) /\ x \in Module
      /\ modules' = [modules EXCEPT ![m] = x]
  BY DEF LoadInv, Replaces
<1>2. /\ modules' \in Seq(Module) /\ Len(modules') = Len(modules)
      /\ modules'[m] = x
      /\ \A i \in 1..Len(modules) : i # m => modules'[i] = modules[i]
  BY <1>1
<1>3. \A i \in 1..Len(modules') : ModuleOK(modules'[i])
  <2>1. \A i \in 1..Len(modules) : ModuleOK(modules[i])
    BY DEF LoadInv
  <2> QED
    BY <1>2, <2>1 DEF Replaces
<1>4. \A i \in 1..Len(modules') : Damaged(modules'[i]) => error' # "none"
  <2>1. \A i \in 1..Len(modules) : Damaged(modules[i]) => error # "none"
    BY DEF LoadInv
  <2>2. error # "none" => error' # "none"
    BY DEF Tells
  <2>3. Damaged(x) => Damaged(modules[m]) \/ error' # "none"
    BY DEF Replaces
  <2> QED
    BY <1>2, <2>1, <2>2, <2>3
<1>5. task'.call = "parse" => modules'[task'.module].binary # NoBinary
  BY <1>2 DEF Replaces
<1>6. /\ plan' \in Plans /\ Len(modules') <= Len(plan')
      /\ error' \in Errors /\ task' \in Task
      /\ task'.call # "none" => task'.module \in 1..Len(modules')
      /\ task'.call = "none" => task' = NoTask
      /\ task'.call = "link" => task'.import >= 1
      /\ answer' \in Answer
  BY <1>2 DEF Tells, LoadInv
<1>7. PICK a, l \in Nat : /\ heap' = heap + a /\ lost' = lost + l
                          /\ OwnedBy(x) + l = OwnedBy(modules[m]) + a
  BY DEF Replaces
<1>8. heap' \in Nat /\ lost' \in Nat
  BY <1>7 DEF LoadInv
<1>9. LoadInv'
  BY <1>2, <1>3, <1>4, <1>5, <1>6, <1>8 DEF LoadInv, Current, NoTask
<1>10. Owned' + l = Owned + a
  <2>1. Owned' + OwnedBy(modules[m]) = Owned + OwnedBy(x)
    <3>1. Sum([modules EXCEPT ![m] = x])[Len(modules)] + OwnedBy(modules[m])
            = Sum(modules)[Len(modules)] + OwnedBy(x)
      BY <1>1, SumChanged
    <3>2. /\ Owned' = Sum([modules EXCEPT ![m] = x])[Len(modules)]
          /\ Owned = Sum(modules)[Len(modules)]
      BY <1>1, <1>2, OwnedIs
    <3> QED
      BY <3>1, <3>2
  <2>2. /\ Owned \in Nat /\ OwnedBy(x) \in Nat /\ OwnedBy(modules[m]) \in Nat
    BY <1>1, OwnedType, OwnedByType, ElementOfSeq
  <2>3. Owned' \in Nat
    <3>1. Len(modules') \in 0..Len(modules')
      BY <1>2
    <3> QED
      BY <1>2, <3>1, SumIs, OwnedIs
  <2> DEFINE p == Owned
             q == Owned'
             r == OwnedBy(x)
             s == OwnedBy(modules[m])
  <2>4. /\ p \in Nat /\ q \in Nat /\ r \in Nat /\ s \in Nat
        /\ q + s = p + r /\ r + l = s + a
    BY <1>7, <2>1, <2>2, <2>3
  <2> HIDE DEF p, q, r, s
  <2>5. q + l = p + a
    BY <2>4
  <2> QED
    BY <2>5 DEF p, q
<1> QED
  BY <1>7, <1>9, <1>10 DEF Accounted

\* No module changes.
LEMMA ModulesStay ==
  ASSUME LoadInv, Tells, modules' = modules,
         task'.call = "parse" => modules[task'.module].binary # NoBinary,
         NEW l \in Nat, heap' = heap + l, lost' = lost + l
  PROVE  LoadInv' /\ Accounted
<1>1. LoadInv'
  BY DEF LoadInv, Tells, Current, NoTask
<1>2. Owned' = Owned
  BY OwnedIs
<1> QED
  BY <1>1, <1>2 DEF Accounted

\* A module that is edited is one that is replaced.
LEMMA EditsKeep ==
  ASSUME LoadInv, task.call # "none", NEW x, Edits(task.module, x)
  PROVE  LoadInv' /\ Accounted
<1>1. task.module \in 1..Len(modules)
  BY CurrentType
<1>2. Tells
  BY <1>1 DEF Edits, Tells, LoadInv, NoTask, Task
<1>3. task'.call = "parse" => task' = task
  BY DEF Edits, NoTask
<1>4. task'.call = "parse" => task'.module = task.module /\ x.binary # NoBinary
  BY <1>3 DEF Edits, LoadInv, Current
<1>5. Replaces(task.module, x)
  BY <1>4 DEF Edits, Replaces
<1> QED
  BY <1>1, <1>2, <1>5, ReplacesKeeps

\* The parser's steps
LEMMA ParserKeeps ==
  ASSUME LoadInv, ParserStep
  PROVE  LoadInv' /\ Accounted
<1>1. task.call # "none"
  BY DEF ParserStep, ParseCustom, ParseType, ParseImport, ParseFunction,
         ParseTable, ParseMemory, ParseGlobal, ParseExport, ParseElement,
         ParseCode, ParseData, ParseUnknown, Parsing, AtItem
<1> QED
  BY <1>1, ParserEdits, EditsKeep

\* What a call of the host was told is of the type of answers.
LEMMA AnswerType ==
  ASSUME NEW call \in {"parse", "link", "run", "call", "step"},
         NEW m \in Nat, NEW ok \in BOOLEAN, Told(call, m, ok)
  PROVE  answer' \in Answer
BY DEF Told, Answer

\* A loop of the parser or of the linker ends, or the linker passes an import or
\* refuses one.
LEMMA LoopsKeep ==
  ASSUME LoadInv, ParseEnd \/ PassImport \/ RefuseImport \/ LinkEnd
  PROVE  LoadInv' /\ Accounted
<1>1. /\ NoTask \in Task /\ NoTask.call = "none"
  BY DEF NoTask, Task
<1>2. task.call # "none" /\ task \in Task
  BY DEF LoadInv, ParseEnd, PassImport, RefuseImport, LinkEnd, AtImport
<1>3. /\ task.module \in 1..Len(modules) /\ task.module \in Nat
      /\ heap \in Nat /\ lost \in Nat
  BY <1>2, CurrentType DEF LoadInv
<1>4. heap + 0 = heap /\ lost + 0 = lost
  BY <1>3
<1>5. CASE ParseEnd
  <2>1. answer' \in Answer
    BY <1>3, <1>5, AnswerType DEF ParseEnd
  <2>2. Tells
    BY <1>1, <1>5, <2>1 DEF ParseEnd, Tells, LoadInv
  <2>3. task'.call # "parse" /\ modules' = modules
    BY <1>1, <1>5 DEF ParseEnd
  <2>4. heap' = heap + 0 /\ lost' = lost + 0
    BY <1>4, <1>5 DEF ParseEnd
  <2> QED
    BY <2>2, <2>3, <2>4, ModulesStay
<1>6. CASE LinkEnd
  <2>1. answer' \in Answer
    BY <1>3, <1>6, AnswerType DEF LinkEnd
  <2>2. Tells
    BY <1>1, <1>6, <2>1 DEF LinkEnd, Tells, LoadInv
  <2>3. task'.call # "parse" /\ modules' = modules
    BY <1>1, <1>6 DEF LinkEnd
  <2>4. heap' = heap + 0 /\ lost' = lost + 0
    BY <1>4, <1>6 DEF LinkEnd
  <2> QED
    BY <2>2, <2>3, <2>4, ModulesStay
<1>7. CASE RefuseImport
  <2>1. answer' \in Answer
    BY <1>3, <1>7, AnswerType DEF RefuseImport
  <2>2. error' \in Errors /\ error' # "none"
    BY <1>7 DEF RefuseImport, Errors
  <2>3. Tells
    BY <1>1, <1>7, <2>1, <2>2 DEF RefuseImport, Tells, LoadInv
  <2>4. task'.call # "parse" /\ modules' = modules
    BY <1>1, <1>7 DEF RefuseImport
  <2>5. heap' = heap + 1 /\ lost' = lost + 1
    BY <1>7 DEF RefuseImport, Loses
  <2> QED
    BY <2>3, <2>4, <2>5, ModulesStay
<1>8. CASE PassImport
  <2>1. /\ task' \in Task /\ task'.call = task.call
        /\ task'.module = task.module /\ task.call = "link"
        /\ task'.import >= 1
    <3>1. task.import \in Nat
      BY <1>2 DEF Task
    <3> QED
      BY <1>2, <1>8, <3>1 DEF PassImport, AtImport, Task
  <2>2. Tells
    BY <1>2, <1>3, <1>8, <2>1 DEF PassImport, Tells, LoadInv
  <2>3. task'.call # "parse" /\ modules' = modules
    BY <1>8, <2>1 DEF PassImport
  <2>4. heap' = heap + 0 /\ lost' = lost + 0
    BY <1>4, <1>8 DEF PassImport
  <2> QED
    BY <2>2, <2>3, <2>4, ModulesStay
<1> QED
  BY <1>5, <1>6, <1>7, <1>8

-----------------------------------------------------------------------------
(***************************************************************************)
(* The linker.                                                             *)
(***************************************************************************)

\* What an import is resolved to is there.
LEMMA AvailableIs ==
  ASSUME LoadInv, NEW import, Available(import)
  PROVE  LET target == First(ModulesNamed(import.module))
             e == First(ExportsNamed(target, import.name))
         IN /\ target \in 1..Len(modules)
            /\ modules[target].name = import.module
            /\ e \in 1..Len(modules[target].exports)
            /\ modules[target].exports[e] \in Export
            /\ modules[target].exports[e].isFunction
            /\ modules[target].exports[e].name = import.name
            /\ ExportIndex(target, import.name)
                 = modules[target].exports[e].index
            /\ ExportIndex(target, import.name) \in Nat
<1> DEFINE target == First(ModulesNamed(import.module))
           e == First(ExportsNamed(target, import.name))
<1>1. target \in ModulesNamed(import.module)
  <2>1. /\ ModulesNamed(import.module) \subseteq Nat
        /\ ModulesNamed(import.module) # {}
    BY DEF ModulesNamed, Available
  <2> QED
    BY <2>1, FirstIs
<1>2. target \in 1..Len(modules) /\ modules[target].name = import.module
  BY <1>1 DEF ModulesNamed
<1>3. modules[target] \in Module
  BY <1>2, ElementOfSeq DEF LoadInv
<1>4. modules[target].exports \in Seq(Export)
  BY <1>3 DEF Module
<1>5. e \in ExportsNamed(target, import.name)
  <2>1. ExportsNamed(target, import.name) # {}
    BY DEF Available
  <2>2. ExportsNamed(target, import.name) \subseteq Nat
    BY DEF ExportsNamed
  <2> HIDE DEF target
  <2> QED
    BY <2>1, <2>2, FirstIs
<1> HIDE DEF target
<1>6. /\ e \in 1..Len(modules[target].exports)
      /\ modules[target].exports[e].isFunction
      /\ modules[target].exports[e].name = import.name
  BY <1>5 DEF ExportsNamed
<1>7. ExportIndex(target, import.name) = modules[target].exports[e].index
  BY DEF ExportIndex
<1> HIDE DEF e
<1>8. modules[target].exports[e] \in Export
  BY <1>4, <1>6, ElementOfSeq
<1>9. modules[target].exports[e].index \in Nat
  BY <1>8 DEF Export
<1> QED
  BY <1>2, <1>6, <1>7, <1>8, <1>9 DEF target, e

\* The module whose import is resolved, afterwards
Resolving(x) ==
  LET target == First(ModulesNamed(ImportRead.module))
      is     == Current.imports
      import == [ImportRead EXCEPT
                   !.resolvedModule = target,
                   !.index = ExportIndex(target, ImportRead.name)]
  IN /\ x \in Module
     /\ x.name = Current.name /\ x.binary = Current.binary
     /\ x.next = Current.next /\ x.nextBody = Current.nextBody
     /\ x.customs = Current.customs /\ x.signatures = Current.signatures
     /\ x.memories = Current.memories /\ x.functions = Current.functions
     /\ x.exports = Current.exports /\ x.tables = Current.tables
     /\ import \in Import
     /\ task.import \in 1..Len(is)
     /\ Len(x.imports) = Len(is)
     /\ x.imports = [is EXCEPT ![task.import] = import]
     /\ x.imports[task.import] = import
     /\ \A i \in 1..Len(is) : i # task.import => x.imports[i] = is[i]
     /\ modules' = [modules EXCEPT ![task.module] = x]

\* An import is resolved: nothing else of the module changes.
LEMMA ResolvingIs ==
  ASSUME LoadInv, ResolveImport
  PROVE  \E x : Resolving(x)
<1> DEFINE target == First(ModulesNamed(ImportRead.module))
           is     == Current.imports
           i      == task.import
           index  == ExportIndex(target, ImportRead.name)
           import == [ImportRead EXCEPT !.resolvedModule = target,
                                        !.index = index]
           v      == [is EXCEPT ![i] = import]
           x      == [Current EXCEPT !.imports = v]
<1>1. /\ task.call = "link" /\ i <= Len(is) /\ Available(ImportRead)
      /\ task \in Task /\ i >= 1
  BY DEF ResolveImport, AtImport, LoadInv
<1>2. /\ task.module \in 1..Len(modules) /\ Current \in Module
      /\ Current = modules[task.module]
  BY <1>1, CurrentType DEF Current
<1>3. is \in Seq(Import)
  BY <1>2 DEF Module
<1>4. i \in Nat
  BY <1>1 DEF Task
<1>5. target \in Nat /\ index \in Nat
  <2>1. target \in 1..Len(modules)
    BY <1>1, AvailableIs
  <2>2. index \in Nat
    BY <1>1, AvailableIs
  <2> QED
    BY <2>1, <2>2
<1>6. modules' = [modules EXCEPT ![task.module] = x]
  <2>1. modules' = [modules EXCEPT ![task.module].imports[i] =
                      [@ EXCEPT !.resolvedModule = target, !.index = index]]
    BY DEF ResolveImport
  <2>2. ImportRead = modules[task.module].imports[i]
    BY <1>2 DEF ImportRead
  <2> HIDE DEF target, index
  <2> QED
    BY <1>2, <2>1, <2>2
<1> HIDE DEF target, index, is, i
<1>7. i \in 1..Len(is)
  <2>1. Len(is) \in Nat
    BY <1>3
  <2> QED
    BY <1>1, <1>4, <2>1
<1>8. ImportRead = is[i] /\ ImportRead \in Import
  BY <1>3, <1>7, ElementOfSeq DEF ImportRead, is, i
<1>9. import \in Import
  BY <1>5, <1>8 DEF Import
<1> HIDE DEF import
<1>10. /\ v \in Seq(Import) /\ Len(v) = Len(is) /\ v[i] = import
       /\ v = [is EXCEPT ![i] = import]
       /\ \A k \in 1..Len(is) : k # i => v[k] = is[k]
  BY <1>3, <1>7, <1>9
<1> HIDE DEF v
<1>11. x = [Current EXCEPT !.imports = v]
  OBVIOUS
<1> HIDE DEF x
<1>12. /\ x \in Module /\ x.imports = v
       /\ x.name = Current.name /\ x.binary = Current.binary
       /\ x.next = Current.next /\ x.nextBody = Current.nextBody
       /\ x.customs = Current.customs /\ x.signatures = Current.signatures
       /\ x.memories = Current.memories /\ x.functions = Current.functions
       /\ x.exports = Current.exports /\ x.tables = Current.tables
  <2>1. /\ Current \in Module /\ v \in Seq(Import)
        /\ x = [Current EXCEPT !.imports = v]
    BY <1>2, <1>10, <1>11
  <2> QED
    BY <2>1, ImportsChanged
<1>13. Resolving(x)
  BY <1>6, <1>7, <1>9, <1>10, <1>12
  DEF Resolving, target, index, is, i, import
<1> QED
  BY <1>13

\* Resolving an import keeps what holds.
LEMMA ResolveKeeps ==
  ASSUME LoadInv, ResolveImport
  PROVE  LoadInv' /\ Accounted
<1>1. PICK x : Resolving(x)
  BY ResolvingIs
<1>2. /\ task.call = "link" /\ task \in Task /\ task.import >= 1
      /\ task.import \in Nat
  BY DEF ResolveImport, AtImport, LoadInv, Task
<1>3. /\ task.module \in 1..Len(modules) /\ Current \in Module
      /\ Current = modules[task.module] /\ ModuleOK(Current)
  BY <1>2, CurrentType DEF Current
<1>4. /\ x \in Module
      /\ x.name = Current.name /\ x.binary = Current.binary
      /\ x.next = Current.next /\ x.nextBody = Current.nextBody
      /\ x.customs = Current.customs /\ x.signatures = Current.signatures
      /\ x.memories = Current.memories /\ x.functions = Current.functions
      /\ x.exports = Current.exports /\ x.tables = Current.tables
      /\ Len(x.imports) = Len(Current.imports)
      /\ modules' = [modules EXCEPT ![task.module] = x]
  BY <1>1 DEF Resolving
<1>5. ModuleOK(x)
  BY <1>3, <1>4 DEF ModuleOK
<1>6. Damaged(x) => Damaged(modules[task.module])
  BY <1>3, <1>4 DEF Damaged
<1>7. OwnedBy(x) = OwnedBy(modules[task.module])
  BY <1>3, <1>4 DEF OwnedBy
<1>8. /\ task' \in Task /\ task'.call = "link"
      /\ task'.module = task.module /\ task'.import >= 1
  <2>1. task' = [task EXCEPT !.import = @ + 1]
    BY DEF ResolveImport
  <2> QED
    BY <1>2, <2>1 DEF Task
<1>9. Tells
  BY <1>3, <1>8 DEF ResolveImport, Tells, LoadInv
<1>10. /\ heap' = heap + 0 /\ lost' = lost + 0
       /\ OwnedBy(x) + 0 = OwnedBy(modules[task.module]) + 0
  BY <1>7 DEF ResolveImport, LoadInv
<1>11. Replaces(task.module, x)
  BY <1>3, <1>4, <1>5, <1>6, <1>8, <1>10 DEF Replaces
<1> QED
  BY <1>3, <1>9, <1>11, ReplacesKeeps

\* All steps of the library's own loops
LEMMA LoadingKeeps ==
  ASSUME LoadInv, LoadingStep
  PROVE  LoadInv' /\ Accounted
BY ParserKeeps, LoopsKeep, ResolveKeeps DEF LoadingStep, ParserStep

-----------------------------------------------------------------------------
(***************************************************************************)
(* The host sets up its modules.                                           *)
(***************************************************************************)

\* The host creates a module.
LEMMA NewModuleKeeps ==
  ASSUME LoadInv, NewModule
  PROVE  LoadInv' /\ Accounted
<1> DEFINE n == Len(modules)
           x == EmptyModule
<1>1. /\ modules \in Seq(Module) /\ n \in Nat
      /\ modules' = Append(modules, x)
      /\ task = NoTask /\ n < Len(plan) /\ plan \in Plans
  BY DEF LoadInv, NewModule
<1>2. x \in Module
  <2>1. /\ <<>> \in Seq(Function) /\ <<>> \in Seq(Import)
        /\ <<>> \in Seq(Export) /\ <<>> \in Seq(Seq(Nat)) /\ <<>> \in Seq(Item)
    BY EmptySeq
  <2>2. NoBinary \in Binary
    BY <2>1 DEF NoBinary, Binary
  <2>3. NoName \in Names \cup {NoName} /\ 1 \in Nat /\ 0 \in Nat
    OBVIOUS
  <2> QED
    BY <2>1, <2>2, <2>3 DEF EmptyModule, Module
<1>3. /\ x.next = 1 /\ x.nextBody = 1 /\ Len(x.functions) = 0
      /\ x.tables = <<>> /\ x.binary = NoBinary /\ x.name = NoName
      /\ x.customs = 0 /\ x.signatures = 0 /\ x.memories = 0
      /\ Len(x.imports) = 0 /\ Len(x.exports) = 0 /\ Len(x.tables) = 0
  BY EmptySeq DEF EmptyModule
<1> HIDE DEF x
<1>4. /\ modules' \in Seq(Module) /\ Len(modules') = n + 1
      /\ modules'[n + 1] = x
      /\ \A i \in 1..n : modules'[i] = modules[i]
  BY <1>1, <1>2
<1>5. ModuleOK(x) /\ ~Damaged(x)
  BY <1>3 DEF ModuleOK, Damaged
<1>6. OwnedBy(x) = 9
  BY <1>3 DEF OwnedBy
<1>7. /\ plan' = plan /\ error' = error /\ task' = task /\ answer' = answer
      /\ heap' = heap + 9 /\ lost' = lost + 0
      /\ heap' \in Nat /\ lost' \in Nat
  BY DEF NewModule, Allocates, LoadInv
<1>8. Len(plan) \in Nat
  BY <1>1, PlanType
<1>9. \A i \in 1..Len(modules') :
        ModuleOK(modules'[i]) /\ (Damaged(modules'[i]) => error # "none")
  BY <1>1, <1>4, <1>5 DEF LoadInv
<1>10. LoadInv'
  <2>1. Len(modules') <= Len(plan)
    BY <1>1, <1>4, <1>8
  <2>2. task.call = "none"
    BY <1>1 DEF NoTask
  <2> QED
    BY <1>1, <1>4, <1>7, <1>9, <2>1, <2>2 DEF LoadInv, NoTask
<1>11. Owned' = Owned + 9
  <2>1. Sum(Append(modules, x))[Len(modules) + 1]
          = Sum(modules)[Len(modules)] + OwnedBy(x)
    BY <1>1, <1>2, SumAppended
  <2>2. Owned' = Sum(Append(modules, x))[Len(modules) + 1]
    BY <1>1, <1>4, OwnedIs
  <2> QED
    BY <1>6, <2>1, <2>2, OwnedIs
<1>12. Owned \in Nat
  BY <1>1, OwnedType
<1>13. Owned' + 0 = Owned + 9
  BY <1>11, <1>12
<1> QED
  BY <1>7, <1>10, <1>13 DEF Accounted

\* The host has something to do with a module while no loop runs.
LEMMA IdleType ==
  ASSUME LoadInv, task = NoTask, NEW m \in 1..Len(modules)
  PROVE  /\ modules[m] \in Module /\ ModuleOK(modules[m])
         /\ OwnedBy(modules[m]) \in Nat
         /\ plan[m] \in Planned
         /\ m \in Nat
<1>1. modules[m] \in Module /\ ModuleOK(modules[m]) /\ plan \in Plans
  BY ElementOfSeq DEF LoadInv
<1>2. m \in 1..Len(plan)
  <2>1. Len(plan) \in Nat
    BY <1>1, PlanType
  <2>2. Len(modules) <= Len(plan) /\ Len(modules) \in Nat
    BY DEF LoadInv
  <2> QED
    BY <2>1, <2>2
<1>3. plan[m] \in Planned
  BY <1>1, <1>2, PlanType
<1> QED
  BY <1>1, <1>3, OwnedByType

\* The host names a module.
LEMMA AssignNameKeeps ==
  ASSUME LoadInv, NEW m \in 1..Len(modules), AssignName(m)
  PROVE  LoadInv' /\ Accounted
<1> DEFINE v == plan[m].name
           x == [modules[m] EXCEPT !.name = v]
<1>1. task = NoTask /\ modules[m].name = NoName
  BY DEF AssignName
<1>2. /\ modules[m] \in Module /\ ModuleOK(modules[m])
      /\ OwnedBy(modules[m]) \in Nat /\ plan[m] \in Planned
  BY <1>1, IdleType
<1>3. v \in Names /\ v # NoName
  BY <1>2, LoadingAssumption DEF Planned
<1>4. modules' = [modules EXCEPT ![m] = x]
  BY DEF AssignName, LoadInv
<1> HIDE DEF v
<1>5. x = [modules[m] EXCEPT !.name = v] /\ v \in Names \cup {NoName}
  BY <1>3
<1> HIDE DEF x
<1>6. /\ x \in Module /\ x.name = v
      /\ x.binary = modules[m].binary
      /\ x.next = modules[m].next /\ x.nextBody = modules[m].nextBody
      /\ x.customs = modules[m].customs
      /\ x.signatures = modules[m].signatures
      /\ x.memories = modules[m].memories
      /\ x.functions = modules[m].functions
      /\ x.imports = modules[m].imports /\ x.exports = modules[m].exports
      /\ x.tables = modules[m].tables
  BY <1>2, <1>5, NameChanged
<1>7. ModuleOK(x)
  BY <1>2, <1>6 DEF ModuleOK
<1>8. Damaged(x) => Damaged(modules[m])
  BY <1>6 DEF Damaged
<1>9. OwnedBy(x) + 0 = OwnedBy(modules[m]) + 1
  <2> DEFINE a == modules[m].customs
             b == modules[m].signatures
             c == Len(modules[m].imports)
             d == Len(modules[m].functions)
             e == Len(modules[m].tables)
             f == modules[m].memories
             g == Len(modules[m].exports)
  <2>1. /\ a \in Nat /\ b \in Nat /\ c \in Nat /\ d \in Nat
        /\ e \in Nat /\ f \in Nat /\ g \in Nat
    BY <1>2, CountsType
  <2>2. /\ OwnedBy(modules[m]) = 9 + a + 2 * b + 2 * c + d + e + f + g
        /\ OwnedBy(x) = 10 + a + 2 * b + 2 * c + d + e + f + g
    BY <1>1, <1>3, <1>6 DEF OwnedBy
  <2> HIDE DEF a, b, c, d, e, f, g
  <2> QED
    BY <2>1, <2>2
<1>10. heap' = heap + 1 /\ lost' = lost + 0
  BY DEF AssignName, Allocates, LoadInv
<1>11. task'.call = "none"
  BY <1>1 DEF AssignName, NoTask
<1>12. Replaces(m, x)
  <2>1. \E a, l \in Nat : /\ heap' = heap + a /\ lost' = lost + l
                          /\ OwnedBy(x) + l = OwnedBy(modules[m]) + a
    BY <1>9, <1>10
  <2> QED
    BY <1>4, <1>6, <1>7, <1>8, <1>11, <2>1 DEF Replaces
<1>13. Tells
  BY <1>11 DEF AssignName, Tells, LoadInv
<1> QED
  BY <1>12, <1>13, ReplacesKeeps

\* What a host function adds to a module
LEMMA WithNativeIs ==
  ASSUME NEW y \in Module, ModuleOK(y), NEW name \in Names, NEW x,
         x = WithNative(y, name)
  PROVE  /\ x \in Module /\ ModuleOK(x)
         /\ x.name = y.name /\ x.binary = y.binary /\ x.next = y.next
         /\ x.nextBody = y.nextBody /\ x.tables = y.tables
         /\ x.imports = y.imports
         /\ OwnedBy(x) = OwnedBy(y) + 2
         /\ \E e \in Export : x.exports = Append(y.exports, e)
         /\ \E f \in Function : /\ f.import = 0 /\ f.native /\ f.position = 0
                               /\ x.functions = Append(y.functions, f)
<1> DEFINE fs == y.functions
           es == y.exports
           function == [import |-> 0, native |-> TRUE, signature |-> 0,
                        position |-> 0]
           export == [name |-> name, isFunction |-> TRUE,
                      index |-> Len(fs) + 1]
           v == Append(fs, function)
           w == Append(es, export)
           z == [y EXCEPT !.functions = v]
<1>1. x = [z EXCEPT !.exports = w]
  BY DEF WithNative, Module
<1>2. fs \in Seq(Function) /\ es \in Seq(Export)
  BY DEF Module
<1>3. function \in Function /\ export \in Export
  BY <1>2 DEF Function, Export
<1>4. function.import = 0 /\ function.position = 0 /\ function.native
  OBVIOUS
<1> HIDE DEF function, export, fs, es
<1>5. /\ v \in Seq(Function) /\ Len(v) = Len(fs) + 1 /\ Len(fs) \in Nat
      /\ \A i \in 1..Len(fs) : v[i] = fs[i]
      /\ v[Len(fs) + 1] = function
      /\ v = Append(fs, function)
  BY <1>2, <1>3
<1>6. /\ w \in Seq(Export) /\ Len(w) = Len(es) + 1 /\ Len(es) \in Nat
      /\ w = Append(es, export)
  BY <1>2, <1>3
<1> HIDE DEF v, w
<1>7. z = [y EXCEPT !.functions = v]
  OBVIOUS
<1> HIDE DEF z
<1>8. /\ x \in Module
      /\ x.name = y.name /\ x.binary = y.binary
      /\ x.next = y.next /\ x.nextBody = y.nextBody
      /\ x.customs = y.customs /\ x.signatures = y.signatures
      /\ x.memories = y.memories /\ x.functions = v
      /\ x.imports = y.imports /\ x.exports = w
      /\ x.tables = y.tables
  <2>1. /\ z \in Module /\ z.functions = v
        /\ z.name = y.name /\ z.binary = y.binary
        /\ z.next = y.next /\ z.nextBody = y.nextBody
        /\ z.customs = y.customs /\ z.signatures = y.signatures
        /\ z.memories = y.memories /\ z.imports = y.imports
        /\ z.tables = y.tables
    <3>1. y \in Module /\ v \in Seq(Function) /\ z = [y EXCEPT !.functions = v]
      BY <1>5, <1>7
    <3> QED
      BY <3>1, FunctionsChanged
  <2>2. /\ x \in Module /\ x.exports = w
        /\ x.name = z.name /\ x.binary = z.binary
        /\ x.next = z.next /\ x.nextBody = z.nextBody
        /\ x.customs = z.customs /\ x.signatures = z.signatures
        /\ x.memories = z.memories /\ x.functions = z.functions
        /\ x.imports = z.imports /\ x.tables = z.tables
    <3>1. z \in Module /\ w \in Seq(Export) /\ x = [z EXCEPT !.exports = w]
      BY <1>1, <1>6, <2>1
    <3> QED
      BY <3>1, ExportsChanged
  <2> QED
    BY <2>1, <2>2
<1>9. ModuleOK(x)
  <2>1. ASSUME NEW f \in 1..Len(v)
        PROVE  /\ v[f].import <= Len(y.imports)
               /\ v[f].position <= Len(y.binary.items)
               /\ y.binary = NoBinary => v[f].native
    <3>1. CASE f = Len(fs) + 1
      <4>1. Len(y.imports) \in Nat /\ Len(y.binary.items) \in Nat
        BY LenProperties DEF Module, Binary
      <4>2. v[f].import = 0 /\ v[f].position = 0 /\ v[f].native
        BY <1>4, <1>5, <3>1
      <4> QED
        BY <4>1, <4>2
    <3>2. CASE f \in 1..Len(fs)
      <4>1. /\ fs[f].import <= Len(y.imports)
            /\ fs[f].position <= Len(y.binary.items)
            /\ y.binary = NoBinary => fs[f].native
        BY <3>2 DEF ModuleOK, fs
      <4> QED
        BY <1>5, <3>2, <4>1
    <3> QED
      BY <1>5, <3>1, <3>2
  <2>2. y.next >= 1 /\ y.nextBody >= 1
    BY DEF ModuleOK
  <2> QED
    BY <1>8, <2>1, <2>2 DEF ModuleOK
<1>10. OwnedBy(x) = OwnedBy(y) + 2
  <2>1. OwnedBy(x) = OwnedBy(y) + More(y, x)
    BY <1>8, OwnedMore
  <2>2. /\ Len(x.functions) - Len(y.functions) = 1
        /\ Len(x.exports) - Len(y.exports) = 1
    BY <1>5, <1>6, <1>8 DEF fs, es
  <2>3. /\ x.customs - y.customs = 0
        /\ x.signatures - y.signatures = 0
        /\ x.memories - y.memories = 0
        /\ Len(x.tables) - Len(y.tables) = 0
        /\ Len(x.imports) - Len(y.imports) = 0
    BY <1>8, CountsType
  <2>4. More(y, x) = 0 + 2 * 0 + 2 * 0 + 1 + 0 + 0 + 1
    BY <2>2, <2>3 DEF More
  <2> QED
    BY <2>1, <2>4
<1>11. \E e \in Export : x.exports = Append(y.exports, e)
  BY <1>3, <1>6, <1>8 DEF es
<1>12. x.functions = Append(y.functions, function)
  BY <1>5, <1>8 DEF fs
<1>13. \E f \in Function : /\ f.import = 0 /\ f.native /\ f.position = 0
                           /\ x.functions = Append(y.functions, f)
  BY <1>3, <1>4, <1>12
<1> QED
  BY <1>8, <1>9, <1>10, <1>11, <1>13

\* The number of host functions that a module has
LEMMA NativesCounted ==
  ASSUME NEW x \in Module
  PROVE  Cardinality(NativesOf(x)) \in Nat
<1>1. Len(x.functions) \in Nat
  BY CountsType
<1>2. IsFiniteSet(1..Len(x.functions))
  BY <1>1, FS_Interval
<1>3. NativesOf(x) \subseteq 1..Len(x.functions)
  BY DEF NativesOf
<1> QED
  BY <1>2, <1>3, FS_Subset, FS_CardinalityType

\* The module that a host function is added to, afterwards
LEMMA AddNativeIs ==
  ASSUME LoadInv, NEW m \in 1..Len(modules), AddNativeFunction(m)
  PROVE  \E name \in Names :
           modules' = [modules EXCEPT ![m] = WithNative(modules[m], name)]
<1> DEFINE n == Cardinality(NativesOf(modules[m]))
           names == plan[m].natives
<1>1. /\ task = NoTask /\ n < Len(names)
      /\ modules' = [modules EXCEPT ![m] = WithNative(@, names[n + 1])]
  BY DEF AddNativeFunction
<1>2. modules[m] \in Module /\ plan[m] \in Planned
  BY <1>1, IdleType
<1>3. n \in Nat /\ names \in Seq(Names)
  BY <1>2, NativesCounted DEF Planned
<1> HIDE DEF n, names
<1>4. names[n + 1] \in Names
  <2>1. Len(names) \in Nat
    BY <1>3
  <2>2. n + 1 \in 1..Len(names)
    BY <1>1, <1>3, <2>1
  <2> QED
    BY <1>3, <2>2, ElementOfSeq
<1>5. modules' = [modules EXCEPT ![m] = WithNative(modules[m], names[n + 1])]
  BY <1>1 DEF LoadInv
<1> QED
  BY <1>4, <1>5

\* The host adds a function of its own.
LEMMA AddNativeKeeps ==
  ASSUME LoadInv, NEW m \in 1..Len(modules), AddNativeFunction(m)
  PROVE  LoadInv' /\ Accounted
<1>1. task = NoTask
  BY DEF AddNativeFunction
<1>2. /\ modules[m] \in Module /\ ModuleOK(modules[m])
      /\ OwnedBy(modules[m]) \in Nat
  BY <1>1, IdleType
<1>3. PICK name \in Names :
        modules' = [modules EXCEPT ![m] = WithNative(modules[m], name)]
  BY AddNativeIs
<1> DEFINE x == WithNative(modules[m], name)
<1>4. x = WithNative(modules[m], name) /\ modules' = [modules EXCEPT ![m] = x]
  BY <1>3
<1> HIDE DEF x
<1>5. /\ x \in Module /\ ModuleOK(x)
      /\ x.name = modules[m].name /\ x.binary = modules[m].binary
      /\ x.next = modules[m].next
      /\ x.tables = modules[m].tables
      /\ OwnedBy(x) = OwnedBy(modules[m]) + 2
  BY <1>2, <1>4, WithNativeIs
<1>6. Damaged(x) => Damaged(modules[m])
  BY <1>5 DEF Damaged
<1>7. /\ heap' = heap + 2 /\ lost' = lost + 0
      /\ OwnedBy(x) + 0 = OwnedBy(modules[m]) + 2
  BY <1>2, <1>5 DEF AddNativeFunction, Allocates, LoadInv
<1>8. task'.call = "none"
  BY <1>1 DEF AddNativeFunction, NoTask
<1>9. Replaces(m, x)
  <2>1. \E a, l \in Nat : /\ heap' = heap + a /\ lost' = lost + l
                          /\ OwnedBy(x) + l = OwnedBy(modules[m]) + a
    BY <1>7
  <2> QED
    BY <1>4, <1>5, <1>6, <1>8, <2>1 DEF Replaces
<1>10. Tells
  BY <1>8 DEF AddNativeFunction, Tells, LoadInv
<1> QED
  BY <1>9, <1>10, ReplacesKeeps

\* The host loads a binary.
LEMMA LoadKeeps ==
  ASSUME LoadInv, NEW m \in 1..Len(modules), Load(m)
  PROVE  LoadInv' /\ Accounted
<1> DEFINE v == plan[m].binary
           x == [modules[m] EXCEPT !.binary = v]
<1>1. /\ task = NoTask /\ modules[m].binary = NoBinary /\ v # NoBinary
      /\ modules' = [modules EXCEPT ![m] = x]
  BY DEF Load, LoadInv
<1>2. /\ modules[m] \in Module /\ ModuleOK(modules[m])
      /\ OwnedBy(modules[m]) \in Nat /\ plan[m] \in Planned /\ m \in Nat
  BY <1>1, IdleType
<1>3. v \in Binary
  BY <1>2 DEF Planned
<1>4. \/ task' = [call |-> "parse", module |-> m, import |-> 0]
         /\ error' = error /\ answer' = answer
      \/ error' = (IF v.magic = "short" THEN "memory_oob" ELSE error)
         /\ Told("parse", m, FALSE) /\ task' = task
  BY DEF Load
<1> HIDE DEF v
<1>5. v \in Binary /\ x = [modules[m] EXCEPT !.binary = v]
  BY <1>3
<1> HIDE DEF x
<1>6. /\ x \in Module /\ x.binary = v
      /\ x.name = modules[m].name
      /\ x.next = modules[m].next /\ x.nextBody = modules[m].nextBody
      /\ x.customs = modules[m].customs
      /\ x.signatures = modules[m].signatures
      /\ x.memories = modules[m].memories
      /\ x.functions = modules[m].functions
      /\ x.imports = modules[m].imports /\ x.exports = modules[m].exports
      /\ x.tables = modules[m].tables
  BY <1>2, <1>5, BinaryChanged
<1>7. modules[m].next = 1
  BY <1>1, <1>2 DEF ModuleOK
<1>8. ModuleOK(x)
  <2>1. Len(v.items) \in Nat
    BY <1>3, LenProperties DEF Binary
  <2>2. ASSUME NEW f \in 1..Len(modules[m].functions)
        PROVE  /\ modules[m].functions[f].import <= Len(modules[m].imports)
               /\ modules[m].functions[f].position <= Len(v.items)
    <3>1. /\ modules[m].functions[f].import <= Len(modules[m].imports)
          /\ modules[m].functions[f].position <= Len(NoBinary.items)
      BY <1>1, <1>2 DEF ModuleOK
    <3>2. modules[m].functions[f].position \in Nat
      <4>1. modules[m].functions \in Seq(Function)
        BY <1>2 DEF Module
      <4>2. modules[m].functions[f] \in Function
        BY <4>1, ElementOfSeq
      <4> QED
        BY <4>2 DEF Function
    <3>3. Len(NoBinary.items) = 0
      BY EmptySeq DEF NoBinary
    <3> QED
      BY <2>1, <3>1, <3>2, <3>3
  <2>3. x.next >= 1 /\ x.nextBody >= 1
    BY <1>2, <1>6 DEF ModuleOK
  <2>4. x.binary # NoBinary
    BY <1>1, <1>6
  <2> QED
    BY <1>6, <2>2, <2>3, <2>4 DEF ModuleOK
<1>9. Damaged(x) => Damaged(modules[m])
  BY <1>6, <1>7 DEF Damaged
<1>10. OwnedBy(x) = OwnedBy(modules[m])
  BY <1>6 DEF OwnedBy
<1>11. /\ heap' = heap + 0 /\ lost' = lost + 0
       /\ OwnedBy(x) + 0 = OwnedBy(modules[m]) + 0
  BY <1>10 DEF Load, LoadInv
<1>12. \/ task' = [call |-> "parse", module |-> m, import |-> 0]
       \/ task' = NoTask
  BY <1>1, <1>4
<1>13. Replaces(m, x)
  <2>1. \E a, l \in Nat : /\ heap' = heap + a /\ lost' = lost + l
                          /\ OwnedBy(x) + l = OwnedBy(modules[m]) + a
    BY <1>11
  <2>2. task'.call = "parse" => task'.module = m /\ x.binary # NoBinary
    BY <1>1, <1>6, <1>12 DEF NoTask
  <2> QED
    BY <1>1, <1>6, <1>8, <1>9, <2>1, <2>2 DEF Replaces
<1>14. Tells
  <2>1. answer' \in Answer
    BY <1>2, <1>4, AnswerType DEF LoadInv
  <2>2. error' \in Errors /\ (error # "none" => error' # "none")
    BY <1>4 DEF LoadInv, Errors
  <2>3. /\ task' \in Task
        /\ task'.call # "none" => task'.module = m
        /\ task'.call = "none" => task' = NoTask
        /\ task'.call # "link"
    BY <1>2, <1>12 DEF Task, NoTask
  <2>4. plan' = plan
    BY DEF Load
  <2> QED
    BY <2>1, <2>2, <2>3, <2>4 DEF Tells
<1> QED
  BY <1>13, <1>14, ReplacesKeeps

\* The host has imports resolved.
LEMMA LinkKeeps ==
  ASSUME LoadInv, NEW m \in 1..Len(modules), Link(m)
  PROVE  LoadInv' /\ Accounted
<1>1. /\ task' = [call |-> "link", module |-> m, import |-> 1]
      /\ modules' = modules /\ m \in Nat
  BY DEF Link
<1>2. Tells
  BY <1>1 DEF Link, Tells, LoadInv, Task
<1>3. heap' = heap + 0 /\ lost' = lost + 0
  BY DEF Link, LoadInv
<1> QED
  BY <1>1, <1>2, <1>3, ModulesStay

\* All that the host does to set up its modules
LEMMA SetUpKeeps ==
  ASSUME LoadInv, SetUp
  PROVE  LoadInv' /\ Accounted
BY NewModuleKeeps, AssignNameKeeps, AddNativeKeeps, LoadKeeps DEF SetUp

\* What holds while modules are set up holds at first.
LEMMA LoadingInitKeeps ==
  ASSUME LoadingInit
  PROVE  LoadInv /\ heap = lost + Owned
<1>1. /\ modules = <<>> /\ modules \in Seq(Module) /\ Len(modules) = 0
  BY EmptySeq DEF LoadingInit
<1>2. plan \in Plans /\ Len(plan) \in Nat
  BY PlanType DEF LoadingInit
<1>3. LoadInv
  BY <1>1, <1>2
  DEF LoadingInit, LoadInv, NoTask, NoAnswer, Task, Answer, Errors,
      ContextBlocks
<1>4. Owned = ContextBlocks
  BY <1>1, SumIs, OwnedIs
<1> QED
  BY <1>3, <1>4 DEF LoadingInit, ContextBlocks

-----------------------------------------------------------------------------
(***************************************************************************)
(* What the steps do to tables, functions and bodies.                      *)
(***************************************************************************)

\* y has the tables, functions and imports of x.
SameLists(x, y) ==
  /\ y.tables = x.tables /\ y.functions = x.functions /\ y.imports = x.imports

\* What the parser makes of x with the item that it takes
Takes(x, y, item) ==
  \/ /\ item.section \notin {"table", "element", "function", "import", "code"}
     /\ SameLists(x, y) /\ y.nextBody = x.nextBody
  \/ /\ item.section = "table"
     /\ y.tables = Append(x.tables, <<>>)
     /\ y.functions = x.functions /\ y.imports = x.imports
     /\ y.nextBody = x.nextBody
  \/ /\ item.section = "element" /\ x.tables # <<>>
     /\ y.tables = [x.tables EXCEPT
                      ![1] = WithElements(x.tables[1], item.index, item.list)]
     /\ y.functions = x.functions /\ y.imports = x.imports
     /\ y.nextBody = x.nextBody
  \/ /\ item.section = "function"
     /\ \E f \in Function : /\ f.import = 0 /\ ~f.native /\ f.position = 0
                            /\ y.functions = Append(x.functions, f)
     /\ y.tables = x.tables /\ y.imports = x.imports
     /\ y.nextBody = x.nextBody
  \/ /\ item.section = "import"
     /\ \E f \in Function : /\ f.import = Len(x.imports) + 1 /\ ~f.native
                            /\ f.position = 0
                            /\ y.functions = Append(x.functions, f)
     /\ \E i \in Import : /\ i.module = item.module /\ i.name = item.name
                          /\ i.resolvedModule = 0
                          /\ y.imports = Append(x.imports, i)
     /\ y.tables = x.tables /\ y.nextBody = x.nextBody
  \/ /\ item.section = "code" /\ Bodiless(x) # {}
     /\ y.functions = [x.functions EXCEPT
                         ![First(Bodiless(x))].position = x.next]
     /\ y.nextBody = First(Bodiless(x)) + 1
     /\ y.tables = x.tables /\ y.imports = x.imports

\* Nothing more is read: a body that is left had no function to go to.
Leaves(x, y) ==
  /\ y.next = x.next /\ SameLists(x, y)
  /\ \/ y.nextBody = x.nextBody
     \/ Bodiless(x) = {} /\ y.nextBody > x.nextBody

\* The parser makes y of the module that it reads: it takes an item or stops.
Parses(y) ==
  /\ y \in Module
  /\ modules' = [modules EXCEPT ![task.module] = y]
  /\ y.binary = Current.binary
  /\ \/ Leaves(Current, y) /\ task' = NoTask
     \/ /\ AtItem /\ y.next = Current.next + 1 /\ Takes(Current, y, Read)
        /\ task' = task

\* An item is taken.
LEMMA ItemTaken ==
  ASSUME LoadInv, AtItem, NEW x \in Module, NEW e, NEW b, Parsed(x, e, b),
         x.binary = Current.binary, Takes(Current, x, Read)
  PROVE  \E y : Parses(y)
<1> DEFINE n == Current.next + 1
           y == [x EXCEPT !.next = n]
<1>1. Current \in Module
  BY CurrentType DEF AtItem
<1>2. n \in Nat
  <2>1. Current.next \in Nat
    BY <1>1 DEF Module
  <2> QED
    BY <2>1
<1>3. modules' = [modules EXCEPT ![task.module] = y] /\ task' = task
  BY DEF Parsed
<1>4. n = Current.next + 1
  OBVIOUS
<1> HIDE DEF n
<1>5. /\ y \in Module /\ y.next = n /\ y.binary = x.binary
      /\ y.tables = x.tables /\ y.functions = x.functions
      /\ y.imports = x.imports /\ y.nextBody = x.nextBody
  BY <1>2 DEF Module
<1> HIDE DEF y
<1>6. Takes(Current, y, Read)
  BY <1>5 DEF Takes, SameLists
<1> QED
  BY <1>3, <1>4, <1>5, <1>6 DEF Parses

\* An item is refused.
LEMMA ItemLeft ==
  ASSUME LoadInv, AtItem, NEW x \in Module, NEW e, NEW b, Refused(x, e, b),
         x.binary = Current.binary, Leaves(Current, x)
  PROVE  \E y : Parses(y)
BY DEF Refused, Parses

\* Sections of which no list is kept that is looked at here
LEMMA OthersParse ==
  ASSUME LoadInv,
         \/ ParseCustom \/ ParseType \/ ParseMemory \/ ParseGlobal
         \/ ParseExport \/ ParseData \/ ParseUnknown
  PROVE  \E y : Parses(y)
<1> DEFINE plain == {"custom", "type", "memory", "global", "export", "data",
                     "unknown"}
<1>1. PICK section \in plain : Parsing(section)
  BY DEF ParseCustom, ParseType, ParseMemory, ParseGlobal, ParseExport,
         ParseData, ParseUnknown
<1>2. AtItem /\ Current \in Module /\ Read \in Item
  BY <1>1, ParsingType
<1>3. Read.section \notin {"table", "element", "function", "import", "code"}
  BY <1>1 DEF Parsing
<1>4. ASSUME NEW x \in Module, NEW e, NEW b, Parsed(x, e, b),
             x.binary = Current.binary, SameLists(Current, x),
             x.nextBody = Current.nextBody
      PROVE  \E y : Parses(y)
  <2>1. Takes(Current, x, Read)
    BY <1>3, <1>4 DEF Takes
  <2> QED
    BY <1>2, <1>4, <2>1, ItemTaken
<1>5. ASSUME NEW e, NEW b, Parsed(Current, e, b) \/ Refused(Current, e, b)
      PROVE  \E y : Parses(y)
  <2>1. SameLists(Current, Current) /\ Leaves(Current, Current)
    BY DEF SameLists, Leaves
  <2> QED
    BY <1>2, <1>4, <1>5, <2>1, ItemLeft
<1>6. CASE ParseCustom
  <2> DEFINE n == Current.customs + 1
  <2>1. n \in Nat
    BY <1>2, CountsType
  <2> HIDE DEF n
  <2>2. PICK x : x = [Current EXCEPT !.customs = n]
    OBVIOUS
  <2>3. /\ x \in Module /\ x.binary = Current.binary
        /\ x.nextBody = Current.nextBody /\ SameLists(Current, x)
    BY <1>2, <2>1, <2>2, CustomsChanged DEF SameLists
  <2>4. Parsed(x, ReadError, 1)
    BY <1>2, <1>6, <2>2 DEF ParseCustom, n, Module
  <2> QED
    BY <1>4, <2>3, <2>4
<1>7. CASE ParseType
  <2> DEFINE n == Current.signatures + 1
  <2>1. n \in Nat
    BY <1>2, CountsType
  <2> HIDE DEF n
  <2>2. PICK x : x = [Current EXCEPT !.signatures = n]
    OBVIOUS
  <2>3. /\ x \in Module /\ x.binary = Current.binary
        /\ x.nextBody = Current.nextBody /\ SameLists(Current, x)
    BY <1>2, <2>1, <2>2, SignaturesChanged DEF SameLists
  <2>4. \/ Parsed(x, ReadError, 2)
        \/ Refused(Current, "not_implemented", 0)
    BY <1>2, <1>7, <2>2 DEF ParseType, n, Module
  <2> QED
    BY <1>4, <1>5, <2>3, <2>4
<1>8. CASE ParseMemory
  <2> DEFINE n == Current.memories + 1
  <2>1. n \in Nat
    BY <1>2, CountsType
  <2> HIDE DEF n
  <2>2. PICK x : x = [Current EXCEPT !.memories = n]
    OBVIOUS
  <2>3. /\ x \in Module /\ x.binary = Current.binary
        /\ x.nextBody = Current.nextBody /\ SameLists(Current, x)
    BY <1>2, <2>1, <2>2, MemoriesChanged DEF SameLists
  <2>4. Parsed(x, ReadError, 1)
    BY <1>2, <1>8, <2>2 DEF ParseMemory, n, Module
  <2> QED
    BY <1>4, <2>3, <2>4
<1>9. CASE ParseExport
  <2> DEFINE e == [name |-> Read.name, isFunction |-> Read.known,
                   index |-> Read.index]
             w == Append(Current.exports, e)
  <2>1. w \in Seq(Export)
    <3>1. e \in Export
      BY <1>2 DEF Item, Export
    <3>2. Current.exports \in Seq(Export)
      BY <1>2 DEF Module
    <3> HIDE DEF e
    <3> QED
      BY <3>1, <3>2
  <2> HIDE DEF w
  <2>2. PICK x : x = [Current EXCEPT !.exports = w]
    OBVIOUS
  <2>3. /\ x \in Module /\ x.binary = Current.binary
        /\ x.nextBody = Current.nextBody /\ SameLists(Current, x)
    BY <1>2, <2>1, <2>2, ExportsChanged DEF SameLists
  <2>4. Parsed(x, ReadError, 1)
    BY <1>2, <1>9, <2>2 DEF ParseExport, w, Module
  <2> QED
    BY <1>4, <2>3, <2>4
<1>10. CASE ParseGlobal \/ ParseData \/ ParseUnknown
  BY <1>5, <1>10 DEF ParseGlobal, ParseData, ParseUnknown
<1> QED
  BY <1>6, <1>7, <1>8, <1>9, <1>10

\* Tables and their segments
LEMMA TablesParse ==
  ASSUME LoadInv, ParseTable \/ ParseElement
  PROVE  \E y : Parses(y)
<1> DEFINE list == Current.tables
<1>1. PICK section \in {"table", "element"} : Parsing(section)
  BY DEF ParseTable, ParseElement
<1>2. AtItem /\ Current \in Module /\ Read \in Item
  BY <1>1, ParsingType
<1>3. list \in Seq(Seq(Nat))
  BY <1>2 DEF Module
<1> HIDE DEF list
<1>4. CASE ParseTable
  <2> DEFINE v == Append(list, <<>>)
  <2>1. v \in Seq(Seq(Nat))
    BY <1>3
  <2>2. v = Append(Current.tables, <<>>)
    BY DEF list
  <2> HIDE DEF v
  <2>3. PICK x : x = [Current EXCEPT !.tables = v]
    OBVIOUS
  <2>4. /\ x \in Module /\ x.binary = Current.binary
        /\ x.nextBody = Current.nextBody /\ x.tables = v
        /\ x.functions = Current.functions /\ x.imports = Current.imports
    BY <1>2, <2>1, <2>3, TablesChanged
  <2>5. Takes(Current, x, Read)
    BY <1>4, <2>2, <2>4 DEF Takes, ParseTable, Parsing
  <2>6. Parsed(x, ReadError, 1)
    BY <1>2, <1>4, <2>2, <2>3 DEF ParseTable, Module
  <2> QED
    BY <1>2, <2>4, <2>5, <2>6, ItemTaken
<1>5. CASE ParseElement /\ Current.tables = <<>>
  <2>1. Refused(Current, "invalid_index", 0)
    BY <1>5 DEF ParseElement
  <2> QED
    BY <1>2, <2>1, ItemLeft DEF SameLists, Leaves
<1>6. CASE ParseElement /\ Current.tables # <<>>
  <2> DEFINE u == WithElements(list[1], Read.index, Read.list)
             v == [list EXCEPT ![1] = u]
  <2>1. v \in Seq(Seq(Nat))
    <3>1. Len(list) \in Nat /\ 1 \in 1..Len(list)
      BY <1>3, <1>6, EmptySeq DEF list
    <3>2. list[1] \in Seq(Nat) /\ Read.index \in Nat /\ Read.list \in Seq(Nat)
      BY <1>2, <1>3, <3>1, ElementOfSeq DEF Item
    <3>3. u \in Seq(Nat)
      BY <3>2, WithElementsIs
    <3> HIDE DEF u
    <3> QED
      BY <1>3, <3>1, <3>3
  <2>2. v = [Current.tables EXCEPT
              ![1] = WithElements(Current.tables[1], Read.index, Read.list)]
    BY DEF list
  <2> HIDE DEF v
  <2>3. PICK x : x = [Current EXCEPT !.tables = v]
    OBVIOUS
  <2>4. /\ x \in Module /\ x.binary = Current.binary
        /\ x.nextBody = Current.nextBody /\ x.tables = v
        /\ x.functions = Current.functions /\ x.imports = Current.imports
    BY <1>2, <2>1, <2>3, TablesChanged
  <2>5. Takes(Current, x, Read)
    BY <1>6, <2>2, <2>4 DEF Takes, ParseElement, Parsing
  <2>6. \E e : Parsed(x, e, 0)
    <3>1. [Current EXCEPT !.tables[1] = WithElements(@, Read.index, Read.list)]
            = x
      BY <1>2, <2>2, <2>3 DEF Module
    <3> QED
      BY <1>6, <3>1 DEF ParseElement
  <2> QED
    BY <1>2, <2>4, <2>5, <2>6, ItemTaken
<1> QED
  BY <1>4, <1>5, <1>6

\* Functions, declared or imported
LEMMA FunctionsParse ==
  ASSUME LoadInv, ParseFunction \/ ParseImport
  PROVE  \E y : Parses(y)
<1> DEFINE fs == Current.functions
           is == Current.imports
           declared == [import |-> 0, native |-> FALSE,
                        signature |-> Read.index, position |-> 0]
           imported == [import |-> Len(is) + 1, native |-> FALSE,
                        signature |-> Read.index, position |-> 0]
           import == [module |-> Read.module, name |-> Read.name,
                      resolvedModule |-> 0, index |-> 0]
<1>1. PICK section \in {"function", "import"} : Parsing(section)
  BY DEF ParseFunction, ParseImport
<1>2. AtItem /\ Current \in Module /\ Read \in Item
  BY <1>1, ParsingType
<1>3. /\ fs \in Seq(Function) /\ is \in Seq(Import)
      /\ Append(fs, declared) \in Seq(Function)
      /\ Append(fs, imported) \in Seq(Function)
      /\ Append(is, import) \in Seq(Import)
      /\ declared \in Function /\ imported \in Function /\ import \in Import
  <2>1. fs \in Seq(Function) /\ is \in Seq(Import)
    BY <1>2 DEF Module
  <2>2. declared \in Function /\ imported \in Function /\ import \in Import
    BY <1>2, <2>1 DEF Item, Function, Import
  <2> HIDE DEF fs, is, declared, imported, import
  <2> QED
    BY <2>1, <2>2
<1>4. CASE ParseFunction
  <2> DEFINE v == Append(fs, declared)
  <2>1. v \in Seq(Function)
    BY <1>3
  <2>9. \E f \in Function : /\ f.import = 0 /\ ~f.native /\ f.position = 0
                            /\ v = Append(Current.functions, f)
    BY <1>3
  <2>2. Parsed([Current EXCEPT !.functions = v], ReadError, 1)
    BY <1>2, <1>4 DEF ParseFunction, Module
  <2> HIDE DEF v, declared, fs, is
  <2>3. PICK x : x = [Current EXCEPT !.functions = v]
    OBVIOUS
  <2>4. /\ x \in Module /\ x.binary = Current.binary
        /\ x.nextBody = Current.nextBody /\ x.functions = v
        /\ x.tables = Current.tables /\ x.imports = Current.imports
    BY <1>2, <2>1, <2>3, FunctionsChanged
  <2>5. Takes(Current, x, Read)
    BY <1>4, <2>4, <2>9 DEF Takes, ParseFunction, Parsing
  <2> QED
    BY <1>2, <2>2, <2>3, <2>4, <2>5, ItemTaken
<1>5. CASE ParseImport /\ ~Read.known
  <2>1. Refused(Current, "not_implemented", 2)
    BY <1>5 DEF ParseImport
  <2> QED
    BY <1>2, <2>1, ItemLeft DEF SameLists, Leaves
<1>6. CASE ParseImport /\ Read.known
  <2> DEFINE v == Append(fs, imported)
             w == Append(is, import)
             z == [Current EXCEPT !.functions = v]
  <2>1. v \in Seq(Function)
    BY <1>3
  <2>8. w \in Seq(Import)
    BY <1>3
  <2>9. \E f \in Function : /\ f.import = Len(Current.imports) + 1
                            /\ ~f.native /\ f.position = 0
                            /\ v = Append(Current.functions, f)
    BY <1>3
  <2>10. \E i \in Import : /\ i.module = Read.module /\ i.name = Read.name
                           /\ i.resolvedModule = 0
                           /\ w = Append(Current.imports, i)
    BY <1>3
  <2>2. Parsed([z EXCEPT !.imports = w], ReadError, 3)
    <3>1. WithImport(Current, Read) = [z EXCEPT !.imports = w]
      BY <1>2 DEF WithImport, Module
    <3> QED
      BY <1>6, <3>1 DEF ParseImport
  <2>3. z = [Current EXCEPT !.functions = v]
    OBVIOUS
  <2> HIDE DEF v, w, z, imported, import, fs, is
  <2>4. PICK x : x = [z EXCEPT !.imports = w]
    OBVIOUS
  <2>5. /\ z \in Module /\ z.binary = Current.binary
        /\ z.nextBody = Current.nextBody /\ z.functions = v
        /\ z.tables = Current.tables
    BY <1>2, <2>1, <2>3, FunctionsChanged
  <2>6. /\ x \in Module /\ x.binary = Current.binary
        /\ x.nextBody = Current.nextBody /\ x.functions = v
        /\ x.tables = Current.tables /\ x.imports = w
    BY <2>4, <2>5, <2>8, ImportsChanged
  <2>7. Takes(Current, x, Read)
    BY <1>6, <2>6, <2>9, <2>10 DEF Takes, ParseImport, Parsing
  <2> QED
    BY <1>2, <2>2, <2>4, <2>6, <2>7, ItemTaken
<1> QED
  BY <1>4, <1>5, <1>6

\* Bodies
LEMMA BodiesParse ==
  ASSUME LoadInv, ParseCode
  PROVE  \E y : Parses(y)
<1> DEFINE f == First(Bodiless(Current))
           v == [Current.functions EXCEPT ![f].position = Current.next]
<1>1. Parsing("code")
  BY DEF ParseCode
<1>2. AtItem /\ Current \in Module /\ ModuleOK(Current) /\ Read \in Item
  BY <1>1, ParsingType
<1>3. CASE Bodiless(Current) = {}
  <2> DEFINE b == Current.nextBody
             c == Len(Current.functions)
             n == IF b > c THEN b + 1 ELSE c + 2
  <2>1. n \in Nat
    BY <1>2, CountsType DEF Module
  <2>2. Refused([Current EXCEPT !.nextBody = n], "code_body_mismatch", 0)
    BY <1>2, <1>3 DEF ParseCode, Module
  <2> HIDE DEF n
  <2>3. PICK x : x = [Current EXCEPT !.nextBody = n]
    OBVIOUS
  <2>4. /\ x \in Module /\ x.binary = Current.binary
        /\ x.next = Current.next /\ SameLists(Current, x)
        /\ x.nextBody = n
    BY <1>2, <2>1, <2>3, NextBodyChanged DEF SameLists
  <2>5. n > Current.nextBody
    <3>1. Current.nextBody \in Nat /\ Len(Current.functions) \in Nat
      BY <1>2, CountsType DEF Module
    <3> QED
      BY <3>1 DEF n
  <2>6. Leaves(Current, x)
    BY <1>3, <2>4, <2>5 DEF Leaves
  <2> QED
    BY <1>2, <2>2, <2>3, <2>4, <2>6, ItemLeft
<1>4. CASE Bodiless(Current) # {}
  <2>1. f \in 1..Len(Current.functions)
    <3>1. Current.nextBody \in Nat /\ Current.nextBody >= 1
      BY <1>2 DEF Module, ModuleOK
    <3>2. /\ Bodiless(Current) \subseteq Nat
          /\ Bodiless(Current) \subseteq 1..Len(Current.functions)
      BY <3>1 DEF Bodiless
    <3> QED
      BY <1>4, <3>2, FirstIs
  <2>2. Parsed([Current EXCEPT !.nextBody = f + 1,
                               !.functions[f].position = Current.next],
               ReadError, 0)
    BY <1>4 DEF ParseCode
  <2>3. v = [Current.functions EXCEPT
              ![First(Bodiless(Current))].position = Current.next]
    OBVIOUS
  <2>4. f = First(Bodiless(Current))
    OBVIOUS
  <2> HIDE DEF f
  <2>5. v \in Seq(Function)
    <3>1. Current.functions \in Seq(Function) /\ Current.next \in Nat
      BY <1>2 DEF Module
    <3>2. Current.functions[f] \in Function
      BY <2>1, <3>1, ElementOfSeq
    <3>3. [Current.functions[f] EXCEPT !.position = Current.next] \in Function
      BY <3>1, <3>2 DEF Function
    <3>4. v = [Current.functions EXCEPT
                ![f] = [Current.functions[f] EXCEPT !.position = Current.next]]
      BY <3>1
    <3> QED
      BY <2>1, <3>1, <3>3, <3>4
  <2>6. [Current EXCEPT !.nextBody = f + 1,
                        !.functions[f].position = Current.next]
          = [[Current EXCEPT !.functions = v] EXCEPT !.nextBody = f + 1]
    BY <1>2 DEF Module
  <2> HIDE DEF v
  <2>7. PICK z : z = [Current EXCEPT !.functions = v]
    OBVIOUS
  <2>8. PICK n : n = f + 1
    OBVIOUS
  <2>9. PICK x : x = [z EXCEPT !.nextBody = n]
    OBVIOUS
  <2>10. n \in Nat
    BY <2>1, <2>8
  <2>11. /\ z \in Module /\ z.binary = Current.binary
         /\ z.functions = v
         /\ z.tables = Current.tables /\ z.imports = Current.imports
    BY <1>2, <2>5, <2>7, FunctionsChanged
  <2>12. /\ x \in Module /\ x.binary = Current.binary
         /\ x.nextBody = n /\ x.functions = v
         /\ x.tables = Current.tables /\ x.imports = Current.imports
    BY <2>9, <2>10, <2>11, NextBodyChanged
  <2>13. Takes(Current, x, Read)
    BY <1>1, <1>4, <2>3, <2>4, <2>8, <2>12 DEF Takes, Parsing
  <2>14. Parsed(x, ReadError, 0)
    BY <2>2, <2>6, <2>7, <2>8, <2>9
  <2> QED
    BY <1>2, <2>12, <2>13, <2>14, ItemTaken
<1> QED
  BY <1>3, <1>4

\* All steps of the parser that take an item
LEMMA ParserParses ==
  ASSUME LoadInv, ParserStep
  PROVE  \E y : Parses(y)
BY OthersParse, TablesParse, FunctionsParse, BodiesParse DEF ParserStep

=============================================================================
