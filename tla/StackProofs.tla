---------------------------- MODULE StackProofs -----------------------------
(***************************************************************************)
(* The value stack and the type stack, which the interpreter pushes and    *)
(* pops separately, agree on valid code, and what lies below the innermost *)
(* call stays as it is.                                                    *)
(*                                                                         *)
(* The code that is executed is in the hypotheses only: ValidSteps, that   *)
(* the type stack has what an instruction pops, and SkipsPlainly, that     *)
(* searches meet nothing that goes wrong. What becomes of the cells is     *)
(* what is proved.                                                         *)
(*                                                                         *)
(* The inductive invariant is SInv: the stacks agree (Agree), or the       *)
(* context has failed and a careful host leaves it alone (Dead); and what  *)
(* has failed did not fail for want of operands (ErrorsFit). Agree says    *)
(* more than that the stacks are of one height, since a return and a       *)
(* branch cut both of them at bases that calls and labels remember, in     *)
(* types and in cells: every such base is at the same place on both        *)
(* stacks, with the cells of the locals of the calls up to it in between.  *)
(* It says so of the live labels: the base of an if is pushed too high,    *)
(* and a label behind the place where a branch has begun is one that the   *)
(* branch leaves (Stale).                                                  *)
(***************************************************************************)
EXTENDS SearchProofs

-----------------------------------------------------------------------------
(***************************************************************************)
(* The cells that types take.                                              *)
(***************************************************************************)
WidePlaces(ts) == {i \in 1..Len(ts) : TypeSize(ts[i]) = 2}

\* One more type takes its cells.
LEMMA SizeAppend ==
  ASSUME NEW ts \in Seq(ValueType), NEW t \in ValueType
  PROVE  StackSize(Append(ts, t)) = StackSize(ts) + TypeSize(t)
<1> DEFINE new == Append(ts, t)
<1>1. /\ new \in Seq(ValueType) /\ Len(new) = Len(ts) + 1
      /\ \A i \in 1..Len(ts) : new[i] = ts[i]
      /\ new[Len(ts) + 1] = t
      /\ Len(ts) \in Nat
  BY AppendProperties
<1> HIDE DEF new
<1>2. IsFiniteSet(WidePlaces(ts))
  <2>1. IsFiniteSet(1..Len(ts))
    BY FS_Interval
  <2>2. WidePlaces(ts) \in SUBSET (1..Len(ts))
    BY DEF WidePlaces
  <2> QED
    BY <2>1, <2>2, FS_Subset
<1>3. Len(ts) + 1 \notin WidePlaces(ts)
  BY <1>1 DEF WidePlaces
<1>4. StackSize(ts) = Len(ts) + Cardinality(WidePlaces(ts))
      /\ StackSize(new) = Len(new) + Cardinality(WidePlaces(new))
  BY DEF StackSize, WidePlaces
<1>5. CASE TypeSize(t) = 2
  <2>1. WidePlaces(new) = WidePlaces(ts) \cup {Len(ts) + 1}
    BY <1>1, <1>5 DEF WidePlaces
  <2>2. Cardinality(WidePlaces(new)) = Cardinality(WidePlaces(ts)) + 1
    BY <1>2, <1>3, <2>1, FS_AddElement
  <2>3. Cardinality(WidePlaces(ts)) \in Nat
    BY <1>2, FS_CardinalityType
  <2> QED
    BY <1>1, <1>4, <1>5, <2>2, <2>3 DEF new
<1>6. CASE TypeSize(t) = 1
  <2>1. WidePlaces(new) = WidePlaces(ts)
    BY <1>1, <1>6 DEF WidePlaces
  <2>2. Cardinality(WidePlaces(ts)) \in Nat
    BY <1>2, FS_CardinalityType
  <2> QED
    BY <1>1, <1>4, <1>6, <2>1, <2>2 DEF new
<1> QED
  BY <1>5, <1>6, TypeSizeType

\* No types take no cells, and one takes its own.
LEMMA SizeShort ==
  /\ StackSize(<<>>) = 0
  /\ \A t \in ValueType : StackSize(<<t>>) = TypeSize(t)
<1>1. WidePlaces(<<>>) = {}
  BY DEF WidePlaces
<1>2. StackSize(<<>>) = 0
  BY <1>1, FS_EmptySet DEF StackSize, WidePlaces
<1>3. ASSUME NEW t \in ValueType
      PROVE  StackSize(<<t>>) = TypeSize(t)
  <2>1. <<t>> = Append(<<>>, t) /\ <<>> \in Seq(ValueType)
    OBVIOUS
  <2>2. StackSize(Append(<<>>, t)) = StackSize(<<>>) + TypeSize(t)
    BY <2>1, SizeAppend
  <2> QED
    BY <1>2, <2>1, <2>2, TypeSizeType
<1> QED
  BY <1>2, <1>3

\* Types that follow others take their cells on top of those.
LEMMA SizeConcat ==
  ASSUME NEW a \in Seq(ValueType), NEW b \in Seq(ValueType)
  PROVE  StackSize(a \o b) = StackSize(a) + StackSize(b)
<1> DEFINE T == {n \in Nat : \A c \in Seq(ValueType) :
                   Len(c) = n => StackSize(a \o c) = StackSize(a) + StackSize(c)}
<1>1. 0 \in T
  <2>1. ASSUME NEW c \in Seq(ValueType), Len(c) = 0
        PROVE  StackSize(a \o c) = StackSize(a) + StackSize(c)
    <3>1. c = <<>>
      BY <2>1
    <3>2. a \o c = a
      BY <3>1, ConcatEmptySeq
    <3>3. StackSize(c) = 0 /\ StackSize(a) \in Nat
      BY <3>1, SizeShort, StackSizeType
    <3> QED
      BY <3>2, <3>3
  <2> QED
    BY <2>1
<1>2. ASSUME NEW n \in Nat, n \in T
      PROVE  n + 1 \in T
  <2>1. ASSUME NEW c \in Seq(ValueType), Len(c) = n + 1
        PROVE  StackSize(a \o c) = StackSize(a) + StackSize(c)
    <3>0. c # <<>> /\ Len(c) - 1 = n
      BY <2>1
    <3>1. /\ Front(c) \in Seq(ValueType) /\ Last(c) \in ValueType
          /\ Len(Front(c)) = n
          /\ \A i \in 1..n : Front(c)[i] = c[i]
      BY <3>0, FrontType
    <3>2. PICK t \in ValueType : t = Last(c)
      BY <3>1
    <3>3. PICK d \in Seq(ValueType) : Len(d) = n /\ \A i \in 1..n : d[i] = c[i]
      BY <3>1
    <3>4. t = c[n + 1]
      BY <2>1, <3>2 DEF Last
    <3>5. c = Append(d, t)
      <4>1. /\ Append(d, t) \in Seq(ValueType) /\ Len(Append(d, t)) = n + 1
            /\ \A i \in 1..n : Append(d, t)[i] = d[i]
            /\ Append(d, t)[n + 1] = t
        BY <3>3, AppendProperties
      <4>2. \A i \in 1..Len(c) : c[i] = Append(d, t)[i]
        BY <2>1, <3>3, <3>4, <4>1
      <4> QED
        BY <2>1, <4>1, <4>2, SeqEqual
    <3>6. a \o c = Append(a \o d, t)
      BY <3>5
    <3>7. a \o d \in Seq(ValueType)
      BY ConcatProperties
    <3>8. StackSize(a \o c) = StackSize(a \o d) + TypeSize(t)
      BY <3>6, <3>7, SizeAppend
    <3>9. StackSize(c) = StackSize(d) + TypeSize(t)
      BY <3>5, SizeAppend
    <3>10. StackSize(a \o d) = StackSize(a) + StackSize(d)
      BY <1>2, <3>3
    <3>11. /\ StackSize(a) \in Nat /\ StackSize(d) \in Nat
           /\ TypeSize(t) \in Nat
      BY StackSizeType, TypeSizeType
    <3> QED
      BY <3>8, <3>9, <3>10, <3>11
  <2> QED
    BY <2>1
<1>3. Len(b) \in T
  <2>1. Len(b) \in Nat
    OBVIOUS
  <2> HIDE DEF T
  <2> QED
    BY <1>1, <1>2, <2>1, Induction
<1> QED
  BY <1>3

\* The first n of some types
Lowest(ts, n) == SubSeq(ts, 1, n)

\* The first n of some types are types; with those that follow they are all.
LEMMA LowestType ==
  ASSUME NEW ts \in Seq(ValueType), NEW n \in Nat, n <= Len(ts)
  PROVE  /\ Lowest(ts, n) \in Seq(ValueType)
         /\ Len(Lowest(ts, n)) = n
         /\ \A i \in 1..n : Lowest(ts, n)[i] = ts[i]
         /\ SubSeq(ts, n + 1, Len(ts)) \in Seq(ValueType)
         /\ Len(SubSeq(ts, n + 1, Len(ts))) = Len(ts) - n
         /\ \A i \in 1..(Len(ts) - n) : SubSeq(ts, n + 1, Len(ts))[i] = ts[n + i]
         /\ StackSize(Lowest(ts, n)) \in Nat
         /\ StackSize(ts)
              = StackSize(Lowest(ts, n)) + StackSize(SubSeq(ts, n + 1, Len(ts)))
<1>1. PICK k \in Nat : k = Len(ts)
  OBVIOUS
<1>2. /\ SubSeq(ts, 1, n) \in Seq(ValueType)
      /\ Len(SubSeq(ts, 1, n)) = n
      /\ \A i \in 1..n : SubSeq(ts, 1, n)[i] = ts[i]
  OBVIOUS
<1>3. /\ SubSeq(ts, n + 1, k) \in Seq(ValueType)
      /\ Len(SubSeq(ts, n + 1, k)) = k - n
      /\ \A i \in 1..(k - n) : SubSeq(ts, n + 1, k)[i] = ts[n + i]
  BY <1>1
<1>4. SubSeq(ts, 1, n) \o SubSeq(ts, n + 1, k) = ts
  <2> DEFINE both == SubSeq(ts, 1, n) \o SubSeq(ts, n + 1, k)
  <2>1. /\ both \in Seq(ValueType) /\ Len(both) = k
        /\ \A i \in 1..k : both[i] = IF i <= n THEN SubSeq(ts, 1, n)[i]
                                     ELSE SubSeq(ts, n + 1, k)[i - n]
    <3>1. n + (k - n) = k
      BY <1>1
    <3> QED
      BY <1>2, <1>3, <3>1, ConcatProperties
  <2>2. ASSUME NEW i \in 1..k
        PROVE  both[i] = ts[i]
    <3>1. CASE i <= n
      BY <1>2, <2>1, <3>1
    <3>2. CASE ~(i <= n)
      <4>1. i - n \in 1..(k - n) /\ n + (i - n) = i
        BY <3>2
      <4>2. SubSeq(ts, n + 1, k)[i - n] = ts[n + (i - n)]
        BY <1>3, <4>1
      <4> QED
        BY <2>1, <3>2, <4>1, <4>2
    <3> QED
      BY <3>1, <3>2
  <2> HIDE DEF both
  <2>3. both = ts
    BY <1>1, <2>1, <2>2, SeqEqual
  <2> QED
    BY <2>3 DEF both
<1>5. StackSize(ts) = StackSize(SubSeq(ts, 1, n)) + StackSize(SubSeq(ts, n + 1, k))
  BY <1>2, <1>3, <1>4, SizeConcat
<1> QED
  BY <1>1, <1>2, <1>3, <1>5, StackSizeType DEF Lowest

\* Fewer of the same types take no more cells.
LEMMA LowestRise ==
  ASSUME NEW ts \in Seq(ValueType), NEW n \in Nat, n <= Len(ts),
         NEW k \in Nat, k <= n
  PROVE  StackSize(Lowest(ts, k)) <= StackSize(Lowest(ts, n))
<1>1. PICK low \in Seq(ValueType) : low = Lowest(ts, n)
  BY LowestType
<1>2. Len(low) = n /\ \A i \in 1..n : low[i] = ts[i]
  BY <1>1, LowestType
<1>3. Lowest(low, k) = Lowest(ts, k)
  <2>1. /\ Lowest(low, k) \in Seq(ValueType) /\ Len(Lowest(low, k)) = k
        /\ \A i \in 1..k : Lowest(low, k)[i] = low[i]
    BY <1>2, LowestType
  <2>2. k <= Len(ts)
    OBVIOUS
  <2>3. /\ Lowest(ts, k) \in Seq(ValueType) /\ Len(Lowest(ts, k)) = k
        /\ \A i \in 1..k : Lowest(ts, k)[i] = ts[i]
    BY <2>2, LowestType
  <2>4. \A i \in 1..k : Lowest(low, k)[i] = Lowest(ts, k)[i]
    BY <1>2, <2>1, <2>3
  <2> QED
    BY <2>1, <2>3, <2>4, SeqEqual
<1>4. PICK high \in Seq(ValueType) : high = SubSeq(low, k + 1, Len(low))
  BY <1>2, LowestType
<1>5. StackSize(low) = StackSize(Lowest(low, k)) + StackSize(high)
  BY <1>2, <1>4, LowestType
<1>6. StackSize(high) \in Nat /\ StackSize(Lowest(low, k)) \in Nat
  BY <1>2, <1>4, LowestType, StackSizeType
<1> QED
  BY <1>1, <1>3, <1>5, <1>6

\* Types that begin alike
LEMMA LowestSame ==
  ASSUME NEW ts \in Seq(ValueType), NEW us \in Seq(ValueType), NEW n \in Nat,
         n <= Len(ts), n <= Len(us), \A i \in 1..n : us[i] = ts[i]
  PROVE  Lowest(us, n) = Lowest(ts, n)
<1>1. /\ Lowest(us, n) \in Seq(ValueType) /\ Len(Lowest(us, n)) = n
      /\ \A i \in 1..n : Lowest(us, n)[i] = us[i]
  BY LowestType
<1>2. /\ Lowest(ts, n) \in Seq(ValueType) /\ Len(Lowest(ts, n)) = n
      /\ \A i \in 1..n : Lowest(ts, n)[i] = ts[i]
  BY LowestType
<1>3. \A i \in 1..n : Lowest(us, n)[i] = Lowest(ts, n)[i]
  BY <1>1, <1>2
<1> QED
  BY <1>1, <1>2, <1>3, SeqEqual

-----------------------------------------------------------------------------
(***************************************************************************)
(* The cells that the locals of the calls take.                            *)
(***************************************************************************)
CellsOf(call) == StackSize(FunctionOf(call).locals)

\* Calls that have functions
AllExist(calls) ==
  calls \in Seq(Call) /\ \A n \in 1..Len(calls) : CallExists(calls[n])

\* The sum is what its recursive definition says.
LEMMA CellsAre ==
  ASSUME image \in Images, NEW calls, AllExist(calls)
  PROVE  /\ CellsBelow(calls)[0] = 0
         /\ \A n \in 1..Len(calls) :
              CellsBelow(calls)[n] = CellsBelow(calls)[n - 1] + CellsOf(calls[n])
         /\ \A n \in 0..Len(calls) : CellsBelow(calls)[n] \in Nat
         /\ \A n \in 1..Len(calls) : CellsOf(calls[n]) \in Nat
<1> DEFINE Eq(f) == f = [n \in 0..Len(calls) |->
                           IF n = 0 THEN 0 ELSE f[n - 1] + CellsOf(calls[n])]
           step  == [n \in 1..Len(calls) |-> [s \in Nat |-> s + CellsOf(calls[n])]]
<1>0. Len(calls) \in Nat
  BY DEF AllExist
<1>1. \A n \in 1..Len(calls) : CellsOf(calls[n]) \in Nat
  BY CallType, StackSizeType DEF AllExist, CellsOf, Function
<1>2. CellsBelow(calls) = CHOOSE f : Eq(f)
  BY DEF CellsBelow, CellsOf
<1>3. \E f : Eq(f)
  <2>1. step \in [1..Len(calls) -> [Nat -> Nat]]
    BY <1>1
  <2>3. PICK f \in [0..Len(calls) -> Nat] :
          f[0] = 0 /\ \A i \in 1..Len(calls) : f[i] = step[i][f[i - 1]]
    <3>1. IsRecursion(Nat, 0, Len(calls), step)
      BY <1>0, <2>1 DEF IsRecursion
    <3> HIDE DEF step
    <3> QED
      BY <3>1, RecursionExists
  <2>4. ASSUME NEW i \in 1..Len(calls)
        PROVE  step[i][f[i - 1]] = f[i - 1] + CellsOf(calls[i])
    <3>1. f[i - 1] \in Nat
      BY <1>0
    <3> QED
      BY <3>1
  <2> HIDE DEF step
  <2>5. ASSUME NEW i \in 0..Len(calls)
        PROVE  f[i] = IF i = 0 THEN 0 ELSE f[i - 1] + CellsOf(calls[i])
    BY <1>0, <2>3, <2>4
  <2>6. Eq(f)
    BY <2>3, <2>5
  <2> QED
    BY <2>6
<1>4. Eq(CellsBelow(calls))
  BY <1>2, <1>3
<1>5. /\ CellsBelow(calls)[0] = 0
      /\ \A n \in 1..Len(calls) :
           CellsBelow(calls)[n] = CellsBelow(calls)[n - 1] + CellsOf(calls[n])
  BY <1>0, <1>4
<1>6. \A n \in 0..Len(calls) : CellsBelow(calls)[n] \in Nat
  <2> DEFINE T == {n \in Nat : n <= Len(calls) => CellsBelow(calls)[n] \in Nat}
  <2>1. 0 \in T
    BY <1>5
  <2>2. ASSUME NEW n \in Nat, n \in T
        PROVE  n + 1 \in T
    <3>1. SUFFICES ASSUME n + 1 <= Len(calls)
                   PROVE  CellsBelow(calls)[n + 1] \in Nat
      OBVIOUS
    <3>2. n + 1 \in 1..Len(calls) /\ (n + 1) - 1 = n /\ CellsBelow(calls)[n] \in Nat
      BY <1>0, <2>2, <3>1
    <3>3. CellsBelow(calls)[n + 1] = CellsBelow(calls)[n] + CellsOf(calls[n + 1])
      BY <1>5, <3>2
    <3> QED
      BY <1>1, <3>2, <3>3
  <2>3. Nat \subseteq T
    <3> HIDE DEF T
    <3> QED
      BY <2>1, <2>2, Induction
  <2> QED
    BY <1>0, <2>3
<1> QED
  BY <1>1, <1>5, <1>6

\* Calls of the same functions have the same cells.
LEMMA CellsSame ==
  ASSUME image \in Images, NEW calls, AllExist(calls), NEW others, AllExist(others),
         NEW k \in Nat, k <= Len(calls), k <= Len(others),
         \A n \in 1..k : FunctionOf(others[n]) = FunctionOf(calls[n])
  PROVE  \A n \in 0..k : CellsBelow(others)[n] = CellsBelow(calls)[n]
<1> DEFINE T == {n \in Nat : n <= k => CellsBelow(others)[n] = CellsBelow(calls)[n]}
<1>0. Len(calls) \in Nat /\ Len(others) \in Nat
  BY DEF AllExist
<1>1. /\ CellsBelow(calls)[0] = 0
      /\ \A n \in 1..Len(calls) :
           CellsBelow(calls)[n] = CellsBelow(calls)[n - 1] + CellsOf(calls[n])
  BY CellsAre
<1>2. /\ CellsBelow(others)[0] = 0
      /\ \A n \in 1..Len(others) :
           CellsBelow(others)[n] = CellsBelow(others)[n - 1] + CellsOf(others[n])
  BY CellsAre
<1>3. 0 \in T
  BY <1>1, <1>2
<1>4. ASSUME NEW n \in Nat, n \in T
      PROVE  n + 1 \in T
  <2>1. SUFFICES ASSUME n + 1 <= k
                 PROVE  CellsBelow(others)[n + 1] = CellsBelow(calls)[n + 1]
    OBVIOUS
  <2>2. /\ n + 1 \in 1..k /\ n + 1 \in 1..Len(calls) /\ n + 1 \in 1..Len(others)
        /\ (n + 1) - 1 = n
    BY <1>0, <2>1
  <2>3. CellsOf(others[n + 1]) = CellsOf(calls[n + 1])
    BY <2>2 DEF CellsOf
  <2>4. CellsBelow(others)[n] = CellsBelow(calls)[n]
    BY <1>4, <2>1
  <2>5. /\ CellsBelow(calls)[n + 1] = CellsBelow(calls)[n] + CellsOf(calls[n + 1])
        /\ CellsBelow(others)[n + 1] = CellsBelow(others)[n] + CellsOf(others[n + 1])
    BY <1>1, <1>2, <2>2
  <2> QED
    BY <2>3, <2>4, <2>5
<1>5. Nat \subseteq T
  <2> HIDE DEF T
  <2> QED
    BY <1>3, <1>4, Induction
<1> QED
  BY <1>5

\* The modules stay, and so do the locals of their functions.
LEMMA CellsStay ==
  ASSUME image' = image
  PROVE  \A calls : CellsBelow(calls)' = CellsBelow(calls)
BY DEF CellsBelow, FunctionOf

-----------------------------------------------------------------------------
(***************************************************************************)
(* The clean-ups of a return and of a branch.                              *)
(***************************************************************************)

\* A clean-up that drops nothing, or no fewer items than it keeps, leaves those
\* below the base and those on the top.
LEMMA KeepTopExact ==
  ASSUME NEW S, NEW array \in Seq(S), NEW base \in Nat, NEW size \in Nat,
         Len(array) = base + size \/ Len(array) >= base + (size + size)
  PROVE  /\ KeepTop(array, base, size) \in Seq(S)
         /\ Len(KeepTop(array, base, size)) = base + size
         /\ \A i \in 1..base : KeepTop(array, base, size)[i] = array[i]
         /\ \A i \in 1..size :
              KeepTop(array, base, size)[base + i] = array[(Len(array) - size) + i]
         /\ SubSeq(KeepTop(array, base, size), base + 1, base + size)
              = SubSeq(array, (Len(array) - size) + 1, Len(array))
<1> DEFINE T       == S \cup {Unknown}
           dropped == (Len(array) - base) - size
           slice   == Slice(array, base + dropped, dropped)
           moved   == IF dropped > 0 THEN Overwrite(array, base, slice)
                      ELSE array
<1>0. PICK n \in Nat : n = Len(array)
  OBVIOUS
<1>1. array \in Seq(T) /\ dropped \in Nat /\ (dropped = 0 \/ dropped >= size)
      /\ n = (base + dropped) + size
  BY <1>0, SeqMonotonic
<1>2. /\ moved \in Seq(T)
      /\ Len(moved) = n
      /\ \A i \in 1..base : moved[i] = array[i]
      /\ \A i \in 1..size : moved[base + i] = array[(n - size) + i]
  <2>1. CASE dropped > 0
    <3>1. /\ slice \in Seq(T)
          /\ Len(slice) = dropped
          /\ \A i \in 1..dropped : (base + dropped) + i <= Len(array) =>
               slice[i] = array[(base + dropped) + i]
      <4>0. base + dropped \in Nat /\ dropped \in Nat
        BY <1>1
      <4>1. PICK p \in Nat, d \in Nat : p = base + dropped /\ d = dropped
        BY <4>0, Zenon
      <4>2. /\ Slice(array, p, d) \in Seq(S \cup {Unknown})
            /\ Len(Slice(array, p, d)) = d
            /\ \A i \in 1..d : p + i <= Len(array) =>
                 Slice(array, p, d)[i] = array[p + i]
        BY SliceType, ZenonT(60)
      <4> HIDE DEF dropped
      <4> QED
        BY <4>1, <4>2
    <3> HIDE DEF slice
    <3>2. /\ moved \in Seq(T)
          /\ Len(moved) = Len(array)
          /\ \A i \in 1..Len(array) :
               moved[i] = IF i \in (base + 1)..(base + Len(slice))
                          THEN slice[i - base] ELSE array[i]
      BY <1>1, <2>1, <3>1, OverwriteType
    <3> HIDE DEF moved
    <3>3. \A i \in 1..base : moved[i] = array[i]
      <4>1. ASSUME NEW i \in 1..base
            PROVE  i \in 1..Len(array) /\ i \notin (base + 1)..(base + Len(slice))
        <5>1. base <= n
          BY <1>1
        <5> HIDE DEF dropped
        <5> QED
          BY <1>0, <5>1
      <4> QED
        BY <3>2, <4>1
    <3>4. ASSUME NEW i \in 1..size
          PROVE  moved[base + i] = array[(n - size) + i]
      <4>0. PICK d \in Nat : d = dropped
        BY <1>1
      <4>1. /\ base + i \in 1..n
            /\ base + i \in (base + 1)..(base + d)
            /\ (base + i) - base = i
            /\ i \in 1..d /\ (base + d) + i <= n
            /\ (base + d) + i = (n - size) + i
        <5>1. d >= size /\ n = (base + d) + size
          BY <1>1, <2>1, <4>0
        <5> HIDE DEF dropped
        <5> QED
          BY <5>1
      <4>2. moved[base + i] = slice[(base + i) - base]
        BY <1>0, <3>1, <3>2, <4>0, <4>1
      <4>3. slice[i] = array[(base + d) + i]
        BY <1>0, <3>1, <4>0, <4>1
      <4> QED
        BY <4>1, <4>2, <4>3
    <3> QED
      BY <1>0, <3>2, <3>3, <3>4
  <2>2. CASE ~(dropped > 0)
    <3>1. dropped = 0 /\ moved = array
      BY <1>1, <2>2
    <3>2. \A i \in 1..size : base + i = (n - size) + i
      BY <1>1, <3>1
    <3> QED
      BY <1>0, <1>1, <3>1, <3>2
  <2> QED
    BY <2>1, <2>2
<1> HIDE DEF moved
<1>3. KeepTop(array, base, size) = Slice(moved, 0, base + size)
  BY DEF KeepTop, moved
<1>4. base + size <= n
  BY <1>1
<1> HIDE DEF dropped
<1>5. /\ Len(KeepTop(array, base, size)) = base + size
      /\ \A i \in 1..(base + size) : KeepTop(array, base, size)[i] = moved[i]
  <2> DEFINE k == base + size
             z == 0
  <2>1. moved \in Seq(T) /\ k \in Nat /\ z \in Nat
    BY <1>2
  <2> HIDE DEF T, k, z
  <2>2. /\ Len(Slice(moved, z, k)) = k
        /\ \A i \in 1..k : z + i <= Len(moved) =>
             Slice(moved, z, k)[i] = moved[z + i]
    BY <2>1, SliceType, ZenonT(60)
  <2>3. \A i \in 1..(base + size) : 0 + i = i /\ i <= n
    BY <1>4
  <2> QED
    BY <1>2, <1>3, <2>2, <2>3 DEF k, z
<1>6. \A i \in 1..base : KeepTop(array, base, size)[i] = array[i]
  BY <1>2, <1>5
<1>7. ASSUME NEW i \in 1..size
      PROVE  KeepTop(array, base, size)[base + i] = array[(Len(array) - size) + i]
  <2>1. base + i \in 1..(base + size)
    OBVIOUS
  <2> QED
    BY <1>0, <1>2, <1>5, <2>1
<1>8. KeepTop(array, base, size) \in Seq(S)
  <2>1. base + size <= Len(array)
    BY <1>0, <1>4
  <2> QED
    BY <2>1, KeepTopType
<1>9. SubSeq(KeepTop(array, base, size), base + 1, base + size)
        = SubSeq(array, (Len(array) - size) + 1, Len(array))
  <2>1. PICK kept \in Seq(S) : kept = KeepTop(array, base, size)
    BY <1>8
  <2>2. /\ Len(kept) = base + size
        /\ \A i \in 1..size : kept[base + i] = array[(n - size) + i]
    BY <1>0, <1>5, <1>7, <2>1
  <2>3. PICK d \in Nat : d = n - size /\ d <= n /\ n - d = size
    <3>1. size <= n
      BY <1>4
    <3> QED
      BY <3>1
  <2>4. /\ SubSeq(kept, base + 1, base + size) \in Seq(S)
        /\ Len(SubSeq(kept, base + 1, base + size)) = size
        /\ \A i \in 1..size : SubSeq(kept, base + 1, base + size)[i] = kept[base + i]
    BY <2>2
  <2>5. /\ SubSeq(array, d + 1, n) \in Seq(S)
        /\ Len(SubSeq(array, d + 1, n)) = size
        /\ \A i \in 1..size : SubSeq(array, d + 1, n)[i] = array[d + i]
    BY <1>0, <2>3
  <2>6. SubSeq(kept, base + 1, base + size) = SubSeq(array, d + 1, n)
    BY <2>2, <2>3, <2>4, <2>5, SeqEqual
  <2> QED
    BY <1>0, <2>1, <2>3, <2>6
<1> QED
  BY <1>5, <1>6, <1>7, <1>8, <1>9

-----------------------------------------------------------------------------
(***************************************************************************)
(* The bases of the calls and of the blocks.                               *)
(*                                                                         *)
(* A view v of the stacks has the calls, the labels and the types on them, *)
(* the labels that are live, the number of cells on the value stack, and   *)
(* for every number of calls the cells of their locals.  A base is a pair  *)
(* of places, on the type stack and on the value stack, with the locals of *)
(* the calls below between the cells of the types.                         *)
(***************************************************************************)
IsView(v) ==
  /\ v.calls \in Seq(Call)
  /\ v.labels \in Seq(Label)
  /\ v.types \in Seq(ValueType)
  /\ v.live \in SUBSET (1..Len(v.labels))
  /\ \A i \in 1..Len(v.labels) : v.labels[i].callIndex <= Len(v.calls)

\* The base of a call or a label over the locals of so many calls: it is within
\* the stacks, in the same place on both, and below those of later calls.
Based(v, mark, below) ==
  /\ mark.typeBase <= Len(v.types)
  /\ mark.valueBase = StackSize(Lowest(v.types, mark.typeBase)) + v.cells[below]
  /\ \A n \in 1..Len(v.calls) : below < n => mark.typeBase <= v.calls[n].typeBase

IfLabel(label) == label.op = "if"

\* The labels lie as the calls and the blocks were entered.
InOrder(v) ==
  \A j \in 1..Len(v.labels) : ~IfLabel(v.labels[j]) =>
    /\ \A i \in 1..Len(v.labels) :
         i < j /\ ~IfLabel(v.labels[i]) => v.labels[i].typeBase <= v.labels[j].typeBase
    /\ \A n \in 1..Len(v.calls) :
         n <= v.labels[j].callIndex => v.calls[n].typeBase <= v.labels[j].typeBase

\* The stacks agree: they are as high as each other, and so are the bases of
\* the calls and of the live labels.
Agrees(v) ==
  /\ \A n \in 1..Len(v.calls) : Based(v, v.calls[n], n - 1)
  /\ \A i \in v.live : Based(v, v.labels[i], v.labels[i].callIndex)
  /\ InOrder(v)
  /\ v.size = StackSize(v.types) + v.cells[Len(v.calls)]

\* The first n calls have the same bases, over the same cells.
SameBases(v, w, n) ==
  /\ \A m \in 0..n : w.cells[m] = v.cells[m]
  /\ \A m \in 1..n : /\ w.calls[m].typeBase = v.calls[m].typeBase
                     /\ w.calls[m].valueBase = v.calls[m].valueBase

\* The bases left are at r or below, and the types up to there are the same.
SameBelow(v, w, r) ==
  /\ r \in 0..Len(v.types) /\ r <= Len(w.types)
  /\ \A i \in 1..r : w.types[i] = v.types[i]
  /\ \A m \in 1..Len(v.calls) : m <= Len(w.calls) => v.calls[m].typeBase <= r
  /\ \A i \in w.live : v.labels[i].typeBase <= r

\* From v to w, calls and labels are taken off, and what is above r changes.
FallsTo(v, w, r) ==
  /\ Len(w.calls) <= Len(v.calls)
  /\ SameBases(v, w, Len(w.calls))
  /\ Len(w.labels) <= Len(v.labels)
  /\ \A i \in 1..Len(w.labels) : w.labels[i] = v.labels[i]
  /\ w.live \subseteq v.live
  /\ SameBelow(v, w, r)
  /\ w.size = StackSize(w.types) + w.cells[Len(w.calls)]

\* A base stays while what is below it does.
LEMMA BaseStays ==
  ASSUME NEW v, IsView(v), NEW w, IsView(w), NEW mark, NEW below \in Nat,
         mark.typeBase \in Nat, Based(v, mark, below),
         w.cells[below] = v.cells[below], mark.typeBase <= Len(w.types),
         \A i \in 1..mark.typeBase : w.types[i] = v.types[i],
         \A n \in 1..Len(w.calls) :
           below < n => mark.typeBase <= w.calls[n].typeBase
  PROVE  Based(w, mark, below)
<1>1. mark.typeBase <= Len(v.types) /\ w.types \in Seq(ValueType)
      /\ v.types \in Seq(ValueType)
  BY DEF Based, IsView
<1>2. Lowest(w.types, mark.typeBase) = Lowest(v.types, mark.typeBase)
  BY <1>1, LowestSame
<1> QED
  BY <1>2 DEF Based

\* Calls and labels taken off the top, and a change of what is above the bases
\* that are left, keep the stacks in agreement.
LEMMA AgreesFall ==
  ASSUME NEW v, IsView(v), Agrees(v), NEW w, IsView(w), NEW r, FallsTo(v, w, r)
  PROVE  Agrees(w)
<1>0. /\ v.calls \in Seq(Call) /\ w.calls \in Seq(Call)
      /\ v.labels \in Seq(Label) /\ w.labels \in Seq(Label)
      /\ v.types \in Seq(ValueType) /\ w.types \in Seq(ValueType)
      /\ w.live \in SUBSET (1..Len(w.labels))
      /\ \A i \in 1..Len(w.labels) : w.labels[i].callIndex <= Len(w.calls)
  BY DEF IsView
<1>1. /\ \A m \in 1..Len(v.calls) : Based(v, v.calls[m], m - 1)
      /\ \A i \in v.live : Based(v, v.labels[i], v.labels[i].callIndex)
      /\ InOrder(v)
  BY DEF Agrees
<1>2. PICK n \in Nat : n = Len(w.calls)
  BY <1>0
<1>3. PICK k \in Nat : k = Len(w.labels)
  BY <1>0
<1>4. /\ \A m \in 1..n : v.calls[m] \in Call /\ m \in 1..Len(v.calls)
      /\ \A i \in 1..k : /\ v.labels[i] \in Label /\ i \in 1..Len(v.labels)
                         /\ w.labels[i] = v.labels[i]
  BY <1>0, <1>2, <1>3, ElementOfSeq DEF FallsTo
<1>5. /\ \A m \in 0..n : w.cells[m] = v.cells[m]
      /\ \A m \in 1..n : /\ w.calls[m].typeBase = v.calls[m].typeBase
                         /\ w.calls[m].valueBase = v.calls[m].valueBase
  BY <1>2 DEF FallsTo, SameBases
<1>6. /\ r \in Nat /\ r <= Len(w.types)
      /\ \A i \in 1..r : w.types[i] = v.types[i]
      /\ \A m \in 1..n : v.calls[m].typeBase <= r
      /\ \A i \in w.live : v.labels[i].typeBase <= r
  BY <1>2, <1>4 DEF FallsTo, SameBelow
<1>7. ASSUME NEW mark, NEW below \in 0..n, mark.typeBase \in Nat,
             Based(v, mark, below), mark.typeBase <= r
      PROVE  Based(w, mark, below)
  <2>1. \A m \in 1..Len(w.calls) : below < m => mark.typeBase <= w.calls[m].typeBase
    BY <1>2, <1>4, <1>5, <1>7 DEF Based
  <2>2. mark.typeBase <= Len(w.types) /\ \A i \in 1..mark.typeBase : w.types[i] = v.types[i]
    BY <1>0, <1>6, <1>7
  <2>3. w.cells[below] = v.cells[below] /\ below \in Nat
    BY <1>5
  <2> QED
    BY <1>7, <2>1, <2>2, <2>3, BaseStays
<1>8. ASSUME NEW m \in 1..n
      PROVE  Based(w, w.calls[m], m - 1)
  <2>1. m \in 1..Len(v.calls) /\ m - 1 \in 0..n /\ v.calls[m] \in Call
    BY <1>4
  <2>2. v.calls[m].typeBase \in Nat /\ v.calls[m].typeBase <= r
    BY <1>6, <2>1 DEF Call
  <2>3. Based(w, v.calls[m], m - 1)
    BY <1>1, <1>7, <2>1, <2>2
  <2> QED
    BY <1>5, <2>3 DEF Based
<1>9. ASSUME NEW i \in w.live
      PROVE  Based(w, w.labels[i], w.labels[i].callIndex)
  <2>0. i \in 1..k
    BY <1>0, <1>3
  <2>1. i \in v.live /\ v.labels[i] \in Label /\ w.labels[i] = v.labels[i]
    BY <1>4, <2>0 DEF FallsTo
  <2>2. v.labels[i].typeBase \in Nat /\ v.labels[i].callIndex \in Nat
    BY <2>1 DEF Label
  <2>3. v.labels[i].callIndex <= n /\ v.labels[i].typeBase <= r
    BY <1>0, <1>2, <1>3, <1>6, <2>0, <2>1
  <2> QED
    BY <1>1, <1>7, <2>1, <2>2, <2>3
<1>10. InOrder(w)
  <2>1. \A m \in 1..n : m \in 1..Len(v.calls) /\ w.calls[m].typeBase = v.calls[m].typeBase
    BY <1>4, <1>5
  <2> QED
    BY <1>1, <1>2, <1>3, <1>4, <2>1 DEF InOrder
<1>11. w.size = StackSize(w.types) + w.cells[Len(w.calls)]
  BY DEF FallsTo
<1> QED
  BY <1>2, <1>8, <1>9, <1>10, <1>11 DEF Agrees

\* From v to w, a label is put on the stacks as they are.
LabelsTo(v, w, label) ==
  /\ w.labels = Append(v.labels, label)
  /\ w.live \subseteq v.live \cup {Len(v.labels) + 1}
  /\ w.calls = v.calls /\ w.types = v.types /\ w.cells = v.cells /\ w.size = v.size
  /\ label.callIndex = Len(v.calls)
  /\ label.typeBase = Len(v.types) /\ label.valueBase = v.size

\* It agrees with them, if none of the labels there has been left by a branch.
LEMMA LabelOnTop ==
  ASSUME NEW v, IsView(v), Agrees(v),
         \A i \in 1..Len(v.labels) : ~IfLabel(v.labels[i]) => i \in v.live,
         NEW w, IsView(w), NEW label, LabelsTo(v, w, label)
  PROVE  Agrees(w)
<1>0. v.labels \in Seq(Label) /\ v.types \in Seq(ValueType)
      /\ w.labels \in Seq(Label) /\ v.calls \in Seq(Call)
  BY DEF IsView
<1>1. /\ \A m \in 1..Len(v.calls) : Based(v, v.calls[m], m - 1)
      /\ \A i \in v.live : Based(v, v.labels[i], v.labels[i].callIndex)
      /\ InOrder(v)
      /\ v.size = StackSize(v.types) + v.cells[Len(v.calls)]
  BY DEF Agrees
<1>2. /\ Len(w.labels) = Len(v.labels) + 1
      /\ \A i \in 1..Len(v.labels) : w.labels[i] = v.labels[i]
      /\ w.labels[Len(v.labels) + 1] = label
      /\ Len(v.labels) \in Nat
  BY <1>0, AppendProperties DEF LabelsTo
<1>3. Lowest(v.types, Len(v.types)) = v.types
  <2>1. PICK n \in Nat : n = Len(v.types) /\ n <= Len(v.types)
    BY <1>0
  <2>2. /\ Lowest(v.types, n) \in Seq(ValueType)
        /\ Len(Lowest(v.types, n)) = n
        /\ \A i \in 1..n : Lowest(v.types, n)[i] = v.types[i]
    BY <1>0, <2>1, LowestType
  <2> QED
    BY <1>0, <2>1, <2>2, SeqEqual
<1>4. Based(v, label, label.callIndex)
  <2>1. Len(v.types) \in Nat /\ Len(v.calls) \in Nat
    BY <1>0
  <2> QED
    BY <1>1, <1>3, <2>1 DEF Based, LabelsTo
<1>5. \A mark, below : Based(v, mark, below) => Based(w, mark, below)
  BY DEF Based, LabelsTo
<1>6. ASSUME NEW i \in w.live
      PROVE  Based(w, w.labels[i], w.labels[i].callIndex)
  <2>1. i \in v.live => i \in 1..Len(v.labels)
    BY DEF IsView
  <2> QED
    BY <1>1, <1>2, <1>4, <1>5, <2>1 DEF LabelsTo
<1>7. /\ \A m \in 1..Len(v.calls) : v.calls[m].typeBase <= Len(v.types)
      /\ \A i \in 1..Len(v.labels) : ~IfLabel(v.labels[i]) => v.labels[i].typeBase <= Len(v.types)
  BY <1>1 DEF Based
<1>8. InOrder(w)
  <2>1. ASSUME NEW j \in 1..Len(w.labels), ~IfLabel(w.labels[j])
        PROVE  /\ \A i \in 1..Len(w.labels) :
                    i < j /\ ~IfLabel(w.labels[i]) => w.labels[i].typeBase <= w.labels[j].typeBase
               /\ \A m \in 1..Len(w.calls) :
                    m <= w.labels[j].callIndex => w.calls[m].typeBase <= w.labels[j].typeBase
    <3>0. w.calls = v.calls /\ label.typeBase = Len(v.types)
      BY DEF LabelsTo
    <3>1. CASE j \in 1..Len(v.labels)
      <4>1. ~IfLabel(v.labels[j]) /\ w.labels[j] = v.labels[j]
        BY <1>2, <2>1, <3>1
      <4>2. \A i \in 1..Len(w.labels) : i < j => i \in 1..Len(v.labels) /\ w.labels[i] = v.labels[i]
        BY <1>2, <3>1
      <4> QED
        BY <1>1, <3>0, <3>1, <4>1, <4>2 DEF InOrder
    <3>2. CASE j = Len(v.labels) + 1
      <4>1. w.labels[j] = label
        BY <1>2, <3>2
      <4>2. \A i \in 1..Len(w.labels) : i < j => i \in 1..Len(v.labels) /\ w.labels[i] = v.labels[i]
        BY <1>2, <3>2
      <4> QED
        BY <1>7, <3>0, <4>1, <4>2
    <3> QED
      BY <1>2, <2>1, <3>1, <3>2
  <2> QED
    BY <2>1 DEF InOrder
<1> QED
  BY <1>1, <1>5, <1>6, <1>8 DEF Agrees, LabelsTo

\* From v to w, a call is put on the stacks, on top of its arguments.
CallsTo(v, w, r) ==
  /\ Len(w.calls) = Len(v.calls) + 1
  /\ SameBases(v, w, Len(v.calls))
  /\ w.calls[Len(w.calls)].typeBase = r
  /\ w.calls[Len(w.calls)].valueBase
       = StackSize(Lowest(v.types, r)) + v.cells[Len(v.calls)]
  /\ w.labels = v.labels /\ w.live \subseteq v.live
  /\ w.types = v.types
  /\ SameBelow(v, w, r)
  /\ w.size = StackSize(w.types) + w.cells[Len(w.calls)]

\* It agrees with them.
LEMMA CallOnTop ==
  ASSUME NEW v, IsView(v), Agrees(v), NEW w, IsView(w), NEW r, CallsTo(v, w, r)
  PROVE  Agrees(w)
<1>0. /\ v.calls \in Seq(Call) /\ w.calls \in Seq(Call)
      /\ v.labels \in Seq(Label) /\ w.labels = v.labels
      /\ v.types \in Seq(ValueType) /\ w.types = v.types
      /\ w.live \subseteq v.live /\ v.live \in SUBSET (1..Len(v.labels))
      /\ \A i \in 1..Len(v.labels) : v.labels[i].callIndex <= Len(v.calls)
  BY DEF IsView, CallsTo
<1>1. /\ \A m \in 1..Len(v.calls) : Based(v, v.calls[m], m - 1)
      /\ \A i \in v.live : Based(v, v.labels[i], v.labels[i].callIndex)
      /\ InOrder(v)
  BY DEF Agrees
<1>2. PICK n \in Nat : n = Len(v.calls)
  BY <1>0
<1>3. Len(w.calls) = n + 1
  BY <1>2 DEF CallsTo
<1>4. /\ \A m \in 1..n : v.calls[m] \in Call
      /\ \A i \in 1..Len(v.labels) : v.labels[i] \in Label
  BY <1>0, <1>2, ElementOfSeq
<1>5. /\ \A m \in 0..n : w.cells[m] = v.cells[m]
      /\ \A m \in 1..n : /\ w.calls[m].typeBase = v.calls[m].typeBase
                         /\ w.calls[m].valueBase = v.calls[m].valueBase
  BY <1>2 DEF CallsTo, SameBases
<1>6. /\ r \in Nat /\ r <= Len(v.types)
      /\ \A m \in 1..n : v.calls[m].typeBase <= r
      /\ \A i \in w.live : v.labels[i].typeBase <= r
  BY <1>0, <1>2, <1>3 DEF CallsTo, SameBelow
<1>7. w.calls[n + 1].typeBase = r
      /\ w.calls[n + 1].valueBase = StackSize(Lowest(v.types, r)) + v.cells[n]
  BY <1>2, <1>3 DEF CallsTo
<1>8. ASSUME NEW mark, NEW below \in 0..n, mark.typeBase \in Nat,
             Based(v, mark, below), mark.typeBase <= r
      PROVE  Based(w, mark, below)
  <2>1. \A m \in 1..Len(w.calls) : below < m => mark.typeBase <= w.calls[m].typeBase
    <3>1. \A m \in 1..n : below < m => mark.typeBase <= w.calls[m].typeBase
      BY <1>2, <1>5, <1>8 DEF Based
    <3>2. \A m \in 1..Len(w.calls) : m \in 1..n \/ m = n + 1
      BY <1>3
    <3> QED
      BY <1>7, <1>8, <3>1, <3>2
  <2>2. mark.typeBase <= Len(w.types) /\ \A i \in 1..mark.typeBase : w.types[i] = v.types[i]
    BY <1>0, <1>6, <1>8
  <2>3. w.cells[below] = v.cells[below] /\ below \in Nat
    BY <1>5
  <2> QED
    BY <1>8, <2>1, <2>2, <2>3, BaseStays
<1>9. ASSUME NEW m \in 1..(n + 1)
      PROVE  Based(w, w.calls[m], m - 1)
  <2>1. CASE m \in 1..n
    <3>0. v.calls[m] \in Call /\ m - 1 \in 0..n
      BY <1>4, <2>1
    <3>1. v.calls[m].typeBase \in Nat /\ v.calls[m].typeBase <= r
      BY <1>6, <2>1, <3>0 DEF Call
    <3>2. Based(w, v.calls[m], m - 1)
      BY <1>1, <1>2, <1>8, <2>1, <3>0, <3>1
    <3> QED
      BY <1>5, <2>1, <3>2 DEF Based
  <2>2. CASE m = n + 1
    <3>1. m - 1 = n /\ w.cells[m - 1] = v.cells[n] /\ w.calls[m] = w.calls[n + 1]
      BY <1>5, <2>2
    <3>2. \A i \in 1..Len(w.calls) : ~(n < i) \/ i = n + 1
      BY <1>3
    <3> QED
      BY <1>0, <1>6, <1>7, <3>1, <3>2 DEF Based
  <2> QED
    BY <2>1, <2>2
<1>10. ASSUME NEW i \in w.live
      PROVE  Based(w, w.labels[i], w.labels[i].callIndex)
  <2>1. i \in v.live /\ i \in 1..Len(v.labels) /\ v.labels[i] \in Label
    BY <1>0, <1>4
  <2>2. v.labels[i].typeBase \in Nat /\ v.labels[i].callIndex \in Nat
    BY <2>1 DEF Label
  <2>3. v.labels[i].callIndex \in 0..n /\ v.labels[i].typeBase <= r
    BY <1>0, <1>2, <1>6, <2>1, <2>2
  <2> QED
    BY <1>0, <1>1, <1>8, <2>1, <2>2, <2>3
<1>11. InOrder(w)
  <2>1. \A m \in 1..(n + 1) : \A j \in 1..Len(v.labels) : m <= v.labels[j].callIndex =>
           m \in 1..n /\ w.calls[m].typeBase = v.calls[m].typeBase
    <3>1. \A j \in 1..Len(v.labels) : v.labels[j].callIndex \in Nat /\ v.labels[j].callIndex <= n
      BY <1>0, <1>2, <1>4 DEF Label
    <3> QED
      BY <1>5, <3>1
  <2> QED
    BY <1>0, <1>1, <1>2, <1>3, <2>1 DEF InOrder
<1>12. w.size = StackSize(w.types) + w.cells[Len(w.calls)]
  BY DEF CallsTo
<1> QED
  BY <1>3, <1>9, <1>10, <1>11, <1>12 DEF Agrees

-----------------------------------------------------------------------------
(***************************************************************************)
(* The stacks of the context.                                              *)
(***************************************************************************)

\* The label i is of a block that a branch has left, whose end is looked for:
\* the operands that it was entered with may be gone.
Stale(i) ==
  /\ pending # <<>> /\ pending[1].kind = "branch"
  /\ labelStack[i].callIndex = Len(callStack)
  /\ labelStack[i].position > pending[1].position

\* The labels that have bases: the label of an if is pushed before its
\* condition is popped, and its base is off by one.
Live == {i \in 1..Len(labelStack) : ~IfLabel(labelStack[i]) /\ ~Stale(i)}

View ==
  [cells |-> CellsBelow(callStack), calls |-> callStack, labels |-> labelStack,
   live |-> Live, types |-> operands.types, size |-> Len(operands.data)]

Agree == Agrees(View)

\* The context has failed, and a careful host does not go on with it.
Dead ==
  /\ ~ff.on /\ pending = <<>> /\ operands.error # "none"
  /\ operands.ok => ~inRunLoop

\* Every global has the cells of its type.
GlobalsFit ==
  \A m \in 1..Len(globals) : \A g \in 1..Len(globals[m]) :
    Len(globals[m][g].cells) = TypeSize(globals[m][g].type)

\* Nothing has failed for want of operands but a search for an else, which says
\* so, and a search that fails says why.
ErrorsFit ==
  /\ operands.error \in {"stack_underflow", "type_mismatch"} =>
       /\ operands.error = "stack_underflow" /\ ~operands.ok
       /\ pending # <<>> /\ Last(pending).kind = "if_else"
  /\ ~operands.ok /\ pending # <<>> => operands.error # "none"

SInv == (Agree \/ Dead) /\ ErrorsFit /\ GlobalsFit

\* What the types of the variables say of the stacks
Typed ==
  /\ operands.types \in Seq(ValueType)
  /\ operands.data \in Seq(Cell)
  /\ callStack \in Seq(Call)
  /\ labelStack \in Seq(Label)
  /\ Live \in SUBSET (1..Len(labelStack))
  /\ \A i \in 1..Len(labelStack) : labelStack[i].callIndex \in 1..Len(callStack)
  /\ AllExist(callStack)
  /\ LocalCells \in Nat
  /\ IsView(View)

\* They follow from IInv,
LEMMA StateTyped == IInv => Typed
<1> SUFFICES ASSUME IInv PROVE Typed
  OBVIOUS
<1>1. /\ callStack \in Seq(Call) /\ labelStack \in Seq(Label)
      /\ AllExist(callStack)
      /\ \A i \in 1..Len(labelStack) : labelStack[i].callIndex \in 1..Len(callStack)
  BY DEF IInv, CallsInv, CallsExist, LabelsBelongToCalls, AllExist
<1>2. LocalCells \in Nat
  <2>1. image \in Images
    BY DEF IInv
  <2>2. Len(callStack) \in 0..Len(callStack)
    BY <1>1
  <2> QED
    BY <1>1, <2>1, <2>2, CellsAre DEF LocalCells
<1>3. operands.types \in Seq(ValueType) /\ operands.data \in Seq(Cell)
  BY DEF IInv, OperandState
<1>4. Live \in SUBSET (1..Len(labelStack))
  BY DEF Live
<1>5. IsView(View)
  BY <1>1, <1>3, <1>4 DEF IsView, View
<1> QED
  BY <1>1, <1>2, <1>3, <1>4, <1>5 DEF Typed

\* before a step and after it.
LEMMA NextTyped == IInv' => Typed'
BY StateTyped, PTL

SameCall(c, d) ==
  /\ c.module = d.module /\ c.function = d.function
  /\ c.typeBase = d.typeBase /\ c.valueBase = d.valueBase

\* Calls that are the same but for their positions have the same bases.
LEMMA BasesKept ==
  ASSUME IInv, IInv', image' = image, NEW n \in Nat,
         n <= Len(callStack), n <= Len(callStack'),
         \A m \in 1..n : SameCall(callStack'[m], callStack[m])
  PROVE  SameBases(View, View', n)
<1>1. Typed /\ Typed'
  BY StateTyped, NextTyped
<1>2. PICK calls : calls = callStack'
  OBVIOUS
<1>3. AllExist(callStack) /\ AllExist(calls)
  <2>1. \A c : CallExists(c)' <=> CallExists(c)
    BY InfoStays
  <2>2. calls \in Seq(Call) /\ \A m \in 1..Len(calls) : CallExists(calls[m])'
    BY <1>1, <1>2 DEF Typed, AllExist
  <2> QED
    BY <1>1, <2>1, <2>2 DEF AllExist, Typed
<1>4. \A m \in 0..n : CellsBelow(calls)[m] = CellsBelow(callStack)[m]
  <2>1. \A m \in 1..n : FunctionOf(calls[m]) = FunctionOf(callStack[m])
    BY <1>2 DEF SameCall, FunctionOf
  <2>2. image \in Images
    BY DEF IInv
  <2>3. n <= Len(calls)
    BY <1>2
  <2> QED
    BY <1>3, <2>1, <2>2, <2>3, CellsSame
<1>5. CellsBelow(callStack)' = CellsBelow(calls)
  <2>1. CellsBelow(calls)' = CellsBelow(calls)
    BY CellsStay
  <2> QED
    BY <1>2, <2>1
<1>6. \A m \in 1..n : /\ callStack'[m].typeBase = callStack[m].typeBase
                      /\ callStack'[m].valueBase = callStack[m].valueBase
  BY DEF SameCall
<1> QED
  BY <1>4, <1>5, <1>6 DEF SameBases, View

\* Calls and labels are taken off, or none is, and the operands above r change.
LEMMA StacksFall ==
  ASSUME IInv, IInv', Agree, image' = image,
         Len(callStack') <= Len(callStack),
         \A m \in 1..Len(callStack') : SameCall(callStack'[m], callStack[m]),
         Len(labelStack') <= Len(labelStack),
         \A i \in 1..Len(labelStack') : labelStack'[i] = labelStack[i],
         Live' \subseteq Live,
         NEW r, SameBelow(View, View', r),
         Len(operands'.data)
           = StackSize(operands'.types) + CellsBelow(callStack)[Len(callStack')]
  PROVE  Agree'
<1>1. Typed /\ Typed'
  BY StateTyped, NextTyped
<1>2. PICK n \in Nat : n = Len(callStack')
  BY <1>1 DEF Typed
<1>3. SameBases(View, View', n)
  BY <1>2, BasesKept
<1>4. CellsBelow(callStack)'[n] = CellsBelow(callStack)[n]
  BY <1>3 DEF SameBases, View
<1>5. FallsTo(View, View', r)
  BY <1>2, <1>3, <1>4 DEF FallsTo, View
<1>6. IsView(View) /\ IsView(View')
  BY <1>1 DEF Typed, IsView
<1> QED
  BY <1>5, <1>6, AgreesFall DEF Agree

\* The labels that are live stay so, but for a branch whose search has ended.
LEMMA LiveFalls ==
  ASSUME IInv, Len(labelStack') <= Len(labelStack), Len(labelStack') \in Nat,
         \A i \in 1..Len(labelStack') : labelStack'[i] = labelStack[i],
         \/ pending = <<>>
         \/ pending[1].kind # "branch"
         \/ /\ pending' # <<>> /\ pending'[1].kind = pending[1].kind
            /\ pending'[1].position = pending[1].position
            /\ Len(callStack') = Len(callStack)
  PROVE  Live' \subseteq Live
<1>1. ASSUME NEW i \in Live'
      PROVE  i \in Live
  <2>1. /\ i \in 1..Len(labelStack') /\ ~IfLabel(labelStack'[i]) /\ ~Stale(i)'
    BY DEF Live
  <2>2. i \in 1..Len(labelStack) /\ labelStack'[i] = labelStack[i]
    BY <2>1, StateTyped DEF Typed
  <2>3. ~Stale(i)
    BY <2>1, <2>2 DEF Stale
  <2> QED
    BY <2>1, <2>2, <2>3 DEF Live, IfLabel
<1> QED
  BY <1>1

\* The stacks are as they were.
LEMMA StacksStay ==
  ASSUME IInv, IInv', Agree, UNCHANGED <<image, callStack, labelStack>>,
         operands'.types = operands.types,
         Len(operands'.data) = Len(operands.data),
         Live' \subseteq Live
  PROVE  Agree'
<1>1. Typed /\ Typed'
  BY StateTyped, NextTyped
<1>2. PICK r \in Nat : r = Len(operands.types)
  BY <1>1 DEF Typed
<1>3. SameBelow(View, View', r)
  <2>1. /\ \A m \in 1..Len(callStack) : callStack[m].typeBase <= r
        /\ \A i \in Live : labelStack[i].typeBase <= r
    BY <1>2 DEF Agree, Agrees, Based, View
  <2> QED
    BY <1>2, <2>1 DEF SameBelow, View
<1>4. Len(operands'.data)
        = StackSize(operands'.types) + CellsBelow(callStack)[Len(callStack')]
  BY DEF Agree, Agrees, View
<1>5. \A m \in 1..Len(callStack') : SameCall(callStack'[m], callStack[m])
  BY DEF SameCall
<1>6. Len(callStack') <= Len(callStack) /\ Len(labelStack') <= Len(labelStack)
  BY <1>1 DEF Typed
<1> QED
  BY <1>3, <1>4, <1>5, <1>6, StacksFall

-----------------------------------------------------------------------------
(***************************************************************************)
(* The operands of the innermost block.                                    *)
(***************************************************************************)

\* The bases of the calls are at r or below,
InCall(r) ==
  /\ r \in 0..Len(operands.types)
  /\ \A m \in 1..Len(callStack) : callStack[m].typeBase <= r

\* and so are those of the live labels.
Under(r) == InCall(r) /\ \A i \in Live : labelStack[i].typeBase <= r

\* They are if r is within the innermost block.
LEMMA UnderOwn ==
  ASSUME IInv, Agree, callStack # <<>>, NEW r \in Int, r <= Len(operands.types), Own(r)
  PROVE  Under(r)
<1>1. Typed
  BY StateTyped
<1>2. PICK n \in Nat : n = Len(callStack) /\ n >= 1
  BY <1>1 DEF Typed
<1>3. active = ActiveInfo(callStack[n]) /\ callStack[n] \in Call
  BY <1>1, <1>2, ElementOfSeq DEF IInv, CallsInv, CacheCoherent, Last, Typed
<1>4. callStack[n].typeBase \in Nat /\ callStack[n].typeBase <= r
  BY <1>3 DEF Own, ActiveInfo, Call
<1>5. \A m \in 1..n : callStack[m].typeBase <= callStack[n].typeBase
  <2>1. ASSUME NEW m \in 1..n
        PROVE  callStack[m].typeBase <= callStack[n].typeBase
    <3>1. Based(View, callStack[m], m - 1)
      BY <1>2 DEF Agree, Agrees, View
    <3>2. m - 1 < n /\ n \in 1..Len(callStack)
      BY <1>2
    <3> QED
      BY <3>1, <3>2 DEF Based, View
  <2> QED
    BY <2>1
<1>6. \A m \in 1..Len(callStack) : callStack[m].typeBase <= r
  <2>1. ASSUME NEW m \in 1..n
        PROVE  callStack[m].typeBase <= r
    <3>1. callStack[m] \in Call
      BY <1>1, <1>2, ElementOfSeq DEF Typed
    <3>2. callStack[m].typeBase \in Nat
      BY <3>1 DEF Call
    <3> QED
      BY <1>4, <1>5, <3>2
  <2> QED
    BY <1>2, <2>1
<1>7. ASSUME NEW i \in Live
      PROVE  labelStack[i].typeBase <= r
  <2>1. i \in 1..Len(labelStack) /\ labelStack[i].op # "if"
    BY DEF Live, IfLabel
  <2>2. labelStack[i] \in Label /\ labelStack[i].callIndex \in 1..n
    BY <1>1, <1>2, <2>1, ElementOfSeq DEF Typed
  <2>3. CASE labelStack[i].callIndex = n
    BY <1>2, <2>1, <2>3 DEF Own
  <2>4. CASE labelStack[i].callIndex # n
    <3>1. Based(View, labelStack[i], labelStack[i].callIndex)
      BY DEF Agree, Agrees, View
    <3>2. labelStack[i].callIndex < n /\ n \in 1..Len(callStack)
      BY <1>2, <2>2, <2>4
    <3>3. labelStack[i].typeBase <= callStack[n].typeBase
      BY <3>1, <3>2 DEF Based, View
    <3>4. labelStack[i].typeBase \in Nat
      BY <2>2 DEF Label
    <3> QED
      BY <1>4, <3>3, <3>4
  <2> QED
    BY <2>3, <2>4
<1> QED
  BY <1>1, <1>4, <1>6, <1>7 DEF Under, InCall, Typed

\* They are if all operands are above r.
LEMMA UnderTop ==
  ASSUME IInv, Agree
  PROVE  Under(Len(operands.types))
<1>1. Typed
  BY StateTyped
<1>2. /\ \A m \in 1..Len(callStack) : callStack[m].typeBase <= Len(operands.types)
      /\ \A i \in Live : labelStack[i].typeBase <= Len(operands.types)
  BY DEF Agree, Agrees, Based, View
<1> QED
  BY <1>1, <1>2 DEF Under, InCall, Typed

\* The base of the innermost call is there on the value stack as well.
LEMMA FloorType ==
  ASSUME IInv, Agree, callStack # <<>>, NEW r, InCall(r)
  PROVE  /\ r \in Nat /\ r <= Len(operands.types)
         /\ StackSize(Lowest(operands.types, r)) \in Nat
         /\ active.typeBase \in Nat /\ active.typeBase <= r
         /\ active.valueBase \in Nat
         /\ active.valueBase <= StackSize(Lowest(operands.types, r)) + LocalCells
<1>1. Typed /\ image \in Images
  BY StateTyped DEF IInv
<1>2. PICK n \in Nat : n = Len(callStack) /\ n >= 1
  BY <1>1 DEF Typed
<1>3. active = ActiveInfo(callStack[n]) /\ callStack[n] \in Call
  BY <1>1, <1>2, ElementOfSeq DEF IInv, CallsInv, CacheCoherent, Last, Typed
<1>4. PICK b \in Nat, v \in Nat : b = callStack[n].typeBase /\ v = callStack[n].valueBase
  BY <1>3 DEF Call
<1>5. r \in Nat /\ r <= Len(operands.types) /\ b <= r
  BY <1>2, <1>4 DEF InCall
<1>6. PICK types \in Seq(ValueType) : types = operands.types
  BY <1>1 DEF Typed
<1>7. v = StackSize(Lowest(types, b)) + CellsBelow(callStack)[n - 1]
  <2>1. Based(View, callStack[n], n - 1)
    BY <1>2 DEF Agree, Agrees, View
  <2> QED
    BY <1>4, <1>6, <2>1 DEF Based, View
<1>8. /\ StackSize(Lowest(types, b)) \in Nat /\ StackSize(Lowest(types, r)) \in Nat
      /\ StackSize(Lowest(types, b)) <= StackSize(Lowest(types, r))
  <2>1. b <= Len(types) /\ r <= Len(types)
    BY <1>5, <1>6
  <2> QED
    BY <1>5, <2>1, LowestType, LowestRise
<1>9. /\ CellsBelow(callStack)[n - 1] \in Nat /\ LocalCells \in Nat
      /\ CellsBelow(callStack)[n - 1] <= LocalCells
  <2>1. AllExist(callStack)
    BY <1>1 DEF Typed
  <2>2. n \in 1..Len(callStack) /\ n - 1 \in 0..Len(callStack) /\ n \in 0..Len(callStack)
    BY <1>2
  <2>3. /\ CellsBelow(callStack)[n] = CellsBelow(callStack)[n - 1] + CellsOf(callStack[n])
        /\ CellsBelow(callStack)[n - 1] \in Nat /\ CellsBelow(callStack)[n] \in Nat
        /\ CellsOf(callStack[n]) \in Nat
    BY <1>1, <2>1, <2>2, CellsAre
  <2> QED
    BY <1>2, <2>3 DEF LocalCells
<1>10. active.typeBase = b /\ active.valueBase = v
  BY <1>3, <1>4 DEF ActiveInfo
<1> QED
  BY <1>5, <1>6, <1>7, <1>8, <1>9, <1>10

\* The operand state s has other operands than the context only above r, whose
\* cells they have, and it has not failed.
Over(s, r) ==
  /\ s \in OperandState
  /\ s.ok /\ s.error = operands.error
  /\ r <= Len(s.types)
  /\ \A i \in 1..r : s.types[i] = operands.types[i]
  /\ Len(s.data) = StackSize(s.types) + LocalCells
  /\ callStack # <<>> =>
       \A i \in 1..active.valueBase : s.data[i] = operands.data[i]

\* The context has such operands.
LEMMA OverNow ==
  ASSUME IInv, Agree, operands.ok, NEW r, Under(r)
  PROVE  Over(operands, r)
BY DEF IInv, Agree, Agrees, View, Over, Under, InCall, LocalCells

\* What is below r has its place on the value stack.
LEMMA OverFloor ==
  ASSUME IInv, Agree, callStack # <<>>, NEW r, InCall(r), NEW s, Over(s, r)
  PROVE  /\ active.valueBase \in Nat
         /\ active.valueBase <= StackSize(Lowest(s.types, r)) + LocalCells
         /\ active.valueBase <= Len(s.data)
<1>1. Typed
  BY StateTyped
<1>2. /\ r \in Nat /\ r <= Len(operands.types) /\ active.valueBase \in Nat
      /\ active.valueBase <= StackSize(Lowest(operands.types, r)) + LocalCells
  BY FloorType
<1>3. PICK types \in Seq(ValueType) : types = s.types
  BY DEF Over, OperandState
<1>4. r <= Len(types) /\ \A i \in 1..r : types[i] = operands.types[i]
  BY <1>3 DEF Over
<1>5. Lowest(types, r) = Lowest(operands.types, r)
  <2>1. operands.types \in Seq(ValueType)
    BY <1>1 DEF Typed
  <2> QED
    BY <1>2, <1>4, <2>1, LowestSame
<1>6. StackSize(Lowest(types, r)) \in Nat /\ StackSize(Lowest(types, r)) <= StackSize(types)
  <2>1. /\ StackSize(Lowest(types, r)) \in Nat
        /\ SubSeq(types, r + 1, Len(types)) \in Seq(ValueType)
        /\ StackSize(types)
             = StackSize(Lowest(types, r)) + StackSize(SubSeq(types, r + 1, Len(types)))
    BY <1>2, <1>4, LowestType
  <2>2. StackSize(SubSeq(types, r + 1, Len(types))) \in Nat
    BY <2>1, StackSizeType
  <2> QED
    BY <2>1, <2>2
<1>7. Len(s.data) = StackSize(types) + LocalCells /\ LocalCells \in Nat
  BY <1>1, <1>3 DEF Over, Typed
<1>8. StackSize(types) \in Nat
  BY StackSizeType
<1> QED
  BY <1>2, <1>3, <1>5, <1>6, <1>7, <1>8

\* A step that leaves the context with such operands keeps to the operands of
\* its call.
LEMMA OverKeeps ==
  ASSUME IInv, Agree, NEW r, InCall(r), Over(operands', r)
  PROVE  CallKeepsToItsOperands
<1>1. SUFFICES ASSUME callStack # <<>>
               PROVE  /\ Len(operands'.data) >= active.valueBase
                      /\ Len(operands'.types) >= active.typeBase
                      /\ \A i \in 1..active.valueBase : operands'.data[i] = operands.data[i]
                      /\ \A i \in 1..active.typeBase : operands'.types[i] = operands.types[i]
  BY DEF CallKeepsToItsOperands
<1>2. r \in Nat /\ active.typeBase \in Nat /\ active.typeBase <= r
  BY <1>1, FloorType
<1>3. PICK s : s = operands'
  OBVIOUS
<1>4. active.valueBase \in Nat /\ active.valueBase <= Len(s.data)
  BY <1>1, <1>3, OverFloor
<1>5. Len(s.data) \in Nat /\ Len(s.types) \in Nat
  BY <1>3 DEF Over, OperandState
<1> QED
  BY <1>1, <1>2, <1>3, <1>4, <1>5 DEF Over

\* If it leaves the calls and the labels, it keeps the stacks in agreement, too.
LEMMA OverNext ==
  ASSUME IInv, IInv', Agree, UNCHANGED <<image, callStack, labelStack>>,
         pending = <<>>, NEW r, Under(r), Over(operands', r)
  PROVE  Agree' /\ CallKeepsToItsOperands
<1>1. Typed /\ Typed'
  BY StateTyped, NextTyped
<1>2. Live' \subseteq Live
  BY <1>1, LiveFalls DEF Typed
<1>3. Agree'
  <2>1. SameBelow(View, View', r)
    BY <1>2 DEF SameBelow, View, Under, InCall, Over
  <2>2. Len(operands'.data)
          = StackSize(operands'.types) + CellsBelow(callStack)[Len(callStack')]
    BY DEF Over, LocalCells
  <2>3. \A m \in 1..Len(callStack') : SameCall(callStack'[m], callStack[m])
    BY DEF SameCall
  <2>4. Len(callStack') <= Len(callStack) /\ Len(labelStack') <= Len(labelStack)
    BY <1>1 DEF Typed
  <2> QED
    BY <1>2, <2>1, <2>2, <2>3, <2>4, StacksFall
<1>4. CallKeepsToItsOperands
  BY OverKeeps DEF Under
<1> QED
  BY <1>3, <1>4

\* The operand state s without the type on its top and the cells of that type
Popped(s) ==
  [s EXCEPT !.types = SubSeq(@, 1, Len(@) - 1),
            !.data = SubSeq(@, 1, Len(@) - TypeSize(s.types[Len(s.types)]))]

\* The operand on top is popped the same way with and without a check of its
\* type.
LEMMA PopIs ==
  ASSUME NEW s \in OperandState, s.ok, s.types # <<>>,
         Len(s.data) >= TypeSize(s.types[Len(s.types)])
  PROVE  /\ PopTyped(s, s.types[Len(s.types)]) = Popped(s)
         /\ DropTop(s) = Popped(s)
         /\ PopCells(PopType(s), TypeSize(TopType(s))) = Popped(s)
<1> DEFINE t == s.types[Len(s.types)]
<1>1. TopType(s) = t
  BY DEF TopType
<1>2. PopCells(s, TypeSize(t)) = [s EXCEPT !.data = SubSeq(@, 1, Len(@) - TypeSize(t))]
  <2>1. Len(s.data) \in Nat /\ TypeSize(t) \in Nat
    BY TypeSizeType DEF OperandState
  <2> QED
    BY <2>1 DEF PopCells
<1>3. PopType(s) = [s EXCEPT !.types = SubSeq(@, 1, Len(@) - 1)]
  BY DEF PopType
<1>4. PopType(PopCells(s, TypeSize(t))) = Popped(s)
  BY <1>2 DEF PopType, Popped, OperandState
<1>5. PopCells(PopType(s), TypeSize(t)) = Popped(s)
  <2>1. Len(s.data) \in Nat /\ TypeSize(t) \in Nat
    BY TypeSizeType DEF OperandState
  <2> QED
    BY <1>3, <2>1 DEF PopCells, Popped, OperandState
<1>6. PopTyped(s, t) = Popped(s)
  BY <1>1, <1>4 DEF PopTyped
<1>7. DropTop(s) = Popped(s)
  <2>1. ~(Len(s.data) < TypeSize(t))
    BY TypeSizeType DEF OperandState
  <2> QED
    BY <1>1, <1>5, <2>1 DEF DropTop
<1> QED
  BY <1>1, <1>5, <1>6, <1>7

\* An operand above r is popped.
LEMMA OverPopped ==
  ASSUME IInv, Agree, NEW r, Under(r), NEW s, Over(s, r), Len(s.types) > r
  PROVE  /\ Over(Popped(s), r)
         /\ Len(Popped(s).types) = Len(s.types) - 1
         /\ \A i \in 1..(Len(s.types) - 1) : Popped(s).types[i] = s.types[i]
         /\ PopTyped(s, s.types[Len(s.types)]) = Popped(s)
         /\ DropTop(s) = Popped(s)
         /\ PopCells(PopType(s), TypeSize(TopType(s))) = Popped(s)
         /\ s.types # <<>> /\ s.types[Len(s.types)] \in ValueType
         /\ Len(s.data) >= TypeSize(s.types[Len(s.types)])
<1>1. Typed
  BY StateTyped
<1>2. PICK types \in Seq(ValueType) : types = s.types
  BY DEF Over, OperandState
<1>3. PICK data \in Seq(Cell) : data = s.data
  BY DEF Over, OperandState
<1>4. PICK n \in Nat : n = Len(types)
  OBVIOUS
<1>5. r \in Nat /\ r < n /\ n >= 1
  BY <1>1, <1>2, <1>4 DEF Under, InCall, Typed
<1>6. PICK t \in ValueType : t = types[n]
  BY <1>4, <1>5, ElementOfSeq
<1>7. PICK size \in {1, 2} : size = TypeSize(t)
  BY TypeSizeType
<1>8. PICK low \in Seq(ValueType) : low = SubSeq(types, 1, n - 1)
  <2>1. SubSeq(types, 1, n - 1) \in Seq(ValueType)
    BY <1>4, <1>5
  <2> QED
    BY <2>1
<1>9. Len(low) = n - 1 /\ \A i \in 1..(n - 1) : low[i] = types[i]
  BY <1>4, <1>5, <1>8
<1>10. StackSize(types) = StackSize(low) + size
  <2>1. Append(low, t) = types
    <3>1. /\ Append(low, t) \in Seq(ValueType) /\ Len(Append(low, t)) = n
          /\ \A i \in 1..n : Append(low, t)[i] = types[i]
      BY <1>5, <1>6, <1>9, AppendProperties
    <3> QED
      BY <1>4, <3>1, SeqEqual
  <2>2. StackSize(Append(low, t)) = StackSize(low) + TypeSize(t)
    BY SizeAppend
  <2> QED
    BY <1>7, <2>1, <2>2
<1>11. StackSize(low) \in Nat /\ LocalCells \in Nat
  BY <1>1, StackSizeType DEF Typed
<1>12. Len(data) = StackSize(types) + LocalCells
  BY <1>2, <1>3 DEF Over
<1>13. Len(data) \in Nat /\ Len(data) >= size
  BY <1>10, <1>11, <1>12
<1>14. /\ s \in OperandState /\ s.ok /\ s.error = operands.error /\ s.types # <<>>
       /\ s.types[Len(s.types)] = t
  BY <1>2, <1>4, <1>5, <1>6 DEF Over
<1>15. /\ PopTyped(s, t) = Popped(s)
       /\ DropTop(s) = Popped(s)
       /\ PopCells(PopType(s), TypeSize(TopType(s))) = Popped(s)
  BY <1>3, <1>7, <1>13, <1>14, PopIs
<1>16. PICK rest \in Seq(Cell) : rest = SubSeq(data, 1, Len(data) - size)
  <2>1. SubSeq(data, 1, Len(data) - size) \in Seq(Cell)
    BY <1>13
  <2> QED
    BY <2>1
<1>17. Len(rest) = Len(data) - size /\ \A i \in 1..Len(rest) : rest[i] = data[i]
  BY <1>13, <1>16
<1>18. /\ Popped(s).types = low /\ Popped(s).data = rest
       /\ Popped(s).ok = s.ok /\ Popped(s).error = s.error
       /\ Popped(s) \in OperandState
  BY <1>2, <1>3, <1>4, <1>7, <1>8, <1>14, <1>16 DEF Popped, OperandState
<1>19. Len(rest) = StackSize(low) + LocalCells
  BY <1>10, <1>11, <1>12, <1>17
<1>20. ASSUME callStack # <<>>, NEW i \in 1..active.valueBase
       PROVE  rest[i] = operands.data[i]
  <2>1. /\ active.valueBase \in Nat
        /\ active.valueBase <= StackSize(Lowest(types, r)) + LocalCells
    BY <1>2, <1>20, OverFloor DEF Under
  <2>2. Lowest(low, r) = Lowest(types, r)
    <3>1. r <= Len(types) /\ r <= Len(low) /\ \A j \in 1..r : low[j] = types[j]
      BY <1>4, <1>5, <1>9
    <3> QED
      BY <1>5, <3>1, LowestSame
  <2>3. /\ StackSize(Lowest(low, r)) \in Nat
        /\ StackSize(low) = StackSize(Lowest(low, r)) + StackSize(SubSeq(low, r + 1, Len(low)))
        /\ StackSize(SubSeq(low, r + 1, Len(low))) \in Nat
    <3>1. r <= Len(low)
      BY <1>5, <1>9
    <3>2. /\ StackSize(Lowest(low, r)) \in Nat
          /\ StackSize(low) = StackSize(Lowest(low, r)) + StackSize(SubSeq(low, r + 1, Len(low)))
          /\ SubSeq(low, r + 1, Len(low)) \in Seq(ValueType)
      BY <1>5, <3>1, LowestType
    <3> QED
      BY <3>2, StackSizeType
  <2>4. i \in 1..Len(rest)
    BY <1>11, <1>19, <1>20, <2>1, <2>2, <2>3
  <2>5. s.data[i] = operands.data[i]
    BY <1>20 DEF Over
  <2> QED
    BY <1>3, <1>17, <2>4, <2>5
<1>21. \A i \in 1..r : low[i] = operands.types[i]
  <2>1. \A i \in 1..r : types[i] = operands.types[i]
    BY <1>2 DEF Over
  <2>2. \A i \in 1..r : i \in 1..(n - 1)
    BY <1>5
  <2> QED
    BY <1>9, <2>1, <2>2
<1>22. r <= Len(low)
  BY <1>5, <1>9
<1>23. Over(Popped(s), r)
  BY <1>14, <1>18, <1>19, <1>20, <1>21, <1>22 DEF Over
<1> QED
  BY <1>2, <1>3, <1>4, <1>6, <1>7, <1>9, <1>13, <1>14, <1>15, <1>18, <1>23

\* A value is pushed, with the cells of its type.
LEMMA OverPushed ==
  ASSUME IInv, NEW r, Under(r), NEW s, Over(s, r), NEW t \in ValueType,
         NEW cells \in Seq(Cell), Len(cells) = TypeSize(t), Agree
  PROVE  Over(PushValue(s, t, cells), r)
<1>1. Typed
  BY StateTyped
<1>2. PICK types \in Seq(ValueType) : types = s.types
  BY DEF Over, OperandState
<1>3. PICK data \in Seq(Cell) : data = s.data
  BY DEF Over, OperandState
<1>4. PICK new : new = PushValue(s, t, cells)
  OBVIOUS
<1>5. /\ new.types = Append(types, t) /\ new.data = data \o cells
      /\ new.ok = s.ok /\ new.error = s.error
  BY <1>2, <1>3, <1>4 DEF PushValue, PushType, PushCells, Over, OperandState
<1>6. new \in OperandState
  BY <1>4, PushTypes DEF Over
<1>7. /\ Len(new.data) = Len(data) + TypeSize(t)
      /\ \A i \in 1..Len(data) : new.data[i] = data[i]
  <2>1. PICK both : both = data \o cells
    OBVIOUS
  <2>2. Len(both) = Len(data) + Len(cells) /\ \A i \in 1..Len(data) : both[i] = data[i]
    <3>1. /\ Len(data \o cells) = Len(data) + Len(cells)
          /\ \A i \in 1..(Len(data) + Len(cells)) :
               (data \o cells)[i] = IF i <= Len(data) THEN data[i]
                                    ELSE cells[i - Len(data)]
      BY ConcatProperties
    <3>2. \A i \in 1..Len(data) : i \in 1..(Len(data) + Len(cells)) /\ i <= Len(data)
      OBVIOUS
    <3> QED
      BY <2>1, <3>1, <3>2
  <2>3. new.data = both
    BY <1>5, <2>1
  <2> QED
    BY <2>2, <2>3
<1>8. /\ Len(new.types) = Len(types) + 1
      /\ \A i \in 1..Len(types) : new.types[i] = types[i]
      /\ StackSize(new.types) = StackSize(types) + TypeSize(t)
  BY <1>5, AppendProperties, SizeAppend
<1>9. Len(data) = StackSize(types) + LocalCells
  BY <1>2, <1>3 DEF Over
<1>10. StackSize(types) \in Nat /\ LocalCells \in Nat /\ TypeSize(t) \in Nat
  BY <1>1, StackSizeType, TypeSizeType DEF Typed
<1>11. Len(new.data) = StackSize(new.types) + LocalCells
  BY <1>7, <1>8, <1>9, <1>10
<1>12. r \in Nat /\ r <= Len(types) /\ \A i \in 1..r : types[i] = operands.types[i]
  BY <1>1, <1>2 DEF Over, Under, InCall, Typed
<1>13. r <= Len(new.types) /\ \A i \in 1..r : new.types[i] = operands.types[i]
  BY <1>8, <1>12
<1>14. ASSUME callStack # <<>>, NEW i \in 1..active.valueBase
       PROVE  new.data[i] = operands.data[i]
  <2>1. active.valueBase \in Nat /\ active.valueBase <= Len(data)
    BY <1>3, <1>14, OverFloor DEF Under
  <2>2. i \in 1..Len(data)
    BY <2>1
  <2>3. s.data[i] = operands.data[i]
    BY <1>14 DEF Over
  <2> QED
    BY <1>3, <1>7, <2>2, <2>3
<1>15. new.ok /\ new.error = operands.error
  BY <1>5 DEF Over
<1> QED
  BY <1>4, <1>6, <1>11, <1>13, <1>14, <1>15 DEF Over

\* The operands of types ts are popped, which are there and above r.
LEMMA TypesPopped ==
  ASSUME IInv, Agree, operands.ok, NEW ts \in Seq(ValueType), NEW r, Under(r),
         r = Len(operands.types) - Len(ts),
         \A i \in 1..Len(ts) : operands.types[(Len(operands.types) + 1) - i] = ts[i]
  PROVE  Over(PopOperands(operands, ts), r)
<1>1. Typed /\ Over(operands, r)
  BY StateTyped, OverNow
<1>2. PICK n \in Nat : n = Len(operands.types)
  BY <1>1 DEF Typed
<1>3. PICK k \in Nat : k = Len(ts) /\ r = n - k
  BY <1>2
<1>4. CASE k = 0
  BY <1>1, <1>3, <1>4 DEF PopOperands
<1>5. CASE k # 0
  <2>1. PICK a : a = Popped(operands)
    OBVIOUS
  <2>2. n > r /\ operands.types[n] = ts[1]
    <3>1. 1 \in 1..Len(ts) /\ (n + 1) - 1 = n
      BY <1>3, <1>5
    <3> QED
      BY <1>2, <1>3, <1>5, <3>1
  <2>3. /\ Over(a, r) /\ Len(a.types) = n - 1
        /\ \A i \in 1..(n - 1) : a.types[i] = operands.types[i]
        /\ PopTyped(operands, ts[1]) = a
    <3>1. /\ Over(Popped(operands), r)
          /\ Len(Popped(operands).types) = Len(operands.types) - 1
          /\ \A i \in 1..(Len(operands.types) - 1) :
               Popped(operands).types[i] = operands.types[i]
          /\ PopTyped(operands, operands.types[Len(operands.types)]) = Popped(operands)
      BY <1>1, <1>2, <2>2, OverPopped
    <3> QED
      BY <1>2, <2>1, <2>2, <3>1
  <2>4. CASE k = 1
    BY <1>3, <2>3, <2>4 DEF PopOperands
  <2>5. CASE k # 1
    <3>1. Len(a.types) > r /\ a.types[Len(a.types)] = ts[2]
      <4>1. 2 \in 1..Len(ts) /\ (n + 1) - 2 = n - 1 /\ n - 1 \in 1..(n - 1)
        <5>1. k <= n
          BY <1>1, <1>2, <1>3 DEF Under, InCall, Typed
        <5> QED
          BY <1>3, <1>5, <2>5, <5>1
      <4>2. operands.types[(n + 1) - 2] = ts[2]
        BY <1>2, <4>1
      <4>3. a.types[n - 1] = ts[2]
        BY <2>3, <4>1, <4>2
      <4>4. n - 1 > r
        BY <1>3, <1>5, <2>5
      <4> QED
        BY <2>3, <4>3, <4>4
    <3>2. /\ Over(Popped(a), r)
          /\ PopTyped(a, a.types[Len(a.types)]) = Popped(a)
      BY <2>3, <3>1, OverPopped
    <3>3. PopOperands(operands, ts) = PopTyped(a, ts[2])
      BY <1>3, <1>5, <2>3, <2>5 DEF PopOperands
    <3> QED
      BY <3>1, <3>2, <3>3
  <2> QED
    BY <2>4, <2>5
<1> QED
  BY <1>4, <1>5

\* The innermost block has the operands that an instruction pops.
LEMMA OperandsPopped ==
  ASSUME IInv, Agree, Stepping, NEW ts \in Seq(ValueType), MayPop(ts)
  PROVE  /\ Under(Len(operands.types) - Len(ts))
         /\ Over(PopOperands(operands, ts), Len(operands.types) - Len(ts))
<1>1. Typed /\ operands.ok /\ callStack # <<>>
  BY StateTyped DEF Stepping
<1>2. PICK r : r = Len(operands.types) - Len(ts)
  OBVIOUS
<1>3. r \in Int /\ r <= Len(operands.types)
  <2>1. Len(operands.types) \in Nat /\ Len(ts) \in Nat
    BY <1>1 DEF Typed
  <2> QED
    BY <1>2, <2>1
<1>4. Under(r)
  BY <1>1, <1>2, <1>3, UnderOwn DEF MayPop
<1> QED
  BY <1>1, <1>2, <1>4, TypesPopped DEF MayPop

\* It has an operand of type t.
LEMMA OperandPopped ==
  ASSUME IInv, Agree, Stepping, NEW t \in ValueType, MayPop(<<t>>)
  PROVE  /\ Under(Len(operands.types) - 1)
         /\ Over(Popped(operands), Len(operands.types) - 1)
         /\ PopTyped(operands, t) = Popped(operands)
         /\ operands.types # <<>>
         /\ operands.types[Len(operands.types)] = t
<1>1. Typed /\ operands.ok /\ callStack # <<>>
  BY StateTyped DEF Stepping
<1>2. PICK n \in Nat : n = Len(operands.types)
  BY <1>1 DEF Typed
<1>3. <<t>> \in Seq(ValueType) /\ Len(<<t>>) = 1 /\ <<t>>[1] = t
  OBVIOUS
<1>4. Under(n - 1)
  BY <1>2, <1>3, OperandsPopped
<1>5. n > n - 1 /\ operands.types[n] = t
  <2>1. 1 \in 1..Len(<<t>>) /\ (n + 1) - 1 = n
    BY <1>2
  <2> QED
    BY <1>2, <1>3, <2>1 DEF MayPop
<1>6. Over(operands, n - 1)
  BY <1>1, <1>4, OverNow
<1>7. /\ Over(Popped(operands), n - 1)
      /\ PopTyped(operands, operands.types[Len(operands.types)]) = Popped(operands)
      /\ operands.types # <<>>
  BY <1>2, <1>4, <1>5, <1>6, OverPopped
<1> QED
  BY <1>2, <1>4, <1>5, <1>7

-----------------------------------------------------------------------------
(***************************************************************************)
(* The steps that move operands, or none.                                  *)
(***************************************************************************)

\* What a step has to keep, while nothing has failed
Settled == SInv' /\ CallKeepsToItsOperands

\* An error that is not one of operands
OtherErrors == ErrorState \ {"none", "stack_underflow", "type_mismatch"}

\* A step that leaves the stacks alone keeps to the operands of its call.
LEMMA SameKeeps ==
  ASSUME IInv, Agree, operands'.types = operands.types, operands'.data = operands.data
  PROVE  CallKeepsToItsOperands
<1>1. SUFFICES ASSUME callStack # <<>>
               PROVE  /\ Len(operands.data) >= active.valueBase
                      /\ Len(operands.types) >= active.typeBase
  BY DEF CallKeepsToItsOperands
<1>2. PICK r : r = Len(operands.types)
  OBVIOUS
<1>3. Typed /\ Under(r)
  BY <1>2, StateTyped, UnderTop
<1>4. /\ active.typeBase \in Nat /\ active.typeBase <= r
      /\ active.valueBase \in Nat
      /\ active.valueBase <= StackSize(Lowest(operands.types, r)) + LocalCells
      /\ StackSize(Lowest(operands.types, r)) \in Nat /\ r \in Nat
  BY <1>1, <1>3, FloorType DEF Under
<1>5. StackSize(Lowest(operands.types, r)) <= StackSize(operands.types)
  <2>1. PICK ts \in Seq(ValueType) : ts = operands.types
    BY <1>3 DEF Typed
  <2>2. r <= Len(ts)
    BY <1>2, <1>4, <2>1
  <2>3. /\ SubSeq(ts, r + 1, Len(ts)) \in Seq(ValueType)
        /\ StackSize(ts) = StackSize(Lowest(ts, r)) + StackSize(SubSeq(ts, r + 1, Len(ts)))
    BY <1>4, <2>2, LowestType
  <2>4. StackSize(SubSeq(ts, r + 1, Len(ts))) \in Nat
    BY <2>3, StackSizeType
  <2> QED
    BY <1>4, <2>1, <2>3, <2>4
<1>6. Len(operands.data) = StackSize(operands.types) + LocalCells
  BY DEF Agree, Agrees, View, LocalCells
<1>7. LocalCells \in Nat /\ StackSize(operands.types) \in Nat
  BY <1>3, StackSizeType DEF Typed
<1> QED
  BY <1>2, <1>4, <1>5, <1>6, <1>7

\* Stacks, calls and labels stay.
LEMMA SameSettled ==
  ASSUME IInv, IInv', Agree, GlobalsFit, UNCHANGED <<image, callStack, labelStack, globals>>,
         operands'.types = operands.types, operands'.data = operands.data,
         Live' \subseteq Live, ErrorsFit'
  PROVE  Settled
<1>1. Agree'
  BY StacksStay
<1>2. CallKeepsToItsOperands
  BY SameKeeps
<1>3. GlobalsFit'
  BY DEF GlobalsFit
<1> QED
  BY <1>1, <1>2, <1>3 DEF Settled, SInv

\* An instruction changes nothing but operands, of those above r.
LEMMA OverSettled ==
  ASSUME IInv, IInv', Agree, ErrorsFit, GlobalsFit,
         UNCHANGED <<image, callStack, labelStack>>, GlobalsFit',
         pending = <<>>, pending' = <<>>, NEW r, Under(r), Over(operands', r)
  PROVE  Settled
<1>1. Agree' /\ CallKeepsToItsOperands
  BY OverNext
<1>2. ErrorsFit'
  BY DEF ErrorsFit, Over
<1> QED
  BY <1>1, <1>2 DEF Settled, SInv

\* An instruction fails while no handler waits.
LEMMA FailSettled ==
  ASSUME ErrorsFit, GlobalsFit, globals' = globals,
         pending = <<>>, pending' = <<>>, ~ff'.on,
         ~operands'.ok, operands'.error \in OtherErrors
  PROVE  Settled
<1>1. Dead' /\ ErrorsFit' /\ GlobalsFit'
  BY DEF Dead, ErrorsFit, GlobalsFit, OtherErrors
<1>2. CallKeepsToItsOperands
  BY DEF CallKeepsToItsOperands, OtherErrors
<1> QED
  BY <1>1, <1>2 DEF Settled, SInv

\* The instructions that leave the stacks alone, and those that are skipped
LEMMA PlainSettled ==
  ASSUME IInv, IInv', Agree, ErrorsFit, GlobalsFit,
         \/ FetchFails \/ SkipInstruction \/ SkipBlock \/ UnknownBlockType
         \/ FindTarget \/ Else \/ Nop \/ Unreachable \/ NotImplemented
  PROVE  Settled
<1>1. /\ UNCHANGED <<image, callStack, labelStack, globals>>
      /\ operands'.types = operands.types /\ operands'.data = operands.data
      /\ operands.ok
      /\ \/ operands'.ok /\ operands'.error = operands.error
         \/ ~operands'.ok /\ operands'.error \in OtherErrors
      /\ pending' = pending \/ \E h : pending' = Append(pending, h)
  BY DEF FetchFails, SkipInstruction, SkipBlock, UnknownBlockType, FindTarget, Else,
         Nop, Unreachable, NotImplemented, Computes, Search, Fail, SetError, contextVars,
         Executes, Skips, Decodes, Stepping, searchVars, IInv, OperandState,
         OtherErrors, ErrorState
<1>2. Live' \subseteq Live
  <2>1. pending \in Seq(Handler)
    BY DEF IInv, SearchInv
  <2>2. pending = <<>> \/ (pending' # <<>> /\ pending'[1] = pending[1])
    BY <1>1, <2>1, AppendProperties
  <2> QED
    BY <1>1, <2>2, LiveFalls, StateTyped DEF Typed
<1>3. ErrorsFit'
  BY <1>1 DEF ErrorsFit, OtherErrors
<1> QED
  BY <1>1, <1>2, <1>3, SameSettled

\* An instruction that is executed while no handler waits, and computes
LEMMA ComputesSettled ==
  ASSUME IInv, IInv', Agree, ErrorsFit, GlobalsFit, NEW ops, Executes(ops),
         NEW s, Computes(s),
         \/ \E r : Under(r) /\ Over(s, r)
         \/ ~s.ok /\ s.error \in OtherErrors
  PROVE  Settled
<1>1. pending = <<>> /\ ~ff.on
  BY ExecutesAlone
<1>2. /\ UNCHANGED <<image, callStack, labelStack, globals>> /\ operands' = s
      /\ pending' = <<>> /\ ~ff'.on
  BY <1>1 DEF Computes, searchVars
<1>3. GlobalsFit'
  BY <1>2 DEF GlobalsFit
<1>4. CASE \E r : Under(r) /\ Over(s, r)
  <2>1. PICK r : Under(r) /\ Over(s, r)
    BY <1>4
  <2>2. Over(operands', r)
    BY <1>2, <2>1
  <2> QED
    BY <1>1, <1>2, <1>3, <2>1, <2>2, OverSettled
<1>5. CASE ~s.ok /\ s.error \in OtherErrors
  BY <1>1, <1>2, <1>5, FailSettled
<1> QED
  BY <1>4, <1>5

\* Drop
LEMMA DropSettled ==
  ASSUME IInv, IInv', Agree, ErrorsFit, GlobalsFit, OperandsFit, Drop
  PROVE  Settled
<1>1. Executes({"drop"}) /\ Computes(DropTop(operands))
  BY DEF Drop
<1>2. Stepping /\ operands.ok /\ callStack # <<>> /\ Typed
  BY <1>1, Decoded, StateTyped DEF Stepping
<1>3. PICK n \in Nat : n = Len(operands.types)
  BY <1>2 DEF Typed
<1>4. Under(n - 1)
  <2>1. Own(n - 1)
    BY <1>1, <1>3 DEF OperandsFit
  <2> QED
    BY <1>2, <1>3, <2>1, UnderOwn
<1>5. Over(operands, n - 1)
  BY <1>2, <1>4, OverNow
<1>6. Over(Popped(operands), n - 1) /\ DropTop(operands) = Popped(operands)
  <2>1. Len(operands.types) > n - 1
    BY <1>3
  <2> QED
    BY <1>4, <1>5, <2>1, OverPopped
<1>7. Over(DropTop(operands), n - 1)
  BY <1>6
<1> QED
  BY <1>1, <1>4, <1>7, ComputesSettled

\* A value is pushed that has the cells of its type.
LEMMA PushSettled ==
  ASSUME IInv, IInv', Agree, ErrorsFit, GlobalsFit, NEW ops, Executes(ops),
         NEW t \in ValueType, NEW cells \in Seq(Cell), Len(cells) = TypeSize(t),
         Computes(PushValue(operands, t, cells))
  PROVE  Settled
<1>1. operands.ok
  BY Decoded DEF Stepping
<1>2. PICK r : r = Len(operands.types)
  OBVIOUS
<1>3. Under(r)
  BY <1>2, UnderTop
<1>4. Over(operands, r)
  BY <1>1, <1>3, OverNow
<1>5. Over(PushValue(operands, t, cells), r)
  BY <1>3, <1>4, OverPushed
<1> QED
  BY <1>3, <1>5, ComputesSettled

\* The constants, local.get and global.get
LEMMA GetSettled ==
  ASSUME IInv, IInv', Agree, ErrorsFit, GlobalsFit, Const \/ LocalGet \/ GlobalGet
  PROVE  Settled
<1>1. CASE Const
  <2>1. Executes({"const"}) /\ Computes(PushValue(operands, Instr.type, Instr.cells))
    BY <1>1 DEF Const
  <2>2. /\ Instr.type \in ValueType /\ Instr.cells \in Seq(Cell)
        /\ Here \in 1..Len(image) /\ CanFetch /\ Instr.op \in {"const"} /\ Stepping
    BY <2>1, InstrType, Decoded
  <2>3. Len(Instr.cells) = TypeSize(Instr.type)
    <3>1. image \in Images /\ Pos \in Nat
      BY <2>2, Fetched DEF IInv, Pos
    <3>2. ConstantsFit(image[Here]) /\ image[Here].code \in Seq(Instruction)
      BY <2>2, <3>1, ImageType, ModuleType
    <3>3. Pos + 1 \in 1..Len(image[Here].code)
      BY <2>2, <3>1, <3>2 DEF CanFetch, Code
    <3>4. image[Here].code[Pos + 1] = Instr
      BY DEF Instr, Code
    <3> QED
      BY <2>2, <3>2, <3>3, <3>4 DEF ConstantsFit
  <2> QED
    BY <2>1, <2>2, <2>3, PushSettled
<1>2. CASE LocalGet
  <2>1. PICK slot : slot = active.locals[Instr.arg]
    OBVIOUS
  <2>2. PICK size : size = TypeSize(slot.type)
    OBVIOUS
  <2>3. PICK value : value = Slice(operands.data, slot.position, size)
    OBVIOUS
  <2>4. /\ Executes({"local.get"}) /\ Computes(PushValue(operands, slot.type, value))
        /\ Instr.arg \in 1..Len(active.locals)
    BY <1>2, <2>1, <2>2, <2>3 DEF LocalGet
  <2>5. slot \in Slot
    BY <2>1, <2>4, ElementOfSeq DEF IInv, CallsInv, ActiveCall
  <2>6. /\ slot.position \in Nat /\ slot.type \in ValueType
        /\ size \in Nat /\ operands.data \in Seq(Cell)
    <3>1. slot.position \in Nat /\ slot.type \in ValueType
      BY <2>5 DEF Slot
    <3>2. size \in Nat
      BY <2>2, TypeSizeType
    <3>3. operands.data \in Seq(Cell)
      BY DEF IInv, OperandState
    <3> QED
      BY <3>1, <3>2, <3>3
  <2>7. value \in Seq(Cell) /\ Len(value) = size
    <3>1. value \in Seq(Cell \cup {Unknown}) /\ Len(value) = size
      BY <2>3, <2>6, SliceType
    <3>2. Cell \cup {Unknown} = Cell
      BY DEF Cell
    <3> QED
      BY <3>1, <3>2
  <2> QED
    BY <2>2, <2>4, <2>6, <2>7, PushSettled
<1>3. CASE GlobalGet
  <2>1. PICK global : global = globals[Here][Instr.arg]
    OBVIOUS
  <2>2. /\ Executes({"global.get"}) /\ Instr.arg \in 1..Len(globals[Here])
        /\ Computes(PushValue(operands, global.type, global.cells))
    BY <1>3, <2>1 DEF GlobalGet
  <2>3. Here \in 1..Len(image)
    BY <2>2, Decoded, InstrType
  <2>4. globals \in [1..Len(image) -> Seq(Global)] /\ image \in Seq(Module)
    BY ImageType DEF IInv
  <2>5. globals[Here] \in Seq(Global) /\ Here \in 1..Len(globals)
    BY <2>3, <2>4
  <2>6. global \in Global
    BY <2>1, <2>2, <2>5, ElementOfSeq
  <2>7. Len(global.cells) = TypeSize(global.type)
    BY <2>1, <2>2, <2>5 DEF GlobalsFit
  <2>8. global.type \in ValueType /\ global.cells \in Seq(Cell)
    BY <2>6 DEF Global
  <2> QED
    BY <2>2, <2>7, <2>8, PushSettled
<1> QED
  BY <1>1, <1>2, <1>3

\* The locals of a call are above its base.
LEMMA LocalAbove ==
  ASSUME IInv, callStack # <<>>, NEW i \in 1..Len(active.locals)
  PROVE  /\ active.valueBase \in Nat
         /\ active.locals[i] \in Slot
         /\ active.locals[i].position >= active.valueBase
<1>1. PICK n \in Nat : n = Len(callStack) /\ n >= 1
  BY DEF IInv, CallsInv
<1>2. PICK call : call = callStack[n]
  OBVIOUS
<1>3. call \in Call /\ CallExists(call) /\ active = ActiveInfo(call) /\ image \in Images
  BY <1>1, <1>2, ElementOfSeq DEF IInv, CallsInv, CacheCoherent, CallsExist, Last
<1>4. PICK types : types = SignatureOf(call).params \o SignatureOf(call).results
                             \o FunctionOf(call).locals
  OBVIOUS
<1>5. types \in Seq(ValueType)
  <2>1. FunctionOf(call).locals \in Seq(ValueType)
        /\ SignatureOf(call).params \in Seq(ValueType)
        /\ SignatureOf(call).results \in Seq(ValueType)
    BY <1>3, CallType DEF Function, Signature
  <2> QED
    BY <1>4, <2>1, ConcatProperties
<1>6. active.locals
        = [j \in 1..Len(types) |->
             [position |-> call.valueBase + StackSize(SubSeq(types, 1, j - 1)),
              type     |-> types[j]]]
  BY <1>3, <1>4 DEF ActiveInfo, StackLocals
<1>7. i \in 1..Len(types)
  <2>1. Len(types) \in Nat
    BY <1>5
  <2> QED
    BY <1>6, <2>1
<1>8. active.locals[i].position = call.valueBase + StackSize(SubSeq(types, 1, i - 1))
  BY <1>6, <1>7
<1>9. StackSize(SubSeq(types, 1, i - 1)) \in Nat
  <2>1. SubSeq(types, 1, i - 1) \in Seq(ValueType)
    BY <1>5, <1>7
  <2> QED
    BY <2>1, StackSizeType
<1>10. active.valueBase = call.valueBase /\ call.valueBase \in Nat
  BY <1>3 DEF ActiveInfo, Call
<1>11. active.locals[i] \in Slot
  BY ElementOfSeq DEF IInv, CallsInv, ActiveCall
<1> QED
  BY <1>8, <1>9, <1>10, <1>11

\* Cells above the base of the call are written.
LEMMA OverWritten ==
  ASSUME IInv, Agree, NEW r, Under(r), NEW s, Over(s, r), NEW position \in Nat,
         active.valueBase \in Nat, position >= active.valueBase,
         NEW items \in Seq(Cell)
  PROVE  Over([s EXCEPT !.data = Overwrite(@, position, items)], r)
<1>1. PICK data \in Seq(Cell) : data = s.data
  BY DEF Over, OperandState
<1>2. PICK new \in Seq(Cell) : new = Overwrite(data, position, items)
  BY OverwriteType
<1>3. /\ Len(new) = Len(data)
      /\ \A i \in 1..Len(data) :
           new[i] = IF i \in (position + 1)..(position + Len(items))
                    THEN items[i - position] ELSE data[i]
  BY <1>2, OverwriteType
<1>4. PICK t : t = [s EXCEPT !.data = Overwrite(@, position, items)]
  OBVIOUS
<1>5. /\ t \in OperandState /\ t.data = new /\ t.types = s.types
      /\ t.ok = s.ok /\ t.error = s.error
  BY <1>1, <1>2, <1>4 DEF Over, OperandState
<1>6. ASSUME callStack # <<>>, NEW i \in 1..active.valueBase
      PROVE  new[i] = operands.data[i]
  <2>0. active.valueBase <= Len(data) /\ Len(data) \in Nat
    BY <1>1, <1>6, OverFloor DEF Under
  <2>1. i \in 1..Len(data) /\ i \notin (position + 1)..(position + Len(items))
    BY <2>0
  <2>2. data[i] = operands.data[i]
    BY <1>1, <1>6 DEF Over
  <2> QED
    BY <1>3, <2>1, <2>2
<1>7. Over(t, r)
  BY <1>1, <1>3, <1>5, <1>6 DEF Over
<1> QED
  BY <1>4, <1>7

\* local.set and local.tee
LEMMA LocalSetSettled ==
  ASSUME IInv, IInv', Agree, ErrorsFit, GlobalsFit, OperandsFit, LocalSet
  PROVE  Settled
<1>1. PICK slot : slot = active.locals[Instr.arg]
  OBVIOUS
<1>2. PICK value : value = TopCells(operands, TypeSize(slot.type))
  OBVIOUS
<1>3. PICK stored : stored = [Popped(operands) EXCEPT
                                !.data = Overwrite(@, slot.position, value)]
  OBVIOUS
<1>4. /\ Executes({"local.set", "local.tee"}) /\ Stepping /\ callStack # <<>>
      /\ Instr.arg \in 1..Len(active.locals)
  BY Decoded DEF LocalSet, Stepping
<1>5. /\ slot \in Slot /\ slot.position \in Nat /\ slot.type \in ValueType
      /\ active.valueBase \in Nat /\ slot.position >= active.valueBase
  BY <1>1, <1>4, LocalAbove DEF Slot
<1>6. MayPop(<<slot.type>>)
  BY <1>1, <1>4 DEF OperandsFit
<1>7. PICK r : r = Len(operands.types) - 1
  OBVIOUS
<1>8. /\ Under(r) /\ Over(Popped(operands), r)
      /\ PopTyped(operands, slot.type) = Popped(operands)
  BY <1>4, <1>5, <1>6, <1>7, OperandPopped
<1>9. value \in Seq(Cell) /\ Len(value) = TypeSize(slot.type)
  <2>1. operands \in OperandState /\ TypeSize(slot.type) \in Nat
    BY TypeSizeType DEF IInv
  <2> QED
    BY <1>2, <2>1, PopTypes
<1>10. Over(stored, r)
  BY <1>3, <1>5, <1>8, <1>9, OverWritten
<1>11. Over(PushValue(stored, slot.type, value), r)
  BY <1>5, <1>8, <1>9, <1>10, OverPushed
<1>12. Popped(operands).ok
  BY <1>8 DEF Over
<1>13. Computes(stored) \/ Computes(PushValue(stored, slot.type, value))
  <2>1. Computes(IF Instr.op = "local.set" THEN stored
                 ELSE PushValue(stored, slot.type, value))
    BY <1>1, <1>2, <1>3, <1>8, <1>12 DEF LocalSet
  <2> QED
    BY <2>1
<1>14. CASE Computes(stored)
  BY <1>4, <1>8, <1>10, <1>14, ComputesSettled
<1>15. CASE Computes(PushValue(stored, slot.type, value))
  BY <1>4, <1>8, <1>11, <1>15, ComputesSettled
<1> QED
  BY <1>13, <1>14, <1>15

\* global.set
LEMMA GlobalSetSettled ==
  ASSUME IInv, IInv', Agree, ErrorsFit, GlobalsFit, OperandsFit, GlobalSet
  PROVE  Settled
<1>1. PICK m, g : m = Here /\ g = Instr.arg
  OBVIOUS
<1>2. PICK t : t = globals[m][g].type
  OBVIOUS
<1>3. PICK cells : cells = TopCells(operands, TypeSize(t))
  OBVIOUS
<1>4. /\ Executes({"global.set"}) /\ Stepping /\ Here \in 1..Len(image)
      /\ g \in 1..Len(globals[m])
  BY <1>1, Decoded, InstrType DEF GlobalSet
<1>5. /\ globals \in [1..Len(image) -> Seq(Global)] /\ Len(image) \in Nat
      /\ operands \in OperandState /\ m \in 1..Len(image)
  <2>1. image \in Seq(Module)
    BY ImageType DEF IInv
  <2> QED
    BY <1>1, <1>4, <2>1 DEF IInv
<1>6. globals[m][g] \in Global
  BY <1>4, <1>5, ElementOfSeq
<1>7. t \in ValueType
  BY <1>2, <1>6 DEF Global
<1>8. MayPop(<<t>>)
  BY <1>1, <1>2, <1>4 DEF OperandsFit
<1>9. PICK r : r = Len(operands.types) - 1
  OBVIOUS
<1>10. /\ Under(r) /\ Over(Popped(operands), r)
       /\ PopTyped(operands, t) = Popped(operands)
  BY <1>4, <1>7, <1>8, <1>9, OperandPopped
<1>11. /\ operands' = Popped(operands)
       /\ globals' = [globals EXCEPT ![m][g].cells = cells]
       /\ UNCHANGED <<image, callStack, labelStack>> /\ UNCHANGED searchVars
  <2>1. Popped(operands).ok
    BY <1>10 DEF Over
  <2> QED
    BY <1>1, <1>2, <1>3, <1>10, <2>1 DEF GlobalSet
<1>12. Len(cells) = TypeSize(t)
  BY <1>3, <1>5, PopTypes, TypeSizeType
<1>13. GlobalsFit'
  <2>1. ASSUME NEW i \in 1..Len(globals'), NEW j \in 1..Len(globals'[i])
        PROVE  Len(globals'[i][j].cells) = TypeSize(globals'[i][j].type)
    <3>1. globals' = [globals EXCEPT ![m] = [globals[m] EXCEPT
                                       ![g] = [globals[m][g] EXCEPT !.cells = cells]]]
      BY <1>11
    <3>2. Len(globals') = Len(globals)
      BY <1>5, <3>1
    <3>3. i \in 1..Len(globals) /\ Len(globals) = Len(image)
      BY <1>5, <2>1, <3>2
    <3>4. CASE i # m
      <4>1. globals'[i] = globals[i]
        BY <1>5, <3>1, <3>3, <3>4
      <4> QED
        BY <2>1, <3>3, <4>1 DEF GlobalsFit
    <3>5. CASE i = m
      <4>1. globals[m] \in Seq(Global)
        BY <1>5
      <4>2. globals'[i] = [globals[m] EXCEPT ![g] = [globals[m][g] EXCEPT !.cells = cells]]
        BY <1>5, <3>1, <3>5
      <4>3. Len(globals'[i]) = Len(globals[m])
        BY <4>1, <4>2
      <4>4. CASE j = g
        BY <1>2, <1>4, <1>6, <1>12, <4>1, <4>2, <4>3, <4>4 DEF Global
      <4>5. CASE j # g
        <5>1. globals'[i][j] = globals[m][j]
          BY <2>1, <4>1, <4>2, <4>3, <4>5
        <5> QED
          BY <2>1, <3>3, <3>5, <4>3, <5>1 DEF GlobalsFit
      <4> QED
        BY <4>4, <4>5
    <3> QED
      BY <3>4, <3>5
  <2> QED
    BY <2>1 DEF GlobalsFit
<1>14. pending = <<>> /\ pending' = <<>>
  BY <1>4, <1>11, ExecutesAlone DEF searchVars
<1>15. Over(operands', r)
  BY <1>10, <1>11
<1> QED
  BY <1>10, <1>11, <1>13, <1>14, <1>15, OverSettled

\* A value of unknown cells is pushed.
LEMMA UnknownPushed ==
  ASSUME IInv, Agree, NEW r, Under(r), NEW s, Over(s, r), NEW t \in ValueType
  PROVE  Over(PushValue(s, t, Unknowns(t)), r)
<1>1. Unknowns(t) \in Seq(Cell)
  BY UnknownsType
<1>2. Len(Unknowns(t)) = TypeSize(t)
  <2>1. TypeSize(t) \in Nat
    BY TypeSizeType
  <2> QED
    BY <2>1 DEF Unknowns, Repeat
<1> QED
  BY <1>1, <1>2, OverPushed

\* Loads, stores, memory.size and memory.grow
LEMMA MemorySettled ==
  ASSUME IInv, IInv', Agree, ErrorsFit, GlobalsFit, OperandsFit, MemoryAccess
  PROVE  Settled
<1>1. PICK popped : popped = PopOperands(operands, MemoryPops)
  OBVIOUS
<1>2. PICK t : t = MemoryType
  OBVIOUS
<1>3. /\ Executes(MemoryOp)
      /\ \/ Computes(Fail(operands, "invalid_index"))
         \/ Computes(popped)
         \/ Computes(PushValue(popped, t, Unknowns(t)))
         \/ Computes(Fail(popped, "memory_oob"))
  <2>1. Computes(IF ~popped.ok \/ Instr.op = "store" THEN popped
                 ELSE PushValue(popped, t, Unknowns(t)))
          => Computes(popped) \/ Computes(PushValue(popped, t, Unknowns(t)))
    BY DEF Computes
  <2> QED
    BY <1>1, <1>2, <2>1 DEF MemoryAccess
<1>4. Stepping /\ Instr.type \in ValueType
  BY <1>3, Decoded, InstrType
<1>5. t \in ValueType
  BY <1>2, <1>4 DEF MemoryType, ValueType
<1>6. MemoryPops \in Seq(ValueType)
  <2>1. "i32" \in ValueType
    BY DEF ValueType
  <2>2. /\ <<Instr.type, "i32">> \in Seq(ValueType)
        /\ <<"i32">> \in Seq(ValueType)
        /\ <<>> \in Seq(ValueType)
    BY <1>4, <2>1
  <2>3. MemoryPops \in {<<Instr.type, "i32">>, <<"i32">>, <<>>}
    BY DEF MemoryPops
  <2> QED
    BY <2>2, <2>3
<1>7. MayPop(MemoryPops)
  BY <1>3 DEF OperandsFit
<1>8. PICK r : Under(r) /\ Over(popped, r)
  BY <1>1, <1>4, <1>6, <1>7, OperandsPopped
<1>9. Over(PushValue(popped, t, Unknowns(t)), r)
  BY <1>5, <1>8, UnknownPushed
<1>10. \A s \in OperandState : \A e \in {"invalid_index", "memory_oob"} :
         ~Fail(s, e).ok /\ Fail(s, e).error \in OtherErrors
  BY DEF Fail, OperandState, OtherErrors, ErrorState
<1>11. operands \in OperandState /\ popped \in OperandState
  BY <1>8 DEF Over, IInv
<1>12. CASE Computes(Fail(operands, "invalid_index"))
  <2>1. ~Fail(operands, "invalid_index").ok
        /\ Fail(operands, "invalid_index").error \in OtherErrors
    BY <1>10, <1>11
  <2> QED
    BY <1>3, <1>12, <2>1, ComputesSettled
<1>13. CASE Computes(popped)
  BY <1>3, <1>8, <1>13, ComputesSettled
<1>14. CASE Computes(PushValue(popped, t, Unknowns(t)))
  BY <1>3, <1>8, <1>9, <1>14, ComputesSettled
<1>15. CASE Computes(Fail(popped, "memory_oob"))
  <2>1. ~Fail(popped, "memory_oob").ok
        /\ Fail(popped, "memory_oob").error \in OtherErrors
    BY <1>10, <1>11
  <2> QED
    BY <1>3, <1>15, <2>1, ComputesSettled
<1> QED
  BY <1>3, <1>12, <1>13, <1>14, <1>15

\* Arithmetic, comparisons and conversions
LEMMA NumericSettled ==
  ASSUME IInv, IInv', Agree, ErrorsFit, GlobalsFit, OperandsFit, Numeric
  PROVE  Settled
<1>1. PICK popped : popped = PopOperands(operands, NumericPops)
  OBVIOUS
<1>2. PICK t : t = NumericType
  OBVIOUS
<1>3. /\ Executes(NumericOp)
      /\ Computes(popped) \/ Computes(PushValue(popped, t, Unknowns(t)))
  <2>1. Computes(IF ~popped.ok THEN popped ELSE PushValue(popped, t, Unknowns(t)))
          => Computes(popped) \/ Computes(PushValue(popped, t, Unknowns(t)))
    BY DEF Computes
  <2> QED
    BY <1>1, <1>2, <2>1 DEF Numeric
<1>4. Stepping /\ Instr.type \in ValueType /\ Instr.types \in Seq(ValueType)
  BY <1>3, Decoded, InstrType
<1>5. t \in ValueType
  BY <1>2, <1>4 DEF NumericType, ValueType
<1>6. NumericPops \in Seq(ValueType)
  BY <1>4 DEF NumericPops
<1>7. MayPop(NumericPops)
  BY <1>3 DEF OperandsFit
<1>8. PICK r : Under(r) /\ Over(popped, r)
  BY <1>1, <1>4, <1>6, <1>7, OperandsPopped
<1>9. Over(PushValue(popped, t, Unknowns(t)), r)
  BY <1>5, <1>8, UnknownPushed
<1>10. CASE Computes(popped)
  BY <1>3, <1>8, <1>10, ComputesSettled
<1>11. CASE Computes(PushValue(popped, t, Unknowns(t)))
  BY <1>3, <1>8, <1>9, <1>11, ComputesSettled
<1> QED
  BY <1>3, <1>10, <1>11

\* A label on top of others, none of which a branch has left
LEMMA LiveGrows ==
  ASSUME IInv, pending = <<>>, NEW label, labelStack' = Append(labelStack, label)
  PROVE  Live' \subseteq Live \cup {Len(labelStack) + 1}
<1>1. labelStack \in Seq(Label)
  BY StateTyped DEF Typed
<1>2. /\ Len(labelStack') = Len(labelStack) + 1 /\ Len(labelStack) \in Nat
      /\ \A i \in 1..Len(labelStack) : labelStack'[i] = labelStack[i]
  BY <1>1
<1>3. ASSUME NEW i \in Live', i # Len(labelStack) + 1
      PROVE  i \in Live
  <2>1. i \in 1..Len(labelStack') /\ ~IfLabel(labelStack'[i])
    BY DEF Live
  <2>2. i \in 1..Len(labelStack) /\ labelStack'[i] = labelStack[i]
    BY <1>2, <1>3, <2>1
  <2> QED
    BY <2>1, <2>2 DEF Live, Stale
<1> QED
  BY <1>3

\* block and loop
LEMMA EnterBlockSettled ==
  ASSUME IInv, IInv', Agree, ErrorsFit, GlobalsFit, EnterBlock
  PROVE  Settled
<1>1. /\ Executes({"block", "loop"})
      /\ UNCHANGED <<image, operands, callStack, globals>> /\ UNCHANGED searchVars
  BY DEF EnterBlock
<1>2. pending = <<>> /\ pending' = <<>>
  BY <1>1, ExecutesAlone DEF searchVars
<1>3. PICK label : /\ labelStack' = Append(labelStack, label)
                   /\ label.callIndex = Len(callStack)
                   /\ label.typeBase = Len(operands.types)
                   /\ label.valueBase = Len(operands.data)
  BY DEF EnterBlock, PushLabel
<1>4. Typed /\ Typed'
  BY StateTyped, NextTyped
<1>5. Live' \subseteq Live \cup {Len(labelStack) + 1}
  BY <1>2, <1>3, <1>4, LiveGrows
<1>6. \A i \in 1..Len(labelStack) : ~IfLabel(labelStack[i]) => i \in Live
  BY <1>2 DEF Live, Stale
<1>7. CellsBelow(callStack)' = CellsBelow(callStack)
  BY <1>1, CellsStay
<1>8. LabelsTo(View, View', label)
  BY <1>1, <1>3, <1>5, <1>7 DEF LabelsTo, View
<1>9. Agree'
  <2>1. IsView(View) /\ IsView(View')
    BY <1>4 DEF Typed, IsView
  <2>2. \A i \in 1..Len(View.labels) : ~IfLabel(View.labels[i]) => i \in View.live
    BY <1>6 DEF View
  <2> QED
    BY <1>8, <2>1, <2>2, LabelOnTop DEF Agree
<1>10. CallKeepsToItsOperands
  BY <1>1, SameKeeps
<1>11. ErrorsFit' /\ GlobalsFit'
  BY <1>1, <1>2 DEF ErrorsFit, GlobalsFit
<1> QED
  BY <1>9, <1>10, <1>11 DEF Settled, SInv

\* if
LEMMA EnterIfSettled ==
  ASSUME IInv, IInv', Agree, ErrorsFit, GlobalsFit, OperandsFit, EnterIf
  PROVE  Settled
<1>1. /\ Executes({"if"}) /\ Stepping
      /\ UNCHANGED <<image, callStack, globals>>
      /\ operands' = PopTyped(operands, "i32")
  BY Decoded DEF EnterIf
<1>2. pending = <<>> /\ (pending' = <<>> \/ \E h : pending' = <<h>> /\ h.kind = "if_else")
  <2>1. pending = <<>>
    BY <1>1, ExecutesAlone
  <2>2. pending' = pending \/ \E h : pending' = Append(pending, h) /\ h.kind = "if_else"
    <3>1. pending' = pending \/ Search("else", "if_else", Read)
      BY DEF EnterIf
    <3>2. PICK h : h = [kind |-> "if_else", module |-> Here, position |-> Read[Here]]
      OBVIOUS
    <3>3. h.kind = "if_else"
      BY <3>2
    <3>4. Search("else", "if_else", Read) => pending' = Append(pending, h)
      BY <3>2 DEF Search
    <3> QED
      BY <3>1, <3>3, <3>4
  <2>3. \A h : Append(<<>>, h) = <<h>>
    OBVIOUS
  <2> QED
    BY <2>1, <2>2, <2>3
<1>3. PICK label : /\ labelStack' = Append(labelStack, label)
                   /\ label.op = "if"
                   /\ label.callIndex = Len(callStack)
                   /\ label.typeBase = Len(operands.types)
                   /\ label.valueBase = Len(operands.data)
  BY DEF EnterIf, PushLabel
<1>4. Typed /\ Typed'
  BY StateTyped, NextTyped
<1>5. Live' \subseteq Live
  <2>1. Live' \subseteq Live \cup {Len(labelStack) + 1}
    BY <1>2, <1>3, <1>4, LiveGrows
  <2>2. labelStack'[Len(labelStack) + 1] = label
    BY <1>3, <1>4, AppendProperties DEF Typed
  <2>3. Len(labelStack) + 1 \notin Live'
    BY <1>3, <2>2 DEF Live, IfLabel
  <2> QED
    BY <2>1, <2>3
<1>6. \A i \in 1..Len(labelStack) : ~IfLabel(labelStack[i]) => i \in Live
  BY <1>2 DEF Live, Stale
<1>7. PICK r : r = Len(operands.types) - 1
  OBVIOUS
<1>8. Under(r) /\ Over(operands', r)
  <2>1. MayPop(<<"i32">>)
    BY <1>1 DEF OperandsFit, Executes, Decodes
  <2>2. "i32" \in ValueType
    BY DEF ValueType
  <2> QED
    BY <1>1, <1>7, <2>1, <2>2, OperandPopped
<1>9. PICK v : v = [View EXCEPT !.labels = labelStack']
  OBVIOUS
<1>10. /\ v.cells = CellsBelow(callStack) /\ v.calls = callStack
       /\ v.labels = labelStack' /\ v.live = Live
       /\ v.types = operands.types /\ v.size = Len(operands.data)
  BY <1>9 DEF View
<1>11. LabelsTo(View, v, label)
  BY <1>3, <1>10 DEF LabelsTo, View
<1>12. IsView(View) /\ IsView(View') /\ IsView(v)
  <2>1. IsView(View) /\ IsView(View')
    BY <1>4 DEF Typed, IsView
  <2>2. /\ v.calls \in Seq(Call) /\ v.labels \in Seq(Label)
        /\ v.types \in Seq(ValueType)
    BY <1>4, <1>10 DEF Typed
  <2>3. v.live \in SUBSET (1..Len(v.labels))
    <3>1. Len(v.labels) = Len(labelStack) + 1 /\ Len(labelStack) \in Nat
      BY <1>3, <1>4, <1>10, AppendProperties DEF Typed
    <3> QED
      BY <1>4, <1>10, <3>1 DEF Typed
  <2>4. \A i \in 1..Len(v.labels) : v.labels[i].callIndex <= Len(v.calls)
    BY <1>1, <1>10, <2>1 DEF IsView, View
  <2> QED
    BY <2>1, <2>2, <2>3, <2>4 DEF IsView
<1>13. Agrees(v)
  <2>1. \A i \in 1..Len(View.labels) : ~IfLabel(View.labels[i]) => i \in View.live
    BY <1>6 DEF View
  <2> QED
    BY <1>11, <1>12, <2>1, LabelOnTop DEF Agree
<1>14. FallsTo(v, View', r)
  <2>1. CellsBelow(callStack)' = CellsBelow(callStack)
    BY <1>1, CellsStay
  <2>2. Len(callStack) \in Nat /\ Len(labelStack') \in Nat
    BY <1>4 DEF Typed
  <2>3. SameBases(v, View', Len(callStack))
    BY <1>1, <1>10, <2>1 DEF SameBases, View
  <2>4. SameBelow(v, View', r)
    <3>1. \A i \in Live' : labelStack'[i].typeBase <= r
      <4>1. ASSUME NEW i \in Live'
            PROVE  labelStack'[i].typeBase <= r
        <5>1. i \in Live /\ i \in 1..Len(labelStack)
          BY <1>4, <1>5 DEF Typed
        <5>2. labelStack'[i] = labelStack[i]
          BY <1>3, <1>4, <5>1, AppendProperties DEF Typed
        <5> QED
          BY <1>8, <5>1, <5>2 DEF Under, InCall
      <4> QED
        BY <4>1
    <3> QED
      BY <1>1, <1>8, <1>10, <3>1 DEF SameBelow, View, Under, InCall, Over
  <2>5. Len(operands'.data) = StackSize(operands'.types) + CellsBelow(callStack)[Len(callStack)]
    BY <1>8 DEF Over, LocalCells
  <2> QED
    BY <1>1, <1>5, <1>10, <2>1, <2>2, <2>3, <2>4, <2>5 DEF FallsTo, View
<1>15. Agree'
  BY <1>12, <1>13, <1>14, AgreesFall DEF Agree
<1>16. CallKeepsToItsOperands
  BY <1>8, OverKeeps DEF Under
<1>17. ErrorsFit' /\ GlobalsFit'
  BY <1>1, <1>2, <1>8 DEF ErrorsFit, GlobalsFit, Over
<1> QED
  BY <1>15, <1>16, <1>17 DEF Settled, SInv

\* What a clean-up drops is above the base.
LEMMA KeepTopBelow ==
  ASSUME NEW S, Unknown \in S, NEW array \in Seq(S), NEW base \in Nat, NEW size \in Nat,
         base + size <= Len(array)
  PROVE  \A i \in 1..base : KeepTop(array, base, size)[i] = array[i]
<1> DEFINE dropped == (Len(array) - base) - size
           slice   == Slice(array, base + dropped, dropped)
           moved   == IF dropped > 0 THEN Overwrite(array, base, slice)
                      ELSE array
<1>0. PICK n \in Nat : n = Len(array)
  OBVIOUS
<1>1. dropped \in Nat /\ base + dropped \in Nat
  BY <1>0
<1>2. slice \in Seq(S)
  <2>1. PICK p \in Nat, d \in Nat : p = base + dropped /\ d = dropped
    BY <1>1, Zenon
  <2>2. Slice(array, p, d) \in Seq(S \cup {Unknown})
    BY SliceType, ZenonT(60)
  <2>3. S \cup {Unknown} = S
    OBVIOUS
  <2> HIDE DEF dropped
  <2> QED
    BY <2>1, <2>2, <2>3
<1> HIDE DEF slice, dropped
<1>3. /\ moved \in Seq(S)
      /\ Len(moved) = n
      /\ \A i \in 1..base : moved[i] = array[i]
  <2>1. CASE dropped > 0
    <3>1. /\ Overwrite(array, base, slice) \in Seq(S)
          /\ Len(Overwrite(array, base, slice)) = Len(array)
          /\ \A i \in 1..Len(array) :
               Overwrite(array, base, slice)[i] =
                 IF i \in (base + 1)..(base + Len(slice))
                 THEN slice[i - base] ELSE array[i]
      BY <1>2, OverwriteType
    <3>2. \A i \in 1..base : i \in 1..Len(array) /\ i \notin (base + 1)..(base + Len(slice))
      BY <1>0
    <3> QED
      BY <1>0, <2>1, <3>1, <3>2
  <2>2. CASE ~(dropped > 0)
    BY <1>0, <2>2
  <2> QED
    BY <2>1, <2>2
<1> HIDE DEF moved
<1>4. KeepTop(array, base, size) = Slice(moved, 0, base + size)
  BY DEF KeepTop, moved, slice, dropped
<1>5. \A i \in 1..(base + size) : KeepTop(array, base, size)[i] = moved[i]
  <2> DEFINE k == base + size
             z == 0
  <2>1. moved \in Seq(S) /\ k \in Nat /\ z \in Nat
    BY <1>3
  <2> HIDE DEF k, z
  <2>2. /\ Slice(moved, z, k) \in Seq(S \cup {Unknown})
        /\ Len(Slice(moved, z, k)) = k
        /\ \A i \in 1..k : z + i <= Len(moved) =>
             Slice(moved, z, k)[i] = moved[z + i]
    BY <2>1, SliceType, ZenonT(60)
  <2>3. \A i \in 1..(base + size) : 0 + i = i /\ i <= n
    BY <1>0
  <2> QED
    BY <1>3, <1>4, <2>2, <2>3 DEF k, z
<1> QED
  BY <1>3, <1>5

\* The label of a block that a branch leaves
LEMMA LabelLeft ==
  ASSUME IInv, Agree, pending = <<>>, NEW index \in Nat, NEW types, MayBranch(index, types),
         LabelAt(index).op # "loop"
  PROVE  LET k     == Len(labelStack) - index
             label == LabelAt(index)
         IN /\ callStack # <<>>
            /\ k \in Live /\ labelStack[k] = label
            /\ label \in Label /\ label.callIndex = Len(callStack)
            /\ InCall(label.typeBase)
            /\ label.valueBase = StackSize(Lowest(operands.types, label.typeBase)) + LocalCells
<1>1. PICK label : label = LabelAt(index)
  OBVIOUS
<1>2. HasLabel(index) /\ label.op # "if"
  BY <1>1 DEF MayBranch
<1>3. callStack # <<>> /\ label \in Label
  BY <1>1, <1>2, LabelFound
<1>4. Typed
  BY StateTyped
<1>5. PICK k \in 1..Len(labelStack) : k = Len(labelStack) - index
  BY <1>2, <1>4 DEF HasLabel, Typed
<1>6. labelStack[k] = label /\ label.callIndex = Len(callStack)
  BY <1>1, <1>2, <1>3, <1>5 DEF LabelAt, HasLabel
<1>7. k \in Live
  BY <1>2, <1>5, <1>6 DEF Live, IfLabel, Stale
<1>8. /\ label.typeBase <= Len(operands.types)
      /\ label.valueBase = StackSize(Lowest(operands.types, label.typeBase)) + LocalCells
  BY <1>6, <1>7 DEF Agree, Agrees, Based, View, LocalCells
<1>9. \A m \in 1..Len(callStack) : callStack[m].typeBase <= label.typeBase
  <2>1. InOrder(View)
    BY DEF Agree, Agrees
  <2>2. ~IfLabel(labelStack[k])
    BY <1>2, <1>6 DEF IfLabel
  <2>3. \A m \in 1..Len(callStack) : m <= labelStack[k].callIndex
    BY <1>4, <1>6 DEF Typed
  <2> QED
    BY <1>5, <1>6, <2>1, <2>2, <2>3 DEF InOrder, View
<1>10. InCall(label.typeBase)
  <2>1. label.typeBase \in Nat
    BY <1>3 DEF Label
  <2>2. Len(operands.types) \in Nat
    BY <1>4 DEF Typed
  <2> QED
    BY <1>8, <1>9, <2>1, <2>2 DEF InCall
<1> QED
  BY <1>1, <1>3, <1>5, <1>6, <1>7, <1>8, <1>10

\* The clean-up of a branch finds the results of the block.
LEMMA BranchCleans ==
  ASSUME IInv, Agree, pending = <<>>, NEW r, Under(r), NEW s, Over(s, r),
         NEW index \in Nat, MayBranch(index, s.types), LabelAt(index).op # "loop"
  PROVE  Over(CleanedUp(s, LabelAt(index)), LabelAt(index).typeBase)
<1>1. PICK label : label = LabelAt(index)
  OBVIOUS
<1>2. PICK k : k = Len(labelStack) - index
  OBVIOUS
<1>3. /\ callStack # <<>> /\ k \in Live /\ labelStack[k] = label /\ label \in Label
      /\ InCall(label.typeBase)
      /\ label.valueBase = StackSize(Lowest(operands.types, label.typeBase)) + LocalCells
  BY <1>1, <1>2, LabelLeft
<1>4. Typed
  BY StateTyped
<1>5. PICK tb \in Nat, vb \in Nat, n \in Nat, size \in Nat :
        /\ tb = label.typeBase /\ vb = label.valueBase
        /\ n = label.results /\ size = label.resultsSize
  BY <1>3 DEF Label
<1>6. PICK types \in Seq(ValueType), data \in Seq(Cell) : types = s.types /\ data = s.data
  BY DEF Over, OperandState
<1>7. PICK m \in Nat : m = Len(types)
  OBVIOUS
<1>8. /\ m - tb = n \/ m - tb >= 2 * n
      /\ StackSize(SubSeq(types, (m - n) + 1, m)) = size
  BY <1>1, <1>3, <1>5, <1>6, <1>7 DEF MayBranch
<1>9. m = tb + n \/ m >= tb + (n + n)
  BY <1>8
<1>10. /\ r \in Nat /\ tb <= r /\ r <= m /\ r <= Len(operands.types)
       /\ \A i \in 1..r : types[i] = operands.types[i]
       /\ Len(data) = StackSize(types) + LocalCells
       /\ operands.types \in Seq(ValueType)
  BY <1>3, <1>4, <1>5, <1>6, <1>7 DEF Under, InCall, Over, Typed
<1>11. Lowest(types, tb) = Lowest(operands.types, tb)
  <2>1. tb <= Len(types) /\ tb <= Len(operands.types)
        /\ \A i \in 1..tb : types[i] = operands.types[i]
    BY <1>7, <1>10
  <2> QED
    BY <1>10, <2>1, LowestSame
<1>12. PICK low \in Nat : low = StackSize(Lowest(types, tb))
  <2>1. tb <= Len(types)
    BY <1>7, <1>10
  <2> QED
    BY <2>1, LowestType
<1>13. vb = low + LocalCells /\ LocalCells \in Nat
  BY <1>3, <1>4, <1>5, <1>11, <1>12 DEF Typed
<1>14. PICK d \in Nat : d = m - n /\ tb <= d /\ d <= m
  BY <1>9
<1>15. PICK top \in Seq(ValueType) :
         /\ top = SubSeq(types, d + 1, m) /\ Len(top) = n
         /\ \A i \in 1..n : top[i] = types[d + i]
  <2>1. d <= Len(types) /\ Len(types) - d = n
    BY <1>7, <1>14
  <2>2. /\ SubSeq(types, d + 1, Len(types)) \in Seq(ValueType)
        /\ Len(SubSeq(types, d + 1, Len(types))) = Len(types) - d
        /\ \A i \in 1..(Len(types) - d) :
             SubSeq(types, d + 1, Len(types))[i] = types[d + i]
    BY <2>1, LowestType
  <2> QED
    BY <1>7, <2>1, <2>2
<1>16. StackSize(top) = size
  BY <1>8, <1>14, <1>15
<1>17. Len(data) >= vb + size
  <2>1. d <= Len(types)
    BY <1>7, <1>14
  <2>2. /\ StackSize(types) = StackSize(Lowest(types, d)) + size
        /\ StackSize(Lowest(types, d)) \in Nat
    BY <1>7, <1>15, <1>16, <2>1, LowestType
  <2>3. low <= StackSize(Lowest(types, d))
    BY <1>12, <1>14, <2>1, LowestRise
  <2> QED
    BY <1>10, <1>13, <2>2, <2>3
<1>18. PICK kept \in Seq(ValueType) : kept = KeepTop(types, tb, n)
  BY <1>7, <1>9, KeepTopExact
<1>19. /\ Len(kept) = tb + n
       /\ \A i \in 1..tb : kept[i] = types[i]
       /\ SubSeq(kept, tb + 1, tb + n) = top
  <2>1. Len(types) = tb + n \/ Len(types) >= tb + (n + n)
    BY <1>7, <1>9
  <2>2. Len(KeepTop(types, tb, n)) = tb + n
    <3>1. tb + n <= Len(types)
      BY <2>1
    <3> QED
      BY <3>1, KeepTopType
  <2>3. \A i \in 1..tb : KeepTop(types, tb, n)[i] = types[i]
    BY <2>1, KeepTopExact
  <2>4. SubSeq(KeepTop(types, tb, n), tb + 1, tb + n)
          = SubSeq(types, (Len(types) - n) + 1, Len(types))
    BY <2>1, KeepTopExact
  <2>5. Len(types) - n = d
    BY <1>7, <1>14
  <2> QED
    BY <1>7, <1>15, <1>18, <2>2, <2>3, <2>4, <2>5
<1>20. PICK cells \in Seq(Cell) : cells = KeepTop(data, vb, size)
  BY <1>17, KeepTopType
<1>21. Len(cells) = vb + size /\ \A i \in 1..vb : cells[i] = data[i]
  <2>1. Unknown \in Cell /\ vb + size <= Len(data)
    BY <1>17 DEF Cell
  <2>2. Len(KeepTop(data, vb, size)) = vb + size
    BY <2>1, KeepTopType
  <2>3. \A i \in 1..vb : KeepTop(data, vb, size)[i] = data[i]
    BY <2>1, KeepTopBelow
  <2> QED
    BY <1>20, <2>2, <2>3
<1>22. StackSize(kept) = low + size
  <2>1. Lowest(kept, tb) = Lowest(types, tb)
    <3>1. tb <= Len(types) /\ tb <= Len(kept)
      BY <1>7, <1>10, <1>19
    <3> QED
      BY <1>19, <3>1, LowestSame
  <2>2. tb <= Len(kept)
    BY <1>19
  <2>3. StackSize(kept)
          = StackSize(Lowest(kept, tb)) + StackSize(SubSeq(kept, tb + 1, Len(kept)))
    BY <2>2, LowestType
  <2> QED
    BY <1>12, <1>16, <1>19, <2>1, <2>3
<1>23. PICK t : t = CleanedUp(s, label)
  OBVIOUS
<1>24. t = [s EXCEPT !.types = kept, !.data = cells]
  <2>1. ~(Len(types) < tb + n) /\ ~(Len(data) < vb + size)
    BY <1>7, <1>9, <1>17
  <2> QED
    BY <1>5, <1>6, <1>18, <1>20, <1>23, <2>1 DEF CleanedUp
<1>25. /\ t.types = kept /\ t.data = cells /\ t.ok /\ t.error = operands.error
       /\ t \in OperandState
  BY <1>24 DEF Over, OperandState
<1>26. ASSUME NEW i \in 1..active.valueBase
       PROVE  cells[i] = operands.data[i]
  <2>1. active.valueBase \in Nat /\ active.valueBase <= vb
    BY <1>3, <1>5, FloorType
  <2>2. s.data[i] = operands.data[i]
    BY <1>3 DEF Over
  <2> QED
    BY <1>6, <1>21, <2>1, <2>2
<1>27. tb <= Len(kept) /\ \A i \in 1..tb : kept[i] = operands.types[i]
  BY <1>10, <1>19
<1>28. Len(cells) = StackSize(kept) + LocalCells
  BY <1>13, <1>21, <1>22
<1>29. Over(t, tb)
  BY <1>25, <1>26, <1>27, <1>28 DEF Over
<1> QED
  BY <1>1, <1>5, <1>23, <1>29

\* The labels that a branch leaves live are not above the one it leaves.
LEMMA BranchLeaves ==
  ASSUME IInv, Agree, LabelsNest, pending = <<>>, callStack # <<>>,
         UNCHANGED <<callStack, labelStack>>,
         NEW k \in Live, labelStack[k].callIndex = Len(callStack),
         pending' # <<>>, pending'[1].kind = "branch",
         pending'[1].position = labelStack[k].position,
         NEW i \in Live'
  PROVE  i \in Live /\ labelStack[i].typeBase <= labelStack[k].typeBase
<1>1. Typed
  BY StateTyped
<1>2. /\ i \in 1..Len(labelStack) /\ ~IfLabel(labelStack[i])
      /\ ~(/\ labelStack[i].callIndex = Len(callStack)
           /\ labelStack[i].position > labelStack[k].position)
  BY DEF Live, Stale
<1>3. i \in Live
  BY <1>2 DEF Live, Stale
<1>4. k \in 1..Len(labelStack) /\ ~IfLabel(labelStack[k])
  BY DEF Live
<1>5. labelStack[i] \in Label /\ labelStack[k] \in Label
  BY <1>1, <1>2, <1>4, ElementOfSeq DEF Typed
<1>6. PICK n \in Nat : n = Len(callStack) /\ n >= 1
  BY <1>1 DEF Typed
<1>7. labelStack[i].callIndex \in 1..n
  BY <1>1, <1>2, <1>6 DEF Typed
<1>8. InOrder(View)
  BY DEF Agree, Agrees
<1>9. CASE labelStack[i].callIndex = n
  <2>1. PICK p \in Nat, q \in Nat : p = labelStack[i].position /\ q = labelStack[k].position
    BY <1>5 DEF Label
  <2>2. p <= q
    BY <1>2, <1>6, <1>9, <2>1
  <2>3. ~(k < i)
    <3>1. k < i => q < p
      BY <1>2, <1>4, <1>6, <1>9, <2>1 DEF LabelsNest
    <3> QED
      BY <2>2, <3>1
  <2>4. CASE i = k
    <3>1. labelStack[k].typeBase \in Nat
      BY <1>5 DEF Label
    <3> QED
      BY <1>3, <2>4, <3>1
  <2>5. CASE i # k
    <3>1. i < k
      BY <1>2, <1>4, <2>3, <2>5
    <3> QED
      BY <1>2, <1>3, <1>4, <1>8, <3>1 DEF InOrder, View
  <2> QED
    BY <2>4, <2>5
<1>10. CASE labelStack[i].callIndex # n
  <2>1. Based(View, labelStack[i], labelStack[i].callIndex)
    BY <1>3 DEF Agree, Agrees, View
  <2>2. labelStack[i].callIndex < n /\ n \in 1..Len(callStack)
    BY <1>6, <1>7, <1>10
  <2>3. labelStack[i].typeBase <= callStack[n].typeBase
    BY <2>1, <2>2 DEF Based, View
  <2>4. callStack[n].typeBase <= labelStack[k].typeBase
    <3>1. n <= labelStack[k].callIndex
      BY <1>6
    <3> QED
      BY <1>4, <1>8, <2>2, <3>1 DEF InOrder, View
  <2>5. /\ labelStack[i].typeBase \in Nat /\ labelStack[k].typeBase \in Nat
        /\ callStack[n].typeBase \in Nat
    <3>1. callStack[n] \in Call
      BY <1>1, <2>2, ElementOfSeq DEF Typed
    <3> QED
      BY <1>5, <3>1 DEF Label, Call
  <2> QED
    BY <1>3, <2>3, <2>4, <2>5
<1> QED
  BY <1>9, <1>10

\* A branch to a label of the call
LEMMA BranchToSettled ==
  ASSUME IInv, IInv', Agree, ErrorsFit, GlobalsFit, LabelsNest,
         NEW ops, Executes(ops), NEW r, Under(r), NEW s, Over(s, r),
         NEW index \in Nat, MayBranch(index, s.types), BranchTo(index, s)
  PROVE  Settled
<1>1. pending = <<>> /\ ~ff.on /\ Stepping
  BY ExecutesAlone
<1>2. PICK label : label = LabelAt(index)
  OBVIOUS
<1>3. HasLabel(index)
  BY DEF MayBranch
<1>4. CASE label.op = "loop"
  <2>1. /\ operands' = s
        /\ UNCHANGED <<image, callStack, labelStack, globals, pending>>
    BY <1>2, <1>3, <1>4 DEF BranchTo
  <2>2. GlobalsFit' /\ pending' = <<>>
    BY <1>1, <2>1 DEF GlobalsFit
  <2>3. Over(operands', r)
    BY <2>1
  <2> QED
    BY <1>1, <2>1, <2>2, <2>3, OverSettled
<1>5. CASE label.op # "loop"
  <2>1. PICK k : k = Len(labelStack) - index
    OBVIOUS
  <2>2. /\ callStack # <<>> /\ k \in Live /\ labelStack[k] = label
        /\ label \in Label /\ label.callIndex = Len(callStack)
        /\ InCall(label.typeBase)
    BY <1>1, <1>2, <1>5, <2>1, LabelLeft
  <2>3. PICK b : b = label.typeBase
    OBVIOUS
  <2>4. PICK clean : clean = CleanedUp(s, label)
    OBVIOUS
  <2>5. Over(clean, b)
    BY <1>1, <1>2, <1>5, <2>3, <2>4, BranchCleans
  <2>6. PICK there : there = [Read EXCEPT ![Here] = label.position]
    OBVIOUS
  <2>7. clean.ok
    BY <2>5 DEF Over
  <2>8. /\ operands' = clean /\ Search("end", "branch", there)
        /\ UNCHANGED <<image, callStack, labelStack, active, globals>>
    BY <1>2, <1>3, <1>5, <2>4, <2>6, <2>7 DEF BranchTo
  <2>9. pending' # <<>> /\ pending'[1].kind = "branch" /\ pending'[1].position = label.position
    <3>1. Here \in 1..Len(image) /\ Read \in [1..Len(image) -> Nat]
      BY <1>1, Fetched
    <3>2. there[Here] = label.position
      BY <2>6, <3>1
    <3>3. PICK h : /\ h = [kind |-> "branch", module |-> Here, position |-> there[Here]]
      OBVIOUS
    <3>4. pending' = Append(<<>>, h)
      BY <1>1, <2>8, <3>3 DEF Search
    <3> QED
      BY <3>2, <3>3, <3>4
  <2>10. ASSUME NEW i \in Live'
         PROVE  i \in Live /\ labelStack[i].typeBase <= b
    BY <1>1, <2>2, <2>3, <2>8, <2>9, <2>10, BranchLeaves
  <2>11. SameBelow(View, View', b)
    BY <2>2, <2>3, <2>5, <2>8, <2>10 DEF SameBelow, View, InCall, Over
  <2>12. Agree'
    <3>1. Live' \subseteq Live
      BY <2>10
    <3>2. Len(operands'.data)
            = StackSize(operands'.types) + CellsBelow(callStack)[Len(callStack')]
      BY <2>5, <2>8 DEF Over, LocalCells
    <3>3. \A m \in 1..Len(callStack') : SameCall(callStack'[m], callStack[m])
      BY <2>8 DEF SameCall
    <3>4. Len(callStack') <= Len(callStack) /\ Len(labelStack') <= Len(labelStack)
      BY <2>8, StateTyped DEF Typed
    <3> QED
      BY <2>8, <2>11, <3>1, <3>2, <3>3, <3>4, StacksFall
  <2>13. CallKeepsToItsOperands
    <3>1. Over(operands', b) /\ InCall(b)
      BY <2>2, <2>3, <2>5, <2>8
    <3> QED
      BY <3>1, OverKeeps
  <2>14. ErrorsFit' /\ GlobalsFit'
    BY <1>1, <2>5, <2>8 DEF ErrorsFit, GlobalsFit, Over
  <2> QED
    BY <2>12, <2>13, <2>14 DEF Settled, SInv
<1> QED
  BY <1>4, <1>5

\* What a br_table selects is one of its targets.
LEMMA SelectedIs ==
  ASSUME IInv, Decodes({"br_table"}),
         NEW index \in Selected(TopCells(operands, 1)[1])
  PROVE  index = Instr.arg \/ \E i \in 1..Len(Instr.args) : index = Instr.args[i]
<1>1. PICK cell : cell = TopCells(operands, 1)[1]
  OBVIOUS
<1>2. cell \in Cell
  <2>1. TopCells(operands, 1) \in Seq(Cell) /\ Len(TopCells(operands, 1)) = 1
    BY PopTypes DEF IInv
  <2> QED
    BY <1>1, <2>1, ElementOfSeq
<1>3. index \in Selected(cell)
  BY <1>1
<1>4. CASE cell = Unknown
  BY <1>3, <1>4 DEF Selected
<1>5. CASE cell # Unknown
  <2>1. cell \in Nat /\ Len(Instr.args) \in Nat
    BY <1>2, <1>5, OperandsAssumption, InstrType DEF Cell
  <2>2. cell < Len(Instr.args) => cell + 1 \in 1..Len(Instr.args)
    BY <2>1
  <2>3. \/ cell < Len(Instr.args) /\ index = Instr.args[cell + 1]
        \/ index = Instr.arg
    BY <1>3, <1>5 DEF Selected
  <2> QED
    BY <2>2, <2>3
<1> QED
  BY <1>4, <1>5

\* br, br_if and br_table
LEMMA BranchSettled ==
  ASSUME IInv, IInv', Agree, ErrorsFit, GlobalsFit, OperandsFit, LabelsNest, SkipsNoTable,
         Branch \/ BranchIf \/ BranchTable
  PROVE  Settled
<1>0. "i32" \in ValueType
  BY DEF ValueType
<1>1. CASE Branch
  <2>1. Executes({"br"}) /\ BranchTo(Instr.arg, operands)
    BY <1>1 DEF Branch
  <2>2. Instr.arg \in Nat /\ Stepping
    BY <2>1, Decoded, InstrType
  <2>3. PICK r : r = Len(operands.types)
    OBVIOUS
  <2>4. Under(r)
    BY <2>3, UnderTop
  <2>5. Over(operands, r)
    BY <2>2, <2>4, OverNow DEF Stepping
  <2>6. MayBranch(Instr.arg, operands.types)
    BY <2>1 DEF OperandsFit
  <2> QED
    BY <2>1, <2>2, <2>4, <2>5, <2>6, BranchToSettled
<1>2. ASSUME NEW op \in {"br_if", "br_table"}, Executes({op}), Stepping
      PROVE  /\ Under(Len(operands.types) - 1)
             /\ Over(Popped(operands), Len(operands.types) - 1)
             /\ PopTyped(operands, "i32") = Popped(operands)
             /\ Popped(operands).types = Front(operands.types)
  <2>1. MayPop(<<"i32">>)
    BY <1>2 DEF OperandsFit, Executes, Decodes
  <2>2. Popped(operands).types = Front(operands.types)
    BY DEF Popped, Front, IInv, OperandState
  <2> QED
    BY <1>0, <1>2, <2>1, <2>2, OperandPopped
<1>3. CASE BranchIf
  <2>1. Executes({"br_if"}) /\ Stepping
    BY <1>3, Decoded DEF BranchIf
  <2>2. PICK r : r = Len(operands.types) - 1
    OBVIOUS
  <2>3. PICK s : s = Popped(operands)
    OBVIOUS
  <2>4. /\ Under(r) /\ Over(s, r) /\ PopTyped(operands, "i32") = s
        /\ s.types = Front(operands.types)
    BY <1>2, <2>1, <2>2, <2>3
  <2>5. MayBranch(Instr.arg, s.types) /\ HasLabel(Instr.arg)
    BY <2>1, <2>4 DEF OperandsFit, MayBranch
  <2>6. Computes(s) \/ BranchTo(Instr.arg, s)
    BY <1>3, <2>4, <2>5 DEF BranchIf
  <2>7. Instr.arg \in Nat
    BY <2>1, Decoded, InstrType
  <2>8. CASE Computes(s)
    BY <2>1, <2>4, <2>8, ComputesSettled
  <2>9. CASE BranchTo(Instr.arg, s)
    BY <2>1, <2>4, <2>5, <2>7, <2>9, BranchToSettled
  <2> QED
    BY <2>6, <2>8, <2>9
<1>4. CASE BranchTable
  <2>1. Executes({"br_table"}) /\ Stepping
    BY <1>4, Decoded DEF BranchTable, SkipsNoTable, Executes, Skips
  <2>2. PICK r : r = Len(operands.types) - 1
    OBVIOUS
  <2>3. PICK s : s = Popped(operands)
    OBVIOUS
  <2>4. /\ Under(r) /\ Over(s, r) /\ PopTyped(operands, "i32") = s
        /\ s.types = Front(operands.types)
    BY <1>2, <2>1, <2>2, <2>3
  <2>5. s.ok /\ ~ff.on
    BY <2>1, <2>4, Decoded DEF Over
  <2>6. PICK index \in Selected(TopCells(operands, 1)[1]) : BranchTo(index, s)
    BY <1>4, <2>4, <2>5 DEF BranchTable
  <2>7. Decodes({"br_table"})
    BY <2>1, Decoded
  <2>8. index \in Nat
    BY <2>6, <2>7, SelectedType
  <2>9. MayBranch(index, s.types)
    <3>1. /\ \A i \in 1..Len(Instr.args) : MayBranch(Instr.args[i], s.types)
          /\ MayBranch(Instr.arg, s.types)
      BY <2>1, <2>4 DEF OperandsFit
    <3>2. index = Instr.arg \/ \E i \in 1..Len(Instr.args) : index = Instr.args[i]
      BY <2>6, <2>7, SelectedIs
    <3> QED
      BY <3>1, <3>2
  <2> QED
    BY <2>1, <2>4, <2>6, <2>8, <2>9, BranchToSettled
<1> QED
  BY <1>1, <1>3, <1>4

\* The innermost call has its base within the stacks.
LEMMA TopCall ==
  ASSUME IInv, Agree, callStack # <<>>
  PROVE  LET n == Len(callStack) IN
         /\ n \in Nat /\ n >= 1
         /\ active.typeBase \in Nat /\ active.typeBase <= Len(operands.types)
         /\ active.valueBase \in Nat
         /\ active.valueBase
              = StackSize(Lowest(operands.types, active.typeBase))
                  + CellsBelow(callStack)[n - 1]
         /\ active.results \in Seq(ValueType)
         /\ \A m \in 1..(n - 1) : callStack[m].typeBase <= active.typeBase
         /\ \A i \in Live : labelStack[i].callIndex < n =>
              labelStack[i].typeBase <= active.typeBase
<1>1. Typed
  BY StateTyped
<1>2. PICK n \in Nat : n = Len(callStack) /\ n >= 1
  BY <1>1 DEF Typed
<1>3. callStack[n] \in Call /\ active = ActiveInfo(callStack[n])
  BY <1>1, <1>2, ElementOfSeq DEF IInv, CallsInv, CacheCoherent, Last, Typed
<1>4. /\ active.typeBase = callStack[n].typeBase /\ active.valueBase = callStack[n].valueBase
      /\ active.typeBase \in Nat /\ active.valueBase \in Nat
  BY <1>3 DEF ActiveInfo, Call
<1>5. active.results \in Seq(ValueType)
  BY DEF IInv, CallsInv, ActiveCall
<1>6. n \in 1..Len(callStack)
  BY <1>2
<1>7. Based(View, callStack[n], n - 1)
  BY <1>6 DEF Agree, Agrees, View
<1>8. /\ active.typeBase <= Len(operands.types)
      /\ active.valueBase = StackSize(Lowest(operands.types, active.typeBase))
                              + CellsBelow(callStack)[n - 1]
  BY <1>4, <1>7 DEF Based, View
<1>9. ASSUME NEW m \in 1..(n - 1)
      PROVE  callStack[m].typeBase <= active.typeBase
  <2>1. m \in 1..Len(callStack) /\ m - 1 < n
    BY <1>2
  <2>2. Based(View, callStack[m], m - 1)
    BY <2>1 DEF Agree, Agrees, View
  <2> QED
    BY <1>4, <1>6, <2>1, <2>2 DEF Based, View
<1>10. ASSUME NEW i \in Live, labelStack[i].callIndex < n
       PROVE  labelStack[i].typeBase <= active.typeBase
  <2>1. Based(View, labelStack[i], labelStack[i].callIndex)
    BY DEF Agree, Agrees, View
  <2> QED
    BY <1>4, <1>6, <1>10, <2>1 DEF Based, View
<1> QED
  BY <1>2, <1>4, <1>5, <1>8, <1>9, <1>10

\* A function returns.
LEMMA ReturnSettled ==
  ASSUME IInv, IInv', Agree, ErrorsFit, GlobalsFit, operands.ok, callStack # <<>>,
         UNCHANGED <<image, globals>>, pending = <<>> \/ pending[1].kind # "branch",
         NEW positions, ReturnFromFunction(operands, positions)
  PROVE  Settled
<1>1. Typed /\ Typed'
  BY StateTyped, NextTyped
<1>2. PICK n \in Nat : n = Len(callStack) /\ n >= 1
  BY <1>1 DEF Typed
<1>3. PICK b \in Nat, v \in Nat, results \in Seq(ValueType) :
        b = active.typeBase /\ v = active.valueBase /\ results = active.results
  BY TopCall
<1>4. PICK types \in Seq(ValueType), data \in Seq(Cell) :
        types = operands.types /\ data = operands.data
  BY <1>1 DEF Typed
<1>5. /\ b <= Len(types)
      /\ v = StackSize(Lowest(types, b)) + CellsBelow(callStack)[n - 1]
      /\ \A m \in 1..(n - 1) : callStack[m].typeBase <= b
      /\ \A i \in Live : labelStack[i].callIndex < n => labelStack[i].typeBase <= b
  BY <1>2, <1>3, <1>4, TopCall
<1>6. PICK r \in Returned(operands) : PopCall(r)
  BY DEF ReturnFromFunction
<1>7. PICK low \in Seq(ValueType) :
        low = Lowest(types, b) /\ Len(low) = b /\ \A i \in 1..b : low[i] = types[i]
  BY <1>5, LowestType
<1>8. PICK size \in Nat : size = StackSize(results)
  BY StackSizeType
<1>9. PICK kept \in Seq(Cell) : kept = KeepTop(data, v, size) /\ Len(kept) = v + size
  <2>1. Unknown \in Cell
    BY DEF Cell
  <2> QED
    BY <2>1, KeepTopType
<1>10. r = [operands EXCEPT !.data = kept, !.types = low \o results]
  <2>1. Restored(types, b) = {low}
    BY <1>5, <1>7 DEF Restored, Lowest
  <2>2. r \in {[operands EXCEPT !.data = kept, !.types = ts \o results] :
                 ts \in Restored(types, b)}
    BY <1>3, <1>4, <1>6, <1>8, <1>9 DEF Returned
  <2> QED
    BY <2>1, <2>2
<1>11. /\ operands' = r
       /\ callStack' = Front(callStack)
       /\ labelStack' = LabelsWithin(labelStack, Front(callStack))
  BY <1>6 DEF PopCall
<1>12. /\ operands'.types = low \o results /\ operands'.data = kept
       /\ operands'.ok /\ operands'.error = operands.error
  BY <1>10, <1>11 DEF IInv, OperandState
<1>13. /\ Len(callStack') = n - 1
       /\ \A m \in 1..(n - 1) : callStack'[m] = callStack[m]
       /\ Front(callStack) \in Seq(Call)
  BY <1>1, <1>2, <1>11, FrontType DEF Typed
<1>14. /\ labelStack' \in Seq(Label)
       /\ Len(labelStack') <= Len(labelStack)
       /\ \A i \in 1..Len(labelStack') : /\ labelStack'[i] = labelStack[i]
                                         /\ labelStack'[i].callIndex <= n - 1
  <2>1. \A i, j \in 1..Len(labelStack) :
          i <= j => labelStack[i].callIndex <= labelStack[j].callIndex
    BY DEF IInv, CallsInv, LabelsBelongToCalls
  <2>2. labelStack \in Seq(Label)
    BY <1>1 DEF Typed
  <2> QED
    BY <1>11, <1>13, <2>1, <2>2, LabelsWithinType
<1>15. Live' \subseteq Live
  <2>1. Len(labelStack') \in Nat
    BY <1>14
  <2> QED
    BY <1>14, <2>1, LiveFalls
<1>16. PICK ts \in Seq(ValueType) : ts = low \o results
  BY ConcatProperties
<1>17. b <= Len(ts) /\ \A i \in 1..b : ts[i] = types[i]
  <2>1. /\ Len(low \o results) = Len(low) + Len(results)
        /\ \A i \in 1..(Len(low) + Len(results)) :
             (low \o results)[i] = IF i <= Len(low) THEN low[i] ELSE results[i - Len(low)]
    BY ConcatProperties
  <2>2. PICK k \in Nat : k = Len(results)
    OBVIOUS
  <2>3. b <= b + k /\ \A i \in 1..b : i \in 1..(b + k) /\ i <= b
    OBVIOUS
  <2> QED
    BY <1>7, <1>16, <2>1, <2>2, <2>3
<1>18. SameBelow(View, View', b)
  <2>1. \A i \in Live' : labelStack[i].typeBase <= b
    <3>1. ASSUME NEW i \in Live'
          PROVE  labelStack[i].typeBase <= b
      <4>1. i \in Live /\ i \in 1..Len(labelStack')
        BY <1>15 DEF Live
      <4>2. labelStack[i].callIndex <= n - 1
        BY <1>14, <4>1
      <4>3. labelStack[i].callIndex \in Nat
        <5>1. i \in 1..Len(labelStack)
          BY <4>1 DEF Live
        <5>2. labelStack[i] \in Label
          BY <1>1, <5>1, ElementOfSeq DEF Typed
        <5> QED
          BY <5>2 DEF Label
      <4>4. labelStack[i].callIndex < n
        BY <4>2, <4>3
      <4> QED
        BY <1>5, <4>1, <4>4
    <3> QED
      BY <3>1
  <2>2. \A m \in 1..Len(callStack) : m <= Len(callStack') => callStack[m].typeBase <= b
    BY <1>2, <1>5, <1>13
  <2>3. b \in 0..Len(operands.types)
    BY <1>4, <1>5
  <2>4. b <= Len(operands'.types) /\ \A i \in 1..b : operands'.types[i] = operands.types[i]
    BY <1>4, <1>12, <1>16, <1>17
  <2> QED
    BY <2>1, <2>2, <2>3, <2>4 DEF SameBelow, View
<1>19. Len(operands'.data)
         = StackSize(operands'.types) + CellsBelow(callStack)[Len(callStack')]
  <2>1. StackSize(low \o results) = StackSize(low) + size
    BY <1>8, SizeConcat
  <2>2. StackSize(low) \in Nat
    BY StackSizeType
  <2>3. PICK below : below = CellsBelow(callStack)[n - 1]
    OBVIOUS
  <2>4. below \in Nat
    <3>1. AllExist(callStack) /\ image \in Images
      BY <1>1 DEF Typed, IInv
    <3>2. n - 1 \in 0..Len(callStack)
      BY <1>2
    <3> QED
      BY <2>3, <3>1, <3>2, CellsAre
  <2>5. PICK k \in Nat : k = StackSize(low)
    BY <2>2
  <2>6. v = k + below
    BY <1>5, <1>7, <2>3, <2>5
  <2>7. Len(kept) = (k + size) + below
    <3>1. Len(kept) = v + size
      BY <1>9
    <3> QED
      BY <2>4, <2>6, <3>1
  <2> QED
    BY <1>12, <1>13, <2>1, <2>3, <2>5, <2>7
<1>20. Agree'
  <2>1. \A m \in 1..Len(callStack') : SameCall(callStack'[m], callStack[m])
    BY <1>13 DEF SameCall
  <2>2. Len(callStack') <= Len(callStack)
    BY <1>2, <1>13
  <2> QED
    BY <1>14, <1>15, <1>18, <1>19, <2>1, <2>2, StacksFall
<1>21. CallKeepsToItsOperands
  BY <1>2, <1>13 DEF CallKeepsToItsOperands
<1>22. ErrorsFit' /\ GlobalsFit'
  BY <1>12 DEF ErrorsFit, GlobalsFit
<1> QED
  BY <1>20, <1>21, <1>22 DEF Settled, SInv

\* A block is left.
LEMMA LeaveSettled ==
  ASSUME IInv, IInv', Agree, GlobalsFit, ErrorsFit', UNCHANGED <<image, globals>>,
         NEW m, NEW positions, LeaveBlock(m, positions), HasLabel(0),
         \/ pending = <<>>
         \/ pending[1].kind # "branch"
         \/ /\ pending' # <<>> /\ pending'[1].kind = pending[1].kind
            /\ pending'[1].position = pending[1].position
  PROVE  Settled
<1>1. Typed
  BY StateTyped
<1>2. /\ UNCHANGED <<operands, callStack>>
      /\ labelStack' = labelStack \/ labelStack' = Front(labelStack)
  BY DEF LeaveBlock
<1>3. /\ Len(labelStack') <= Len(labelStack) /\ Len(labelStack') \in Nat
      /\ \A i \in 1..Len(labelStack') : labelStack'[i] = labelStack[i]
  <2>1. labelStack # <<>> /\ labelStack \in Seq(Label)
    BY <1>1 DEF HasLabel, Typed
  <2>2. /\ Len(Front(labelStack)) = Len(labelStack) - 1
        /\ \A i \in 1..(Len(labelStack) - 1) : Front(labelStack)[i] = labelStack[i]
        /\ Len(labelStack) >= 1
    BY <2>1, FrontType
  <2>3. PICK k \in Nat : k = Len(labelStack)
    BY <2>1
  <2>4. k - 1 <= k /\ k - 1 \in Nat
    BY <2>2, <2>3
  <2> QED
    BY <1>2, <2>2, <2>3, <2>4
<1>4. Live' \subseteq Live
  BY <1>2, <1>3, LiveFalls
<1>5. PICK r : r = Len(operands.types)
  OBVIOUS
<1>6. Under(r) /\ r \in Nat
  BY <1>1, <1>5, UnderTop DEF Typed
<1>7. SameBelow(View, View', r)
  BY <1>2, <1>4, <1>5, <1>6 DEF SameBelow, View, Under, InCall
<1>8. Agree'
  <2>1. \A k \in 1..Len(callStack') : SameCall(callStack'[k], callStack[k])
    BY <1>2 DEF SameCall
  <2>2. Len(operands'.data)
          = StackSize(operands'.types) + CellsBelow(callStack)[Len(callStack')]
    BY <1>2 DEF Agree, Agrees, View
  <2>3. Len(callStack') <= Len(callStack)
    BY <1>1, <1>2 DEF Typed
  <2> QED
    BY <1>3, <1>4, <1>7, <2>1, <2>2, <2>3, StacksFall
<1>9. CallKeepsToItsOperands
  BY <1>2, SameKeeps
<1>10. GlobalsFit'
  BY DEF GlobalsFit
<1> QED
  BY <1>8, <1>9, <1>10 DEF Settled, SInv

\* end and return
LEMMA EndSettled ==
  ASSUME IInv, IInv', Agree, ErrorsFit, GlobalsFit, SearchPlace, SkipsPlainly,
         End \/ Return
  PROVE  Settled
<1>1. CASE Return
  <2>1. /\ Executes({"return"}) /\ ReturnFromFunction(operands, Read)
        /\ UNCHANGED <<image, globals>>
    BY <1>1 DEF Return
  <2>2. pending = <<>> /\ operands.ok /\ callStack # <<>>
    BY <2>1, ExecutesAlone DEF Stepping
  <2> QED
    BY <2>1, <2>2, ReturnSettled
<1>2. CASE End
  <2>1. /\ Decodes({"end"}) /\ Stepping /\ operands.ok /\ callStack # <<>> /\ Driven
        /\ ~Matches /\ Instr.op = "end"
        /\ UNCHANGED <<image, globals, pending>>
    BY <1>2 DEF End, Decodes, Stepping
  <2>2. CASE ff.on /\ ff.depth = 0
    <3>1. /\ operands' = Fail(operands, "stack_underflow")
          /\ UNCHANGED <<callStack, labelStack>>
      BY <1>2, <2>2 DEF End
    <3>2. /\ operands'.types = operands.types /\ operands'.data = operands.data
          /\ operands'.error = "stack_underflow" /\ ~operands'.ok
      BY <3>1 DEF Fail, IInv, OperandState
    <3>3. pending # <<>> /\ Last(pending).kind = "if_else"
      <4>1. pending # <<>>
        BY <2>2 DEF IInv, SearchInv, SearchHasHandler
      <4>2. Last(pending) = pending[Len(pending)] /\ Len(pending) \in 1..Len(pending)
        BY <4>1, HandlerType
      <4>3. Sought(Last(pending).kind) = ff.target
        BY <4>2 DEF SearchPlace, Waits
      <4> QED
        BY <2>1, <2>2, <4>1, <4>3 DEF Matches, Sought
    <3>4. ErrorsFit'
      BY <2>1, <3>2, <3>3 DEF ErrorsFit
    <3>5. Live' \subseteq Live
      BY <2>1, <3>1 DEF Live, Stale
    <3> QED
      BY <2>1, <3>1, <3>2, <3>4, <3>5, SameSettled
  <2>3. CASE ~(ff.on /\ ff.depth = 0)
    <3>1. LeaveBlock(Here, Read)
      BY <1>2, <2>3 DEF End
    <3>2. CASE HasLabel(0)
      <4>1. ErrorsFit'
        BY <2>1, <3>1, <3>2 DEF LeaveBlock, ErrorsFit
      <4> QED
        BY <2>1, <3>1, <3>2, <4>1, LeaveSettled
    <3>3. CASE ~HasLabel(0)
      <4>1. ~ff.on
        <5>1. ff.on => ff.depth > 0
          BY <2>3 DEF IInv, SearchInv
        <5> QED
          BY <2>1, <3>3, <5>1 DEF SkipsPlainly, Skips
      <4>2. pending = <<>>
        BY <2>1, <4>1 DEF Driven
      <4>3. ReturnFromFunction(operands, Read)
        BY <3>1, <3>3 DEF LeaveBlock
      <4> QED
        BY <2>1, <4>2, <4>3, ReturnSettled
    <3> QED
      BY <3>2, <3>3
  <2> QED
    BY <2>2, <2>3
<1> QED
  BY <1>1, <1>2

\* The end that an else has looked for
LEMMA ElseSettled ==
  ASSUME IInv, IInv', Agree, ErrorsFit, GlobalsFit, SearchPlace, SkipsPlainly,
         ResumeElse
  PROVE  Settled
<1>1. /\ operands.ok /\ ~ff.on /\ pending # <<>> /\ Last(pending).kind = "else"
      /\ pending' = Front(pending) /\ UNCHANGED <<image, globals>>
      /\ LeaveBlock(Last(pending).module, modPos)
  BY DEF ResumeElse, Resumes
<1>2. /\ callStack # <<>> /\ (Len(pending) = 1 \/ Len(pending) > 1)
      /\ pending \in Seq(Handler) /\ Last(pending) = pending[Len(pending)]
  BY <1>1, LastHandler, HandlerType
<1>3. CASE HasLabel(0)
  <2>1. operands' = operands
    BY <1>1, <1>3 DEF LeaveBlock
  <2>2. ErrorsFit'
    BY <1>1, <2>1 DEF ErrorsFit
  <2>3. \/ pending[1].kind # "branch"
        \/ /\ pending' # <<>> /\ pending'[1].kind = pending[1].kind
           /\ pending'[1].position = pending[1].position
    <3>1. CASE Len(pending) = 1
      BY <1>1, <1>2, <3>1
    <3>2. CASE Len(pending) > 1
      <4>1. /\ Len(pending') = Len(pending) - 1
            /\ \A i \in 1..(Len(pending) - 1) : pending'[i] = pending[i]
        BY <1>1, <1>2, FrontType
      <4>2. Len(pending) \in Nat /\ 1 \in 1..(Len(pending) - 1)
        BY <1>2, <3>2
      <4> QED
        BY <4>1, <4>2
    <3> QED
      BY <1>2, <3>1, <3>2
  <2> QED
    BY <1>1, <1>3, <2>2, <2>3, LeaveSettled
<1>4. CASE ~HasLabel(0)
  <2>1. Len(pending) = 1
    BY <1>1, <1>2, <1>4 DEF SkipsPlainly
  <2>2. pending[1].kind # "branch"
    BY <1>1, <1>2, <2>1
  <2>3. ReturnFromFunction(operands, modPos)
    BY <1>1, <1>4 DEF LeaveBlock
  <2> QED
    BY <1>1, <1>2, <2>2, <2>3, ReturnSettled
<1> QED
  BY <1>3, <1>4

\* A context that is stopped has nothing on its stacks.
LEMMA StopSettled ==
  ASSUME IInv, IInv', ErrorsFit, GlobalsFit, UNCHANGED <<image, globals>>,
         pending = <<>>, pending' = <<>>,
         operands' = Stopped(operands), DropCalls
  PROVE  Settled /\ Agree'
<1>1. /\ callStack' = <<>> /\ labelStack' = <<>>
      /\ operands'.types = <<>> /\ operands'.data = <<>>
      /\ operands'.error = operands.error
  BY DEF DropCalls, Stopped, IInv, OperandState
<1>2. Typed'
  BY NextTyped
<1>3. CellsBelow(callStack)'[0] = 0
  <2>1. CellsBelow(<<>>)' = CellsBelow(<<>>)
    BY CellsStay
  <2>2. AllExist(<<>>) /\ image \in Images
    BY DEF AllExist, IInv
  <2>3. CellsBelow(<<>>)[0] = 0
    BY <2>2, CellsAre
  <2> QED
    BY <1>1, <2>1, <2>3
<1>4. Live' = {}
  BY <1>1 DEF Live
<1>5. Agree'
  <2>1. StackSize(<<>>) = 0
    BY SizeShort
  <2>2. /\ View'.calls = <<>> /\ View'.labels = <<>> /\ View'.live = {}
        /\ View'.types = <<>> /\ View'.size = 0
        /\ View'.cells[0] = 0
    BY <1>1, <1>3, <1>4 DEF View
  <2>3. InOrder(View')
    BY <2>2 DEF InOrder
  <2> QED
    BY <2>1, <2>2, <2>3 DEF Agree, Agrees
<1>6. CallKeepsToItsOperands
  <2>1. callStack # <<>> => ~(Len(callStack') >= Len(callStack))
    BY <1>1, StateTyped DEF Typed
  <2> QED
    BY <2>1 DEF CallKeepsToItsOperands
<1>7. ErrorsFit' /\ GlobalsFit'
  BY <1>1 DEF ErrorsFit, GlobalsFit
<1> QED
  BY <1>5, <1>6, <1>7 DEF Settled, SInv

\* A call is made: it is put on top of its arguments, and its locals on top of
\* the operands.
Makes(call, params, locals) ==
  /\ call \in Call /\ params \in Seq(ValueType) /\ locals \in Seq(ValueType)
  /\ FunctionOf(call).locals = locals
  /\ call.typeBase = Len(operands.types) - Len(params)
  /\ call.valueBase = Len(operands.data) - StackSize(params)
  /\ \A i \in 1..Len(params) : operands.types[call.typeBase + i] = params[i]
  /\ Len(callStack') = Len(callStack) + 1
  /\ callStack'[Len(callStack')] = call
  /\ \A n \in 1..Len(callStack) : SameCall(callStack'[n], callStack[n])
  /\ operands' = PushCells(operands, Repeat(0, StackSize(locals)))

\* Its base is where its arguments begin, on both stacks.
LEMMA CallPlaced ==
  ASSUME IInv, Agree, NEW call, NEW params, NEW locals, Makes(call, params, locals),
         Under(call.typeBase)
  PROVE  call.valueBase = StackSize(Lowest(operands.types, call.typeBase)) + LocalCells
<1>1. Typed
  BY StateTyped
<1>2. PICK r \in Nat : r = call.typeBase /\ r <= Len(operands.types)
  BY <1>1 DEF Under, InCall, Typed
<1>3. PICK types \in Seq(ValueType) : types = operands.types
  BY <1>1 DEF Typed
<1>4. /\ Len(types) = r + Len(params)
      /\ \A i \in 1..Len(params) : types[r + i] = params[i]
      /\ params \in Seq(ValueType) /\ Len(params) \in Nat /\ Len(types) \in Nat
  BY <1>2, <1>3 DEF Makes
<1>5. PICK rest \in Seq(ValueType) :
        /\ rest = SubSeq(types, r + 1, Len(types))
        /\ Len(rest) = Len(types) - r
        /\ \A i \in 1..(Len(types) - r) : rest[i] = types[r + i]
        /\ StackSize(types) = StackSize(Lowest(types, r)) + StackSize(rest)
        /\ StackSize(Lowest(types, r)) \in Nat
  BY <1>2, <1>3, LowestType
<1>6. rest = params
  <2>1. Len(types) - r = Len(params)
    BY <1>4
  <2>2. Len(rest) = Len(params) /\ \A i \in 1..Len(params) : rest[i] = params[i]
    BY <1>4, <1>5, <2>1
  <2> QED
    BY <1>4, <2>2, SeqEqual
<1>7. Len(operands.data) = StackSize(types) + LocalCells /\ LocalCells \in Nat
  BY <1>1, <1>3 DEF Agree, Agrees, View, LocalCells, Typed
<1>8. call.valueBase = Len(operands.data) - StackSize(params)
  BY DEF Makes
<1>9. StackSize(params) \in Nat
  BY <1>4, StackSizeType
<1>10. PICK a \in Nat, b \in Nat, c \in Nat :
         a = StackSize(Lowest(types, r)) /\ b = StackSize(params) /\ c = LocalCells
  BY <1>5, <1>7, <1>9
<1>11. call.valueBase = ((a + b) + c) - b
  BY <1>5, <1>6, <1>7, <1>8, <1>10
<1> QED
  BY <1>2, <1>3, <1>10, <1>11

\* The cells of its locals come on top of those of the others.
LEMMA CallCells ==
  ASSUME IInv, IInv', image' = image, NEW call, NEW params, NEW locals,
         Makes(call, params, locals)
  PROVE  /\ SameBases(View, View', Len(callStack))
         /\ CellsBelow(callStack)'[Len(callStack')] = LocalCells + StackSize(locals)
<1>1. Typed /\ Typed'
  BY StateTyped, NextTyped
<1>2. PICK n \in Nat : n = Len(callStack)
  <2>1. callStack \in Seq(Call)
    BY DEF IInv, CallsInv
  <2> QED
    BY <2>1
<1>3. Len(callStack') = n + 1 /\ n <= Len(callStack')
  BY <1>2 DEF Makes
<1>4. SameBases(View, View', n)
  BY <1>2, <1>3, BasesKept DEF Makes
<1>5. PICK calls : calls = callStack'
  OBVIOUS
<1>6. AllExist(calls) /\ image \in Images
  <2>1. \A c : CallExists(c)' <=> CallExists(c)
    BY InfoStays
  <2>2. calls \in Seq(Call) /\ \A m \in 1..Len(calls) : CallExists(calls[m])'
    BY <1>1, <1>5 DEF Typed, AllExist
  <2> QED
    BY <2>1, <2>2 DEF AllExist, IInv
<1>7. CellsBelow(callStack)' = CellsBelow(calls)
  <2>1. CellsBelow(calls)' = CellsBelow(calls)
    BY CellsStay
  <2> QED
    BY <1>5, <2>1
<1>8. CellsBelow(calls)[n + 1] = CellsBelow(calls)[n] + CellsOf(calls[n + 1])
  <2>1. n + 1 \in 1..Len(calls) /\ (n + 1) - 1 = n
    BY <1>3, <1>5
  <2>2. \A k \in 1..Len(calls) :
          CellsBelow(calls)[k] = CellsBelow(calls)[k - 1] + CellsOf(calls[k])
    BY <1>6, CellsAre
  <2> QED
    BY <2>1, <2>2
<1>9. CellsOf(calls[n + 1]) = StackSize(locals)
  BY <1>3, <1>5 DEF CellsOf, Makes
<1>10. CellsBelow(calls)[n] = LocalCells
  BY <1>2, <1>4, <1>7 DEF SameBases, View, LocalCells
<1> QED
  BY <1>2, <1>3, <1>4, <1>7, <1>8, <1>9, <1>10

\* So a call that is made keeps the stacks in agreement.
LEMMA MadeSettled ==
  ASSUME IInv, IInv', Agree, ErrorsFit, GlobalsFit, operands.ok,
         UNCHANGED <<image, labelStack, globals>>, pending = <<>>, pending' = <<>>,
         NEW call, NEW params, NEW locals, Makes(call, params, locals),
         Under(call.typeBase)
  PROVE  Settled
<1>1. Typed /\ Typed'
  BY StateTyped, NextTyped
<1>2. PICK n \in Nat : n = Len(callStack)
  BY <1>1 DEF Typed
<1>3. PICK r \in Nat : r = call.typeBase /\ r <= Len(operands.types) /\ Under(r)
  BY <1>1 DEF Under, InCall, Typed
<1>4. PICK cells \in Seq(Cell) :
        cells = Repeat(0, StackSize(locals)) /\ Len(cells) = StackSize(locals)
  <2>1. StackSize(locals) \in Nat /\ 0 \in Cell
    BY StackSizeType DEF Makes, Cell
  <2> QED
    BY <2>1, RepeatType
<1>5. /\ operands'.types = operands.types /\ operands'.data = operands.data \o cells
      /\ operands'.error = operands.error
  BY <1>4 DEF Makes, PushCells, IInv, OperandState
<1>6. PICK data \in Seq(Cell) : data = operands.data
  BY <1>1 DEF Typed
<1>7. /\ Len(data \o cells) = Len(data) + Len(cells)
      /\ \A i \in 1..Len(data) : (data \o cells)[i] = data[i]
  BY ConcatProperties
<1>8. /\ Len(callStack') = n + 1 /\ callStack'[n + 1] = call
      /\ \A m \in 1..n : SameCall(callStack'[m], callStack[m])
  BY <1>2 DEF Makes
<1>9. Live' \subseteq Live
  BY DEF Live, Stale
<1>10. Len(operands'.data)
         = StackSize(operands'.types) + CellsBelow(callStack)'[Len(callStack')]
  <2>1. Len(data) = StackSize(operands.types) + LocalCells
    BY <1>6 DEF Agree, Agrees, View, LocalCells
  <2>2. CellsBelow(callStack)'[Len(callStack')] = LocalCells + StackSize(locals)
    BY CallCells
  <2>3. StackSize(operands.types) \in Nat /\ LocalCells \in Nat /\ StackSize(locals) \in Nat
    BY <1>1, StackSizeType DEF Typed, Makes
  <2> QED
    BY <1>4, <1>5, <1>6, <1>7, <2>1, <2>2, <2>3
<1>11. CallsTo(View, View', r)
  <2>1. SameBases(View, View', Len(View.calls))
    BY CallCells DEF View
  <2>2. call.valueBase = StackSize(Lowest(operands.types, r)) + LocalCells
    BY <1>3, CallPlaced
  <2>3. SameBelow(View, View', r)
    <3>1. \A m \in 1..Len(callStack) : callStack[m].typeBase <= r
      BY <1>3 DEF Under, InCall
    <3>2. \A i \in Live' : labelStack[i].typeBase <= r
      BY <1>3, <1>9 DEF Under
    <3>3. r \in 0..Len(operands.types)
      BY <1>3 DEF Under, InCall
    <3> QED
      BY <1>3, <1>5, <3>1, <3>2, <3>3 DEF SameBelow, View
  <2>4. /\ Len(callStack') = Len(callStack) + 1
        /\ callStack'[Len(callStack')].typeBase = r
        /\ callStack'[Len(callStack')].valueBase
             = StackSize(Lowest(operands.types, r)) + CellsBelow(callStack)[Len(callStack)]
    BY <1>2, <1>3, <1>8, <2>2 DEF LocalCells
  <2> QED
    BY <1>5, <1>9, <1>10, <2>1, <2>3, <2>4 DEF CallsTo, View
<1>12. Agree'
  <2>1. IsView(View) /\ IsView(View')
    BY <1>1 DEF Typed, IsView
  <2> QED
    BY <1>11, <2>1, CallOnTop DEF Agree
<1>13. CallKeepsToItsOperands
  <2>1. ASSUME callStack # <<>>
        PROVE  /\ active.valueBase \in Nat /\ active.valueBase <= Len(data)
               /\ active.typeBase \in Nat /\ active.typeBase <= Len(operands.types)
    <3>1. Over(operands, r) /\ InCall(r)
      BY <1>3, OverNow DEF Under
    <3> QED
      BY <1>6, <2>1, <3>1, OverFloor, TopCall
  <2>2. callStack # <<>> =>
          /\ Len(operands'.data) >= active.valueBase
          /\ \A i \in 1..active.valueBase : operands'.data[i] = operands.data[i]
    BY <1>4, <1>5, <1>6, <1>7, <2>1
  <2> QED
    BY <1>5, <2>1, <2>2 DEF CallKeepsToItsOperands
<1>14. ErrorsFit' /\ GlobalsFit'
  BY <1>5 DEF ErrorsFit, GlobalsFit
<1> QED
  BY <1>12, <1>13, <1>14 DEF Settled, SInv

\* The parameters of a function to call
Params(target) ==
  image[target.module].signatures[FunctionAt(target).signature].params

Signed(target) ==
  FunctionAt(target).signature \in 1..Len(image[target.module].signatures)

\* They are types.
LEMMA ParamsType ==
  ASSUME image \in Images, NEW target, Exists(target), Signed(target)
  PROVE  Params(target) \in Seq(ValueType)
<1>1. image[target.module].signatures \in Seq(Signature)
  BY ModuleType DEF Exists
<1>2. image[target.module].signatures[FunctionAt(target).signature] \in Signature
  BY <1>1, ElementOfSeq DEF Signed
<1> QED
  BY <1>2 DEF Signature, Params

\* The innermost block has them on the stacks, or the host does.
Argued(target) ==
  LET params == Params(target) IN
  Signed(target) =>
    /\ Len(params) <= Len(operands.types)
    /\ \A i \in 1..Len(params) :
         operands.types[(Len(operands.types) - Len(params)) + i] = params[i]
    /\ Under(Len(operands.types) - Len(params))

\* What is so when a call is made
Calling ==
  /\ operands.ok /\ UNCHANGED <<image, globals>>
  /\ pending = <<>> /\ pending' = <<>> /\ ~ff'.on

\* A call of a function with code
LEMMA EnteredSettled ==
  ASSUME IInv, IInv', Agree, ErrorsFit, GlobalsFit, Calling,
         NEW target \in FunctionTarget, Exists(target), Argued(target),
         NEW positions \in [1..Len(image) -> Nat], NEW m \in 1..Len(image),
         NEW via \in {"call", "host"},
         EnterFunction(operands, positions, m, target, FunctionAt(target), via)
  PROVE  Settled
<1> DEFINE fn         == FunctionAt(target)
           signatures == image[target.module].signatures
           signature  == signatures[fn.signature]
           pushed     == PushCells(operands, Repeat(0, StackSize(fn.locals)))
           call == [module |-> target.module, function |-> target.index,
                    position |-> fn.position,
                    typeBase |-> Len(operands.types) - Len(signature.params),
                    valueBase |-> Len(operands.data) - StackSize(signature.params)]
<1>1. PICK prepared :
        /\ prepared = IF fn.signature \in 1..Len(signatures)
                      THEN Prepared(operands, fn, signature)
                      ELSE Fail(operands, "invalid_index")
        /\ operands' = After(prepared, via)
        /\ prepared.ok => callStack' = Append(Suspended(positions, m), call)
        /\ labelStack' = labelStack
  BY DEF EnterFunction, PushCall
<1>2. /\ target.module \in 1..Len(image)
      /\ target.index \in 1..Len(image[target.module].functions)
      /\ image \in Images /\ operands \in OperandState /\ CallsInv
  BY DEF Exists, IInv
<1>3. /\ image[target.module].signatures \in Seq(Signature)
      /\ image[target.module].functions \in Seq(Function)
  BY <1>2, ModuleType
<1>4. fn \in Function
  BY <1>2, <1>3, ElementOfSeq DEF FunctionAt
<1>5. \/ ~prepared.ok /\ prepared.error \in OtherErrors
      \/ fn.signature \in 1..Len(signatures) /\ prepared.ok /\ prepared = pushed
  <2>1. operands \in OperandState
    BY <1>2
  <2>2. CASE fn.signature \notin 1..Len(signatures)
    BY <1>1, <2>1, <2>2 DEF Fail, OperandState, OtherErrors, ErrorState
  <2>3. CASE fn.signature \in 1..Len(signatures)
    <3>1. signature \in Signature
      BY <1>3, <2>3, ElementOfSeq
    <3>2. /\ Len(signature.params) \in Nat /\ Len(operands.types) \in Nat
      BY <2>1, <3>1 DEF Signature, OperandState
    <3>3. prepared = Prepared(operands, fn, signature)
      BY <1>1, <2>3
    <3>4. pushed \in [types : Seq(ValueType), data : {pushed.data}, error : ErrorState, ok : {TRUE}]
      BY <1>2 DEF PushCells, OperandState, Calling
    <3> HIDE DEF pushed
    <3>5. prepared = Fail(pushed, "depth_exceeded") \/ prepared = pushed
      <4>1. ~(Len(operands.types) < Len(signature.params))
        <5>1. Len(signature.params) <= Len(operands.types)
          BY <2>3 DEF Argued, Params, Signed
        <5>2. PICK a \in Nat, b \in Nat : a = Len(operands.types) /\ b = Len(signature.params)
          BY <3>2
        <5>3. b <= a
          BY <5>1, <5>2
        <5>4. ~(a < b)
          BY <5>3
        <5> QED
          BY <5>2, <5>4
      <4> HIDE DEF signature, fn
      <4> QED
        BY <3>3, <4>1 DEF Prepared, pushed
    <3>6. /\ ~Fail(pushed, "depth_exceeded").ok
          /\ Fail(pushed, "depth_exceeded").error = "depth_exceeded"
          /\ pushed.ok
      BY <3>4 DEF Fail
    <3>7. "depth_exceeded" \in OtherErrors
      BY DEF OtherErrors, ErrorState
    <3> QED
      BY <2>3, <3>5, <3>6, <3>7
  <2> QED
    BY <2>2, <2>3
<1>6. CASE ~prepared.ok /\ prepared.error \in OtherErrors
  <2>1. prepared \in OperandState
    <3>1. CASE fn.signature \notin 1..Len(signatures)
      <4>1. Fail(operands, "invalid_index") \in OperandState
        BY <1>2, ErrorTypes DEF ErrorState
      <4> QED
        BY <1>1, <3>1, <4>1
    <3>2. CASE fn.signature \in 1..Len(signatures)
      <4>1. signature \in Signature /\ callStack \in Seq(Call)
        BY <1>2, <1>3, <3>2, ElementOfSeq DEF CallsInv
      <4>2. prepared = Prepared(operands, fn, signature)
        BY <1>1, <3>2
      <4> HIDE DEF fn, signature
      <4> QED
        BY <1>2, <1>4, <4>1, <4>2, PreparedType
    <3> QED
      BY <3>1, <3>2
  <2>2. ~operands'.ok /\ operands'.error \in OtherErrors
    BY <1>1, <1>6, <2>1 DEF After, SetError, OperandState, OtherErrors, ErrorState
  <2> QED
    BY <2>2, FailSettled DEF Calling
<1>7. CASE fn.signature \in 1..Len(signatures) /\ prepared.ok /\ prepared = pushed
  <2>1. callStack' = Append(Suspended(positions, m), call)
    BY <1>1, <1>7
  <2>2. operands' = PushCells(operands, Repeat(0, StackSize(fn.locals)))
    BY <1>1, <1>7 DEF After
  <2>3. /\ signature \in Signature
    BY <1>3, <1>7, ElementOfSeq
  <2>4. /\ signature.params \in Seq(ValueType) /\ signature.params = Params(target)
        /\ fn.locals \in Seq(ValueType)
    BY <1>4, <2>3 DEF Signature, Function, Params
  <2>5. /\ call.typeBase = Len(operands.types) - Len(Params(target))
        /\ call.valueBase = Len(operands.data) - StackSize(Params(target))
        /\ FunctionOf(call).locals = fn.locals
    BY <2>4 DEF FunctionOf, FunctionAt
  <2>6. PICK c : c = call
    OBVIOUS
  <2> HIDE DEF call
  <2>7. PICK calls : calls = Suspended(positions, m)
    OBVIOUS
  <2>8. /\ calls \in Seq(Call) /\ Len(calls) = Len(callStack)
        /\ \A n \in 1..Len(callStack) : SameCall(calls[n], callStack[n])
    <3>1. callStack \in Seq(Call)
      BY <1>2 DEF CallsInv
    <3>2. CASE callStack = <<>>
      BY <2>7, <3>2 DEF Suspended
    <3>3. CASE callStack # <<>>
      <4>1. PICK last \in Nat : last = Len(callStack) /\ last >= 1
        BY <3>1, <3>3
      <4>2. calls = [callStack EXCEPT ![last].position = positions[m]]
        BY <2>7, <3>3, <4>1 DEF Suspended
      <4>3. callStack[last] \in Call
        BY <3>1, <4>1, ElementOfSeq
      <4>4. PICK new : new = [callStack[last] EXCEPT !.position = positions[m]]
        OBVIOUS
      <4>5. SameCall(new, callStack[last])
        BY <4>3, <4>4 DEF SameCall, Call
      <4>6. calls = [callStack EXCEPT ![last] = new]
        BY <4>2, <4>4
      <4>7. /\ Len(calls) = Len(callStack)
            /\ \A n \in 1..last : calls[n] = IF n = last THEN new ELSE callStack[n]
        BY <3>1, <4>1, <4>6
      <4>8. \A n \in 1..last : SameCall(calls[n], callStack[n])
        BY <4>5, <4>7 DEF SameCall
      <4>9. calls \in Seq(Call)
        BY <1>2, <2>7, SuspendedType
      <4> QED
        BY <4>1, <4>7, <4>8, <4>9
    <3> QED
      BY <3>2, <3>3
  <2>9. /\ Len(callStack') = Len(callStack) + 1 /\ callStack'[Len(callStack')] = c
        /\ \A n \in 1..Len(callStack) : callStack'[n] = calls[n]
    <3>1. callStack' = Append(calls, c)
      BY <2>1, <2>6, <2>7
    <3>2. PICK k \in Nat : k = Len(callStack)
      BY <1>2 DEF CallsInv
    <3> QED
      BY <2>8, <3>1, <3>2
  <2>10. c \in Call
    <3>1. callStack' \in Seq(Call)
      BY DEF IInv, CallsInv
    <3>2. Len(callStack') \in 1..Len(callStack')
      BY <1>2, <2>9 DEF CallsInv
    <3> QED
      BY <2>9, <3>1, <3>2, ElementOfSeq
  <2>11. \A n \in 1..Len(callStack) : SameCall(callStack'[n], callStack[n])
    BY <2>8, <2>9
  <2>12. \A i \in 1..Len(Params(target)) :
           operands.types[c.typeBase + i] = Params(target)[i]
    BY <1>7, <2>5, <2>6 DEF Argued, Signed
  <2>13. Makes(c, Params(target), fn.locals)
    BY <2>2, <2>4, <2>5, <2>6, <2>9, <2>10, <2>11, <2>12 DEF Makes
  <2>14. Under(c.typeBase)
    BY <1>7, <2>5, <2>6 DEF Argued, Signed
  <2> QED
    BY <1>1, <2>13, <2>14, MadeSettled DEF Calling
<1> QED
  BY <1>5, <1>6, <1>7

\* What a host function has popped and pushed is its own.
LEMMA NativeOver ==
  ASSUME IInv, Agree, operands.ok, NEW target, Exists(target), Argued(target),
         FunctionAt(target).native # "none",
         NEW signature,
         signature = image[target.module].signatures[FunctionAt(target).signature]
  PROVE  /\ Under(Len(operands.types) - Len(signature.params))
         /\ Over(NativeValues(operands, signature),
                 Len(operands.types) - Len(signature.params))
<1>1. /\ target.module \in 1..Len(image)
      /\ target.index \in 1..Len(image[target.module].functions)
      /\ image \in Images
  BY DEF Exists, IInv
<1>2. signature \in Signature /\ Signed(target)
  <2>1. NativesFit(image[target.module])
    BY <1>1, ImageType
  <2>2. image[target.module].signatures \in Seq(Signature)
    BY <1>1, ModuleType
  <2> QED
    BY <1>1, <2>1, <2>2, ElementOfSeq DEF NativesFit, FunctionAt, Signed
<1>3. PICK params \in Seq(ValueType), results \in Seq(ValueType) :
        params = signature.params /\ results = signature.results
  BY <1>2 DEF Signature
<1>4. PICK n \in Nat : n = Len(params)
  OBVIOUS
<1>5. PICK k \in Nat : k = Len(operands.types)
  <2>1. operands.types \in Seq(ValueType)
    BY StateTyped DEF Typed
  <2> QED
    BY <2>1
<1>6. /\ n <= k /\ Under(k - n)
      /\ \A i \in 1..n : operands.types[(k - n) + i] = params[i]
  BY <1>2, <1>3, <1>4, <1>5 DEF Argued, Params
<1>7. PICK ts \in Seq(ValueType) :
        ts = [i \in 1..n |-> params[n + 1 - i]]
  <2>1. \A i \in 1..n : n + 1 - i \in 1..n
    OBVIOUS
  <2>2. \A i \in 1..n : params[n + 1 - i] \in ValueType
    BY <1>4, <2>1
  <2>3. [i \in 1..n |-> params[n + 1 - i]] \in Seq(ValueType)
    BY <2>2
  <2> QED
    BY <2>3
<1>8. Len(ts) = n /\ \A i \in 1..n : ts[i] = params[(n + 1) - i]
  BY <1>4, <1>7
<1>9. \A i \in 1..n : operands.types[(k + 1) - i] = ts[i]
  <2>1. \A i \in 1..n : (n + 1) - i \in 1..n /\ (k - n) + ((n + 1) - i) = (k + 1) - i
    OBVIOUS
  <2>2. SUFFICES ASSUME NEW i \in 1..n
                 PROVE  operands.types[(k + 1) - i] = ts[i]
    OBVIOUS
  <2>3. PICK j \in 1..n : j = (n + 1) - i /\ (k - n) + j = (k + 1) - i
    BY <2>1
  <2>4. operands.types[(k - n) + j] = params[j] /\ ts[i] = params[j]
    BY <1>6, <1>8, <2>3
  <2> QED
    BY <2>3, <2>4
<1>10. PICK r : r = k - n /\ Under(r)
  BY <1>6
<1>11. PICK popped : popped = PopOperands(operands, ts)
  OBVIOUS
<1>12. Over(popped, r)
  BY <1>4, <1>8, <1>9, <1>10, <1>11, <1>5, TypesPopped
<1>13. CASE results = <<>>
  <2>1. NativeValues(operands, signature) = popped
    BY <1>3, <1>4, <1>7, <1>11, <1>13 DEF NativeValues
  <2> QED
    BY <1>3, <1>4, <1>10, <1>12, <1>5, <2>1
<1>14. CASE results # <<>>
  <2>1. PICK t \in ValueType : t = results[1]
    BY <1>3, <1>14
  <2>2. NativeValues(operands, signature) = PushValue(popped, t, Unknowns(t))
    <3>1. popped.ok
      BY <1>12 DEF Over
    <3> QED
      BY <1>3, <1>4, <1>7, <1>11, <1>14, <2>1, <3>1 DEF NativeValues, Unknowns
  <2>3. Over(PushValue(popped, t, Unknowns(t)), r)
    BY <1>10, <1>12, UnknownPushed
  <2> QED
    BY <1>3, <1>4, <1>10, <1>5, <2>2, <2>3
<1> QED
  BY <1>13, <1>14

\* A call of any function
LEMMA CalledSettled ==
  ASSUME IInv, IInv', Agree, ErrorsFit, GlobalsFit, Calling,
         NEW m \in 1..Len(image), NEW f \in Nat,
         ResolutionError(Resolution(m, f)) = "none" => Argued(Resolution(m, f)),
         NEW positions \in [1..Len(image) -> Nat], NEW via \in {"call", "host"},
         CallFunctionByIndex(operands, positions, m, f, via)
  PROVE  Settled
<1> DEFINE target == Resolution(m, f)
           error  == ResolutionError(target)
           fn     == FunctionAt(target)
           signature == image[target.module].signatures[fn.signature]
<1>1. /\ error \in {"none"} \cup OtherErrors
      /\ error = "none" => Exists(target)
      /\ target \in FunctionTarget
      /\ operands \in OperandState /\ operands.ok
      /\ pending = <<>> /\ pending' = <<>> /\ ~ff'.on /\ UNCHANGED <<image, globals>>
  <2>1. target \in FunctionTarget
    BY ResolutionType DEF IInv
  <2> HIDE DEF target
  <2>2. error \in {"none"} \cup OtherErrors /\ (error = "none" => Exists(target))
    BY DEF ResolutionError, ErrorState, OtherErrors
  <2> QED
    BY <2>1, <2>2 DEF IInv, Calling
<1>2. CASE error # "none"
  <2>1. operands' = After(Fail(operands, error), via)
    BY <1>2 DEF CallFunctionByIndex
  <2>2. error \in OtherErrors
    BY <1>1, <1>2
  <2> HIDE DEF error
  <2>3. ~operands'.ok /\ operands'.error \in OtherErrors
    BY <1>1, <2>1, <2>2 DEF After, Fail, SetError, OperandState, OtherErrors, ErrorState
  <2> QED
    BY <1>1, <2>3, FailSettled
<1>3. CASE error = "none" /\ fn.native # "none"
  <2>1. CallNative(operands, fn, signature, via)
    BY <1>3 DEF CallFunctionByIndex
  <2>2. PICK r : /\ Under(r)
                 /\ Over(NativeValues(operands, signature), r)
    <3>1. Exists(target) /\ Argued(target) /\ FunctionAt(target).native # "none"
      BY <1>1, <1>3
    <3> HIDE DEF target
    <3> QED
      BY <1>1, <3>1, NativeOver
  <2> HIDE DEF signature, fn
  <2>3. CASE /\ operands' = After(NativeValues(operands, signature), via)
             /\ UNCHANGED <<callStack, labelStack, active>>
    <3>1. operands' = NativeValues(operands, signature)
      BY <2>2, <2>3 DEF After, Over
    <3>2. Over(operands', r)
      BY <2>2, <3>1
    <3>3. GlobalsFit'
      BY <1>1 DEF GlobalsFit
    <3> QED
      BY <1>1, <2>2, <2>3, <3>2, <3>3, OverSettled
  <2>4. CASE /\ operands' = After([operands EXCEPT !.ok = FALSE], via)
             /\ UNCHANGED <<callStack, labelStack, active>>
    <3>1. CASE via = "call"
      <4>1. ~operands'.ok /\ operands'.error \in OtherErrors
        BY <1>1, <2>4, <3>1 DEF After, SetError, OperandState, OtherErrors, ErrorState
      <4> QED
        BY <1>1, <4>1, FailSettled
    <3>2. CASE via = "host"
      <4>1. /\ operands'.types = operands.types /\ operands'.data = operands.data
            /\ operands'.error = operands.error
        BY <1>1, <2>4, <3>2 DEF After, OperandState
      <4>2. ErrorsFit'
        BY <1>1, <4>1 DEF ErrorsFit
      <4>3. Live' \subseteq Live
        BY <1>1, <2>4 DEF Live, Stale
      <4> QED
        BY <1>1, <2>4, <4>1, <4>2, <4>3, SameSettled
    <3> QED
      BY <3>1, <3>2
  <2>5. CASE operands' = After(Stopped(operands), via) /\ DropCalls
    <3>1. operands' = Stopped(operands)
      BY <1>1, <2>5 DEF After, Stopped, OperandState
    <3> QED
      BY <1>1, <2>5, <3>1, StopSettled
  <2> QED
    BY <2>1, <2>3, <2>4, <2>5 DEF CallNative
<1>4. CASE error = "none" /\ fn.native = "none"
  <2>1. EnterFunction(operands, positions, m, target, fn, via)
    BY <1>4 DEF CallFunctionByIndex
  <2>2. Exists(target) /\ Argued(target) /\ target \in FunctionTarget
    BY <1>1, <1>4
  <2> HIDE DEF target
  <2> QED
    BY <1>1, <2>1, <2>2, EnteredSettled
<1> QED
  BY <1>2, <1>3, <1>4

\* call
LEMMA CallInstructionSettled ==
  ASSUME IInv, IInv', Agree, ErrorsFit, GlobalsFit, OperandsFit, CallInstruction
  PROVE  Settled
<1>1. /\ Executes({"call"}) /\ CallFunctionByIndex(operands, Read, Here, Instr.arg, "call")
      /\ UNCHANGED <<image, globals, ff, pending>>
  BY DEF CallInstruction, searchVars
<1>2. pending = <<>> /\ ~ff.on /\ Stepping /\ CanFetch
  BY <1>1, ExecutesAlone
<1>3. Calling
  BY <1>1, <1>2 DEF Calling, Stepping
<1>4. /\ Here \in 1..Len(image) /\ Read \in [1..Len(image) -> Nat] /\ Instr.arg \in Nat
  <2>1. Decodes({"call"})
    BY <1>1 DEF Executes
  <2> QED
    BY <1>2, <2>1, Fetched, InstrType
<1>5. PICK f \in Nat : f = Instr.arg
  BY <1>4
<1>6. MayInvoke(Here, f)
  BY <1>1, <1>5 DEF OperandsFit
<1>7. ResolutionError(Resolution(Here, f)) = "none" => Argued(Resolution(Here, f))
  <2>1. PICK target : target = Resolution(Here, f)
    OBVIOUS
  <2>2. SUFFICES ASSUME ResolutionError(target) = "none", Signed(target)
                 PROVE  Argued(target)
    BY <2>1 DEF Argued
  <2>3. /\ Len(Params(target)) <= Len(operands.types)
        /\ \A i \in 1..Len(Params(target)) :
             operands.types[(Len(operands.types) - Len(Params(target))) + i]
               = Params(target)[i]
    BY <1>6, <2>1, <2>2 DEF MayInvoke, ArgumentsFit, Params
  <2>4. Own(Len(operands.types) - Len(Params(target)))
    BY <1>6, <2>1, <2>2 DEF MayInvoke, Params
  <2>5. PICK n \in Nat, k \in Nat : n = Len(Params(target)) /\ k = Len(operands.types)
    <3>1. Len(operands.types) \in Nat
      BY StateTyped DEF Typed
    <3>2. Params(target) \in Seq(ValueType)
      BY <2>2, ParamsType DEF IInv, ResolutionError
    <3> QED
      BY <3>1, <3>2
  <2>6. k - n \in Int /\ k - n <= k
    BY <2>5
  <2>7. Under(k - n)
    BY <1>2, <2>4, <2>5, <2>6, UnderOwn DEF Stepping
  <2> QED
    BY <2>3, <2>5, <2>7 DEF Argued
<1> QED
  BY <1>1, <1>3, <1>4, <1>5, <1>7, CalledSettled

\* The first handler stays while others go.
LEMMA FrontHandler ==
  ASSUME IInv, Len(pending) > 1, pending' = Front(pending)
  PROVE  pending' # <<>> /\ pending'[1] = pending[1]
<1>1. pending \in Seq(Handler) /\ pending # <<>> /\ Len(pending) \in Nat
  BY HandlerType
<1>2. /\ Len(pending') = Len(pending) - 1
      /\ \A i \in 1..(Len(pending) - 1) : pending'[i] = pending[i]
  BY <1>1, FrontType
<1>3. 1 \in 1..(Len(pending) - 1)
  BY <1>1
<1> QED
  BY <1>2, <1>3

\* An else or an end that is found
LEMMA FoundSettled ==
  ASSUME IInv, IInv', Agree, ErrorsFit, GlobalsFit, SearchPlace, LabelsNest,
         ResumeIf \/ ResumeBranch
  PROVE  Settled
<1>1. /\ operands.ok /\ ~ff.on /\ pending # <<>> /\ pending' = Front(pending)
      /\ Last(pending).kind \in {"if_else", "if_end", "branch"}
      /\ UNCHANGED <<image, globals, callStack, labelStack>>
  BY DEF ResumeIf, ResumeBranch, Resumes
<1>2. /\ Len(pending) = 1 /\ pending' = <<>> /\ Last(pending).module = Here
      /\ Last(pending) = pending[1]
  BY <1>1, LastHandler, HandlerType
<1>3. operands' = operands
  <2>1. Pos < Len(Code)
    BY <1>1 DEF SearchPlace
  <2> QED
    BY <1>2, <2>1 DEF ResumeIf, ResumeBranch, Pos, Code
<1>4. ErrorsFit'
  BY <1>1, <1>3 DEF ErrorsFit
<1>5. Live' \subseteq Live
  <2>1. \A i \in 1..Len(labelStack) : ~Stale(i)
    <3>1. CASE Last(pending).kind = "branch"
      <4>1. ASSUME NEW i \in 1..Len(labelStack), Stale(i)
            PROVE  FALSE
        <5>1. labelStack[i].position <= pending[1].position
          BY <1>1, <1>2, <3>1, <4>1 DEF LabelsNest, Stale
        <5>2. labelStack[i].position \in Nat /\ pending[1].position \in Nat
          <6>1. labelStack \in Seq(Label) /\ pending \in Seq(Handler) /\ 1 \in 1..Len(pending)
            BY <1>2, HandlerType DEF IInv, CallsInv
          <6>2. labelStack[i] \in Label /\ pending[1] \in Handler
            BY <6>1, ElementOfSeq
          <6> QED
            BY <6>2 DEF Label, Handler
        <5> QED
          BY <4>1, <5>1, <5>2 DEF Stale
      <4> QED
        BY <4>1
    <3>2. CASE Last(pending).kind # "branch"
      BY <1>2, <3>2 DEF Stale
    <3> QED
      BY <3>1, <3>2
  <2> QED
    BY <1>1, <2>1 DEF Live
<1> QED
  BY <1>1, <1>3, <1>4, <1>5, SameSettled

\* An if that looks for its end instead
LEMMA RetrySettled ==
  ASSUME IInv, IInv', Agree, ErrorsFit, GlobalsFit, SearchPlace, RetryIf
  PROVE  Settled
<1>1. /\ ~operands.ok /\ pending # <<>> /\ Last(pending).kind = "if_else"
      /\ operands' = [operands EXCEPT
           !.ok = TRUE, !.error = IF @ = "stack_underflow" THEN "none" ELSE @]
      /\ pending' = [pending EXCEPT ![Len(pending)].kind = "if_end"]
      /\ UNCHANGED <<image, globals, callStack, labelStack>>
  BY DEF RetryIf
<1>2. /\ Len(pending) = 1 /\ Last(pending) = pending[1] /\ pending \in Seq(Handler)
  BY <1>1, LastHandler, HandlerType
<1>3. /\ operands'.types = operands.types /\ operands'.data = operands.data
      /\ operands'.error = IF operands.error = "stack_underflow" THEN "none" ELSE operands.error
      /\ operands'.ok
  BY <1>1 DEF IInv, OperandState
<1>4. ErrorsFit'
  BY <1>3 DEF ErrorsFit
<1>5. pending[1].kind # "branch" /\ pending'[1].kind # "branch"
  <2>1. pending[1] \in Handler /\ 1 \in DOMAIN pending
    BY <1>2, ElementOfSeq
  <2>2. pending'[1] = [pending[1] EXCEPT !.kind = "if_end"]
    BY <1>1, <1>2, <2>1
  <2>3. [pending[1] EXCEPT !.kind = "if_end"].kind = "if_end"
    BY <2>1 DEF Handler
  <2> QED
    BY <1>1, <1>2, <2>2, <2>3
<1>6. Live' \subseteq Live
  BY <1>1, <1>5 DEF Live, Stale
<1> QED
  BY <1>1, <1>3, <1>4, <1>6, SameSettled

\* A search that is given up
LEMMA AbandonSettled ==
  ASSUME IInv, IInv', Agree, ErrorsFit, GlobalsFit, SearchPlace, AbandonSearch
  PROVE  Settled
<1>1. /\ ~operands.ok /\ pending # <<>> /\ Last(pending).kind # "if_else"
      /\ ff' = [ff EXCEPT !.on = FALSE] /\ pending' = Front(pending)
      /\ UNCHANGED <<image, operands, globals, callStack, labelStack>>
  BY DEF AbandonSearch, contextVars
<1>2. operands.error \notin {"none", "stack_underflow", "type_mismatch"}
  BY <1>1 DEF ErrorsFit
<1>3. ErrorsFit'
  BY <1>1, <1>2 DEF ErrorsFit
<1>4. Len(pending) = 1 \/ Len(pending) > 1
  BY <1>1, LastHandler
<1>5. CASE Len(pending) = 1
  <2>1. pending' = <<>> /\ ~ff'.on
    <3>1. Front(pending) = <<>>
      BY <1>1, <1>5, LastHandler
    <3>2. ff \in [on : BOOLEAN, target : Target, depth : Nat]
      BY DEF IInv, SearchInv
    <3> QED
      BY <1>1, <3>1, <3>2
  <2>2. Dead'
    BY <1>1, <1>2, <2>1 DEF Dead
  <2>3. CallKeepsToItsOperands
    BY <1>1, <1>2 DEF CallKeepsToItsOperands
  <2>4. GlobalsFit'
    BY <1>1 DEF GlobalsFit
  <2> QED
    BY <1>3, <2>2, <2>3, <2>4 DEF Settled, SInv
<1>6. CASE Len(pending) > 1
  <2>1. pending' # <<>> /\ pending'[1] = pending[1]
    BY <1>1, <1>6, FrontHandler
  <2>2. Live' \subseteq Live
    BY <1>1, <2>1 DEF Live, Stale
  <2> QED
    BY <1>1, <1>3, <2>2, SameSettled
<1> QED
  BY <1>4, <1>5, <1>6

\* The handlers that go on
LEMMA ResumeSettled ==
  ASSUME IInv, IInv', Agree, ErrorsFit, GlobalsFit, SearchPlace, SkipsPlainly, LabelsNest,
         Resume
  PROVE  Settled
<1>1. ~SearchRunsOut
  BY LastHandler DEF SearchRunsOut
<1> QED
  BY <1>1, FoundSettled, ElseSettled, RetrySettled, AbandonSettled DEF Resume

\* The operands of a host that makes no call under another
LEMMA HostUnder ==
  ASSUME IInv, callStack = <<>>, NEW r \in 0..Len(operands.types)
  PROVE  Under(r)
<1>1. labelStack = <<>>
  <2>1. labelStack \in Seq(Label)
    BY DEF IInv, CallsInv
  <2>2. \A i \in 1..Len(labelStack) : FALSE
    BY DEF IInv, CallsInv, LabelsBelongToCalls
  <2>3. PICK k \in Nat : k = Len(labelStack)
    BY <2>1
  <2>4. k = 0
    BY <2>2, <2>3
  <2> QED
    BY <2>1, <2>3, <2>4, EmptySeq
<1>2. Live = {}
  BY <1>1 DEF Live
<1> QED
  BY <1>2 DEF Under, InCall

\* The host pushes and pops values.
LEMMA HostMovesSettled ==
  ASSUME CarefulHost, IInv, IInv', Agree, ErrorsFit, GlobalsFit, HostPush \/ HostPop
  PROVE  Settled
<1>1. /\ operands.ok /\ pending = <<>> /\ pending' = <<>> /\ callStack = <<>>
      /\ UNCHANGED <<image, callStack, labelStack, globals>>
  BY DEF HostPush, HostPop, Available, Idle, searchVars
<1>2. GlobalsFit'
  BY <1>1 DEF GlobalsFit
<1>3. PICK n \in Nat : n = Len(operands.types)
  <2>1. operands.types \in Seq(ValueType)
    BY StateTyped DEF Typed
  <2> QED
    BY <2>1
<1>4. CASE HostPush
  <2>1. PICK operand \in HostOperands :
          operands' = PushValue(operands, operand[1], operand[2])
    BY <1>4 DEF HostPush
  <2>2. PICK t \in ValueType, cells \in Seq(Cell) :
          t = operand[1] /\ cells = operand[2] /\ Len(cells) = TypeSize(t)
    BY InterpreterAssumption
  <2>3. Under(n) /\ Over(operands, n)
    BY <1>1, <1>3, UnderTop, OverNow
  <2>4. Over(operands', n)
    BY <2>1, <2>2, <2>3, OverPushed
  <2> QED
    BY <1>1, <1>2, <2>3, <2>4, OverSettled
<1>5. CASE HostPop
  <2>1. n # 0
    <3>1. operands.types # <<>> /\ operands.types \in Seq(ValueType)
      BY <1>5, StateTyped DEF HostPop, Typed
    <3> QED
      BY <1>3, <3>1
  <2>2. n - 1 \in 0..Len(operands.types) /\ n > n - 1
    BY <1>3, <2>1
  <2>3. Under(n - 1) /\ Over(operands, n - 1)
    BY <1>1, <2>2, HostUnder, OverNow
  <2>4. /\ Over(Popped(operands), n - 1)
        /\ PopCells(PopType(operands), TypeSize(TopType(operands))) = Popped(operands)
    BY <1>3, <2>2, <2>3, OverPopped
  <2>5. Over(operands', n - 1)
    BY <1>5, <2>4 DEF HostPop
  <2> QED
    BY <1>1, <1>2, <2>3, <2>5, OverSettled
<1> QED
  BY <1>4, <1>5

\* The host makes a call.
LEMMA HostCallSettled ==
  ASSUME CarefulHost, IInv, IInv', Agree, ErrorsFit, GlobalsFit,
         NEW m \in 1..Len(image), NEW f \in 1..Len(image[m].functions),
         HostCall(m, f) \/ RunFunction(m, f)
  PROVE  Settled
<1>1. /\ operands.ok /\ pending = <<>> /\ pending' = <<>> /\ ff' = ff /\ callStack = <<>>
      /\ UNCHANGED <<image, globals>> /\ ArgumentsFit(m, f)
      /\ CallFunctionByIndex(operands, modPos, m, f, "host")
  BY DEF HostCall, RunFunction, MayCall, Available, Idle, searchVars
<1>2. ~ff.on
  BY <1>1 DEF IInv, SearchInv, SearchHasHandler
<1>3. Calling
  BY <1>1, <1>2 DEF Calling
<1>4. f \in Nat /\ modPos \in [1..Len(image) -> Nat]
  BY DEF IInv
<1>5. ResolutionError(Resolution(m, f)) = "none" => Argued(Resolution(m, f))
  <2>1. PICK target : target = Resolution(m, f)
    OBVIOUS
  <2>2. SUFFICES ASSUME ResolutionError(target) = "none", Signed(target)
                 PROVE  Argued(target)
    BY <2>1 DEF Argued
  <2>3. /\ Len(Params(target)) <= Len(operands.types)
        /\ \A i \in 1..Len(Params(target)) :
             operands.types[(Len(operands.types) - Len(Params(target))) + i]
               = Params(target)[i]
    BY <1>1, <2>1, <2>2 DEF ArgumentsFit, Params
  <2>4. Params(target) \in Seq(ValueType)
    BY <2>2, ParamsType DEF IInv, ResolutionError
  <2>5. PICK n \in Nat, k \in Nat : n = Len(Params(target)) /\ k = Len(operands.types)
    <3>1. operands.types \in Seq(ValueType)
      BY StateTyped DEF Typed
    <3> QED
      BY <2>4, <3>1
  <2>6. k - n \in 0..Len(operands.types)
    BY <2>3, <2>5
  <2>7. Under(k - n)
    BY <1>1, <2>6, HostUnder
  <2> QED
    BY <2>3, <2>5, <2>7 DEF Argued
<1> QED
  BY <1>1, <1>3, <1>4, <1>5, CalledSettled

\* What a host does that makes no call under another
LEMMA HostSettled ==
  ASSUME CarefulHost, IInv, IInv', Agree, ErrorsFit, GlobalsFit, Host
  PROVE  Settled
<1>1. CASE HostPush \/ HostPop
  BY <1>1, HostMovesSettled
<1>2. CASE HostStop
  <2>1. /\ UNCHANGED <<image, globals>> /\ pending = <<>> /\ pending' = <<>>
        /\ operands' = Stopped(operands) /\ DropCalls
    BY <1>2 DEF HostStop, Idle, searchVars
  <2> QED
    BY <2>1, StopSettled
<1>3. CASE FunctionReturned
  <2>1. UNCHANGED <<image, operands, callStack, labelStack, globals, pending>>
    BY <1>3 DEF FunctionReturned, contextVars, searchVars
  <2>2. Live' \subseteq Live /\ ErrorsFit'
    BY <2>1 DEF Live, Stale, ErrorsFit
  <2> QED
    BY <2>1, <2>2, SameSettled
<1>4. CASE ReportFailure
  <2>1. /\ UNCHANGED <<image, callStack, labelStack, globals, pending>>
        /\ pending = <<>>
        /\ operands' = [operands EXCEPT !.ok = TRUE]
    BY <1>4 DEF ReportFailure, searchVars
  <2>2. /\ operands'.types = operands.types /\ operands'.data = operands.data
        /\ operands'.error = operands.error
    BY <2>1 DEF IInv, OperandState
  <2>3. Live' \subseteq Live /\ ErrorsFit'
    BY <2>1, <2>2 DEF Live, Stale, ErrorsFit
  <2> QED
    BY <2>1, <2>2, <2>3, SameSettled
<1>5. CASE \E m \in 1..Len(image) : \E f \in 1..Len(image[m].functions) :
             HostCall(m, f) \/ RunFunction(m, f)
  BY <1>5, HostCallSettled
<1> QED
  BY <1>1, <1>2, <1>3, <1>4, <1>5 DEF Host

\* A careful host does not go on with a context that has failed, and stopping it
\* does not revive it.
LEMMA DeadSettled ==
  ASSUME CarefulHost, IInv, IInv', Dead, ErrorsFit, GlobalsFit, [Next]_vars
  PROVE  Settled
<1>1. /\ ~ff.on /\ pending = <<>> /\ operands.error # "none"
      /\ operands.ok => ~inRunLoop
  BY DEF Dead
<1>2. ~Stepping
  BY <1>1 DEF Stepping, Driven
<1>3. HostStop \/ FunctionReturned \/ ReportFailure \/ UNCHANGED vars
  <2>1. ~FetchFails /\ ~Execute /\ ~Skip
    BY <1>2 DEF FetchFails, Execute, Skip, Executes, Skips, Decodes,
       EnterBlock, EnterIf, Else, End, UnknownBlockType, Branch, BranchIf,
       BranchTable, Return, CallInstruction, CallIndirect, Nop, Unreachable,
       NotImplemented, Drop, Select, LocalGet, LocalSet, GlobalGet, GlobalSet,
       MemoryAccess, Const, Numeric, Extend, FindTarget, SkipInstruction, SkipBlock
  <2>2. ~Resume
    BY <1>1 DEF Resume, ResumeIf, ResumeBranch, ResumeElse, Resumes, SearchRunsOut,
       RetryIf, AbandonSearch
  <2>3. ~Available
    BY <1>1 DEF Available
  <2>4. ~HostPush /\ ~HostPop /\ ~\E m, f : HostCall(m, f) \/ RunFunction(m, f)
    BY <2>3 DEF HostPush, HostPop, HostCall, RunFunction, MayCall
  <2> QED
    BY <2>1, <2>2, <2>4 DEF Next, Interpret, Host
<1>4. /\ operands'.error = operands.error /\ UNCHANGED <<ff, pending, globals>>
      /\ operands'.ok => ~inRunLoop'
  <2>1. CASE HostStop
    BY <1>1, <2>1 DEF HostStop, Idle, Stopped, searchVars, IInv, OperandState
  <2>2. CASE FunctionReturned
    BY <2>2 DEF FunctionReturned, contextVars, searchVars
  <2>3. CASE ReportFailure
    BY <2>3 DEF ReportFailure, searchVars, IInv, OperandState
  <2>4. CASE UNCHANGED vars
    BY <1>1, <2>4 DEF vars
  <2> QED
    BY <1>3, <2>1, <2>2, <2>3, <2>4
<1>5. Dead' /\ ErrorsFit' /\ GlobalsFit'
  BY <1>1, <1>4 DEF Dead, ErrorsFit, GlobalsFit
<1>6. CallKeepsToItsOperands
  BY <1>1, <1>4 DEF CallKeepsToItsOperands
<1> QED
  BY <1>5, <1>6 DEF Settled, SInv

\* Every instruction keeps the stacks in agreement.
LEMMA ExecuteSettled ==
  ASSUME IInv, IInv', Agree, ErrorsFit, GlobalsFit, SearchPlace, SkipsPlainly, ValidSteps,
         FetchFails \/ Execute \/ Skip
  PROVE  Settled
<1>1. OperandsFit /\ LabelsNest /\ SkipsNoTable
  BY DEF ValidSteps
<1>2. ~Select /\ ~Extend /\ ~CallIndirect
  <2>1. ~Executes({"select", "extend", "call_indirect"})
    BY <1>1 DEF OperandsFit
  <2> QED
    BY <2>1 DEF Select, Extend, CallIndirect, Executes, Decodes
<1>3. CASE \/ FetchFails \/ Skip \/ UnknownBlockType \/ Else
           \/ Nop \/ Unreachable \/ NotImplemented
  BY <1>3, PlainSettled DEF Skip
<1>4. CASE EnterBlock \/ EnterIf \/ End \/ Return
  BY <1>1, <1>4, EnterBlockSettled, EnterIfSettled, EndSettled
<1>5. CASE Branch \/ BranchIf \/ BranchTable
  BY <1>1, <1>5, BranchSettled
<1>6. CASE CallInstruction
  BY <1>1, <1>6, CallInstructionSettled
<1>7. CASE Drop \/ LocalGet \/ LocalSet \/ GlobalGet \/ GlobalSet \/ Const
  BY <1>1, <1>7, DropSettled, GetSettled, LocalSetSettled, GlobalSetSettled
<1>8. CASE MemoryAccess \/ Numeric
  BY <1>1, <1>8, MemorySettled, NumericSettled
<1> QED
  BY <1>2, <1>3, <1>4, <1>5, <1>6, <1>7, <1>8 DEF Execute

\* And so does every step, while what it needs is in its place.
LEMMA NextSettled ==
  ASSUME CarefulHost, IInv, IInv', SInv, SearchPlace, SkipsPlainly, ValidSteps,
         [Next]_vars
  PROVE  Settled
<1>1. ErrorsFit /\ GlobalsFit /\ (Agree \/ Dead)
  BY DEF SInv
<1>2. CASE Dead
  BY <1>1, <1>2, DeadSettled
<1>3. CASE Agree
  <2>1. CASE UNCHANGED vars
    <3>1. UNCHANGED <<image, operands, callStack, labelStack, globals, pending>>
      BY <2>1 DEF vars
    <3>2. Live' \subseteq Live /\ ErrorsFit'
      BY <1>1, <3>1 DEF Live, Stale, ErrorsFit
    <3> QED
      BY <1>1, <1>3, <3>1, <3>2, SameSettled
  <2>2. CASE Resume
    BY <1>1, <1>3, <2>2, ResumeSettled DEF ValidSteps
  <2>3. CASE FetchFails \/ Execute \/ Skip
    BY <1>1, <1>3, <2>3, ExecuteSettled
  <2>4. CASE Host
    BY <1>1, <1>3, <2>4, HostSettled
  <2> QED
    BY <2>1, <2>2, <2>3, <2>4 DEF Next, Interpret
<1> QED
  BY <1>1, <1>2, <1>3

\* The stacks of a new context are empty, and agree.
LEMMA InitSettled == Init => SInv
<1> SUFFICES ASSUME Init
             PROVE  SInv
  OBVIOUS
<1>1. /\ image \in Images /\ operands = NoOperands /\ callStack = <<>>
      /\ labelStack = <<>> /\ globals = [m \in 1..Len(image) |-> image[m].globals]
      /\ pending = <<>>
  BY DEF Init
<1>2. CellsBelow(callStack)[0] = 0
  <2>1. AllExist(<<>>)
    BY DEF AllExist
  <2> QED
    BY <1>1, <2>1, CellsAre
<1>3. Agree
  <2>1. StackSize(<<>>) = 0
    BY SizeShort
  <2>2. Live = {}
    BY <1>1 DEF Live
  <2>3. /\ View.calls = <<>> /\ View.labels = <<>> /\ View.live = {}
        /\ View.types = <<>> /\ View.size = 0 /\ View.cells[0] = 0
    BY <1>1, <1>2, <2>2 DEF View, NoOperands
  <2>4. InOrder(View)
    BY <2>3 DEF InOrder
  <2> QED
    BY <2>1, <2>3, <2>4 DEF Agree, Agrees
<1>4. ErrorsFit
  BY <1>1 DEF ErrorsFit, NoOperands
<1>5. GlobalsFit
  <2>1. \A m \in 1..Len(image) : ConstantsFit(image[m])
    BY <1>1, ImageType
  <2>2. \A m \in 1..Len(image) : \A g \in 1..Len(image[m].globals) :
          Len(image[m].globals[g].cells) = TypeSize(image[m].globals[g].type)
    BY <2>1 DEF ConstantsFit
  <2>3. image \in Seq(Module)
    BY <1>1, ImageType
  <2>4. PICK n \in Nat : n = Len(image)
    BY <2>3
  <2>5. Len(globals) = n /\ \A m \in 1..n : globals[m] = image[m].globals
    BY <1>1, <2>4
  <2> QED
    BY <2>2, <2>4, <2>5 DEF GlobalsFit
<1> QED
  BY <1>3, <1>4, <1>5 DEF SInv

-----------------------------------------------------------------------------
(***************************************************************************)
(* What follows of valid code.                                             *)
(***************************************************************************)

\* The inductive invariant, with those of the calls and of the searches
LEMMA StacksInvariance ==
  ASSUME CarefulHost
  PROVE  Spec /\ []SkipsPlainly /\ []ValidSteps => [](IInv /\ SearchPlace /\ SInv)
<1>1. Init => SearchPlace
  BY DEF Init, SearchPlace
<1>2. IInv /\ SearchPlace /\ SkipsPlainly /\ [Next]_vars => SearchPlace'
  BY NextPlace
<1>3. IInv /\ IInv' /\ SInv /\ SearchPlace /\ SkipsPlainly /\ ValidSteps /\ [Next]_vars
        => SInv'
  BY NextSettled DEF Settled
<1> QED
  BY <1>1, <1>2, <1>3, InitSettled, Invariance, PTL DEF Spec

\* While nothing has failed, the value stack has the cells of the types on the
\* type stack and of the locals of the calls, no more and no less: pushes and pops
\* of the two stacks, the clean-ups of branches and returns, and calls all agree.
THEOREM StacksAlwaysAgree ==
  ASSUME CarefulHost
  PROVE  Spec /\ []SkipsPlainly /\ []ValidSteps => []StacksAgree
<1>1. SInv => StacksAgree
  BY DEF SInv, Agree, Agrees, View, LocalCells, Dead, StacksAgree
<1> QED
  BY <1>1, StacksInvariance, PTL

\* No instruction of valid code fails for want of operands: those that the type
\* stack promises are there when a pop asks for their cells.
THEOREM OperandsAreThere ==
  ASSUME CarefulHost
  PROVE  Spec /\ []SkipsPlainly /\ []ValidSteps => []NoOperandErrors
<1>1. SInv => NoOperandErrors
  BY DEF SInv, ErrorsFit, NoOperandErrors
<1> QED
  BY <1>1, StacksInvariance, PTL

\* No step of a call changes what its callers have on the stacks: neither a pop,
\* nor a write to a local, nor the clean-up of a branch out of any of its blocks.
THEOREM CallersOperandsKept ==
  ASSUME CarefulHost
  PROVE  Spec /\ []SkipsPlainly /\ []ValidSteps => CallsKeepToTheirOperands
<1>1. IInv /\ IInv' /\ SInv /\ SearchPlace /\ SkipsPlainly /\ ValidSteps /\ [Next]_vars
        => [CallKeepsToItsOperands]_vars
  BY NextSettled DEF Settled
<1> QED
  BY <1>1, StacksInvariance, PTL DEF Spec, CallsKeepToTheirOperands

\* The cells on top of the stack are the same after a clean-up.
LEMMA ReturnedResults ==
  ASSUME IInv, callStack # <<>>, NEW positions, ReturnFromFunction(operands, positions),
         NEW size, size = StackSize(active.results),
         LET extra == (Len(operands.data) - active.valueBase) - size
         IN extra = 0 \/ extra >= size
  PROVE  TopCells(operands', size) = TopCells(operands, size)
<1>1. active \in ActiveCall /\ operands \in OperandState
  BY DEF IInv, CallsInv
<1>2. size \in Nat
  BY <1>1, StackSizeType DEF ActiveCall
<1>3. PICK base \in Nat : base = active.valueBase
  BY <1>1 DEF ActiveCall
<1>4. PICK data \in Seq(Cell) : data = operands.data
  BY <1>1 DEF OperandState
<1>5. PICK n \in Nat : n = Len(data)
  OBVIOUS
<1>6. n = base + size \/ n >= base + (size + size)
  <2>1. (n - base) - size = 0 \/ (n - base) - size >= size
    BY <1>3, <1>4, <1>5
  <2> QED
    BY <1>2, <2>1
<1>7. PICK kept : kept = KeepTop(data, base, size)
  OBVIOUS
<1>8. /\ kept \in Seq(Cell) /\ Len(kept) = base + size
      /\ SubSeq(kept, base + 1, base + size) = SubSeq(data, (n - size) + 1, n)
  BY <1>2, <1>5, <1>6, <1>7, KeepTopExact
<1>9. operands'.data = kept
  <2>1. PICK r \in Returned(operands) : operands' = r
    BY DEF ReturnFromFunction, PopCall
  <2>2. \A types : [operands EXCEPT !.data = kept, !.types = types].data = kept
    BY <1>1 DEF OperandState
  <2> QED
    BY <1>3, <1>4, <1>7, <2>1, <2>2 DEF Returned
<1>10. TopCells(operands', size) = SubSeq(kept, base + 1, base + size)
  <2>1. ~(base + size < size) /\ ((base + size) - size) + 1 = base + 1
    BY <1>2
  <2> QED
    BY <1>8, <1>9, <2>1 DEF TopCells
<1>11. TopCells(operands, size) = SubSeq(data, (n - size) + 1, n)
  <2>1. ~(n < size)
    BY <1>2, <1>6
  <2> QED
    BY <1>4, <1>5, <2>1 DEF TopCells
<1> QED
  BY <1>8, <1>10, <1>11

\* The caller finds on the stack the results that its callee has left, wherever
\* the callee has returned from, though the clean-up moves no more cells than it
\* drops: if it drops any, they are no fewer than the results.
THEOREM ResultsReturned == Spec /\ []ResultsFit => ResultsSurviveReturn
<1>1. IInv /\ ResultsFit /\ Returns
        => LET n == StackSize(active.results)
           IN TopCells(operands', n) = TopCells(operands, n)
  <2> SUFFICES ASSUME IInv, ResultsFit, Returns
               PROVE  LET n == StackSize(active.results)
                      IN TopCells(operands', n) = TopCells(operands, n)
    OBVIOUS
  <2>1. callStack # <<>> /\ callStack' # callStack
    <3>1. callStack \in Seq(Call) /\ Len(callStack') = Len(callStack) - 1
      BY DEF Returns, IInv, CallsInv
    <3> QED
      BY <3>1 DEF Returns
  <2>2. MayReturn /\ \E positions : ReturnFromFunction(operands, positions)
    <3>1. CASE Return
      BY <3>1 DEF Return, MayReturn
    <3>2. CASE End
      BY <2>1, <3>2 DEF End, LeaveBlock, MayReturn
    <3>3. CASE ResumeElse
      BY <2>1, <3>3 DEF ResumeElse, Resumes, LeaveBlock, MayReturn
    <3> QED
      BY <3>1, <3>2, <3>3 DEF Returns
  <2> QED
    BY <2>1, <2>2, ReturnedResults DEF ResultsFit
<1> QED
  BY <1>1, Invariance, PTL DEF Spec, ResultsSurviveReturn
=============================================================================
