------------------------ MODULE InterpreterProofs ---------------------------
(***************************************************************************)
(* What holds of the interpreter whatever code it executes and whatever    *)
(* its host does: the properties of the first group of                     *)
(* InterpreterProperties, by the inductive invariant IInv.                 *)
(*                                                                         *)
(* IInv has the type of every variable, the agreement of the call stack,   *)
(* the label stack and the cache (CallsInv) and that of the search with    *)
(* the handlers that wait for it (SearchInv). None is inductive alone: a   *)
(* label may be taken off only if the labels are in the order of their     *)
(* calls, an instruction is fetched from the module that the cache names,  *)
(* and a call returns to one that has to exist.                            *)
(*                                                                         *)
(* The lemmas go from the bottom up: what the operations on the operand    *)
(* stacks return, what those on calls and labels do to CallsInv, and then  *)
(* the handlers one by one.                                                *)
(***************************************************************************)
EXTENDS InterpreterProperties, SequenceTheorems, FiniteSetTheorems, TLAPS

-----------------------------------------------------------------------------
(***************************************************************************)
(* What the operations on the operand stacks return.                       *)
(***************************************************************************)

\* The size of any types is a number of cells.
LEMMA StackSizeType ==
  ASSUME NEW ts \in Seq(ValueType)
  PROVE  StackSize(ts) \in Nat
<1> DEFINE wide == {i \in 1..Len(ts) : TypeSize(ts[i]) = 2}
<1>1. IsFiniteSet(1..Len(ts))
  BY FS_Interval
<1>2. IsFiniteSet(wide)
  BY <1>1, FS_Subset
<1> QED
  BY <1>2, FS_CardinalityType DEF StackSize

\* A value takes one or two cells.
LEMMA TypeSizeType == \A t : TypeSize(t) \in {1, 2}
BY DEF TypeSize

\* A repeated item is a sequence.
LEMMA RepeatType ==
  ASSUME NEW S, NEW x \in S, NEW n \in Nat
  PROVE  /\ Repeat(x, n) \in Seq(S)
         /\ Len(Repeat(x, n)) = n
BY DEF Repeat

\* An array that is read or written past its end grows by unknown cells.
LEMMA GrownType ==
  ASSUME NEW S, NEW array \in Seq(S), NEW n \in Nat
  PROVE  /\ Grown(array, n) \in Seq(S \cup {Unknown})
         /\ Len(Grown(array, n)) >= n
         /\ Len(Grown(array, n)) >= Len(array)
         /\ \A i \in 1..Len(array) : Grown(array, n)[i] = array[i]
<1>1. array \in Seq(S \cup {Unknown})
  BY SeqMonotonic
<1>2. CASE Len(array) >= n
  BY <1>1, <1>2 DEF Grown
<1>3. CASE Len(array) < n
  <2> DEFINE k == n - Len(array)
  <2>1. k \in Nat
    BY <1>3
  <2>2. Repeat(Unknown, k) \in Seq(S \cup {Unknown}) /\ Len(Repeat(Unknown, k)) = k
    BY <2>1, RepeatType
  <2>3. Grown(array, n) = array \o Repeat(Unknown, k)
    BY <1>3 DEF Grown
  <2> QED
    BY <1>1, <1>3, <2>1, <2>2, <2>3, ConcatProperties
<1> QED
  BY <1>2, <1>3

\* Reading n items gives n items: those of the array as far as it reaches.
LEMMA SliceType ==
  ASSUME NEW S, NEW array \in Seq(S), NEW position \in Nat, NEW n \in Nat
  PROVE  /\ Slice(array, position, n) \in Seq(S \cup {Unknown})
         /\ Len(Slice(array, position, n)) = n
         /\ \A i \in 1..n : position + i <= Len(array) =>
              Slice(array, position, n)[i] = array[position + i]
<1> DEFINE total == position + n
           grown == Grown(array, total)
<1>0. total \in Nat
  OBVIOUS
<1> HIDE DEF total
<1>1. /\ grown \in Seq(S \cup {Unknown})
      /\ Len(grown) >= total
      /\ Len(grown) >= Len(array)
      /\ \A i \in 1..Len(array) : grown[i] = array[i]
  BY <1>0, GrownType
<1> HIDE DEF grown
<1> USE DEF total
<1>2. Slice(array, position, n) = SubSeq(grown, position + 1, position + n)
  BY DEF Slice, grown
<1>3. /\ Len(SubSeq(grown, position + 1, position + n)) = n
      /\ \A i \in 1..n :
           SubSeq(grown, position + 1, position + n)[i] = grown[position + i]
  BY <1>1
<1>4. SubSeq(grown, position + 1, position + n) \in Seq(S \cup {Unknown})
  BY <1>1
<1>5. ASSUME NEW i \in 1..n, position + i <= Len(array)
      PROVE  SubSeq(grown, position + 1, position + n)[i] = array[position + i]
  <2>1. position + i \in 1..Len(array)
    BY <1>5
  <2> QED
    BY <1>1, <1>3, <2>1
<1> QED
  BY <1>2, <1>3, <1>4, <1>5, Zenon

\* Writing does not change the size of an array.
LEMMA OverwriteType ==
  ASSUME NEW S, NEW array \in Seq(S), NEW position \in Nat, NEW items \in Seq(S)
  PROVE  /\ Overwrite(array, position, items) \in Seq(S)
         /\ Len(Overwrite(array, position, items)) = Len(array)
         /\ \A i \in 1..Len(array) :
              Overwrite(array, position, items)[i] =
                IF i \in (position + 1)..(position + Len(items))
                THEN items[i - position] ELSE array[i]
BY DEF Overwrite

\* A clean-up keeps as many items as it should, and if there were enough of
\* them it makes none up.
LEMMA KeepTopType ==
  ASSUME NEW S, NEW array \in Seq(S), NEW base \in Nat, NEW size \in Nat,
         Unknown \in S \/ base + size <= Len(array)
  PROVE  /\ KeepTop(array, base, size) \in Seq(S)
         /\ Len(KeepTop(array, base, size)) = base + size
<1> DEFINE T       == S \cup {Unknown}
           dropped == (Len(array) - base) - size
           slice   == Slice(array, base + dropped, dropped)
           moved   == IF dropped > 0 THEN Overwrite(array, base, slice)
                      ELSE array
<1>1. array \in Seq(T)
  BY SeqMonotonic
<1>2. /\ moved \in Seq(T)
      /\ Len(moved) = Len(array)
      /\ \A i \in 1..(base + size) : i <= Len(array) => moved[i] \in S
  <2>1. CASE dropped > 0
    <3>1. /\ slice \in Seq(T)
          /\ Len(slice) = dropped
          /\ \A i \in 1..dropped : (base + dropped) + i <= Len(array) =>
               slice[i] = array[(base + dropped) + i]
      <4>1. base + dropped \in Nat /\ dropped \in Nat
        BY <2>1
      <4> HIDE DEF dropped
      <4> QED
        BY <4>1, SliceType
    <3> HIDE DEF slice
    <3>2. /\ moved \in Seq(T)
          /\ Len(moved) = Len(array)
          /\ \A i \in 1..Len(array) :
               moved[i] = IF i \in (base + 1)..(base + Len(slice))
                          THEN slice[i - base] ELSE array[i]
      BY <1>1, <2>1, <3>1, OverwriteType
    <3> HIDE DEF moved
    <3>3. ASSUME NEW i \in 1..(base + size), i <= Len(array)
          PROVE  moved[i] \in S
      <4>1. CASE i \in (base + 1)..(base + dropped)
        <5>1. i - base \in 1..dropped /\ (base + dropped) + (i - base) <= Len(array)
          BY <3>3, <4>1
        <5>2. slice[i - base] = array[(base + dropped) + (i - base)]
          BY <3>1, <5>1
        <5>3. (base + dropped) + (i - base) \in 1..Len(array)
          BY <5>1, <2>1
        <5>4. moved[i] = slice[i - base]
          BY <3>1, <3>2, <3>3, <4>1
        <5> QED
          BY <5>2, <5>3, <5>4, ElementOfSeq
      <4>2. CASE i \notin (base + 1)..(base + dropped)
        BY <3>1, <3>2, <3>3, <4>2, ElementOfSeq
      <4> QED
        BY <4>1, <4>2
    <3> QED
      BY <3>2, <3>3
  <2>2. CASE ~(dropped > 0)
    BY <1>1, <2>2, ElementOfSeq
  <2> QED
    BY <2>1, <2>2
<1> HIDE DEF moved
<1>3. KeepTop(array, base, size) = Slice(moved, 0, base + size)
  BY DEF KeepTop, moved
<1>4. /\ KeepTop(array, base, size) \in Seq(T \cup {Unknown})
      /\ Len(KeepTop(array, base, size)) = base + size
      /\ \A i \in 1..(base + size) : 0 + i <= Len(moved) =>
           KeepTop(array, base, size)[i] = moved[0 + i]
  <2> DEFINE n == base + size
             z == 0
  <2>1. moved \in Seq(T) /\ n \in Nat /\ z \in Nat
    BY <1>2
  <2> HIDE DEF T, n, z
  <2>2. /\ Slice(moved, z, n) \in Seq(T \cup {Unknown})
        /\ Len(Slice(moved, z, n)) = n
        /\ \A i \in 1..n : z + i <= Len(moved) =>
             Slice(moved, z, n)[i] = moved[z + i]
    BY <2>1, SliceType, ZenonT(60)
  <2> QED
    BY <1>3, <2>2 DEF n, z
<1>5. ASSUME NEW i \in 1..(base + size)
      PROVE  KeepTop(array, base, size)[i] \in S
  <2>1. CASE i <= Len(array)
    BY <1>2, <1>4, <2>1
  <2>2. CASE i > Len(array)
    <3>1. Unknown \in S
      BY <2>2
    <3> QED
      BY <1>4, <3>1, ElementOfSeq
  <2> QED
    BY <2>1, <2>2
<1> QED
  BY <1>4, <1>5, IsASeq, LenProperties

-----------------------------------------------------------------------------
(***************************************************************************)
(* Every operation on an operand state returns one.                        *)
(***************************************************************************)

\* Setting the error state, failing or not
LEMMA ErrorTypes ==
  ASSUME NEW s \in OperandState, NEW e \in ErrorState
  PROVE  /\ SetError(s, e) \in OperandState
         /\ Fail(s, e) \in OperandState
         /\ ~Fail(s, e).ok
BY DEF SetError, Fail, OperandState

\* Pushing a type, cells, or both
LEMMA PushTypes ==
  ASSUME NEW s \in OperandState, NEW t \in ValueType, NEW cells \in Seq(Cell)
  PROVE  /\ PushType(s, t) \in OperandState
         /\ PushCells(s, cells) \in OperandState
         /\ PushCells(s, cells).ok = s.ok
         /\ PushCells(s, cells).types = s.types
         /\ PushValue(s, t, cells) \in OperandState
<1>1. ASSUME NEW r \in OperandState
      PROVE  PushType(r, t) \in OperandState
  <2>1. Append(r.types, t) \in Seq(ValueType)
    BY AppendProperties DEF OperandState
  <2> QED
    BY <2>1 DEF PushType, OperandState
<1>2. /\ PushCells(s, cells) \in OperandState
      /\ PushCells(s, cells).ok = s.ok
      /\ PushCells(s, cells).types = s.types
  <2>1. s.data \o cells \in Seq(Cell)
    BY ConcatProperties DEF OperandState
  <2> QED
    BY <2>1 DEF PushCells, OperandState
<1> QED
  BY <1>1, <1>2 DEF PushValue

\* Popping a type or some cells: the type popped is one, and the cells popped
\* are as many as were asked for.
LEMMA PopTypes ==
  ASSUME NEW s \in OperandState, NEW n \in Nat
  PROVE  /\ PopType(s) \in OperandState
         /\ PopCells(s, n) \in OperandState
         /\ TopType(s) \in ValueType
         /\ TopCells(s, n) \in Seq(Cell)
         /\ Len(TopCells(s, n)) = n
<1> USE DEF OperandState
<1>1. s.types # <<>> => SubSeq(s.types, 1, Len(s.types) - 1) \in Seq(ValueType)
  OBVIOUS
<1>2. PopType(s) \in OperandState
  BY <1>1 DEF PopType, SetError, ErrorState
<1>3. Len(s.data) >= n => SubSeq(s.data, 1, Len(s.data) - n) \in Seq(Cell)
  OBVIOUS
<1>4. PopCells(s, n) \in OperandState
  <2>1. SetError(s, "stack_underflow") \in OperandState
    BY ErrorTypes DEF ErrorState
  <2>2. Len(s.data) >= n =>
          [s EXCEPT !.data = SubSeq(@, 1, Len(@) - n)] \in OperandState
    BY <1>3
  <2>3. Len(s.data) \in Nat
    OBVIOUS
  <2> QED
    BY <2>1, <2>2, <2>3 DEF PopCells
<1>5. TopType(s) \in ValueType
  BY DEF TopType, ValueType
<1>6. Repeat(0, n) \in Seq(Cell) /\ Len(Repeat(0, n)) = n
  BY RepeatType DEF Cell
<1>7. Len(s.data) >= n =>
        /\ SubSeq(s.data, Len(s.data) - n + 1, Len(s.data)) \in Seq(Cell)
        /\ Len(SubSeq(s.data, Len(s.data) - n + 1, Len(s.data))) = n
  OBVIOUS
<1> QED
  BY <1>2, <1>4, <1>5, <1>6, <1>7 DEF TopCells

\* A pop whose type is asserted
LEMMA PopTypedType ==
  ASSUME NEW s \in OperandState, NEW t \in ValueType
  PROVE  PopTyped(s, t) \in OperandState
<1> DEFINE popped == PopType(PopCells(s, TypeSize(t)))
<1>1. popped \in OperandState
  BY PopTypes, TypeSizeType
<1>2. Fail(popped, "type_mismatch") \in OperandState
  BY <1>1, ErrorTypes DEF ErrorState
<1>3. s.ok \in BOOLEAN
  BY DEF OperandState
<1> HIDE DEF popped
<1> QED
  BY <1>1, <1>2, <1>3 DEF PopTyped, popped

\* The pops of an instruction
LEMMA PopOperandsType ==
  ASSUME NEW s \in OperandState, NEW ts \in Seq(ValueType)
  PROVE  PopOperands(s, ts) \in OperandState
<1>1. CASE Len(ts) = 0
  BY <1>1 DEF PopOperands
<1>2. CASE Len(ts) = 1
  <2>1. ts[1] \in ValueType
    BY <1>2
  <2> QED
    BY <1>2, <2>1, PopTypedType DEF PopOperands
<1>3. CASE Len(ts) >= 2
  <2>1. ts[1] \in ValueType /\ ts[2] \in ValueType
    BY <1>3
  <2>2. PopOperands(s, ts) = PopTyped(PopTyped(s, ts[1]), ts[2])
    BY <1>3 DEF PopOperands
  <2> QED
    BY <2>1, <2>2, PopTypedType
<1>4. Len(ts) = 0 \/ Len(ts) = 1 \/ Len(ts) >= 2
  <2>1. \A n \in Nat : n = 0 \/ n = 1 \/ n >= 2
    OBVIOUS
  <2>2. Len(ts) \in Nat
    BY LenProperties
  <2> QED
    BY <2>1, <2>2, Zenon
<1> QED
  BY <1>1, <1>2, <1>3, <1>4

\* A cell is true, false or either.
LEMMA TruthType == \A cell : Truth(cell) \subseteq BOOLEAN
BY DEF Truth

-----------------------------------------------------------------------------
(***************************************************************************)
(* The modules of the context.                                             *)
(***************************************************************************)

\* The modules of the context are modules, with host functions that fit them.
LEMMA ImageType ==
  ASSUME image \in Images
  PROVE  /\ image \in Seq(Module)
         /\ \A m \in 1..Len(image) : NativesFit(image[m]) /\ ConstantsFit(image[m])
BY ContextAssumption

\* The parts of a module
LEMMA ModuleType ==
  ASSUME image \in Images, NEW m \in 1..Len(image)
  PROVE  /\ image[m].code \in Seq(Instruction)
         /\ image[m].signatures \in Seq(Signature)
         /\ image[m].functions \in Seq(Function)
         /\ image[m].imports \in Seq(Import)
         /\ image[m].tables \in Seq(Seq(Nat))
         /\ image[m].globals \in Seq(Global)
<1>1. image[m] \in Module
  BY ImageType, ElementOfSeq
<1> QED
  BY <1>1 DEF Module

\* The function and the signature of a call that exists
LEMMA CallType ==
  ASSUME image \in Images, NEW call, CallExists(call)
  PROVE  /\ FunctionOf(call) \in Function
         /\ SignatureOf(call) \in Signature
<1>1. /\ call.module \in 1..Len(image)
      /\ call.function \in 1..Len(image[call.module].functions)
      /\ FunctionOf(call).signature \in 1..Len(image[call.module].signatures)
  BY DEF CallExists
<1>2. /\ image[call.module].signatures \in Seq(Signature)
      /\ image[call.module].functions \in Seq(Function)
  BY <1>1, ModuleType
<1> QED
  BY <1>1, <1>2, ElementOfSeq DEF FunctionOf, SignatureOf

\* The information cached on a call that exists
LEMMA ActiveInfoType ==
  ASSUME image \in Images, NEW call \in Call, CallExists(call)
  PROVE  ActiveInfo(call) \in ActiveCall
<1> DEFINE types == SignatureOf(call).params \o SignatureOf(call).results
                      \o FunctionOf(call).locals
           size(i) == StackSize(SubSeq(types, 1, i - 1))
<1>1. /\ SignatureOf(call).params \in Seq(ValueType)
      /\ SignatureOf(call).results \in Seq(ValueType)
      /\ FunctionOf(call).locals \in Seq(ValueType)
  BY CallType DEF Signature, Function
<1>2. types \in Seq(ValueType)
  BY <1>1, ConcatProperties
<1> HIDE DEF types
<1>3. ASSUME NEW i \in 1..Len(types)
      PROVE  size(i) \in Nat /\ types[i] \in ValueType
  <2>1. SubSeq(types, 1, i - 1) \in Seq(ValueType)
    BY <1>2
  <2>2. size(i) \in Nat
    BY <2>1, StackSizeType, Zenon
  <2>3. types[i] \in ValueType
    BY <1>2, ElementOfSeq
  <2> QED
    BY <2>2, <2>3
<1>4. call.valueBase \in Nat /\ call.typeBase \in Nat
      /\ call.module \in Nat /\ call.function \in Nat
  BY DEF Call
<1> HIDE DEF size
<1>5. StackLocals(call) = [i \in 1..Len(types) |->
          [position |-> call.valueBase + size(i), type |-> types[i]]]
  BY DEF StackLocals, types, size
<1>6. ASSUME NEW i \in 1..Len(types)
      PROVE  [position |-> call.valueBase + size(i), type |-> types[i]] \in Slot
  BY <1>3, <1>4 DEF Slot
<1>7. StackLocals(call) \in [1..Len(types) -> Slot]
  BY <1>5, <1>6
<1>8. Len(types) \in Nat
  BY <1>2
<1>9. StackLocals(call) \in Seq(Slot)
  BY <1>7, <1>8, IsASeq
<1> QED
  BY <1>1, <1>4, <1>9 DEF ActiveInfo, ActiveCall

-----------------------------------------------------------------------------
(***************************************************************************)
(* The calls, their labels and the information cached on the active one.   *)
(***************************************************************************)
CallsInv ==
  /\ callStack \in Seq(Call)
  /\ labelStack \in Seq(Label)
  /\ active \in ActiveCall
  /\ CallsExist
  /\ CacheCoherent
  /\ LabelsBelongToCalls

\* Positions saved in a call do not matter to the cache.
LEMMA SamePlace ==
  ASSUME NEW c \in Call, NEW d \in Call,
         d.module = c.module, d.function = c.function,
         d.typeBase = c.typeBase, d.valueBase = c.valueBase
  PROVE  /\ ActiveInfo(d) = ActiveInfo(c)
         /\ CallExists(d) <=> CallExists(c)
<1>1. FunctionOf(d) = FunctionOf(c)
  BY DEF FunctionOf
<1>2. SignatureOf(d) = SignatureOf(c)
  BY <1>1 DEF SignatureOf
<1>3. StackLocals(d) = StackLocals(c)
  BY <1>1, <1>2 DEF StackLocals
<1> QED
  BY <1>1, <1>2, <1>3 DEF ActiveInfo, CallExists

\* A call that is suspended stays as it was, but for its position.
LEMMA SuspendedType ==
  ASSUME CallsInv, image \in Images,
         NEW positions \in [1..Len(image) -> Nat], NEW m \in 1..Len(image)
  PROVE  LET calls == Suspended(positions, m) IN
         /\ calls \in Seq(Call)
         /\ Len(calls) = Len(callStack)
         /\ \A n \in 1..Len(callStack) :
              /\ ActiveInfo(calls[n]) = ActiveInfo(callStack[n])
              /\ CallExists(calls[n]) <=> CallExists(callStack[n])
<1> DEFINE calls == Suspended(positions, m)
<1>0. callStack \in Seq(Call)
  BY DEF CallsInv
<1>1. CASE callStack = <<>>
  BY <1>1 DEF Suspended
<1>2. CASE callStack # <<>>
  <2>1. Len(callStack) \in 1..Len(callStack)
    BY <1>0, <1>2
  <2>2. positions[m] \in Nat
    OBVIOUS
  <2>3. calls = [callStack EXCEPT ![Len(callStack)] =
                   [callStack[Len(callStack)] EXCEPT !.position = positions[m]]]
    BY <1>2 DEF Suspended
  <2>4. callStack[Len(callStack)] \in Call
    BY <1>0, <2>1, ElementOfSeq
  <2>5. [callStack[Len(callStack)] EXCEPT !.position = positions[m]] \in Call
    BY <2>2, <2>4 DEF Call
  <2>6. /\ calls \in Seq(Call)
        /\ Len(calls) = Len(callStack)
        /\ \A n \in 1..Len(callStack) :
             calls[n] = IF n = Len(callStack)
                        THEN [callStack[n] EXCEPT !.position = positions[m]]
                        ELSE callStack[n]
    BY <1>0, <2>1, <2>3, <2>5, ExceptSeq
  <2>7. ASSUME NEW n \in 1..Len(callStack)
        PROVE  /\ ActiveInfo(calls[n]) = ActiveInfo(callStack[n])
               /\ CallExists(calls[n]) <=> CallExists(callStack[n])
    <3>1. callStack[n] \in Call /\ calls[n] \in Call
      BY <1>0, <2>6, ElementOfSeq
    <3>2. /\ calls[n].module = callStack[n].module
          /\ calls[n].function = callStack[n].function
          /\ calls[n].typeBase = callStack[n].typeBase
          /\ calls[n].valueBase = callStack[n].valueBase
      BY <2>6, <3>1 DEF Call
    <3> HIDE DEF calls
    <3> QED
      BY <3>1, <3>2, SamePlace
  <2> QED
    BY <2>6, <2>7
<1> QED
  BY <1>1, <1>2

\* A call has the same function and the same cached information as before,
\* since a context's modules do not change while it executes.
LEMMA InfoStays ==
  ASSUME image' = image, NEW c
  PROVE  /\ ActiveInfo(c)' = ActiveInfo(c)
         /\ CallExists(c)' <=> CallExists(c)
BY DEF ActiveInfo, StackLocals, FunctionOf, SignatureOf, CallExists

\* A step that leaves calls and labels alone keeps them in agreement.
LEMMA CallsStay ==
  ASSUME CallsInv, UNCHANGED <<image, callStack, labelStack, active>>
  PROVE  CallsInv'
<1>1. \A c : /\ ActiveInfo(c)' = ActiveInfo(c)
             /\ CallExists(c)' <=> CallExists(c)
  BY InfoStays
<1>2. CallsExist'
  BY <1>1 DEF CallsInv, CallsExist
<1>3. CacheCoherent'
  BY <1>1 DEF CallsInv, CacheCoherent, Last
<1> QED
  BY <1>2, <1>3 DEF CallsInv, LabelsBelongToCalls

\* The labels a return keeps (wasmu_popCall) are those at the bottom of the
\* stack, and all are labels of the calls that are left.
LEMMA LabelsWithinType ==
  ASSUME NEW labels \in Seq(Label), NEW calls \in Seq(Call),
         \A i, j \in 1..Len(labels) :
           i <= j => labels[i].callIndex <= labels[j].callIndex
  PROVE  LET kept == LabelsWithin(labels, calls) IN
         /\ kept \in Seq(Label)
         /\ Len(kept) <= Len(labels)
         /\ \A i \in 1..Len(kept) : /\ kept[i] = labels[i]
                                    /\ kept[i].callIndex <= Len(calls)
<1> DEFINE reach == {i \in 1..Len(labels) :
                       \E j \in i..Len(labels) : labels[j].callIndex <= Len(calls)}
           k == Cardinality(reach)
<1>1. /\ IsFiniteSet(1..Len(labels))
      /\ Cardinality(1..Len(labels)) = Len(labels)
  <2>1. Len(labels) \in Nat
    BY LenProperties
  <2>2. \A n \in Nat : /\ IsFiniteSet(1..n)
                       /\ Cardinality(1..n) = IF 1 > n THEN 0 ELSE n - 1 + 1
    BY FS_Interval
  <2>3. \A n \in Nat : Cardinality(1..n) = n
    BY <2>2
  <2> QED
    BY <2>1, <2>2, <2>3
<1>2. IsFiniteSet(reach) /\ k \in Nat /\ k <= Len(labels)
  BY <1>1, FS_Subset, FS_CardinalityType
<1>3. ASSUME NEW i \in 1..k
      PROVE  labels[i].callIndex <= Len(calls)
  <2>1. i \in reach
    <3>1. SUFFICES ASSUME i \notin reach PROVE FALSE
      OBVIOUS
    <3>2. reach \subseteq 1..(i - 1)
      <4>1. SUFFICES ASSUME NEW m \in reach, m >= i PROVE FALSE
        BY <1>2
      <4>2. PICK j \in m..Len(labels) : labels[j].callIndex <= Len(calls)
        OBVIOUS
      <4>3. j \in i..Len(labels)
        BY <4>1
      <4> QED
        BY <1>2, <3>1, <4>2, <4>3
    <3>3. IsFiniteSet(1..(i - 1)) /\ Cardinality(1..(i - 1)) = i - 1
      BY FS_Interval
    <3>4. k <= i - 1
      BY <3>2, <3>3, FS_Subset
    <3> QED
      BY <1>2, <3>4
  <2>2. PICK j \in i..Len(labels) : labels[j].callIndex <= Len(calls)
    BY <2>1
  <2>3. labels[i].callIndex <= labels[j].callIndex
    BY <1>2, <2>2
  <2>4. labels[i] \in Label /\ labels[j] \in Label
    BY <1>2, <2>2, ElementOfSeq
  <2>5. labels[i].callIndex \in Nat /\ labels[j].callIndex \in Nat
    BY <2>4 DEF Label
  <2>6. Len(calls) \in Nat
    BY LenProperties
  <2> QED
    BY <2>2, <2>3, <2>5, <2>6
<1> HIDE DEF k
<1>4. LabelsWithin(labels, calls) = SubSeq(labels, 1, k)
  BY DEF LabelsWithin, k
<1>5. /\ SubSeq(labels, 1, k) \in Seq(Label)
      /\ Len(SubSeq(labels, 1, k)) = k
      /\ \A i \in 1..k : SubSeq(labels, 1, k)[i] = labels[i]
  BY <1>2
<1> QED
  BY <1>2, <1>3, <1>4, <1>5

\* Taking the last item off a sequence
LEMMA FrontType ==
  ASSUME NEW S, NEW seq \in Seq(S), seq # <<>>
  PROVE  /\ Front(seq) \in Seq(S)
         /\ Len(Front(seq)) = Len(seq) - 1
         /\ \A i \in 1..(Len(seq) - 1) : Front(seq)[i] = seq[i]
         /\ Last(seq) \in S
         /\ Len(seq) >= 1
BY DEF Front, Last

\* A call that is pushed (wasmu_pushCall) keeps calls, labels and cache in
\* agreement.
LEMMA CallEntered ==
  ASSUME CallsInv, image \in Images, UNCHANGED <<image, labelStack>>,
         NEW positions \in [1..Len(image) -> Nat], NEW m \in 1..Len(image),
         NEW call \in Call, CallExists(call), Len(callStack) < CallStackDepth,
         PushCall(Suspended(positions, m), call)
  PROVE  CallsInv'
<1> DEFINE calls == Suspended(positions, m)
<1>1. /\ calls \in Seq(Call)
      /\ Len(calls) = Len(callStack)
      /\ \A n \in 1..Len(callStack) : CallExists(calls[n]) <=> CallExists(callStack[n])
  BY SuspendedType
<1> HIDE DEF calls
<1>2. callStack' = Append(calls, call) /\ active' = ActiveInfo(call)
  BY DEF PushCall, calls
<1>3. /\ callStack' \in Seq(Call)
      /\ Len(callStack') = Len(callStack) + 1
      /\ \A n \in 1..Len(callStack) : callStack'[n] = calls[n]
      /\ callStack'[Len(callStack) + 1] = call
  BY <1>1, <1>2, AppendProperties
<1>4. /\ ActiveInfo(call)' = ActiveInfo(call)
      /\ \A c : CallExists(c)' <=> CallExists(c)
  BY InfoStays
<1>5. CallsExist'
  <2>1. Len(callStack) \in Nat /\ CallStackDepth \in Nat
    BY ContextAssumption DEF CallsInv
  <2>2. ASSUME NEW n \in 1..(Len(callStack) + 1)
        PROVE  CallExists(callStack'[n])
    BY <1>1, <1>3, <2>1, <2>2 DEF CallsInv, CallsExist
  <2> QED
    BY <1>3, <1>4, <2>1, <2>2 DEF CallsExist
<1>6. CacheCoherent'
  <2>1. callStack' # <<>> /\ Last(callStack') = call
    BY <1>3 DEF Last, CallsInv
  <2> QED
    BY <1>2, <1>4, <2>1 DEF CacheCoherent
<1>7. LabelsBelongToCalls'
  <2>1. LabelsBelongToCalls /\ Len(callStack) \in Nat /\ labelStack' = labelStack
    BY DEF CallsInv
  <2>2. 1..Len(callStack) \subseteq 1..Len(callStack')
    BY <1>3, <2>1
  <2>3. ASSUME NEW i \in 1..Len(labelStack)
        PROVE  labelStack[i].callIndex \in 1..Len(callStack')
    BY <2>1, <2>2 DEF LabelsBelongToCalls
  <2> QED
    BY <2>1, <2>3 DEF LabelsBelongToCalls
<1>8. active' \in ActiveCall
  BY <1>2, ActiveInfoType
<1> QED
  BY <1>3, <1>5, <1>6, <1>7, <1>8 DEF CallsInv

\* So does a call that fails once the position of its caller has been saved.
LEMMA CallSuspended ==
  ASSUME CallsInv, image \in Images, UNCHANGED <<image, labelStack, active>>,
         NEW positions \in [1..Len(image) -> Nat], NEW m \in 1..Len(image),
         callStack' = Suspended(positions, m)
  PROVE  CallsInv'
<1>1. /\ callStack' \in Seq(Call)
      /\ Len(callStack') = Len(callStack)
      /\ \A n \in 1..Len(callStack) :
           /\ ActiveInfo(callStack'[n]) = ActiveInfo(callStack[n])
           /\ CallExists(callStack'[n]) <=> CallExists(callStack[n])
  BY SuspendedType
<1>2. \A c : /\ ActiveInfo(c)' = ActiveInfo(c)
             /\ CallExists(c)' <=> CallExists(c)
  BY InfoStays
<1>3. CallsExist'
  BY <1>1, <1>2 DEF CallsInv, CallsExist
<1>4. CacheCoherent'
  <2>1. CASE callStack = <<>>
    <3>1. callStack' = <<>>
      BY <1>1, <2>1, EmptySeq
    <3> QED
      BY <2>1, <3>1 DEF CallsInv, CacheCoherent
  <2>2. CASE callStack # <<>>
    <3>1. Len(callStack) \in 1..Len(callStack) /\ callStack' # <<>>
      BY <1>1, <2>2 DEF CallsInv
    <3>2. active = ActiveInfo(callStack[Len(callStack)])
      BY <2>2 DEF CallsInv, CacheCoherent, Last
    <3>3. active' = ActiveInfo(callStack'[Len(callStack')])
      BY <1>1, <3>1, <3>2
    <3> QED
      BY <1>2, <3>1, <3>3 DEF CacheCoherent, Last
  <2> QED
    BY <2>1, <2>2
<1>5. LabelsBelongToCalls'
  BY <1>1 DEF LabelsBelongToCalls, CallsInv
<1> QED
  BY <1>1, <1>3, <1>4, <1>5 DEF CallsInv

\* Leaving the innermost call (wasmu_popCall) uncovers the one below it.
LEMMA CallPopped ==
  ASSUME CallsInv, image \in Images, image' = image, NEW s, PopCall(s)
  PROVE  CallsInv'
<1>1. CASE callStack = <<>>
  BY <1>1, CallsStay DEF PopCall
<1>2. CASE callStack # <<>>
  <2> DEFINE front == Front(callStack)
  <2>1. /\ front \in Seq(Call)
        /\ Len(front) = Len(callStack) - 1
        /\ \A n \in 1..(Len(callStack) - 1) : front[n] = callStack[n]
        /\ Len(callStack) \in Nat \ {0}
    BY <1>2, FrontType DEF CallsInv
  <2>2. /\ callStack' = front
        /\ labelStack' = LabelsWithin(labelStack, front)
        /\ active' = IF Len(callStack) = 1 THEN [active EXCEPT !.module = 0]
                     ELSE ActiveInfo(callStack[Len(callStack) - 1])
    BY <1>2 DEF PopCall
  <2> HIDE DEF front
  <2>3. \A c : /\ ActiveInfo(c)' = ActiveInfo(c)
               /\ CallExists(c)' <=> CallExists(c)
    BY InfoStays
  <2>4. CallsExist /\ LabelsBelongToCalls /\ labelStack \in Seq(Label)
        /\ active \in ActiveCall /\ callStack \in Seq(Call)
    BY DEF CallsInv
  <2>5. CallsExist'
    <3>1. CallStackDepth \in Nat
      BY ContextAssumption
    <3> QED
      BY <2>1, <2>2, <2>3, <2>4, <3>1 DEF CallsExist
  <2>6. CacheCoherent' /\ active' \in ActiveCall
    <3>1. CASE Len(callStack) = 1
      <4>1. callStack' = <<>>
        BY <2>1, <2>2, <3>1, EmptySeq
      <4>2. active' \in ActiveCall /\ active'.module = 0
        BY <2>2, <2>4, <3>1 DEF ActiveCall
      <4> QED
        BY <4>1, <4>2 DEF CacheCoherent
    <3>2. CASE Len(callStack) # 1
      <4>1. /\ callStack' # <<>>
            /\ Last(callStack') = callStack[Len(callStack) - 1]
            /\ Len(callStack) - 1 \in 1..Len(callStack)
        BY <2>1, <2>2, <3>2 DEF Last
      <4>2. callStack[Len(callStack) - 1] \in Call
        BY <2>4, <4>1, ElementOfSeq
      <4>3. CallExists(callStack[Len(callStack) - 1])
        BY <2>4, <4>1 DEF CallsExist
      <4>4. active' = ActiveInfo(Last(callStack')) /\ active' \in ActiveCall
        BY <2>2, <3>2, <4>1, <4>2, <4>3, ActiveInfoType
      <4> QED
        BY <2>3, <4>1, <4>4 DEF CacheCoherent
    <3> QED
      BY <3>1, <3>2
  <2>7. /\ labelStack' \in Seq(Label)
        /\ Len(labelStack') <= Len(labelStack)
        /\ \A i \in 1..Len(labelStack') : /\ labelStack'[i] = labelStack[i]
                                          /\ labelStack'[i].callIndex <= Len(front)
    BY <2>1, <2>2, <2>4, LabelsWithinType DEF LabelsBelongToCalls
  <2>8. LabelsBelongToCalls'
    <3>1. ASSUME NEW i \in 1..Len(labelStack')
          PROVE  i \in 1..Len(labelStack) /\ labelStack'[i].callIndex \in 1..Len(callStack')
      <4>1. i \in 1..Len(labelStack)
        BY <2>4, <2>7
      <4>2. labelStack[i].callIndex \in 1..Len(callStack)
        BY <2>4, <4>1 DEF LabelsBelongToCalls
      <4> QED
        BY <2>1, <2>2, <2>7, <4>1, <4>2
    <3> QED
      BY <2>4, <2>7, <3>1 DEF LabelsBelongToCalls
  <2> QED
    BY <2>1, <2>2, <2>5, <2>6, <2>7, <2>8 DEF CallsInv
<1> QED
  BY <1>1, <1>2

\* Stopping a context (wasmu_stop) leaves no call, no label and no active call.
LEMMA CallsDropped ==
  ASSUME CallsInv, DropCalls
  PROVE  CallsInv'
<1>1. /\ callStack' = <<>> /\ labelStack' = <<>>
      /\ active' = [active EXCEPT !.module = 0]
  BY DEF DropCalls
<1>2. active' \in ActiveCall /\ active'.module = 0
  BY <1>1 DEF CallsInv, ActiveCall
<1>3. CallsExist'
  BY <1>1, ContextAssumption DEF CallsExist
<1>4. CacheCoherent' /\ LabelsBelongToCalls'
  BY <1>1, <1>2 DEF CacheCoherent, LabelsBelongToCalls
<1> QED
  BY <1>1, <1>2, <1>3, <1>4 DEF CallsInv

\* The label of a block (wasmu_pushLabel) is one of the innermost call.
LEMMA LabelPushed ==
  ASSUME CallsInv, UNCHANGED <<image, callStack, active>>, callStack # <<>>,
         NEW op \in BlockOp, NEW results \in Seq(ValueType),
         NEW s \in OperandState, NEW position \in Nat,
         PushLabel(op, results, s, position)
  PROVE  CallsInv'
<1> DEFINE label ==
      [op |-> op, callIndex |-> Len(callStack), position |-> position,
       results |-> Len(results), resultsSize |-> StackSize(results),
       typeBase |-> Len(s.types), valueBase |-> Len(s.data)]
<1>1. label \in Label /\ label.callIndex = Len(callStack)
  <2>1. StackSize(results) \in Nat
    BY StackSizeType
  <2>2. Len(callStack) \in Nat /\ Len(s.types) \in Nat /\ Len(s.data) \in Nat
    BY DEF CallsInv, OperandState
  <2> QED
    BY <2>1, <2>2 DEF Label
<1>2. labelStack' = Append(labelStack, label)
  BY DEF PushLabel
<1> HIDE DEF label
<1>3. /\ labelStack' \in Seq(Label)
      /\ Len(labelStack') = Len(labelStack) + 1
      /\ \A i \in 1..Len(labelStack) : labelStack'[i] = labelStack[i]
      /\ labelStack'[Len(labelStack) + 1] = label
  BY <1>1, <1>2, AppendProperties DEF CallsInv
<1>4. Len(callStack) \in Nat \ {0} /\ Len(labelStack) \in Nat
  BY DEF CallsInv
<1>5. LabelsBelongToCalls'
  <2>1. ASSUME NEW i \in 1..Len(labelStack')
        PROVE  labelStack'[i].callIndex \in 1..Len(callStack)
    <3>1. CASE i = Len(labelStack) + 1
      BY <1>1, <1>3, <1>4, <3>1
    <3>2. CASE i # Len(labelStack) + 1
      <4>1. i \in 1..Len(labelStack)
        BY <1>3, <1>4, <3>2
      <4> QED
        BY <1>3, <4>1 DEF CallsInv, LabelsBelongToCalls
    <3> QED
      BY <3>1, <3>2
  <2>2. ASSUME NEW i \in 1..Len(labelStack'), NEW j \in 1..Len(labelStack'), i <= j
        PROVE  labelStack'[i].callIndex <= labelStack'[j].callIndex
    <3>1. CASE j = Len(labelStack) + 1
      BY <1>1, <1>3, <2>1, <3>1
    <3>2. CASE j # Len(labelStack) + 1
      BY <1>3, <1>4, <2>2, <3>2 DEF CallsInv, LabelsBelongToCalls
    <3> QED
      BY <3>1, <3>2
  <2> QED
    BY <2>1, <2>2 DEF LabelsBelongToCalls
<1>6. CallsExist' /\ CacheCoherent'
  <2>1. \A c : /\ ActiveInfo(c)' = ActiveInfo(c)
               /\ CallExists(c)' <=> CallExists(c)
    BY InfoStays
  <2> QED
    BY <2>1 DEF CallsInv, CallsExist, CacheCoherent, Last
<1> QED
  BY <1>3, <1>5, <1>6 DEF CallsInv

\* The label of a block that ends (wasmu_popLabel) is taken off.
LEMMA LabelPopped ==
  ASSUME CallsInv, UNCHANGED <<image, callStack, active>>, labelStack # <<>>,
         labelStack' = Front(labelStack)
  PROVE  CallsInv'
<1>1. /\ labelStack' \in Seq(Label)
      /\ Len(labelStack') = Len(labelStack) - 1
      /\ \A i \in 1..(Len(labelStack) - 1) : labelStack'[i] = labelStack[i]
      /\ Len(labelStack) \in Nat
  BY FrontType DEF CallsInv
<1>2. LabelsBelongToCalls'
  <2>1. ASSUME NEW i \in 1..Len(labelStack')
        PROVE  i \in 1..Len(labelStack) /\ labelStack'[i] = labelStack[i]
    BY <1>1
  <2> QED
    BY <2>1 DEF CallsInv, LabelsBelongToCalls
<1>3. CallsExist' /\ CacheCoherent'
  <2>1. \A c : /\ ActiveInfo(c)' = ActiveInfo(c)
               /\ CallExists(c)' <=> CallExists(c)
    BY InfoStays
  <2> QED
    BY <2>1 DEF CallsInv, CallsExist, CacheCoherent, Last
<1> QED
  BY <1>1, <1>2, <1>3 DEF CallsInv

-----------------------------------------------------------------------------
(***************************************************************************)
(* The operands of a call and of a return.                                 *)
(***************************************************************************)

\* The drop instruction and what runs on into it
LEMMA AfterType ==
  ASSUME NEW s \in OperandState, NEW via
  PROVE  /\ DropTop(s) \in OperandState
         /\ After(s, via) \in OperandState
<1>1. DropTop(s) \in OperandState
  <2> DEFINE size == TypeSize(TopType(s))
  <2>1. size \in Nat
    BY TypeSizeType
  <2> HIDE DEF size
  <2>2. PopType(s) \in OperandState
    BY <2>1, PopTypes
  <2>3. PopCells(PopType(s), size) \in OperandState
    BY <2>1, <2>2, PopTypes
  <2>4. Fail(PopType(s), "stack_underflow") \in OperandState
    BY <2>2, ErrorTypes DEF ErrorState
  <2> QED
    BY <2>3, <2>4 DEF DropTop, size
<1>2. SetError(s, "invalid_index") \in OperandState
  BY ErrorTypes DEF ErrorState
<1>3. s.ok \in BOOLEAN
  BY DEF OperandState
<1> HIDE DEF DropTop
<1> QED
  BY <1>1, <1>2, <1>3 DEF After

\* A host function's operands, for the short signatures it is written for
LEMMA NativeValuesType ==
  ASSUME NEW s \in OperandState, NEW signature \in Signature,
         Len(signature.params) <= 2
  PROVE  NativeValues(s, signature) \in OperandState
<1> DEFINE n      == Len(signature.params)
           params == [i \in 1..n |-> signature.params[n + 1 - i]]
           popped == PopOperands(s, params)
           result == signature.results[1]
<1>1. signature.params \in Seq(ValueType) /\ signature.results \in Seq(ValueType)
  BY DEF Signature
<1>2. params \in Seq(ValueType)
  BY <1>1
<1> HIDE DEF params
<1>3. popped \in OperandState
  BY <1>2, PopOperandsType
<1> HIDE DEF popped
<1>4. ASSUME signature.results # <<>>
      PROVE  PushValue(popped, result, Repeat(Unknown, TypeSize(result)))
               \in OperandState
  <2>1. result \in ValueType
    BY <1>1, <1>4
  <2>2. TypeSize(result) \in Nat /\ Unknown \in Cell
    BY TypeSizeType DEF Cell
  <2> HIDE DEF result
  <2>3. Repeat(Unknown, TypeSize(result)) \in Seq(Cell)
    BY <2>2, RepeatType
  <2> QED
    BY <1>3, <2>1, <2>3, PushTypes
<1> QED
  BY <1>3, <1>4 DEF NativeValues, popped, params

\* The operands with the locals of the function called: if the call is made,
\* there are enough of them for its parameters, and it is not too deep.
LEMMA PreparedType ==
  ASSUME NEW s \in OperandState, NEW fn \in Function,
         NEW signature \in Signature, callStack \in Seq(Call)
  PROVE  /\ Prepared(s, fn, signature) \in OperandState
         /\ Prepared(s, fn, signature).ok =>
              /\ Len(s.types) >= Len(signature.params)
              /\ Len(callStack) < CallStackDepth
<1> DEFINE pushed == PushCells(s, Repeat(0, StackSize(fn.locals)))
<1>1. pushed \in OperandState
  <2>1. StackSize(fn.locals) \in Nat
    BY StackSizeType DEF Function
  <2>2. Repeat(0, StackSize(fn.locals)) \in Seq(Cell)
    BY <2>1, RepeatType DEF Cell
  <2>3. "i32" \in ValueType
    BY DEF ValueType
  <2> QED
    BY <2>2, <2>3, PushTypes
<1>2. /\ Fail(pushed, "stack_underflow") \in OperandState
      /\ Fail(pushed, "depth_exceeded") \in OperandState
      /\ ~Fail(pushed, "stack_underflow").ok
      /\ ~Fail(pushed, "depth_exceeded").ok
  BY <1>1, ErrorTypes DEF ErrorState
<1>3. /\ Len(s.types) \in Nat /\ Len(signature.params) \in Nat
      /\ Len(callStack) \in Nat /\ CallStackDepth \in Nat
  BY ContextAssumption DEF OperandState, Signature
<1> HIDE DEF pushed
<1>4. Prepared(s, fn, signature) =
        IF Len(s.types) < Len(signature.params) THEN Fail(pushed, "stack_underflow")
        ELSE IF Len(callStack) >= CallStackDepth THEN Fail(pushed, "depth_exceeded")
        ELSE pushed
  BY DEF Prepared, pushed
<1> QED
  BY <1>1, <1>2, <1>3, <1>4

\* What wasmu_returnFromFunction leaves on the stacks
LEMMA ReturnedType ==
  ASSUME CallsInv, NEW s \in OperandState, NEW r \in Returned(s)
  PROVE  r \in OperandState
<1> DEFINE size == StackSize(active.results)
           data == KeepTop(s.data, active.valueBase, size)
<1>1. /\ active.results \in Seq(ValueType)
      /\ active.typeBase \in Nat /\ active.valueBase \in Nat
  BY DEF CallsInv, ActiveCall
<1>2. s.types \in Seq(ValueType) /\ s.data \in Seq(Cell)
  BY DEF OperandState
<1>3. data \in Seq(Cell)
  <2>1. size \in Nat /\ Unknown \in Cell
    BY <1>1, StackSizeType DEF Cell
  <2> HIDE DEF size
  <2> QED
    BY <1>1, <1>2, <2>1, KeepTopType
<1> HIDE DEF data
<1>4. ASSUME NEW types \in Restored(s.types, active.typeBase)
      PROVE  types \o active.results \in Seq(ValueType)
  <2>1. types \in Seq(ValueType)
    <3>1. CASE active.typeBase <= Len(s.types)
      <4>1. SubSeq(s.types, 1, active.typeBase) \in Seq(ValueType)
        BY <1>1, <1>2, <3>1
      <4>2. types = SubSeq(s.types, 1, active.typeBase)
        BY <3>1 DEF Restored
      <4> QED
        BY <4>1, <4>2
    <3>2. CASE ~(active.typeBase <= Len(s.types))
      <4>1. active.typeBase - Len(s.types) \in Nat
        BY <1>1, <1>2, <3>2
      <4>2. PICK lost \in [1..(active.typeBase - Len(s.types)) -> ValueType] :
              types = s.types \o lost
        BY <3>2 DEF Restored
      <4>3. lost \in Seq(ValueType)
        BY <4>1, IsASeq
      <4> QED
        BY <1>2, <4>2, <4>3, ConcatProperties
    <3> QED
      BY <3>1, <3>2
  <2> QED
    BY <1>1, <2>1, ConcatProperties
<1>5. PICK types \in Restored(s.types, active.typeBase) :
        r = [s EXCEPT !.data = data, !.types = types \o active.results]
  BY DEF Returned, data
<1> QED
  BY <1>3, <1>4, <1>5 DEF OperandState

\* A context that is stopped has no operands.
LEMMA StoppedType ==
  ASSUME NEW s \in OperandState
  PROVE  Stopped(s) \in OperandState
<1>1. <<>> \in Seq(ValueType) /\ <<>> \in Seq(Cell)
  OBVIOUS
<1> QED
  BY <1>1 DEF OperandState, Stopped

\* What a step of the operands, the positions and the calls has to keep
Kept ==
  /\ CallsInv'
  /\ operands' \in OperandState
  /\ modPos' \in [1..Len(image) -> Nat]

\* A call of a function with code (wasmu_callFunctionByIndex)
LEMMA FunctionEntered ==
  ASSUME CallsInv, image \in Images, image' = image,
         NEW s \in OperandState,
         NEW positions \in [1..Len(image) -> Nat], NEW m \in 1..Len(image),
         NEW target, Exists(target), NEW via,
         EnterFunction(s, positions, m, target, FunctionAt(target), via)
  PROVE  Kept
<1> DEFINE fn         == FunctionAt(target)
           signatures == image[target.module].signatures
           signature  == signatures[fn.signature]
           prepared   == IF fn.signature \in 1..Len(signatures)
                         THEN Prepared(s, fn, signature)
                         ELSE Fail(s, "invalid_index")
           call == [module |-> target.module, function |-> target.index,
                    position |-> fn.position,
                    typeBase |-> Len(s.types) - Len(signature.params),
                    valueBase |-> Len(s.data) - StackSize(signature.params)]
<1>1. /\ target.module \in 1..Len(image)
      /\ target.index \in 1..Len(image[target.module].functions)
  BY DEF Exists
<1>2. /\ image[target.module].signatures \in Seq(Signature)
      /\ image[target.module].functions \in Seq(Function)
  BY <1>1, ModuleType
<1>3. fn \in Function /\ fn = image[target.module].functions[target.index]
  BY <1>1, <1>2, ElementOfSeq DEF FunctionAt
<1>4. fn.signature \in 1..Len(signatures) => signature \in Signature
  BY <1>2, ElementOfSeq
<1>5. /\ prepared \in OperandState
      /\ prepared.ok => /\ fn.signature \in 1..Len(signatures)
                        /\ Len(s.types) >= Len(signature.params)
                        /\ Len(callStack) < CallStackDepth
  <2>1. CASE fn.signature \in 1..Len(signatures)
    <3>1. callStack \in Seq(Call)
      BY DEF CallsInv
    <3>2. signature \in Signature
      BY <1>4, <2>1
    <3> HIDE DEF fn, signature
    <3>3. /\ Prepared(s, fn, signature) \in OperandState
          /\ Prepared(s, fn, signature).ok =>
               /\ Len(s.types) >= Len(signature.params)
               /\ Len(callStack) < CallStackDepth
      BY <1>3, <3>1, <3>2, PreparedType
    <3> QED
      BY <2>1, <3>3
  <2>2. CASE fn.signature \notin 1..Len(signatures)
    BY <2>2, ErrorTypes DEF ErrorState
  <2> QED
    BY <2>1, <2>2
<1>6. /\ modPos' = [positions EXCEPT ![target.module] = fn.position]
      /\ operands' = After(prepared, via)
      /\ IF prepared.ok
         THEN /\ StackSize(signature.params) <= Len(s.data)
              /\ PushCall(Suspended(positions, m), call)
         ELSE /\ callStack' = Suspended(positions, m)
              /\ UNCHANGED active
      /\ UNCHANGED labelStack
  BY DEF EnterFunction
<1> HIDE DEF prepared
<1>7. operands' \in OperandState /\ modPos' \in [1..Len(image) -> Nat]
  <2>1. fn.position \in Nat
    BY <1>3 DEF Function
  <2> QED
    BY <1>5, <1>6, <2>1, AfterType
<1>8. CallsInv'
  <2>1. CASE prepared.ok
    <3>1. call \in Call
      <4>1. signature \in Signature
        BY <1>4, <1>5, <2>1
      <4>2. /\ signature.params \in Seq(ValueType)
            /\ StackSize(signature.params) \in Nat
        BY <4>1, StackSizeType DEF Signature
      <4>3. fn.position \in Nat
        BY <1>3 DEF Function
      <4>4. target.module \in Nat /\ target.index \in Nat
        BY <1>1, <1>2
      <4>5. /\ Len(s.types) >= Len(signature.params)
            /\ StackSize(signature.params) <= Len(s.data)
        BY <1>5, <1>6, <2>1
      <4> HIDE DEF fn, signature
      <4>6. /\ Len(s.types) \in Nat /\ Len(s.data) \in Nat
            /\ Len(signature.params) \in Nat
        BY <4>2, LenProperties DEF OperandState
      <4>7. /\ Len(s.types) - Len(signature.params) \in Nat
            /\ Len(s.data) - StackSize(signature.params) \in Nat
        BY <4>2, <4>5, <4>6
      <4> QED
        BY <4>3, <4>4, <4>7 DEF Call
    <3>2. CallExists(call)
      BY <1>1, <1>3, <1>5, <2>1 DEF CallExists, FunctionOf
    <3> HIDE DEF call
    <3> QED
      BY <1>5, <1>6, <2>1, <3>1, <3>2, CallEntered
  <2>2. CASE ~prepared.ok
    BY <1>6, <2>2, CallSuspended
  <2> QED
    BY <2>1, <2>2
<1> QED
  BY <1>7, <1>8 DEF Kept

\* A call of any function: one with code, a host's, or one that is not there
LEMMA FunctionCalled ==
  ASSUME CallsInv, image \in Images, image' = image,
         NEW s \in OperandState,
         NEW positions \in [1..Len(image) -> Nat], NEW m \in 1..Len(image),
         NEW f, NEW via, CallFunctionByIndex(s, positions, m, f, via)
  PROVE  Kept
<1> DEFINE target == Resolution(m, f)
           error  == ResolutionError(target)
           fn     == FunctionAt(target)
           signature == image[target.module].signatures[fn.signature]
<1>1. error \in ErrorState /\ (error = "none" => Exists(target))
  BY DEF ResolutionError, ErrorState
<1>2. CASE error # "none"
  <2>1. /\ operands' = After(Fail(s, error), via)
        /\ modPos' = positions
        /\ UNCHANGED <<callStack, labelStack, active>>
    BY <1>2 DEF CallFunctionByIndex
  <2> HIDE DEF error
  <2>2. Fail(s, error) \in OperandState
    BY <1>1, ErrorTypes
  <2> QED
    BY <2>1, <2>2, AfterType, CallsStay DEF Kept
<1>3. CASE error = "none" /\ fn.native # "none"
  <2>1. /\ CallNative(s, fn, signature, via)
        /\ modPos' = positions
    BY <1>3 DEF CallFunctionByIndex
  <2>2. signature \in Signature /\ Len(signature.params) <= 2
    <3>1. /\ target.module \in 1..Len(image)
          /\ target.index \in 1..Len(image[target.module].functions)
      BY <1>1, <1>3 DEF Exists
    <3>2. NativesFit(image[target.module])
      BY <3>1, ImageType
    <3>3. image[target.module].signatures \in Seq(Signature)
      BY <3>1, ModuleType
    <3> HIDE DEF target
    <3> QED
      BY <1>3, <3>1, <3>2, <3>3, ElementOfSeq DEF NativesFit, FunctionAt
  <2> HIDE DEF signature, fn
  <2>3. CASE /\ operands' = After(NativeValues(s, signature), via)
             /\ UNCHANGED <<callStack, labelStack, active>>
    BY <2>1, <2>2, <2>3, NativeValuesType, AfterType, CallsStay DEF Kept
  <2>4. CASE /\ operands' = After([s EXCEPT !.ok = FALSE], via)
             /\ UNCHANGED <<callStack, labelStack, active>>
    <3>1. [s EXCEPT !.ok = FALSE] \in OperandState
      BY DEF OperandState
    <3> QED
      BY <2>1, <2>4, <3>1, AfterType, CallsStay DEF Kept
  <2>5. CASE operands' = After(Stopped(s), via) /\ DropCalls
    BY <2>1, <2>5, StoppedType, AfterType, CallsDropped DEF Kept
  <2> QED
    BY <2>1, <2>3, <2>4, <2>5 DEF CallNative
<1>4. CASE error = "none" /\ fn.native = "none"
  <2>1. EnterFunction(s, positions, m, target, fn, via)
    BY <1>4 DEF CallFunctionByIndex
  <2> HIDE DEF target
  <2> QED
    BY <1>1, <1>4, <2>1, FunctionEntered
<1> QED
  BY <1>2, <1>3, <1>4

\* A return (wasmu_returnFromFunction)
LEMMA FunctionReturns ==
  ASSUME CallsInv, image \in Images, image' = image,
         NEW s \in OperandState, NEW positions \in [1..Len(image) -> Nat],
         ReturnFromFunction(s, positions)
  PROVE  Kept
<1>1. PICK r \in Returned(s) : PopCall(r)
  BY DEF ReturnFromFunction
<1>2. r \in OperandState
  BY ReturnedType
<1>3. CallsInv'
  BY <1>1, CallPopped
<1>4. operands' \in OperandState
  <2>1. SetError(r, "stack_underflow") \in OperandState
    BY <1>2, ErrorTypes DEF ErrorState
  <2> QED
    BY <1>1, <1>2, <2>1 DEF PopCall
<1>5. modPos' \in [1..Len(image) -> Nat]
  <2>1. CASE Len(callStack) > 1
    <3> DEFINE resumed == callStack[Len(callStack) - 1]
    <3>1. Len(callStack) - 1 \in 1..Len(callStack) /\ callStack \in Seq(Call)
      BY <2>1 DEF CallsInv
    <3>2. resumed \in Call
      BY <3>1, ElementOfSeq
    <3>3. resumed.position \in Nat
      BY <3>2 DEF Call
    <3>4. modPos' = [positions EXCEPT ![resumed.module] = resumed.position]
      BY <2>1 DEF ReturnFromFunction
    <3> HIDE DEF resumed
    <3> QED
      BY <3>3, <3>4
  <2>2. CASE ~(Len(callStack) > 1)
    BY <2>2 DEF ReturnFromFunction
  <2> QED
    BY <2>1, <2>2
<1> QED
  BY <1>3, <1>4, <1>5 DEF Kept

-----------------------------------------------------------------------------
(***************************************************************************)
(* The inductive invariant.                                                *)
(***************************************************************************)

\* The search under way, and the handlers that wait for it
SearchInv ==
  /\ ff \in [on : BOOLEAN, target : Target, depth : Nat]
  /\ branchPos \in Nat
  /\ pending \in Seq(Handler)
  /\ SearchHasHandler

IInv ==
  /\ image \in Images
  /\ CallsInv
  /\ operands \in OperandState
  /\ modPos \in [1..Len(image) -> Nat]
  /\ globals \in [1..Len(image) -> Seq(Global)]
  /\ inRunLoop \in BOOLEAN
  /\ SearchInv

\* The invariant holds of a new context (wasmu_newContext).
LEMMA InitInv == Init => IInv
<1> SUFFICES ASSUME Init PROVE IInv
  OBVIOUS
<1> USE DEF Init
<1>1. image \in Seq(Module)
  BY ImageType
<1>2. ASSUME NEW m \in 1..Len(image)
      PROVE  image[m].globals \in Seq(Global) /\ Len(image[m].code) \in Nat
  BY ModuleType, LenProperties
<1>3. /\ modPos \in [1..Len(image) -> Nat]
      /\ globals \in [1..Len(image) -> Seq(Global)]
  BY <1>2
<1>4. operands \in OperandState
  BY DEF NoOperands, OperandState, ErrorState
<1>5. active \in ActiveCall /\ active.module = 0
  BY DEF NoCall, ActiveCall
<1>6. CallsInv
  BY <1>5, ContextAssumption
     DEF CallsInv, CallsExist, CacheCoherent, LabelsBelongToCalls
<1>7. SearchInv
  BY DEF SearchInv, SearchHasHandler, NotSearching, Target
<1> QED
  BY <1>3, <1>4, <1>6, <1>7 DEF IInv

-----------------------------------------------------------------------------
(***************************************************************************)
(* What the steps have in common.                                          *)
(***************************************************************************)

\* A step that does not touch the search leaves its part of the invariant.
LEMMA SearchStays ==
  ASSUME IInv, UNCHANGED searchVars
  PROVE  SearchInv'
BY DEF IInv, SearchInv, SearchHasHandler, searchVars

\* The part of the invariant that a step keeps, put together
LEMMA KeptInv ==
  ASSUME IInv, Kept, SearchInv', image' = image, inRunLoop' \in BOOLEAN,
         globals' \in [1..Len(image) -> Seq(Global)]
  PROVE  IInv'
BY DEF IInv, Kept

\* A step is made in a module of the context, whose position can move on; the
\* instruction fetched, if one is, is one of its code.
LEMMA Fetched ==
  ASSUME IInv, Stepping
  PROVE  /\ Here \in 1..Len(image)
         /\ callStack # <<>>
         /\ modPos[Here] \in Nat
         /\ Read \in [1..Len(image) -> Nat]
         /\ CanFetch => Instr \in Instruction
<1>1. callStack # <<>> /\ callStack \in Seq(Call)
  BY DEF Stepping, IInv, CallsInv
<1>2. Len(callStack) \in 1..Len(callStack)
  BY <1>1
<1>3. Here \in 1..Len(image)
  <2>1. CallExists(Last(callStack))
    BY <1>2 DEF IInv, CallsInv, CallsExist, Last
  <2>2. active = ActiveInfo(Last(callStack))
    BY <1>1 DEF IInv, CallsInv, CacheCoherent
  <2> QED
    BY <2>1, <2>2 DEF Here, ActiveInfo, CallExists
<1>4. modPos \in [1..Len(image) -> Nat] /\ image \in Images
  BY DEF IInv
<1>5. Read \in [1..Len(image) -> Nat]
  BY <1>3, <1>4 DEF Read, Advance
<1>6. image[Here].code \in Seq(Instruction)
  BY <1>3, <1>4, ModuleType
<1>7. modPos[Here] \in Nat
  BY <1>3, <1>4
<1>8. CanFetch => Instr \in Instruction
  <2>1. CanFetch => modPos[Here] + 1 \in 1..Len(image[Here].code)
    BY <1>6, <1>7 DEF CanFetch, Pos, Code
  <2> QED
    BY <1>6, <2>1, ElementOfSeq DEF Instr, Code, Pos
<1> QED
  BY <1>1, <1>3, <1>5, <1>7, <1>8

\* A step that changes no more than the operands
LEMMA Computed ==
  ASSUME IInv, Stepping, NEW s \in OperandState, Computes(s)
  PROVE  IInv'
<1>1. /\ operands' = s /\ modPos' = Read
      /\ UNCHANGED <<image, callStack, labelStack, active, globals, inRunLoop>>
      /\ UNCHANGED searchVars
  BY DEF Computes
<1>2. SearchInv'
  BY <1>1, SearchStays
<1>3. Kept
  BY <1>1, CallsStay, Fetched DEF IInv, Kept
<1> QED
  BY <1>1, <1>2, <1>3, KeptInv DEF IInv

\* The same of a handler that fails
LEMMA ComputedFail ==
  ASSUME IInv, Stepping, NEW s \in OperandState, NEW e \in ErrorState,
         Computes(Fail(s, e))
  PROVE  IInv'
<1>1. Fail(s, e) \in OperandState
  BY ErrorTypes
<1> QED
  BY <1>1, Computed

\* An instruction that is executed or skipped is fetched.
LEMMA Decoded ==
  ASSUME NEW ops
  PROVE  /\ Decodes(ops) => Stepping /\ CanFetch /\ Instr.op \in ops
         /\ Executes(ops) => Decodes(ops) /\ ~ff.on
         /\ Skips(ops) => Decodes(ops) /\ ff.on
BY DEF Decodes, Executes, Skips

\* Cells of unknown value
LEMMA UnknownsType ==
  ASSUME NEW t
  PROVE  Unknowns(t) \in Seq(Cell)
<1>1. TypeSize(t) \in Nat /\ Unknown \in Cell
  BY TypeSizeType DEF Cell
<1> QED
  BY <1>1, RepeatType DEF Unknowns

-----------------------------------------------------------------------------
(***************************************************************************)
(* Instructions that only compute.                                         *)
(***************************************************************************)

\* The opcodes whose handlers move nothing but operands, or skip, or fail
LEMMA SimpleSteps ==
  ASSUME IInv,
         \/ FetchFails \/ SkipInstruction \/ UnknownBlockType \/ Nop
         \/ Unreachable \/ NotImplemented \/ Drop
  PROVE  IInv'
<1>1. operands \in OperandState
  BY DEF IInv
<1>2. CASE FetchFails
  <2>1. Stepping /\ Computes(Fail(operands, "memory_oob"))
    BY <1>2 DEF FetchFails, Computes
  <2> QED
    BY <1>1, <2>1, ComputedFail DEF ErrorState
<1>3. CASE SkipInstruction
  BY <1>1, <1>3, Computed, Decoded DEF SkipInstruction
<1>4. CASE UnknownBlockType
  <2>1. Stepping /\ Computes(Fail(operands, "invalid_index"))
    BY <1>4, Decoded DEF UnknownBlockType
  <2> QED
    BY <1>1, <2>1, ComputedFail DEF ErrorState
<1>5. CASE Nop
  BY <1>1, <1>5, Computed, Decoded DEF Nop
<1>6. CASE Unreachable
  <2>1. Stepping /\ Computes(Fail(operands, "unreachable"))
    BY <1>6, Decoded DEF Unreachable
  <2> QED
    BY <1>1, <2>1, ComputedFail DEF ErrorState
<1>7. CASE NotImplemented
  <2>1. Stepping /\ Computes(Fail(operands, "not_implemented"))
    BY <1>7, Decoded DEF NotImplemented
  <2> QED
    BY <1>1, <2>1, ComputedFail DEF ErrorState
<1>8. CASE Drop
  <2>1. Stepping /\ Computes(DropTop(operands))
    BY <1>8, Decoded DEF Drop
  <2>2. DropTop(operands) \in OperandState
    BY <1>1, AfterType
  <2> QED
    BY <2>1, <2>2, Computed
<1> QED
  BY <1>2, <1>3, <1>4, <1>5, <1>6, <1>7, <1>8

\* Taking an operand of whatever type is on top
LEMMA TakeType ==
  ASSUME NEW s \in OperandState
  PROVE  /\ PopCells(PopType(s), TypeSize(TopType(s))) \in OperandState
         /\ TopCells(s, TypeSize(TopType(s))) \in Seq(Cell)
<1> DEFINE n == TypeSize(TopType(s))
<1>1. n \in Nat
  BY TypeSizeType
<1> HIDE DEF n
<1>2. PopType(s) \in OperandState /\ TopCells(s, n) \in Seq(Cell)
  BY <1>1, PopTypes
<1>3. PopCells(PopType(s), n) \in OperandState
  BY <1>1, <1>2, PopTypes
<1> QED
  BY <1>2, <1>3 DEF n

\* select
LEMMA SelectStep ==
  ASSUME IInv, Select
  PROVE  IInv'
<1> DEFINE Take(s)  == PopCells(PopType(s), TypeSize(TopType(s)))
           Taken(s) == TopCells(s, TypeSize(TopType(s)))
           popped   == PopTyped(operands, "i32")
<1>1. popped \in OperandState
  BY PopTypedType DEF IInv, ValueType
<1>2. Stepping
  BY Decoded DEF Select
<1>3. \/ Computes(popped)
      \/ Computes(PushCells(Take(Take(popped)), Taken(Take(popped))))
      \/ Computes(PushCells(Take(Take(popped)), Taken(popped)))
  BY DEF Select
<1> HIDE DEF popped
<1>4. /\ Take(popped) \in OperandState
      /\ Taken(popped) \in Seq(Cell)
  BY <1>1, TakeType
<1>5. \A s \in OperandState : Take(s) \in OperandState /\ Taken(s) \in Seq(Cell)
  BY TakeType
<1> HIDE DEF Take, Taken
<1>6. /\ Take(Take(popped)) \in OperandState
      /\ Taken(Take(popped)) \in Seq(Cell)
  BY <1>4, <1>5
<1>7. "i32" \in ValueType
  BY DEF ValueType
<1>8. /\ PushCells(Take(Take(popped)), Taken(Take(popped))) \in OperandState
      /\ PushCells(Take(Take(popped)), Taken(popped)) \in OperandState
  BY <1>4, <1>6, <1>7, PushTypes
<1> QED
  BY <1>1, <1>2, <1>3, <1>8, Computed

\* local.get
LEMMA LocalGetStep ==
  ASSUME IInv, LocalGet
  PROVE  IInv'
<1> DEFINE slot == active.locals[Instr.arg]
           size == TypeSize(slot.type)
           value == Slice(operands.data, slot.position, size)
<1>1. Stepping /\ Computes(PushValue(operands, slot.type, value))
      /\ Instr.arg \in 1..Len(active.locals)
  BY Decoded DEF LocalGet
<1>2. slot \in Slot
  BY <1>1, ElementOfSeq DEF IInv, CallsInv, ActiveCall
<1>3. slot.position \in Nat /\ slot.type \in ValueType
  BY <1>2 DEF Slot
<1>4. size \in Nat
  BY TypeSizeType
<1>5. operands \in OperandState
  BY DEF IInv
<1>6. operands.data \in Seq(Cell)
  BY <1>5 DEF OperandState
<1> HIDE DEF slot, size
<1>7. value \in Seq(Cell)
  <2>1. value \in Seq(Cell \cup {Unknown})
    BY <1>3, <1>4, <1>6, SliceType
  <2>2. Cell \cup {Unknown} = Cell
    BY DEF Cell
  <2> QED
    BY <2>1, <2>2
<1> HIDE DEF value
<1>8. PushValue(operands, slot.type, value) \in OperandState
  BY <1>3, <1>5, <1>7, PushTypes
<1> QED
  BY <1>1, <1>8, Computed

\* local.set and local.tee
LEMMA LocalSetStep ==
  ASSUME IInv, LocalSet
  PROVE  IInv'
<1> DEFINE slot   == active.locals[Instr.arg]
           size   == TypeSize(slot.type)
           value  == TopCells(operands, size)
           popped == PopTyped(operands, slot.type)
           stored == [popped EXCEPT
                        !.data = Overwrite(@, slot.position, value)]
<1>1. /\ Stepping
      /\ \/ Computes(popped)
         \/ Computes(stored)
         \/ Computes(PushValue(stored, slot.type, value))
      /\ Instr.arg \in 1..Len(active.locals)
  <2> DEFINE result == CASE ~popped.ok -> popped
                         [] popped.ok /\ Instr.op = "local.set" -> stored
                         [] OTHER -> PushValue(stored, slot.type, value)
  <2>1. Computes(result) /\ Stepping /\ Instr.arg \in 1..Len(active.locals)
    BY Decoded DEF LocalSet
  <2> HIDE DEF popped, stored
  <2>2. result = popped \/ result = stored
          \/ result = PushValue(stored, slot.type, value)
    OBVIOUS
  <2> HIDE DEF result
  <2> QED
    BY <2>1, <2>2
<1>2. slot \in Slot
  BY <1>1, ElementOfSeq DEF IInv, CallsInv, ActiveCall
<1>3. slot.position \in Nat /\ slot.type \in ValueType
  BY <1>2 DEF Slot
<1>4. size \in Nat
  BY TypeSizeType
<1>5. operands \in OperandState
  BY DEF IInv
<1> HIDE DEF slot, size
<1>6. value \in Seq(Cell) /\ popped \in OperandState
  BY <1>3, <1>4, <1>5, PopTypes, PopTypedType
<1> HIDE DEF value, popped
<1>7. stored \in OperandState
  <2>1. popped.data \in Seq(Cell)
    BY <1>6 DEF OperandState
  <2>2. Overwrite(popped.data, slot.position, value) \in Seq(Cell)
    BY <1>3, <1>6, <2>1, OverwriteType
  <2> QED
    BY <1>6, <2>2 DEF OperandState
<1> HIDE DEF stored
<1>8. PushValue(stored, slot.type, value) \in OperandState
  BY <1>3, <1>6, <1>7, PushTypes
<1> QED
  BY <1>1, <1>6, <1>7, <1>8, Computed

\* The immediates of the instruction fetched
LEMMA InstrType ==
  ASSUME IInv, NEW ops, Decodes(ops)
  PROVE  /\ Instr.op \in ops /\ Instr.op \in Op
         /\ Instr.type \in ValueType
         /\ Instr.types \in Seq(ValueType)
         /\ Instr.arg \in Nat
         /\ Instr.args \in Seq(Nat)
         /\ Instr.cells \in Seq(Cell)
         /\ Stepping /\ CanFetch
         /\ Here \in 1..Len(image)
<1>1. Stepping /\ CanFetch /\ Instr.op \in ops
  BY Decoded
<1>2. Instr \in Instruction /\ Here \in 1..Len(image)
  BY <1>1, Fetched
<1> QED
  BY <1>1, <1>2 DEF Instruction

\* global.get
LEMMA GlobalGetStep ==
  ASSUME IInv, GlobalGet
  PROVE  IInv'
<1> DEFINE global == globals[Here][Instr.arg]
<1>1. /\ Decodes({"global.get"})
      /\ Instr.arg \in 1..Len(globals[Here])
      /\ Computes(PushValue(operands, global.type, global.cells))
  BY Decoded DEF GlobalGet
<1>2. Stepping /\ Here \in 1..Len(image)
  BY <1>1, InstrType
<1>3. globals[Here] \in Seq(Global) /\ operands \in OperandState
  BY <1>2 DEF IInv
<1>4. global \in Global
  BY <1>1, <1>3, ElementOfSeq
<1>5. PushValue(operands, global.type, global.cells) \in OperandState
  BY <1>3, <1>4, PushTypes DEF Global
<1> QED
  BY <1>1, <1>2, <1>5, Computed

\* global.set
LEMMA GlobalSetStep ==
  ASSUME IInv, GlobalSet
  PROVE  IInv'
<1> DEFINE g      == Instr.arg
           global == globals[Here][g]
           popped == PopTyped(operands, global.type)
           cells  == TopCells(operands, TypeSize(global.type))
<1>1. /\ Decodes({"global.set"})
      /\ g \in 1..Len(globals[Here])
      /\ operands' = popped
      /\ globals' = IF popped.ok
                    THEN [globals EXCEPT ![Here][g].cells = cells]
                    ELSE globals
      /\ modPos' = Read
      /\ UNCHANGED <<image, callStack, labelStack, active, inRunLoop>>
      /\ UNCHANGED searchVars
  BY Decoded DEF GlobalSet
<1>2. Stepping /\ Here \in 1..Len(image)
  BY <1>1, InstrType
<1>3. /\ globals \in [1..Len(image) -> Seq(Global)]
      /\ globals[Here] \in Seq(Global) /\ operands \in OperandState
  BY <1>2 DEF IInv
<1>4. global \in Global
  BY <1>1, <1>3, ElementOfSeq
<1>5. TypeSize(global.type) \in Nat /\ global.type \in ValueType
  BY <1>4, TypeSizeType DEF Global
<1> HIDE DEF g, global
<1>6. popped \in OperandState /\ cells \in Seq(Cell)
  BY <1>3, <1>5, PopTypes, PopTypedType
<1> HIDE DEF popped, cells
<1>7. [globals EXCEPT ![Here][g].cells = cells] \in [1..Len(image) -> Seq(Global)]
  <2> DEFINE new == [globals[Here][g] EXCEPT !.cells = cells]
  <2>1. new \in Global
    BY <1>4, <1>6 DEF Global, global
  <2> HIDE DEF new
  <2>2. [globals[Here] EXCEPT ![g] = new] \in Seq(Global)
    BY <1>1, <1>3, <2>1, ExceptSeq
  <2>3. [globals EXCEPT ![Here][g].cells = cells]
          = [globals EXCEPT ![Here] = [globals[Here] EXCEPT ![g] = new]]
    BY DEF new
  <2> QED
    BY <1>3, <2>2, <2>3
<1>8. globals' \in [1..Len(image) -> Seq(Global)]
  BY <1>1, <1>3, <1>7
<1>9. SearchInv'
  BY <1>1, SearchStays
<1>10. Kept
  BY <1>1, <1>2, <1>6, CallsStay, Fetched DEF IInv, Kept
<1> QED
  BY <1>1, <1>8, <1>9, <1>10, KeptInv DEF IInv

\* The loads and stores, memory.size and memory.grow
LEMMA MemoryStep ==
  ASSUME IInv, MemoryAccess
  PROVE  IInv'
<1> DEFINE popped == PopOperands(operands, MemoryPops)
           pushed == PushValue(popped, MemoryType, Unknowns(MemoryType))
<1>1. /\ Decodes(MemoryOp)
      /\ \/ Computes(Fail(operands, "invalid_index"))
         \/ Computes(popped)
         \/ Computes(pushed)
         \/ Computes(Fail(popped, "memory_oob"))
  <2>1. Computes(IF ~popped.ok \/ Instr.op = "store" THEN popped ELSE pushed)
          => Computes(popped) \/ Computes(pushed)
    BY DEF Computes
  <2> HIDE DEF popped, pushed
  <2> QED
    BY <2>1, Decoded DEF MemoryAccess, popped, pushed
<1>2. Stepping /\ Instr.type \in ValueType /\ operands \in OperandState
  BY <1>1, InstrType DEF IInv
<1>3. MemoryType \in ValueType
  BY <1>2 DEF MemoryType, ValueType
<1>4. MemoryPops \in Seq(ValueType)
  <2>1. "i32" \in ValueType
    BY DEF ValueType
  <2>2. /\ <<Instr.type, "i32">> \in Seq(ValueType)
        /\ <<"i32">> \in Seq(ValueType)
        /\ <<>> \in Seq(ValueType)
    BY <1>2, <2>1
  <2>3. MemoryPops \in {<<Instr.type, "i32">>, <<"i32">>, <<>>}
    BY DEF MemoryPops
  <2> QED
    BY <2>2, <2>3
<1>5. popped \in OperandState
  BY <1>2, <1>4, PopOperandsType
<1> HIDE DEF popped
<1>6. pushed \in OperandState
  BY <1>3, <1>5, UnknownsType, PushTypes
<1> HIDE DEF pushed
<1> QED
  BY <1>1, <1>2, <1>5, <1>6, Computed, ComputedFail DEF ErrorState

\* The constants
LEMMA ConstStep ==
  ASSUME IInv, Const
  PROVE  IInv'
<1>1. /\ Decodes({"const"})
      /\ Computes(PushValue(operands, Instr.type, Instr.cells))
  BY Decoded DEF Const
<1>2. /\ Instr.type \in ValueType /\ Instr.cells \in Seq(Cell)
      /\ Stepping /\ operands \in OperandState
  BY <1>1, InstrType DEF IInv
<1>3. PushValue(operands, Instr.type, Instr.cells) \in OperandState
  BY <1>2, PushTypes
<1> QED
  BY <1>1, <1>2, <1>3, Computed

\* Arithmetic, comparisons and conversions
LEMMA NumericStep ==
  ASSUME IInv, Numeric
  PROVE  IInv'
<1> DEFINE popped == PopOperands(operands, NumericPops)
           pushed == PushValue(popped, NumericType, Unknowns(NumericType))
<1>1. Decodes(NumericOp) /\ (Computes(popped) \/ Computes(pushed))
  <2>1. Computes(IF ~popped.ok THEN popped ELSE pushed)
          => Computes(popped) \/ Computes(pushed)
    BY DEF Computes
  <2> HIDE DEF popped, pushed
  <2> QED
    BY <2>1, Decoded DEF Numeric, popped, pushed
<1>2. /\ Stepping /\ Instr.type \in ValueType /\ Instr.types \in Seq(ValueType)
      /\ operands \in OperandState
  BY <1>1, InstrType DEF IInv
<1>3. NumericType \in ValueType
  BY <1>2 DEF NumericType, ValueType
<1>4. NumericPops \in Seq(ValueType)
  BY <1>2 DEF NumericPops
<1>5. popped \in OperandState
  BY <1>2, <1>4, PopOperandsType
<1> HIDE DEF popped
<1>6. pushed \in OperandState
  BY <1>3, <1>5, UnknownsType, PushTypes
<1> HIDE DEF pushed
<1> QED
  BY <1>1, <1>2, <1>5, <1>6, Computed

\* i64.extend_i32
LEMMA ExtendStep ==
  ASSUME IInv, Extend
  PROVE  IInv'
<1> DEFINE popped == PopTyped(operands, "i32")
           pushed == PushCells(popped, Unknowns("i64"))
<1>1. Stepping /\ (Computes(popped) \/ Computes(pushed))
  <2>1. Computes(IF ~popped.ok THEN popped ELSE pushed)
          => Computes(popped) \/ Computes(pushed)
    BY DEF Computes
  <2> HIDE DEF popped, pushed
  <2> QED
    BY <2>1, Decoded DEF Extend, popped, pushed
<1>2. "i32" \in ValueType /\ operands \in OperandState
  BY DEF ValueType, IInv
<1>3. popped \in OperandState
  BY <1>2, PopTypedType
<1> HIDE DEF popped
<1>4. pushed \in OperandState
  BY <1>2, <1>3, UnknownsType, PushTypes
<1> HIDE DEF pushed
<1> QED
  BY <1>1, <1>3, <1>4, Computed

-----------------------------------------------------------------------------
(***************************************************************************)
(* Blocks and searches.                                                    *)
(***************************************************************************)

\* A search that starts has its handler waiting for it.
LEMMA SearchStarts ==
  ASSUME IInv, Here \in 1..Len(image), NEW target \in Target,
         NEW kind \in {"if_else", "if_end", "else", "branch"},
         NEW positions \in [1..Len(image) -> Nat],
         Search(target, kind, positions), branchPos' \in Nat
  PROVE  SearchInv'
<1> DEFINE handler ==
      [kind |-> kind, module |-> Here, position |-> positions[Here]]
<1>1. handler \in Handler
  BY DEF Handler
<1>2. /\ ff' = [on |-> TRUE, target |-> target, depth |-> 0]
      /\ pending' = Append(pending, handler)
  BY DEF Search
<1> HIDE DEF handler
<1>3. pending' \in Seq(Handler) /\ pending' # <<>>
  <2>1. pending \in Seq(Handler)
    BY DEF IInv, SearchInv
  <2>2. Append(pending, handler) \in Seq(Handler) /\ Append(pending, handler) # <<>>
    BY <1>1, <2>1, AppendProperties
  <2> QED
    BY <1>2, <2>2
<1> QED
  BY <1>2, <1>3 DEF SearchInv, SearchHasHandler

\* A label that is found is one, and belongs to a call.
LEMMA LabelFound ==
  ASSUME IInv, NEW index \in Nat, HasLabel(index)
  PROVE  /\ callStack # <<>> /\ labelStack # <<>>
         /\ LabelAt(index) \in Label
<1>1. labelStack \in Seq(Label) /\ callStack \in Seq(Call) /\ LabelsBelongToCalls
  BY DEF IInv, CallsInv
<1>2. Len(labelStack) - index \in 1..Len(labelStack)
  BY <1>1 DEF HasLabel
<1>3. labelStack[Len(labelStack) - index].callIndex \in 1..Len(callStack)
  BY <1>1, <1>2 DEF LabelsBelongToCalls
<1>4. labelStack[Len(labelStack) - index] \in Label
  BY <1>1, <1>2, ElementOfSeq
<1> QED
  BY <1>1, <1>2, <1>3, <1>4 DEF LabelAt

\* The result types of a block
LEMMA BlockResultsType ==
  ASSUME IInv, NEW ops, Decodes(ops), ~BadBlockType
  PROVE  BlockResults \in Seq(ValueType)
<1>1. /\ Here \in 1..Len(image) /\ Instr.arg \in Nat
      /\ Instr.types \in Seq(ValueType) /\ image \in Images
  BY InstrType DEF IInv
<1>2. image[Here].signatures \in Seq(Signature)
  BY <1>1, ModuleType
<1>3. ASSUME Instr.arg # 0
      PROVE  image[Here].signatures[Instr.arg] \in Signature
  <2>1. Instr.arg \in 1..Len(image[Here].signatures)
    BY <1>1, <1>2, <1>3 DEF BadBlockType
  <2> QED
    BY <1>2, <2>1, ElementOfSeq
<1> QED
  BY <1>1, <1>3 DEF BlockResults, Signature

\* block and loop
LEMMA EnterBlockStep ==
  ASSUME IInv, EnterBlock
  PROVE  IInv'
<1>1. /\ Decodes({"block", "loop"}) /\ ~BadBlockType
      /\ PushLabel(Instr.op, BlockResults, operands, Read[Here])
      /\ modPos' = Read
      /\ UNCHANGED <<image, operands, callStack, active, globals, inRunLoop>>
      /\ UNCHANGED searchVars
  BY Decoded DEF EnterBlock
<1>2. /\ Stepping /\ Instr.op \in BlockOp
      /\ BlockResults \in Seq(ValueType) /\ operands \in OperandState
  BY <1>1, InstrType, BlockResultsType DEF BlockOp, IInv
<1>3. /\ Read \in [1..Len(image) -> Nat] /\ Read[Here] \in Nat
      /\ callStack # <<>>
  BY <1>2, Fetched
<1>4. CallsInv'
  BY <1>1, <1>2, <1>3, LabelPushed DEF IInv
<1>5. Kept
  BY <1>1, <1>2, <1>3, <1>4 DEF Kept
<1> QED
  BY <1>1, <1>5, SearchStays, KeptInv DEF IInv

\* if
LEMMA EnterIfStep ==
  ASSUME IInv, EnterIf
  PROVE  IInv'
<1>1. /\ Decodes({"if"}) /\ ~BadBlockType
      /\ PushLabel("if", BlockResults, operands, Read[Here])
      /\ operands' = PopTyped(operands, "i32")
      /\ modPos' = Read
      /\ UNCHANGED <<ff, pending>> \/ Search("else", "if_else", Read)
      /\ UNCHANGED <<image, callStack, active, globals, branchPos, inRunLoop>>
  BY Decoded DEF EnterIf
<1>2. /\ Stepping /\ "if" \in BlockOp /\ "i32" \in ValueType
      /\ Here \in 1..Len(image)
      /\ BlockResults \in Seq(ValueType) /\ operands \in OperandState
  BY <1>1, InstrType, BlockResultsType DEF BlockOp, ValueType, IInv
<1>3. /\ Read \in [1..Len(image) -> Nat] /\ Read[Here] \in Nat
      /\ callStack # <<>>
  BY <1>2, Fetched
<1>4. CallsInv'
  BY <1>1, <1>2, <1>3, LabelPushed DEF IInv
<1>5. PopTyped(operands, "i32") \in OperandState
  BY <1>2, PopTypedType
<1>6. Kept
  BY <1>1, <1>3, <1>4, <1>5 DEF Kept
<1>7. SearchInv'
  <2>1. CASE UNCHANGED <<ff, pending>>
    <3>1. UNCHANGED searchVars
      BY <1>1, <2>1 DEF searchVars
    <3> QED
      BY <3>1, SearchStays
  <2>2. CASE Search("else", "if_else", Read)
    <3>1. "else" \in Target /\ branchPos' \in Nat
      BY <1>1 DEF Target, IInv, SearchInv
    <3> QED
      BY <1>2, <1>3, <2>2, <3>1, SearchStarts
  <2> QED
    BY <1>1, <2>1, <2>2
<1> QED
  BY <1>1, <1>6, <1>7, KeptInv DEF IInv

\* else
LEMMA ElseStep ==
  ASSUME IInv, Else
  PROVE  IInv'
<1>1. /\ Decodes({"else"})
      /\ modPos' = Read
      /\ Search("end", "else", Read)
      /\ UNCHANGED <<image, operands, callStack, labelStack, active, globals,
                     branchPos, inRunLoop>>
  BY DEF Else
<1>2. Stepping /\ Here \in 1..Len(image)
  BY <1>1, InstrType
<1>3. Read \in [1..Len(image) -> Nat]
  BY <1>2, Fetched
<1>4. Kept
  BY <1>1, <1>3, CallsStay DEF IInv, Kept
<1>5. "end" \in Target /\ branchPos' \in Nat
  BY <1>1 DEF Target, IInv, SearchInv
<1>6. SearchInv'
  BY <1>1, <1>2, <1>3, <1>5, SearchStarts
<1> QED
  BY <1>1, <1>4, <1>6, KeptInv DEF IInv

\* The end of a block, or of a function
LEMMA BlockLeft ==
  ASSUME IInv, image' = image, NEW m,
         NEW positions \in [1..Len(image) -> Nat], LeaveBlock(m, positions)
  PROVE  Kept
<1>1. CASE HasLabel(0)
  <2>1. /\ labelStack' = labelStack \/ labelStack' = Front(labelStack)
        /\ modPos' = positions
        /\ UNCHANGED <<operands, callStack, active>>
    BY <1>1 DEF LeaveBlock
  <2>2. labelStack # <<>>
    BY <1>1, LabelFound
  <2>3. CallsInv'
    BY <2>1, <2>2, CallsStay, LabelPopped DEF IInv
  <2> QED
    BY <2>1, <2>3 DEF IInv, Kept
<1>2. CASE ~HasLabel(0)
  <2>1. ReturnFromFunction(operands, positions)
    BY <1>2 DEF LeaveBlock
  <2> QED
    BY <2>1, FunctionReturns DEF IInv
<1> QED
  BY <1>1, <1>2

\* end
LEMMA EndStep ==
  ASSUME IInv, End
  PROVE  IInv'
<1>1. /\ Decodes({"end"})
      /\ UNCHANGED <<image, globals, branchPos, pending, inRunLoop>>
  BY DEF End
<1>2. Stepping
  BY <1>1, InstrType
<1>3. Read \in [1..Len(image) -> Nat]
  BY <1>2, Fetched
<1>4. CASE ff.on /\ ff.depth = 0
  <2>1. /\ operands' = Fail(operands, "stack_underflow")
        /\ modPos' = Read
        /\ UNCHANGED <<callStack, labelStack, active, ff>>
    BY <1>4 DEF End
  <2>2. operands' \in OperandState
    BY <2>1, ErrorTypes DEF ErrorState, IInv
  <2>3. Kept
    BY <1>1, <1>3, <2>1, <2>2, CallsStay DEF IInv, Kept
  <2>4. SearchInv'
    BY <1>1, <2>1, SearchStays DEF searchVars
  <2> QED
    BY <1>1, <2>3, <2>4, KeptInv DEF IInv
<1>5. CASE ~(ff.on /\ ff.depth = 0)
  <2>1. /\ ff' = [ff EXCEPT !.depth = IF ff.on THEN @ - 1 ELSE @]
        /\ LeaveBlock(Here, Read)
    BY <1>5 DEF End
  <2>2. Kept
    BY <1>1, <1>3, <2>1, BlockLeft
  <2>3. SearchInv'
    <3>1. ff' \in [on : BOOLEAN, target : Target, depth : Nat] /\ ff'.on = ff.on
      BY <1>5, <2>1 DEF IInv, SearchInv
    <3> QED
      BY <1>1, <3>1 DEF IInv, SearchInv, SearchHasHandler
  <2> QED
    BY <1>1, <2>2, <2>3, KeptInv DEF IInv
<1> QED
  BY <1>4, <1>5

\* Skipping: a target found, a nested block counted
LEMMA SearchSteps ==
  ASSUME IInv, FindTarget \/ SkipBlock
  PROVE  IInv'
<1>1. CASE FindTarget
  <2>1. /\ ff' = [ff EXCEPT !.on = FALSE]
        /\ UNCHANGED <<image, operands, callStack, labelStack, active, modPos,
                       globals, branchPos, pending, inRunLoop>>
    BY <1>1 DEF FindTarget, contextVars
  <2>2. SearchInv'
    BY <2>1 DEF IInv, SearchInv, SearchHasHandler
  <2>3. Kept
    BY <2>1, CallsStay DEF IInv, Kept
  <2> QED
    BY <2>1, <2>2, <2>3, KeptInv DEF IInv
<1>2. CASE SkipBlock
  <2>1. /\ ff' = [ff EXCEPT !.depth = @ + 1]
        /\ modPos' = Read
        /\ UNCHANGED <<image, operands, callStack, labelStack, active, globals,
                       branchPos, pending, inRunLoop>>
        /\ Stepping
    BY <1>2, Decoded DEF SkipBlock
  <2>2. SearchInv'
    <3>1. ff' \in [on : BOOLEAN, target : Target, depth : Nat] /\ ff'.on = ff.on
      BY <2>1 DEF IInv, SearchInv
    <3> QED
      BY <2>1, <3>1 DEF IInv, SearchInv, SearchHasHandler
  <2>3. Kept
    BY <2>1, Fetched, CallsStay DEF IInv, Kept
  <2> QED
    BY <2>1, <2>2, <2>3, KeptInv DEF IInv
<1> QED
  BY <1>1, <1>2

-----------------------------------------------------------------------------
(***************************************************************************)
(* Branches.                                                               *)
(***************************************************************************)

\* The clean-up of a branch
LEMMA CleanedUpType ==
  ASSUME NEW s \in OperandState, NEW label \in Label
  PROVE  CleanedUp(s, label) \in OperandState
<1> DEFINE types == KeepTop(s.types, label.typeBase, label.results)
           data  == KeepTop(s.data, label.valueBase, label.resultsSize)
           enough == /\ Len(s.types) >= label.typeBase + label.results
                     /\ Len(s.data) >= label.valueBase + label.resultsSize
<1>1. /\ label.typeBase \in Nat /\ label.results \in Nat
      /\ label.valueBase \in Nat /\ label.resultsSize \in Nat
      /\ s.types \in Seq(ValueType) /\ s.data \in Seq(Cell)
  BY DEF Label, OperandState
<1>2. ASSUME enough PROVE types \in Seq(ValueType) /\ data \in Seq(Cell)
  <2>1. label.typeBase + label.results <= Len(s.types)
    BY <1>1, <1>2
  <2>2. label.valueBase + label.resultsSize <= Len(s.data)
    BY <1>1, <1>2
  <2> QED
    BY <1>1, <2>1, <2>2, KeepTopType
<1>3. Fail(s, "stack_underflow") \in OperandState
  BY ErrorTypes DEF ErrorState
<1>4. CleanedUp(s, label) = IF enough THEN [s EXCEPT !.types = types, !.data = data]
                            ELSE Fail(s, "stack_underflow")
  BY <1>1 DEF CleanedUp
<1> HIDE DEF types, data, enough
<1> QED
  BY <1>2, <1>3, <1>4 DEF OperandState

\* A branch: to a label that is not there, to a loop, or to the end of a block
LEMMA Branched ==
  ASSUME IInv, Stepping, NEW index \in Nat, NEW s \in OperandState,
         BranchTo(index, s)
  PROVE  IInv'
<1> DEFINE label == LabelAt(index)
           clean == CleanedUp(s, label)
           there == [Read EXCEPT ![Here] = label.position]
<1>1. /\ Here \in 1..Len(image) /\ Read \in [1..Len(image) -> Nat]
      /\ Read[Here] \in Nat
  BY Fetched
<1>2. CASE ~HasLabel(index)
  <2>1. Computes(Fail(s, "stack_underflow"))
    BY <1>2 DEF BranchTo
  <2> QED
    BY <2>1, ComputedFail DEF ErrorState
<1>3. CASE HasLabel(index)
  <2>1. label \in Label
    BY <1>3, LabelFound
  <2>2. clean \in OperandState
    BY <2>1, CleanedUpType
  <2>3. there \in [1..Len(image) -> Nat]
    <3>1. label.position \in Nat
      BY <2>1 DEF Label
    <3> HIDE DEF label
    <3> QED
      BY <1>1, <3>1
  <2>4. CASE label.op = "loop"
    <3>1. /\ operands' = s
          /\ branchPos' = Read[Here]
          /\ modPos' = there
          /\ UNCHANGED <<image, callStack, labelStack, active, globals, ff,
                         pending, inRunLoop>>
      BY <1>3, <2>4 DEF BranchTo
    <3>2. Kept
      BY <3>1, <2>3, CallsStay DEF IInv, Kept
    <3>3. SearchInv'
      BY <1>1, <3>1 DEF IInv, SearchInv, SearchHasHandler
    <3> QED
      BY <3>1, <3>2, <3>3, KeptInv DEF IInv
  <2>5. CASE label.op # "loop" /\ ~clean.ok
    <3>1. Computes(clean)
      BY <1>3, <2>5 DEF BranchTo
    <3> QED
      BY <2>2, <3>1, Computed
  <2>6. CASE label.op # "loop" /\ clean.ok
    <3>1. /\ operands' = clean
          /\ branchPos' = Read[Here]
          /\ modPos' = there
          /\ Search("end", "branch", there)
          /\ UNCHANGED <<image, callStack, labelStack, active, globals,
                         inRunLoop>>
      BY <1>3, <2>6 DEF BranchTo
    <3>2. Kept
      BY <3>1, <2>2, <2>3, CallsStay DEF IInv, Kept
    <3>3. "end" \in Target /\ branchPos' \in Nat
      BY <1>1, <3>1 DEF Target
    <3>4. SearchInv'
      BY <1>1, <2>3, <3>1, <3>3, SearchStarts
    <3> QED
      BY <3>1, <3>2, <3>4, KeptInv DEF IInv
  <2> QED
    BY <2>4, <2>5, <2>6
<1> QED
  BY <1>2, <1>3

\* br
LEMMA BranchStep ==
  ASSUME IInv, Branch
  PROVE  IInv'
<1>1. Decodes({"br"}) /\ BranchTo(Instr.arg, operands)
  BY Decoded DEF Branch
<1>2. Stepping /\ Instr.arg \in Nat /\ operands \in OperandState
  BY <1>1, InstrType DEF IInv
<1> QED
  BY <1>1, <1>2, Branched

\* br_if
LEMMA BranchIfStep ==
  ASSUME IInv, BranchIf
  PROVE  IInv'
<1> DEFINE popped == PopTyped(operands, "i32")
<1>1. /\ Decodes({"br_if"})
      /\ \/ BranchTo(Instr.arg, operands)
         \/ Computes(popped)
         \/ BranchTo(Instr.arg, popped)
  BY Decoded DEF BranchIf
<1>2. Stepping /\ Instr.arg \in Nat /\ operands \in OperandState
  BY <1>1, InstrType DEF IInv
<1>3. popped \in OperandState
  BY <1>2, PopTypedType DEF ValueType
<1> HIDE DEF popped
<1> QED
  BY <1>1, <1>2, <1>3, Branched, Computed

\* A label index that br_table may select
LEMMA SelectedType ==
  ASSUME IInv, Decodes({"br_table"}),
         NEW index \in Selected(TopCells(operands, 1)[1])
  PROVE  index \in Nat
<1> DEFINE cell == TopCells(operands, 1)[1]
<1>1. /\ operands \in OperandState /\ Instr.args \in Seq(Nat)
      /\ \A i \in 1..Len(Instr.args) : Instr.args[i] \in Nat
      /\ Instr.arg \in Nat
  BY InstrType, ElementOfSeq DEF IInv
<1>2. TopCells(operands, 1) \in Seq(Cell) /\ Len(TopCells(operands, 1)) = 1
  BY <1>1, PopTypes
<1>3. cell \in Cell
  BY <1>2, ElementOfSeq
<1> HIDE DEF cell
<1>4. CASE cell = Unknown
  <2>1. Selected(cell) =
          {Instr.args[i] : i \in 1..Len(Instr.args)} \cup {Instr.arg}
    BY <1>4 DEF Selected
  <2> QED
    BY <1>1, <2>1 DEF cell
<1>5. CASE cell # Unknown
  <2>1. cell \in Nat
    BY <1>3, <1>5, OperandsAssumption DEF Cell
  <2>2. cell < Len(Instr.args) => cell + 1 \in 1..Len(Instr.args)
    BY <1>1, <2>1
  <2>3. index \in Selected(cell)
    BY DEF cell
  <2>4. \/ cell < Len(Instr.args) /\ index = Instr.args[cell + 1]
        \/ index = Instr.arg
    BY <1>5, <2>3 DEF Selected
  <2> QED
    BY <1>1, <2>2, <2>4
<1> QED
  BY <1>4, <1>5

\* br_table
LEMMA BranchTableStep ==
  ASSUME IInv, BranchTable
  PROVE  IInv'
<1> DEFINE popped == PopTyped(operands, "i32")
<1>1. Decodes({"br_table"}) /\ Stepping
  BY DEF BranchTable, Decodes
<1>2. popped \in OperandState
  BY PopTypedType DEF IInv, ValueType
<1> HIDE DEF popped
<1>3. CASE Computes(popped)
  BY <1>1, <1>2, <1>3, Computed
<1>4. ASSUME NEW index \in Selected(TopCells(operands, 1)[1]),
             BranchTo(index, popped)
      PROVE  IInv'
  BY <1>1, <1>2, <1>4, SelectedType, Branched
<1>5. \/ Computes(popped)
      \/ \E index \in Selected(TopCells(operands, 1)[1]) : BranchTo(index, popped)
  BY DEF BranchTable, popped
<1> QED
  BY <1>3, <1>4, <1>5

-----------------------------------------------------------------------------
(***************************************************************************)
(* Calls and returns.                                                      *)
(***************************************************************************)

\* return and call
LEMMA CallSteps ==
  ASSUME IInv, Return \/ CallInstruction
  PROVE  IInv'
<1>1. /\ Stepping
      /\ UNCHANGED <<image, globals, inRunLoop>> /\ UNCHANGED searchVars
  BY Decoded DEF Return, CallInstruction
<1>2. Here \in 1..Len(image) /\ Read \in [1..Len(image) -> Nat]
  BY <1>1, Fetched
<1>3. operands \in OperandState /\ CallsInv /\ image \in Images
  BY DEF IInv
<1>4. Kept
  <2>1. CASE Return
    <3>1. ReturnFromFunction(operands, Read)
      BY <2>1 DEF Return
    <3> QED
      BY <1>1, <1>2, <1>3, <3>1, FunctionReturns
  <2>2. CASE CallInstruction
    <3>1. CallFunctionByIndex(operands, Read, Here, Instr.arg, "call")
      BY <2>2 DEF CallInstruction
    <3> QED
      BY <1>1, <1>2, <1>3, <3>1, FunctionCalled
  <2> QED
    BY <2>1, <2>2
<1> QED
  BY <1>1, <1>4, SearchStays, KeptInv DEF IInv

\* call_indirect
LEMMA CallIndirectStep ==
  ASSUME IInv, CallIndirect
  PROVE  IInv'
<1> DEFINE popped == PopTyped(operands, "i32")
           table  == image[Here].tables[Instr.arg]
<1>1. /\ Stepping
      /\ \/ Computes(popped)
         \/ Computes(Fail(popped, "invalid_index"))
         \/ /\ \E e : CallFunctionByIndex(popped, Read, Here, table[e],
                                          "call_indirect")
            /\ UNCHANGED <<image, globals, inRunLoop>>
            /\ UNCHANGED searchVars
  BY Decoded DEF CallIndirect
<1>2. popped \in OperandState /\ CallsInv /\ image \in Images
  BY PopTypedType DEF IInv, ValueType
<1> HIDE DEF popped, table
<1>3. CASE Computes(popped)
  BY <1>1, <1>2, <1>3, Computed
<1>4. CASE Computes(Fail(popped, "invalid_index"))
  BY <1>1, <1>2, <1>4, ComputedFail DEF ErrorState
<1>5. ASSUME NEW e,
             CallFunctionByIndex(popped, Read, Here, table[e], "call_indirect"),
             UNCHANGED <<image, globals, inRunLoop>>, UNCHANGED searchVars
      PROVE  IInv'
  <2>1. Here \in 1..Len(image) /\ Read \in [1..Len(image) -> Nat]
    BY <1>1, Fetched
  <2>2. Kept
    BY <1>2, <1>5, <2>1, FunctionCalled
  <2> QED
    BY <1>5, <2>2, SearchStays, KeptInv DEF IInv
<1> QED
  BY <1>1, <1>3, <1>4, <1>5

-----------------------------------------------------------------------------
(***************************************************************************)
(* Handlers that resume.                                                   *)
(***************************************************************************)

\* A module's position moves on to a position.
LEMMA AdvanceType ==
  ASSUME NEW positions \in [1..Len(image) -> Nat], NEW m
  PROVE  Advance(positions, m) \in [1..Len(image) -> Nat]
<1> DEFINE next == IF positions[m] > Len(image[m].code) THEN positions[m]
                   ELSE positions[m] + 1
<1>1. Advance(positions, m) = [positions EXCEPT ![m] = next]
  BY DEF Advance
<1>2. m \in 1..Len(image) => next \in Nat
  OBVIOUS
<1> HIDE DEF next
<1> QED
  BY <1>1, <1>2

\* The handlers that resume once their search has found its target
LEMMA ResumeSteps ==
  ASSUME IInv, ResumeIf \/ ResumeBranch \/ ResumeElse
  PROVE  IInv'
<1>1. /\ ~ff.on /\ pending # <<>> /\ pending' = Front(pending)
      /\ UNCHANGED <<image, globals, ff, branchPos, inRunLoop>>
  BY DEF ResumeIf, ResumeBranch, ResumeElse, Resumes
<1>2. SearchInv'
  <2>1. pending' \in Seq(Handler)
    BY <1>1, FrontType DEF IInv, SearchInv
  <2> QED
    BY <1>1, <2>1 DEF IInv, SearchInv, SearchHasHandler
<1>3. /\ operands \in OperandState /\ modPos \in [1..Len(image) -> Nat]
      /\ CallsInv
  BY DEF IInv
<1>4. CASE ResumeIf
  <2> DEFINE m == Last(pending).module
  <2>1. /\ operands' = operands \/ operands' = SetError(operands, "memory_oob")
        /\ modPos' = Advance(modPos, m)
        /\ UNCHANGED <<callStack, labelStack, active>>
    BY <1>4 DEF ResumeIf
  <2>2. operands' \in OperandState
    BY <1>3, <2>1, ErrorTypes DEF ErrorState
  <2>3. modPos' \in [1..Len(image) -> Nat]
    BY <1>3, <2>1, AdvanceType
  <2>4. Kept
    BY <1>1, <1>3, <2>1, <2>2, <2>3, CallsStay DEF Kept
  <2> QED
    BY <1>1, <1>2, <2>4, KeptInv DEF IInv
<1>5. CASE ResumeBranch
  <2>1. UNCHANGED <<operands, modPos, callStack, labelStack, active>>
    BY <1>5 DEF ResumeBranch
  <2>2. Kept
    BY <1>1, <1>3, <2>1, CallsStay DEF Kept
  <2> QED
    BY <1>1, <1>2, <2>2, KeptInv DEF IInv
<1>6. CASE ResumeElse
  <2>1. LeaveBlock(Last(pending).module, modPos)
    BY <1>6 DEF ResumeElse
  <2>2. Kept
    BY <1>1, <1>3, <2>1, BlockLeft
  <2> QED
    BY <1>1, <1>2, <2>2, KeptInv DEF IInv
<1> QED
  BY <1>4, <1>5, <1>6

\* The handlers whose search has failed
LEMMA FailedSearchSteps ==
  ASSUME IInv, SearchRunsOut \/ RetryIf \/ AbandonSearch
  PROVE  IInv'
<1>1. CASE SearchRunsOut
  <2>1. /\ operands' = [operands EXCEPT !.ok = FALSE]
        /\ UNCHANGED <<image, callStack, labelStack, active, modPos, globals,
                       inRunLoop>>
        /\ UNCHANGED searchVars
    BY <1>1 DEF SearchRunsOut
  <2>2. operands' \in OperandState
    BY <2>1 DEF IInv, OperandState
  <2>3. Kept
    BY <2>1, <2>2, CallsStay DEF IInv, Kept
  <2> QED
    BY <2>1, <2>3, SearchStays, KeptInv DEF IInv
<1>2. CASE RetryIf
  <2> DEFINE handler == Last(pending)
             retried == [handler EXCEPT !.kind = "if_end"]
             error   == IF operands.error = "stack_underflow" THEN "none"
                        ELSE operands.error
  <2>1. /\ pending # <<>>
        /\ operands' = [operands EXCEPT !.ok = TRUE, !.error = error]
        /\ modPos' = [modPos EXCEPT ![handler.module] = handler.position]
        /\ ff' = [on |-> TRUE, target |-> "end", depth |-> 0]
        /\ pending' = [pending EXCEPT ![Len(pending)].kind = "if_end"]
        /\ UNCHANGED <<image, callStack, labelStack, active, globals, branchPos,
                       inRunLoop>>
    BY <1>2 DEF RetryIf, IInv, OperandState
  <2>2. pending \in Seq(Handler) /\ Len(pending) \in 1..Len(pending)
    BY <2>1 DEF IInv, SearchInv
  <2>3. handler \in Handler /\ handler = pending[Len(pending)]
    BY <2>2, ElementOfSeq DEF Last
  <2>4. operands' \in OperandState
    <3>1. error \in ErrorState
      BY DEF IInv, OperandState, ErrorState
    <3> HIDE DEF error
    <3> QED
      BY <2>1, <3>1 DEF IInv, OperandState
  <2>5. handler.position \in Nat /\ retried \in Handler
    BY <2>3 DEF Handler
  <2>6. pending' \in Seq(Handler) /\ pending' # <<>>
    <3>1. pending' = [pending EXCEPT ![Len(pending)] = retried]
      BY <2>1, <2>3
    <3> HIDE DEF retried
    <3>2. /\ [pending EXCEPT ![Len(pending)] = retried] \in Seq(Handler)
          /\ Len([pending EXCEPT ![Len(pending)] = retried]) = Len(pending)
      BY <2>2, <2>5, ExceptSeq
    <3> QED
      BY <2>2, <3>1, <3>2
  <2>7. SearchInv'
    BY <2>1, <2>6 DEF IInv, SearchInv, SearchHasHandler, Target
  <2> HIDE DEF handler
  <2>8. modPos' \in [1..Len(image) -> Nat]
    BY <2>1, <2>5 DEF IInv
  <2>9. Kept
    BY <2>1, <2>4, <2>8, CallsStay DEF IInv, Kept
  <2> QED
    BY <2>1, <2>7, <2>9, KeptInv DEF IInv
<1>3. CASE AbandonSearch
  <2>1. /\ pending # <<>> /\ pending' = Front(pending)
        /\ ff' = [ff EXCEPT !.on = FALSE]
        /\ UNCHANGED <<image, operands, callStack, labelStack, active, modPos,
                       globals, branchPos, inRunLoop>>
    BY <1>3 DEF AbandonSearch, contextVars
  <2>2. pending' \in Seq(Handler)
    BY <2>1, FrontType DEF IInv, SearchInv
  <2>3. SearchInv'
    BY <2>1, <2>2 DEF IInv, SearchInv, SearchHasHandler
  <2>4. Kept
    BY <2>1, CallsStay DEF IInv, Kept
  <2> QED
    BY <2>1, <2>3, <2>4, KeptInv DEF IInv
<1> QED
  BY <1>1, <1>2, <1>3

-----------------------------------------------------------------------------
(***************************************************************************)
(* The host.                                                               *)
(***************************************************************************)

\* A host that uses the stacks
LEMMA HostOperandSteps ==
  ASSUME IInv, HostPush \/ HostPop \/ ReportFailure
  PROVE  IInv'
<1>1. /\ UNCHANGED <<image, callStack, labelStack, active, modPos, globals>>
      /\ UNCHANGED searchVars
      /\ inRunLoop' \in BOOLEAN
  BY DEF HostPush, HostPop, ReportFailure, IInv
<1>2. operands \in OperandState
  BY DEF IInv
<1>3. operands' \in OperandState
  <2>1. CASE HostPush
    <3>1. PICK operand \in HostOperands :
            operands' = PushValue(operands, operand[1], operand[2])
      BY <2>1 DEF HostPush
    <3>2. operand[1] \in ValueType /\ operand[2] \in Seq(Cell)
      BY InterpreterAssumption
    <3> QED
      BY <1>2, <3>1, <3>2, PushTypes
  <2>2. CASE HostPop
    BY <1>2, <2>2, TakeType DEF HostPop
  <2>3. CASE ReportFailure
    BY <1>2, <2>3 DEF ReportFailure, OperandState
  <2> QED
    BY <2>1, <2>2, <2>3
<1>4. Kept
  BY <1>1, <1>3, CallsStay DEF IInv, Kept
<1> QED
  BY <1>1, <1>4, SearchStays, KeptInv DEF IInv

\* A host that stops the context, or leaves the loop of wasmu_runFunction
LEMMA HostControlSteps ==
  ASSUME IInv, HostStop \/ FunctionReturned
  PROVE  IInv'
<1>1. CASE HostStop
  <2>1. /\ operands' = Stopped(operands) /\ DropCalls
        /\ UNCHANGED <<image, modPos, globals, inRunLoop>>
        /\ UNCHANGED searchVars
    BY <1>1 DEF HostStop
  <2>2. CallsInv' /\ operands' \in OperandState
    BY <2>1, CallsDropped, StoppedType DEF IInv
  <2>3. Kept
    BY <2>1, <2>2 DEF IInv, Kept
  <2> QED
    BY <2>1, <2>3, SearchStays, KeptInv DEF IInv
<1>2. CASE FunctionReturned
  <2>1. /\ inRunLoop' = FALSE
        /\ UNCHANGED <<image, operands, callStack, labelStack, active, modPos,
                       globals>>
        /\ UNCHANGED searchVars
    BY <1>2 DEF FunctionReturned, contextVars
  <2>2. Kept
    BY <2>1, CallsStay DEF IInv, Kept
  <2> QED
    BY <2>1, <2>2, SearchStays, KeptInv DEF IInv
<1> QED
  BY <1>1, <1>2

\* A host that calls a function (wasmu_callFunction, wasmu_runFunction)
LEMMA HostCallSteps ==
  ASSUME IInv, NEW m \in 1..Len(image), NEW f, HostCall(m, f) \/ RunFunction(m, f)
  PROVE  IInv'
<1>1. /\ CallFunctionByIndex(operands, modPos, m, f, "host")
      /\ UNCHANGED <<image, globals>> /\ UNCHANGED searchVars
      /\ inRunLoop' \in {inRunLoop, operands'.ok}
  BY DEF HostCall, RunFunction
<1>2. Kept
  BY <1>1, FunctionCalled DEF IInv
<1>3. inRunLoop' \in BOOLEAN
  BY <1>1, <1>2 DEF Kept, IInv, OperandState
<1> QED
  BY <1>1, <1>2, <1>3, SearchStays, KeptInv DEF IInv

-----------------------------------------------------------------------------
(***************************************************************************)
(* The theorems.                                                           *)
(***************************************************************************)

\* A step that changes nothing keeps the invariant.
LEMMA StutterInv ==
  ASSUME IInv, UNCHANGED vars
  PROVE  IInv'
<1>1. /\ UNCHANGED <<image, operands, callStack, labelStack, active, modPos,
                     globals, inRunLoop>>
      /\ UNCHANGED searchVars
  BY DEF vars, searchVars
<1>2. Kept
  BY <1>1, CallsStay DEF IInv, Kept
<1> QED
  BY <1>1, <1>2, SearchStays, KeptInv DEF IInv

\* Every step of the interpreter and of its host keeps the invariant.
LEMMA NextInv == IInv /\ [Next]_vars => IInv'
<1> SUFFICES ASSUME IInv, [Next]_vars PROVE IInv'
  OBVIOUS
<1>1. CASE UNCHANGED vars
  BY <1>1, StutterInv
<1>2. CASE FetchFails
  BY <1>2, SimpleSteps
<1>3. CASE Execute
  BY <1>3, EnterBlockStep, EnterIfStep, ElseStep, EndStep, SimpleSteps,
     BranchStep, BranchIfStep, BranchTableStep, CallSteps, CallIndirectStep,
     SelectStep, LocalGetStep, LocalSetStep, GlobalGetStep, GlobalSetStep,
     MemoryStep, ConstStep, NumericStep, ExtendStep DEF Execute
<1>4. CASE Skip
  BY <1>4, SearchSteps, SimpleSteps DEF Skip
<1>5. CASE Resume
  BY <1>5, ResumeSteps, FailedSearchSteps DEF Resume
<1>6. CASE Host
  BY <1>6, HostOperandSteps, HostControlSteps, HostCallSteps DEF Host
<1> QED
  BY <1>1, <1>2, <1>3, <1>4, <1>5, <1>6 DEF Next, Interpret

\* The invariant holds throughout.
THEOREM Invariance == Spec => []IInv
BY InitInv, NextInv, PTL DEF Spec

\* Every variable keeps its type, whatever the code executed and whatever the
\* host does.
THEOREM TypeCorrect == Spec => []TypeOK
<1>1. IInv => TypeOK
  BY DEF IInv, CallsInv, SearchInv, TypeOK
<1> QED
  BY <1>1, Invariance, PTL

\* The information cached on the active call (wasmu_populateActiveCallInfo) is
\* never stale, whatever the code executed and whatever the host does.
THEOREM CacheNeverStale == Spec => []CacheCoherent
<1>1. IInv => CacheCoherent
  BY DEF IInv, CallsInv
<1> QED
  BY <1>1, Invariance, PTL

\* The call stack has calls of functions that exist, and no more of them than
\* WASMU_CALL_STACK_DEPTH.
THEOREM CallDepthBounded == Spec => []CallsExist
<1>1. IInv => CallsExist
  BY DEF IInv, CallsInv
<1> QED
  BY <1>1, Invariance, PTL

\* A branch never reaches a block of another call: returns and stops take the
\* labels of a call with it.
THEOREM LabelsStayInCalls == Spec => []LabelsBelongToCalls
<1>1. IInv => LabelsBelongToCalls
  BY DEF IInv, CallsInv
<1> QED
  BY <1>1, Invariance, PTL

\* A context fast-forwards only while a handler waits for the outcome.
THEOREM SearchesHaveHandlers == Spec => []SearchHasHandler
<1>1. IInv => SearchHasHandler
  BY DEF IInv, SearchInv
<1> QED
  BY <1>1, Invariance, PTL
=============================================================================
