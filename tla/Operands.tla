------------------------------ MODULE Operands ------------------------------
(***************************************************************************)
(* The operand stacks of a wasmu context (src/stacks.h): the type stack    *)
(* and the value stack, which the interpreter pushes and pops separately.  *)
(*                                                                         *)
(* Unit.  The C code counts bytes, and every push or pop moves 4 or 8 of   *)
(* them; here a CELL is 4 bytes, so an i32 or f32 is one cell and an i64   *)
(* or f64 is two.  A cell holds a member of Data or Unknown, which stands  *)
(* for "some value": the result of arithmetic, or memory read without      *)
(* having been written.                                                    *)
(*                                                                         *)
(* A stack is the sequence of its items, so its count (position, in bytes) *)
(* is the length of the sequence.  The C code keeps what was popped above  *)
(* the top of the stack and may read it again; here it is some value.      *)
(***************************************************************************)
EXTENDS Integers, Sequences, FiniteSets

CONSTANTS
  Data,      \* the values the constants of a program use
  Unknown    \* a cell whose value the model does not know

ASSUME OperandsAssumption ==
  /\ Data \subseteq Nat
  /\ Unknown \notin Nat

Cell == Data \cup {0, Unknown}

ValueType == {"i32", "i64", "f32", "f64"}

\* wasmu_ErrorState, declarations.h
ErrorState == {"none", "not_implemented", "memory_oob", "stack_underflow",
               "type_mismatch", "unreachable", "invalid_index",
               "precondition_failed", "depth_exceeded"}

TypeSize(t) == IF t \in {"i64", "f64"} THEN 2 ELSE 1

\* The cells a sequence of types takes: one each, and one more for each wide
\* one.  (The sum of TypeSize over ts, in a form that needs no recursion.)
StackSize(ts) ==
  Len(ts) + Cardinality({i \in 1..Len(ts) : TypeSize(ts[i]) = 2})

Repeat(x, n) == [i \in 1..n |-> x]

(***************************************************************************)
(* Arrays of cells, with 0-based offsets.                                  *)
(***************************************************************************)
Grown(array, n) ==
  IF Len(array) >= n THEN array ELSE array \o Repeat(Unknown, n - Len(array))

Slice(array, position, n) ==
  SubSeq(Grown(array, position + n), position + 1, position + n)

\* Write items at an offset; what falls above the top of the stack is lost.
Overwrite(array, position, items) ==
  [i \in 1..Len(array) |->
     IF i \in (position + 1)..(position + Len(items))
     THEN items[i - position] ELSE array[i]]

\* Mutant of KeepTop: what lies on the base is kept, not what is on the top.
KeepBottom(array, base, size) == Slice(array, 0, base + size)

\* Both clean-ups of the value stack keep the `size` cells on its top and drop
\* the others above base.  Their loops move the cells down by as many as are
\* dropped, and move only as many: the count that is wanted is size.
KeepTop(array, base, size) ==
  LET dropped == (Len(array) - base) - size
      moved   == IF dropped > 0
                 THEN Overwrite(array, base, Slice(array, base + dropped, dropped))
                 ELSE array
  IN Slice(moved, 0, base + size)

(***************************************************************************)
(* The operand state s of a context: the type stack, the value stack, the  *)
(* error state the pops may set, and ok, which is FALSE once the operation *)
(* under way has returned WASMU_FALSE.                                     *)
(***************************************************************************)
OperandState ==
  [types : Seq(ValueType), data : Seq(Cell), error : ErrorState, ok : BOOLEAN]

NoOperands == [types |-> <<>>, data |-> <<>>, error |-> "none", ok |-> TRUE]

SetError(s, e) == [s EXCEPT !.error = e]
Fail(s, e)     == [s EXCEPT !.error = e, !.ok = FALSE]

PushType(s, t)      == [s EXCEPT !.types = Append(@, t)]
PushCells(s, cells) == [s EXCEPT !.data = @ \o cells]
PushValue(s, t, cells) == PushType(PushCells(s, cells), t)

\* What wasmu_popType returns: i32 when there is nothing to pop.
TopType(s) == IF s.types = <<>> THEN "i32" ELSE s.types[Len(s.types)]

\* An underflow is recorded, and execution goes on.
PopType(s) ==
  IF s.types = <<>> THEN SetError(s, "stack_underflow")
  ELSE [s EXCEPT !.types = SubSeq(@, 1, Len(@) - 1)]

PopCells(s, n) ==
  IF Len(s.data) < n THEN SetError(s, "stack_underflow")
  ELSE [s EXCEPT !.data = SubSeq(@, 1, Len(@) - n)]

\* What wasmu_popInt returns: zero when there are not enough bytes.
TopCells(s, n) ==
  IF Len(s.data) < n THEN Repeat(0, n)
  ELSE SubSeq(s.data, Len(s.data) - n + 1, Len(s.data))

\* wasmu_popInt followed by WASMU_ASSERT_POP_TYPE.  Once an assertion has
\* failed the handler has returned and pops nothing more.
PopTyped(s, t) ==
  LET popped == PopType(PopCells(s, TypeSize(t))) IN
  CASE ~s.ok                      -> s
    [] s.ok /\ TopType(s) = t     -> popped
    [] s.ok /\ TopType(s) # t     -> Fail(popped, "type_mismatch")

\* The typed pops of one instruction; none pops more than two operands.
PopOperands(s, ts) ==
  CASE Len(ts) = 0 -> s
    [] Len(ts) = 1 -> PopTyped(s, ts[1])
    [] OTHER       -> PopTyped(PopTyped(s, ts[1]), ts[2])

\* The truth of a cell: a cell of unknown value may be either.
Truth(cell) == IF cell = Unknown THEN BOOLEAN ELSE {cell # 0}
=============================================================================
