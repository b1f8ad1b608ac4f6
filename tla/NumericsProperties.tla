------------------------ MODULE NumericsProperties -------------------------
(***************************************************************************)
(* What the numeric instructions should compute, in terms of the bits and  *)
(* the values of numbers of their own width, and for which operands they   *)
(* do.                                                                     *)
(***************************************************************************)
EXTENDS Numerics, FiniteSets, FiniteSetsExt

Byte == 0..(2^ByteBits - 1)

LoopType ==
  [value : 0..(2^IntBits - 1), bits : 0..(2^CountBits - 1),
   after : 0..(2^CountBits - 1)]

\* The types of the value stack's bytes and of the loops' variables.
TypeOK ==
  /\ stack \in Seq(Byte)
  /\ code \in Seq(Byte)
  /\ position \in 0..(Len(code) + 1)
  /\ error \in BOOLEAN
  /\ loop \in LoopType
  /\ at \in {"idle", "chosen", "start", "loop", "read", "done"}

-----------------------------------------------------------------------------
N == Size * ByteBits

\* The operands, which are numbers of N bits, and their signed values
X == operands[1]
Y == operands[2]
Signed(x) == IF x >= 2^(N - 1) THEN x - 2^N ELSE x

Magnitude(i) == IF i < 0 THEN -i ELSE i

\* An operand of four bytes whose sign a wasmu_UInt has in its upper half
Widened(x) == Size < IntSize /\ Signed(x) < 0

BitsOf(x) == {i \in 0..(N - 1) : (x \div 2^i) % 2 = 1}

Done(names) == at = "done" /\ opcode.name \in names

\* The stack is as it was below the operands, with a result on it.
Yields(result) == stack = Below \o Bytes(result % 2^N, Size)

YieldsBits(bits) == Yields(MapThenSumSet(LAMBDA i : 2^i, bits))

Top == Signed(Popped(Size, 0) % 2^N)

Compared(name) ==
  CASE name = "eq"   -> X = Y
    [] name = "ne"   -> X # Y
    [] name = "lt_s" -> Signed(X) < Signed(Y)
    [] name = "lt_u" -> X < Y
    [] name = "gt_s" -> Signed(X) > Signed(Y)
    [] name = "gt_u" -> X > Y
    [] name = "le_s" -> Signed(X) <= Signed(Y)
    [] name = "le_u" -> X <= Y
    [] name = "ge_s" -> Signed(X) >= Signed(Y)
    [] name = "ge_u" -> X >= Y

\* What is left of a signed division has less than the divisor's magnitude, and
\* the sign of the dividend.
IsRemainder(r) ==
  /\ Magnitude(r) < Magnitude(Signed(Y))
  /\ r = 0 \/ (r < 0) = (Signed(X) < 0)

\* Operators on sign-extended numbers of either width are right on numbers of
\* that width: comparisons without a sign too, and divisions (the least number
\* by -1 wraps).  So are eqz, wrap and extend (interpreter.h:5, stacks.h:256).
OperatorsRight ==
  /\ Done(Comparison) => Yields(Truth(Compared(opcode.name)))
  /\ Done({"add"}) => Yields(Signed(X) + Signed(Y))
  /\ Done({"sub"}) => Yields(Signed(X) - Signed(Y))
  /\ Done({"mul"}) => Yields(Signed(X) * Signed(Y))
  /\ Done({"and"}) => YieldsBits(BitsOf(X) \cap BitsOf(Y))
  /\ Done({"or"})  => YieldsBits(BitsOf(X) \cup BitsOf(Y))
  /\ Done({"xor"}) =>
       YieldsBits((BitsOf(X) \cup BitsOf(Y)) \ (BitsOf(X) \cap BitsOf(Y)))
  /\ Done({"div_s"}) =>
       /\ Yields(Top)
       /\ IF Signed(X) = -(2^(N - 1)) /\ Signed(Y) = -1 THEN Top = Signed(X)
          ELSE IsRemainder(Signed(X) - Top * Signed(Y))
  /\ Done({"rem_s"}) =>
       /\ Yields(Top)
       /\ IsRemainder(Top)
       /\ (Signed(X) - Top) % Magnitude(Signed(Y)) = 0
  /\ Done({"eqz"})  => Yields(Truth(X = 0))
  /\ Done({"wrap"}) => Yields(X)
  /\ Done({"extend_u"}) => Yields(X)
  /\ Done({"extend_s"}) =>
       Yields(IF X < 2^(CountBits - 1) THEN X ELSE X - 2^CountBits)

\* Division, remainder and shift without a sign are right on numbers of eight
\* bytes, and of four if they are not negative, for then a wasmu_UInt has ones
\* above them.  Shifts of four bytes are right by less than their width
\* (interpreter.h:928-964).
UnsignedRight ==
  /\ (Done({"div_u"}) /\ ~Widened(X) /\ ~Widened(Y)) => Yields(X \div Y)
  /\ (Done({"rem_u"}) /\ ~Widened(X) /\ ~Widened(Y)) => Yields(X % Y)
  /\ (Done({"shl"}) /\ (Size = IntSize \/ Y < N)) =>
       YieldsBits({i \in (Y % N)..(N - 1) : i - (Y % N) \in BitsOf(X)})
  /\ (Done({"shr_s"}) /\ (Size = IntSize \/ Y < N)) =>
       YieldsBits({i \in 0..(N - 1) :
                     IF i + (Y % N) < N THEN i + (Y % N) \in BitsOf(X)
                     ELSE N - 1 \in BitsOf(X)})
  /\ (Done({"shr_u"}) /\ (Size = IntSize \/ Y < N) /\ ~Widened(X)) =>
       YieldsBits({i \in 0..(N - 1) : i + (Y % N) \in BitsOf(X)})

\* Leading zeros are counted right for every number, though the loop goes over
\* the extension of its sign, ones if the number is not negative or has eight
\* bytes, and trailing zeros but for zero, which get no result (common.h:97-156).
CountsRight ==
  /\ Done({"clz"}) => Yields(IF X = 0 THEN N ELSE N - 1 - Max(BitsOf(X)))
  /\ Done({"ctz"}) => X # 0 /\ Yields(Min(BitsOf(X)))
  /\ (Done({"popcnt"}) /\ ~Widened(X)) => Yields(Cardinality(BitsOf(X)))

\* Rotations, by any amount, of numbers of four bytes that are not negative are
\* right.  Of those of eight bytes only the lower half is kept, in a wasmu_Count.
\* In the negative ones of four bytes the ones above them join those rotated,
\* of which none is lost (interpreter.h:976, common.h:159-177).
RotationsRight ==
  LET RotatesTo(bits) ==
        LET kept == bits \cap 0..(CountBits - 1) IN
        IF Widened(X) THEN kept \subseteq BitsOf(Popped(Size, 0))
        ELSE YieldsBits(kept)
  IN /\ Done({"rotl"}) => RotatesTo({(i + Y) % N : i \in BitsOf(X)})
     /\ Done({"rotr"}) => RotatesTo({(i - Y) % N : i \in BitsOf(X)})

\* A number is read as it was written, in as many groups as its width allows,
\* whether or not it needs them, or the end of the code is met and reported; a
\* constant is pushed with its sign (modules.h:116-149).
ReadsRight ==
  LET whole == \E i \in 1..Len(code) : code[i] < 2^GroupBits IN
  /\ Done({"read_uint", "const"}) => (error <=> ~whole)
  /\ (Done({"read_uint"}) /\ ~error) => loop.value = X
  /\ (Done({"const"}) /\ ~error) => Yields(X)

\* Rounding is right in every direction but up, where it is for numbers that
\* are whole or not negative; halves are rounded away from zero (maths.h:1-27).
RoundingRight ==
  LET x == Signed(X)
      y == Signed(Y)
  IN /\ Done({"floor"}) => Yields(x - (x % 4))
     /\ (Done({"ceil"}) /\ (x >= 0 \/ x % 4 = 0)) => Yields(x + ((-x) % 4))
     /\ Done({"trunc"}) => Yields(IF x < 0 THEN x + ((-x) % 4) ELSE x - (x % 4))
     /\ Done({"nearest"}) =>
          \E r \in {x - 2, x - 1, x, x + 1, x + 2} :
            /\ r % 4 = 0
            /\ Magnitude(r) >= Magnitude(x) \/ Magnitude(r - x) # 2
            /\ Yields(r)
     /\ Done({"abs"}) => Yields(Magnitude(x))
     /\ Done({"neg"}) => Yields(-x)
     /\ Done({"min"}) => Yields(Min({x, y}))
     /\ Done({"max"}) => Yields(Max({x, y}))
     /\ Done({"copysign"}) =>
          Yields(IF y < 0 THEN -Magnitude(x) ELSE Magnitude(x))

Endless == opcode.name = "ctz" /\ X = 0

\* Every loop over the bits of a number, or over its groups in code, ends, but
\* for the count of the trailing zeros of zero, which goes on for ever
\* (CountsRight): no byte of it is the last to be skipped (common.h:124).
LoopsEnd == (at = "loop" /\ ~Endless) ~> at = "done"
=============================================================================
