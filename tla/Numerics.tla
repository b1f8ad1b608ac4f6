------------------------------ MODULE Numerics ------------------------------
(***************************************************************************)
(* The instructions that compute with numbers (src/interpreter.h), with    *)
(* the functions they use (src/common.h, src/maths.h, src/subjects.h), and *)
(* the decoding of numbers in code (src/modules.h).  Each behaviour is one *)
(* instruction, with its operands in bytes at the top of the value stack;  *)
(* its loops are taken turn by turn.                                       *)
(*                                                                         *)
(* A wasmu_Int and a wasmu_UInt are eight bytes, and are both the pattern  *)
(* of their bits here, a natural number.  A byte has ByteBits bits, which  *)
(* are eight in the code.  What an operator does when C leaves it open is  *)
(* what the instruction of a processor does: sums and products wrap, and a *)
(* shift is by the rest of its amount.  The bytes and the groups of a      *)
(* number, which C joins with an "or" and which never overlap, are added.  *)
(* Floating-point numbers stand for those that are multiples of a quarter  *)
(* and not negative zeros.                                                 *)
(***************************************************************************)
EXTENDS Integers, Sequences, Bitwise

CONSTANTS
  ByteBits,      \* the number of bits of a byte
  Below,         \* the bytes on the stack below the operands
  Operands       \* a function from instructions to sets of their operands

ASSUME NumericsAssumption == ByteBits \in {2, 4, 8}

IntSize   == 8
CountSize == 4

IntBits   == IntSize * ByteBits
CountBits == CountSize * ByteBits

Pattern(i) == i % 2^IntBits

\* The wasmu_Int of a pattern
AsInt(v) == IF v >= 2^(IntBits - 1) THEN v - 2^IntBits ELSE v

Truth(condition) == IF condition THEN 1 ELSE 0

VARIABLES
  opcode,    \* the instruction: its name and its type
  operands,  \* what it was given, or the number that is read
  stack,     \* the bytes of the value stack
  code,      \* the bytes after the opcode
  position,  \* how many of them were read
  error,     \* whether more bytes were read than there are
  loop,      \* the local variables of a loop
  at         \* how far the instruction is

vars == <<opcode, operands, stack, code, position, error, loop, at>>

\* value, the bits passed over, and for leading zeros those up to the last one
NoLoop == [value |-> 0, bits |-> 0, after |-> 0]

-----------------------------------------------------------------------------
(***************************************************************************)
(* Types of opcodes, src/subjects.h.                                       *)
(***************************************************************************)
SubjectType(op) == op.type

ObjectType(op) == IF op.name = "wrap" THEN "i64" ELSE "i32"

IsSigned(op) ==
  op.name \in {"lt_s", "gt_s", "le_s", "ge_s", "div_s", "rem_s", "shr_s",
               "extend_s"}

SizeOf(type) == IF type \in {"i32", "f32"} THEN 4 ELSE 8

Size == SizeOf(SubjectType(opcode))

Comparison == {"eq", "ne", "lt_s", "lt_u", "gt_s", "gt_u", "le_s", "le_u",
               "ge_s", "ge_u"}

IntOperator == Comparison \cup
  {"add", "sub", "mul", "div_s", "div_u", "rem_s", "rem_u", "and", "or", "xor",
   "shl", "shr_s", "shr_u"}

Counting == {"clz", "ctz", "popcnt"}

FloatUnary  == {"abs", "neg", "ceil", "floor", "trunc", "nearest"}
FloatBinary == {"min", "max", "copysign"}

-----------------------------------------------------------------------------
(***************************************************************************)
(* Integers on the value stack.                                            *)
(***************************************************************************)

\* Mutant of Bytes: what is left of the value goes into the byte.
BytesUnmasked(value, n) == [i \in 1..n |-> value \div 2^(ByteBits * (i - 1))]

\* wasmu_stackSetInt
Bytes(value, n) ==
  [i \in 1..n |-> (value \div 2^(ByteBits * (i - 1))) % 2^ByteBits]

\* Mutant of SignExtended: the bit above the sign is looked at.
SignExtendedAbove(value, bytes) ==
  IF bytes < IntSize /\ (value \div 2^(bytes * ByteBits)) % 2 = 1
    THEN value + (2^IntBits - 2^(bytes * ByteBits))
    ELSE value

SignExtended(value, bytes) ==
  IF bytes < IntSize /\ (value \div 2^(bytes * ByteBits - 1)) % 2 = 1
    THEN value + (2^IntBits - 2^(bytes * ByteBits))
    ELSE value

\* wasmu_popInt: the integer that ends below others of so many bytes
Popped(bytes, above) ==
  LET start == Len(stack) - above - bytes
      upTo[i \in 0..bytes] ==
        IF i = 0 THEN 0
        ELSE upTo[i - 1] + stack[start + i] * 2^(ByteBits * (i - 1))
  IN SignExtended(upTo[bytes], bytes)

\* wasmu_pushInt, after so many bytes have been popped
Pushed(popped, value, bytes) ==
  stack' = SubSeq(stack, 1, Len(stack) - popped) \o Bytes(value, bytes)

-----------------------------------------------------------------------------
(***************************************************************************)
(* Operators of C on wasmu_Int and wasmu_UInt.                             *)
(***************************************************************************)

\* Division rounds towards zero; a division by zero ends the host's process.
Quotient(x, y) ==
  LET q == (IF x < 0 THEN -x ELSE x) \div (IF y < 0 THEN -y ELSE y) IN
  IF (x < 0) = (y < 0) THEN q ELSE -q

Remainder(x, y) == x - y * Quotient(x, y)

\* Mutant of UnsignedQuotient: the operator is used on a wasmu_Int.
SignedQuotient(a, b) == Pattern(Quotient(AsInt(a), AsInt(b)))

UnsignedQuotient(a, b) == a \div b

ShiftedLeft(a, n) == (a % 2^(IntBits - n)) * 2^n

Operator(name, a, b) ==
  CASE name = "eq" -> Truth(a = b)
    [] name = "ne" -> Truth(a # b)
    [] name = "lt_s" -> Truth(AsInt(a) < AsInt(b))
    [] name = "lt_u" -> Truth(a < b)
    [] name = "gt_s" -> Truth(AsInt(a) > AsInt(b))
    [] name = "gt_u" -> Truth(a > b)
    [] name = "le_s" -> Truth(AsInt(a) <= AsInt(b))
    [] name = "le_u" -> Truth(a <= b)
    [] name = "ge_s" -> Truth(AsInt(a) >= AsInt(b))
    [] name = "ge_u" -> Truth(a >= b)
    [] name = "add" -> Pattern(a + b)
    [] name = "sub" -> Pattern(a - b)
    [] name = "mul" -> Pattern(AsInt(a) * AsInt(b))
    [] name = "div_s" -> Pattern(Quotient(AsInt(a), AsInt(b)))
    [] name = "div_u" -> UnsignedQuotient(a, b)
    [] name = "rem_s" -> Pattern(Remainder(AsInt(a), AsInt(b)))
    [] name = "rem_u" -> a % b
    [] name = "and" -> a & b
    [] name = "or"  -> a | b
    [] name = "xor" -> a ^^ b
    [] name = "shl" -> ShiftedLeft(a, b % IntBits)
    [] name = "shr_s" -> Pattern(AsInt(a) \div 2^(b % IntBits))
    [] name = "shr_u" -> a \div 2^(b % IntBits)

\* Mutant of RotationCount: the mask is one too large.
RotationCountOff(size, shift) == shift & (size * ByteBits)

RotationCount(size, shift) == shift & (size * ByteBits - 1)

\* wasmu_rotateLeft and wasmu_rotateRight, whose results become wasmu_Counts.
\* The halves overlap if value has ones above its size.
Rotated(name, value, size, shift) ==
  LET n     == RotationCount(size, shift)
      back  == size * ByteBits - n
      turned == IF name = "rotl"
                  THEN ShiftedLeft(value, n) | (value \div 2^back)
                  ELSE (value \div 2^n) | ShiftedLeft(value, back)
  IN (IF n = 0 THEN value ELSE turned) % 2^CountBits
-----------------------------------------------------------------------------
(***************************************************************************)
(* src/maths.h, on numbers of quarters.  A float that becomes an integer   *)
(* loses what comes after the point.                                       *)
(***************************************************************************)
Whole(q) == Quotient(q, 4)

Ceil(q) == IF q - 4 * Whole(q) = 0 THEN q ELSE 4 * (Whole(q) + 1)

\* Mutant of Floor: every negative number is rounded to the one below.
FloorBelow(q) == IF q >= 0 THEN 4 * Whole(q) ELSE 4 * (Whole(q) - 1)

Floor(q) ==
  IF q = 4 * Whole(q) \/ q >= 0 THEN 4 * Whole(q) ELSE 4 * (Whole(q) - 1)

Trunc(q) == 4 * Whole(q)

Nearest(q) == 4 * Whole(IF q < 0 THEN q - 2 ELSE q + 2)

FloatUnaryFn(name, q) ==
  CASE name = "abs"     -> IF q < 0 THEN -q ELSE q
    [] name = "neg"     -> -q
    [] name = "ceil"    -> Ceil(q)
    [] name = "floor"   -> Floor(q)
    [] name = "trunc"   -> Trunc(q)
    [] name = "nearest" -> Nearest(q)

FloatBinaryFn(name, p, q) ==
  CASE name = "min" -> IF p > q THEN q ELSE p
    [] name = "max" -> IF p < q THEN q ELSE p
    [] name = "copysign" ->
         IF (p < 0 /\ q < 0) \/ (p >= 0 /\ q >= 0) THEN p ELSE -p

-----------------------------------------------------------------------------
(***************************************************************************)
(* What an instruction finds: its operands on the stack, or the bytes of a *)
(* number in the code, in groups of all bits of a byte but the upper one,  *)
(* which says whether another group follows.                               *)
(***************************************************************************)
Opcode ==
  [name : IntOperator \cup Counting \cup {"eqz", "rotl", "rotr", "const"},
   type : {"i32", "i64"}]
  \cup [name : FloatUnary \cup FloatBinary, type : {"f64"}]
  \cup [name : {"extend_s", "extend_u"}, type : {"i64"}]
  \cup [name : {"wrap", "read_uint"}, type : {"i32"}]

IsRead(op) == op.name \in {"const", "read_uint"}

Converts(op) == op.name \in {"wrap", "extend_s", "extend_u"}

OperandSize(op) ==
  SizeOf(IF Converts(op) THEN ObjectType(op) ELSE SubjectType(op))

Stored(op, x) ==
  [i \in 1..OperandSize(op) |-> (x \div 2^(ByteBits * (i - 1))) % 2^ByteBits]

Given(op, given) ==
  CASE IsRead(op) -> <<>>
    [] Len(given) = 1 /\ ~IsRead(op) -> Stored(op, given[1])
    [] Len(given) = 2 -> Stored(op, given[1]) \o Stored(op, given[2])

GroupBits == ByteBits - 1

\* An integer in n groups
Groups(i, n) ==
  [g \in 1..n |-> ((i \div 2^(GroupBits * (g - 1))) % 2^GroupBits)
                    + (IF g < n THEN 2^GroupBits ELSE 0)]

\* The integer that is written for the number, and whether n groups hold it
Integer(op, x) ==
  LET bits == SizeOf(op.type) * ByteBits IN
  IF op.name = "const" /\ x >= 2^(bits - 1) THEN x - 2^bits ELSE x

Holds(n, op, x) ==
  LET i     == Integer(op, x)
      limit == 2^(IF op.name = "const" THEN GroupBits * n - 1
                  ELSE GroupBits * n)
  IN -limit <= i /\ i < limit

\* It takes as few groups as hold it or more, up to the number's width, and the
\* end of the code may be before that of the number.
Written(op, x) ==
  LET bits == SizeOf(op.type) * ByteBits
      n    == {k \in 1..bits : GroupBits * (k - 1) < bits /\ Holds(k, op, x)}
  IN IF ~IsRead(op) THEN {<<>>}
     ELSE {Groups(Integer(op, x), k) : k \in n}
            \cup {SubSeq(Groups(Integer(op, x), k), 1, k - 1) : k \in n}

-----------------------------------------------------------------------------
(***************************************************************************)
(* Instructions without loops, one step of wasmu_step each.                *)
(***************************************************************************)
Init ==
  /\ opcode = [name |-> "nop", type |-> "i32"]
  /\ operands = <<>>
  /\ stack = Below
  /\ code = <<>>
  /\ position = 0
  /\ error = FALSE
  /\ loop = NoLoop
  /\ at = "idle"

\* The next instruction, ...
Choose(op) ==
  /\ at = "idle"
  /\ opcode' = op
  /\ at' = "chosen"
  /\ UNCHANGED <<operands, stack, code, position, error, loop>>

\* ... what is on the stack or in the code when wasmu_step has read its opcode
Fetch(given) ==
  /\ at = "chosen"
  /\ operands' = given
  /\ stack' = stack \o Given(opcode, given)
  /\ code' \in Written(opcode, given[1])
  /\ at' = "start"
  /\ UNCHANGED <<opcode, position, error, loop>>

Starts(names) == at = "start" /\ opcode.name \in names

Ends ==
  /\ at' = "done"
  /\ UNCHANGED <<opcode, operands, code, position, error, loop>>

\* WASMU_INT_OPERATOR; what a comparison gives is as wide as its operands.
IntBinary ==
  /\ Starts(IntOperator)
  /\ Pushed(2 * Size,
            Operator(opcode.name, Popped(Size, Size), Popped(Size, 0)), Size)
  /\ Ends

EqualToZero ==
  /\ Starts({"eqz"})
  /\ Pushed(Size, Truth(Popped(Size, 0) = 0), Size)
  /\ Ends

Rotate ==
  /\ Starts({"rotl", "rotr"})
  /\ Pushed(2 * Size,
            Rotated(opcode.name, Popped(Size, Size), Size, Popped(Size, 0)),
            Size)
  /\ Ends

Wrap ==
  LET from == SizeOf(ObjectType(opcode)) IN
  /\ Starts({"wrap"})
  /\ Pushed(from, Popped(from, 0), Size)
  /\ Ends

\* The upper half is pushed by itself.
Extend ==
  LET value == Popped(4, 0)
      upper == IF IsSigned(opcode) /\ AsInt(value) < 0 THEN Pattern(-1) ELSE 0
  IN /\ Starts({"extend_s", "extend_u"})
     /\ stack' = SubSeq(stack, 1, Len(stack) - 4)
                   \o Bytes(value, 4) \o Bytes(upper, 4)
     /\ Ends

\* WASMU_FLOAT_UNARY_FN and WASMU_FLOAT_BINARY_FN
FloatUnaryOp ==
  /\ Starts(FloatUnary)
  /\ Pushed(8, Pattern(FloatUnaryFn(opcode.name, AsInt(Popped(8, 0)))), 8)
  /\ Ends

FloatBinaryOp ==
  /\ Starts(FloatBinary)
  /\ Pushed(16, Pattern(FloatBinaryFn(opcode.name, AsInt(Popped(8, 8)),
                                      AsInt(Popped(8, 0)))), 8)
  /\ Ends

-----------------------------------------------------------------------------
(***************************************************************************)
(* Counting zeros and ones, src/common.h.                                  *)
(***************************************************************************)

\* Mutant of Shifted: the value is shifted as a wasmu_Int.
ShiftedSigned(value, n) == Pattern(AsInt(value) \div 2^n)

Shifted(value, n) == value \div 2^n

Count(n) == n % 2^CountBits

\* The value is passed to the function, which starts.
Begin ==
  /\ Starts(Counting)
  /\ loop' = [NoLoop EXCEPT !.value = Popped(Size, 0)]
  /\ stack' = SubSeq(stack, 1, Len(stack) - Size)
  /\ at' = "loop"
  /\ UNCHANGED <<opcode, operands, code, position, error>>

Looping(name) == at = "loop" /\ opcode.name = name

Turn(value, bits, after) ==
  /\ loop' = [value |-> value, bits |-> Count(bits), after |-> Count(after)]
  /\ UNCHANGED <<opcode, operands, stack, code, position, error, at>>

Gives(result) ==
  /\ Pushed(0, Count(result), Size)
  /\ Ends

LeadingByte ==
  /\ Looping("clz")
  /\ loop.value >= 2^ByteBits
  /\ Turn(Shifted(loop.value, ByteBits), loop.bits + ByteBits,
          loop.after + ByteBits)

\* Mutant of LastOne: the bit is not counted yet when it is remembered.
LastOneBefore(l) == IF l.value % 2 = 1 THEN l.bits ELSE l.after

LastOne(l) == IF l.value % 2 = 1 THEN l.bits + 1 ELSE l.after

LeadingBit ==
  /\ Looping("clz")
  /\ loop.value < 2^ByteBits
  /\ loop.bits < Size * ByteBits
  /\ Turn(Shifted(loop.value, 1), loop.bits + 1, LastOne(loop))

LeadingEnd ==
  /\ Looping("clz")
  /\ loop.value < 2^ByteBits
  /\ loop.bits >= Size * ByteBits
  /\ Gives(loop.bits - loop.after)

TrailingByte ==
  /\ Looping("ctz")
  /\ loop.value % 2^ByteBits = 0
  /\ Turn(Shifted(loop.value, ByteBits), loop.bits + ByteBits, 0)

TrailingBit ==
  /\ Looping("ctz")
  /\ loop.value % 2^ByteBits # 0
  /\ loop.value % 2 = 0
  /\ Turn(Shifted(loop.value, 1), loop.bits + 1, 0)

Clamped(bits) == IF bits > Size * ByteBits THEN Size * ByteBits ELSE bits

TrailingEnd ==
  /\ Looping("ctz")
  /\ loop.value % 2 = 1
  /\ Gives(Clamped(loop.bits))

OnesBit ==
  /\ Looping("popcnt")
  /\ loop.value # 0
  /\ Turn(Shifted(loop.value, 1), loop.bits + (loop.value % 2), 0)

OnesEnd ==
  /\ Looping("popcnt")
  /\ loop.value = 0
  /\ Gives(Clamped(loop.bits))

-----------------------------------------------------------------------------
(***************************************************************************)
(* Reading numbers in code, src/modules.h.                                 *)
(***************************************************************************)

\* wasmu_readNext, and wasmu_read past the end
Next1 == IF position < Len(code) THEN code[position + 1] ELSE 0

Payload(byte) == byte % 2^GroupBits

\* In wasmu_readUInt a group is an int when it is shifted, of four bytes; in
\* wasmu_readInt it is a wasmu_Int.
Placed(name, byte, shift) ==
  IF name = "read_uint"
    THEN SignExtended((Payload(byte) * 2^shift) % 2^CountBits, CountSize)
    ELSE ShiftedLeft(Payload(byte), shift)

ReadGroup ==
  /\ opcode.name \in {"read_uint", "const"}
  /\ at \in {"start", "loop"}
  /\ position' = position + 1
  /\ error' = (error \/ position >= Len(code))
  /\ loop' = [loop EXCEPT
                !.value = @ + Placed(opcode.name, Next1, loop.bits),
                !.bits  = @ + GroupBits]
  /\ at' = IF Next1 >= 2^GroupBits THEN "loop" ELSE "read"
  /\ UNCHANGED <<opcode, operands, stack, code>>

\* Mutant of NegativeGroup: the bit that says whether a group follows.
NegativeGroupAbove(byte) == byte >= 2^GroupBits

\* The sign of the number is the upper bit of its last group.
NegativeGroup(byte) == Payload(byte) >= 2^(GroupBits - 1)

LastByte == IF position <= Len(code) THEN code[position] ELSE 0

\* The rest of wasmu_readInt, and the handler of i32.const and i64.const
ReadConst ==
  /\ at = "read"
  /\ opcode.name = "const"
  /\ Pushed(0, IF loop.bits < IntBits /\ NegativeGroup(LastByte)
                 THEN loop.value + (2^IntBits - 2^loop.bits)
                 ELSE loop.value,
            Size)
  /\ Ends

\* What was read becomes a wasmu_Count: an index, a size or a number of items.
ReadCount ==
  /\ at = "read"
  /\ opcode.name = "read_uint"
  /\ loop' = [loop EXCEPT !.value = Count(@)]
  /\ at' = "done"
  /\ UNCHANGED <<opcode, operands, stack, code, position, error>>

-----------------------------------------------------------------------------
Straight ==
  IntBinary \/ EqualToZero \/ Rotate \/ Wrap \/ Extend \/ FloatUnaryOp
    \/ FloatBinaryOp \/ Begin

Loops ==
  \/ LeadingByte \/ LeadingBit \/ LeadingEnd
  \/ TrailingByte \/ TrailingBit \/ TrailingEnd \/ OnesBit \/ OnesEnd
  \/ ReadGroup \/ ReadConst \/ ReadCount

Next ==
  \/ \E op \in Opcode : Choose(op)
  \/ at = "chosen" /\ \E given \in Operands[opcode] : Fetch(given)
  \/ Straight
  \/ Loops

\* A loop that has begun goes on.
Spec == Init /\ [][Next]_vars /\ WF_vars(Loops)
=============================================================================
