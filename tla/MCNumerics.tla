---------------------------- MODULE MCNumerics -----------------------------
(***************************************************************************)
(* Bytes of two bits, so that numbers have 8 and 16: every number of four  *)
(* bytes for instructions with one operand, those at the edges for others. *)
(***************************************************************************)
EXTENDS NumericsProperties

StackBelow == <<1, 3>>

Every32 == 0..(2^CountBits - 1)

Some32 == {0, 1, 2, 3, 7, 8, 9, 16, 31, 85, 127, 128, 129, 170, 254, 255}

Some64 ==
  {0, 1, 2, 7, 15, 16, 17, 127, 128, 255, 256, 21845, 32767, 32768, 32769,
   65280, 65535}

\* Numbers from -8 to 8 in quarters, and some between those of more digits
SomeFloats == {q % 2^IntBits : q \in ((-32)..32) \cup {-1025, -1022, 1022, 1025}}

Pairs(xs, ys) == {<<x, y>> : x \in xs, y \in ys}

\* A division that the processor refuses ends the process of the host.
Divisible(pairs) ==
  {p \in pairs : p[2] # 0 /\ ~(p[1] = 32768 /\ p[2] = 65535)}

OperandsOf(name, type) ==
  LET every == IF type = "i32" THEN Every32 ELSE Some64
      some  == IF type = "i32" THEN Some32 ELSE Some64
  IN CASE name \in FloatUnary -> {<<x>> : x \in SomeFloats}
       [] name \in FloatBinary -> Pairs(SomeFloats, {0, 5, 65531, 65535})
       [] name = "wrap" -> {<<x>> : x \in Some64}
       [] name \in {"extend_s", "extend_u"} -> {<<x>> : x \in Every32}
       [] name \in Counting \cup {"eqz", "const", "read_uint"} ->
            {<<x>> : x \in every}
       [] name \in {"div_s", "div_u", "rem_s", "rem_u"} ->
            Divisible(Pairs(some, some))
       [] OTHER -> Pairs(some, some)

SomeOperands == [op \in Opcode |-> OperandsOf(op.name, op.type)]
=============================================================================
