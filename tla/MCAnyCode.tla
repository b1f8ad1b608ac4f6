----------------------------- MODULE MCAnyCode ------------------------------
(***************************************************************************)
(* The interpreter on code that no validator has seen: every word of       *)
(* instructions over two alphabets, unbalanced blocks and all.             *)
(***************************************************************************)
EXTENDS InterpreterProperties, Assembly

Sig(params, results) == [params |-> params, results |-> results]

Zero == ConstI("i32", <<0>>)
Some == ConstI("i32", <<Unknown>>)

\* Every kind of handler
Letters ==
  << I("unreachable"), BlockI("block", <<"i32">>), BlockI("loop", <<>>),
     BlockI("if", <<>>), I("else"), I("end"), Some, IndexI("br", 0),
     IndexI("br", 1), IndexI("br_if", 0), TableI(<<1>>, 0), I("return"),
     IndexI("call", 2), IndexI("call_indirect", 1), I("select"),
     TypedI("extend", "i64"), I("drop"), IndexI("local.set", 1),
     IndexI("block", 9), I("unknown") >>

\* The structure of the code
Brackets ==
  << BlockI("block", <<>>), Zero, BlockI("if", <<>>), I("else"), I("end"),
     IndexI("br", 1) >>

\* The word number n over an alphabet
RECURSIVE Word(_, _, _)
Word(letters, length, n) ==
  IF length = 0 THEN <<>>
  ELSE Append(Word(letters, length - 1, n \div Len(letters)),
              letters[(n % Len(letters)) + 1])

\* A function with the code, and one that does nothing.
Image(code) ==
  << LinkedModule(<<Sig(<<>>, <<"i32">>), Sig(<<"i32">>, <<>>)>>,
       << WasmFunction(1, <<>>, code), WasmFunction(2, <<>>, <<I("end")>>) >>,
       <<>>, <<<<1, 2>>>>, <<>>, FALSE) >>

\* Calls of host functions, and of imports: of the calling function itself, of
\* a host function, of a chain too long to follow, and of nothing
Calling ==
  [n \in 1..8 |->
     IF n < 8 THEN IndexI("call", n + 1) ELSE BlockI("block", <<>>)]

FunctionIn(index) == [isFunction |-> TRUE, module |-> 1, index |-> index]

HostImage(code) ==
  << LinkedModule(<<Sig(<<>>, <<"i32">>), Sig(<<"i32">>, <<>>)>>,
       << WasmFunction(1, <<>>, code), NativeFunction(1, "values"),
          NativeFunction(2, "refuse"), NativeFunction(1, "stop"),
          ImportedFunction(1), ImportedFunction(2), ImportedFunction(3),
          ImportedFunction(4) >>,
       << FunctionIn(1), FunctionIn(4), FunctionIn(6),
          [module |-> 0, index |-> 0, isFunction |-> TRUE] >>,
       <<>>, <<>>, FALSE) >>

\* The function without an end follows: its code runs out.
Unended ==
  { << LinkedModule(<<Sig(<<>>, <<"i32">>), Sig(<<"i32">>, <<>>)>>,
         << WasmFunction(2, <<>>, <<I("end")>>),
            WasmFunction(1, <<>>, <<Some, BlockI("if", <<>>), Some>>) >>,
         <<>>, <<>>, <<>>, FALSE) >> }

RECURSIVE Power(_, _)
Power(b, e) == IF e = 0 THEN 1 ELSE b * Power(b, e - 1)

Words(letters, length) ==
  [n \in 1..Power(Len(letters), length) |-> Word(letters, length, n - 1)]

Bodies(words, before, after) ==
  {Image(before \o words[n] \o after) : n \in 1..Len(words)}

\* Those words that do not begin with an end or a branch
OpeningWords == SubSeq(Words(Brackets, 5), 1, 4 * Power(Len(Brackets), 4))

\* TLC evaluates a definition without parameters once, but not one that a cfg
\* substitutes for a constant: those only name others.
Programs ==
  Bodies(Words(Letters, 2), <<Some, Some>>, <<I("end")>>)
    \cup Bodies(OpeningWords, <<BlockI("block", <<>>), Zero>>,
              <<I("end"), I("end")>>)
    \cup {HostImage(Word(Calling, 3, n) \o <<I("end")>>) :
            n \in 0..(Power(Len(Calling), 3) - 1)}
    \cup Unended
AnyImages == Programs

HostValues == {<<"i32", <<Unknown>>>>}
=============================================================================
