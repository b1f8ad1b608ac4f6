----------------------------- MODULE MCFindings -----------------------------
(***************************************************************************)
(* Valid programs that the interpreter does not execute as its comments    *)
(* and tests say: one program for each run.                                *)
(***************************************************************************)
EXTENDS InterpreterProperties, Assembly

Sig(params, results) == [params |-> params, results |-> results]
Void == Sig(<<>>, <<>>)

Zero == ConstI("i32", <<0>>)
One  == ConstI("i32", <<1>>)

Single(signatures, functions, tables) ==
  { <<LinkedModule(signatures, functions, <<>>, tables, <<>>, FALSE)>> }

\* A result wider than what it is moved over
WideResult ==
  Single(<<Sig(<<"i32">>, <<"i64">>)>>,
    <<WasmFunction(1, <<>>, <<ConstI("i64", <<0, 1>>), I("end")>>)>>, <<>>)

\* An indirect call of a function without parameters, by one without operands
IndirectCall ==
  Single(<<Void>>,
    << WasmFunction(1, <<>>, <<Zero, IndexI("call_indirect", 1), I("end")>>),
       WasmFunction(1, <<>>, <<I("end")>>) >>, <<<<2>>>>)

\* A br_table out of a block, over its own code
TableBranch ==
  Single(<<Sig(<<>>, <<"i32">>)>>,
    << WasmFunction(1, <<>>,
         << One, BlockI("block", <<>>), Zero, TableI(<<>>, 0), I("end"),
            I("end") >>) >>, <<>>)

\* A false if whose first branch holds an if with an else of its own
NestedElse ==
  Single(<<Void>>,
    << WasmFunction(1, <<>>,
         << Zero, BlockI("if", <<>>), Zero, BlockI("if", <<>>), I("nop"),
            I("else"), I("nop"), I("end"), I("else"), I("nop"), I("end"),
            I("end") >>) >>, <<>>)

\* A false if without an else, over a block
SkippedBlock ==
  Single(<<Void>>,
    << WasmFunction(1, <<>>,
         << Zero, BlockI("if", <<>>), BlockI("block", <<>>), I("end"), I("end"),
            I("end") >>) >>, <<>>)

\* A function with a branch, and one before it with a block
EarlierBlock ==
  Single(<<Void>>,
    << WasmFunction(1, <<>>, <<BlockI("block", <<>>), I("end"), I("end")>>),
       WasmFunction(1, <<>>,
         <<BlockI("block", <<>>), IndexI("br", 0), I("end"), I("end")>>) >>, <<>>)

HostValues == {<<"i32", <<1>>>>}
=============================================================================
