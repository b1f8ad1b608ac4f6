---------------------------- MODULE MCValidCode -----------------------------
(***************************************************************************)
(* The interpreter on valid programs: calls between modules, host          *)
(* functions, recursion up to the depth limit, branches, loops and every   *)
(* kind of instruction that keeps the two stacks in step.                  *)
(***************************************************************************)
EXTENDS InterpreterProperties, Assembly

Sig(params, results) == [params |-> params, results |-> results]
Void == Sig(<<>>, <<>>)

\* Constants: a zero, a one, and either
Zero == ConstI("i32", <<0>>)
One  == ConstI("i32", <<1>>)
Some == ConstI("i32", <<Unknown>>)

Single(signatures, functions) ==
  <<LinkedModule(signatures, functions, <<>>, <<>>, <<>>, FALSE)>>

FunctionIn(module, index) ==
  [isFunction |-> TRUE, module |-> module, index |-> index]

\* Two modules that call each other, and a third with the host's functions.
Linked ==
  << LinkedModule(
       <<Sig(<<"i32">>, <<"i32">>), Sig(<<>>, <<"i32">>), Void>>,
       << ImportedFunction(1),
          WasmFunction(1, <<"i32">>,
            << IndexI("local.get", 1), IndexI("call", 1),
               IndexI("local.set", 2), IndexI("local.get", 2),
               IndexI("call", 3), I("end") >>),
          WasmFunction(1, <<>>,
            << IndexI("local.get", 1), I("return"), I("end") >>) >>,
       <<FunctionIn(2, 2)>>, <<>>, <<>>, FALSE),
     LinkedModule(
       <<Sig(<<"i32">>, <<"i32">>)>>,
       << ImportedFunction(1),
          WasmFunction(1, <<"i32">>,
            << IndexI("local.get", 1), Some, BlockI("if", <<>>),
               IndexI("local.get", 1), IndexI("call", 3), I("drop"), I("end"),
               IndexI("call", 1), IndexI("local.tee", 2), I("end") >>),
          ImportedFunction(2) >>,
       <<FunctionIn(3, 1), FunctionIn(1, 3)>>, <<>>, <<>>, FALSE),
     LinkedModule(
       <<Sig(<<"i32">>, <<"i32">>), Sig(<<"i64">>, <<>>)>>,
       <<NativeFunction(1, "values"), NativeFunction(2, "values")>>,
       <<>>, <<>>, <<>>, FALSE) >>

\* Imports that are not resolved, of another kind, or of themselves, and host
\* functions that fail or stop the context that calls them.
Failing ==
  << LinkedModule(<<Void>>,
       << WasmFunction(1, <<>>,
            << Some, BlockI("if", <<>>), IndexI("call", 3), I("end"), One,
               IndexI("call", 2), I("drop"), I("end") >>),
          NativeFunction(1, "refuse"), NativeFunction(1, "stop"),
          ImportedFunction(1), ImportedFunction(2), ImportedFunction(3) >>,
       << FunctionIn(0, 0), [FunctionIn(1, 1) EXCEPT !.isFunction = FALSE],
          FunctionIn(1, 6) >>, <<>>, <<>>, FALSE) >>

\* Recursion that goes on or not, and a call of a function that fails.
Recursive ==
  Single(<<Sig(<<"i32", "i64">>, <<"i32">>), Void>>,
    << WasmFunction(1, <<"i64", "f32">>,
         << IndexI("local.get", 1), BlockI("block", <<"i32">>),
            IndexI("local.get", 1), Some, IndexI("br_if", 0), I("drop"), Some,
            IndexI("local.get", 2), IndexI("call", 1), I("end"),
            TypedI("binary", "i32"), I("end") >>),
       WasmFunction(2, <<>>,
         << Some, BlockI("if", <<>>), I("unreachable"), I("end"),
            IndexI("call", 9), I("end") >>) >>)

\* Branches out of blocks and to a loop, and an if with an else.
Branching ==
  Single(<<Sig(<<>>, <<"i32">>), Void>>,
    << WasmFunction(1, <<"i32">>,
         << BlockI("block", <<"i32">>), BlockI("block", <<"i32">>), One, One,
            Some, IndexI("br_if", 1), IndexI("br", 0), I("nop"), I("end"),
            I("drop"), One, I("end"), I("end") >>),
       WasmFunction(2, <<>>,
         << BlockI("loop", <<>>), Some, IndexI("br_if", 0), I("nop"), I("end"),
            I("end") >>),
       WasmFunction(1, <<>>,
         << Some, [BlockI("if", <<>>) EXCEPT !.arg = 1], Some, I("else"), One,
            I("end"), I("end") >>) >>)

\* The operators, the globals and the memory.
Operators ==
  << LinkedModule(<<Sig(<<"i64">>, <<"i64">>), Void>>,
       << WasmFunction(1, <<>>,
            << IndexI("local.get", 1), IndexI("global.get", 1),
               TypedI("binary", "i64"), TypedI("unary", "i64"),
               ConvertI("f64", "i64"), ConstI("f64", <<0, 1>>),
               TypedI("float_compare", "f64"), IndexI("global.set", 2),
               IndexI("global.get", 2), TypedI("load", "i64"),
               IndexI("global.set", 1), I("memory.size"), I("memory.grow"),
               ConstI("f32", <<1>>), TypedI("store", "f32"),
               IndexI("local.get", 1), I("end") >>),
          WasmFunction(2, <<"i64">>,
            << IndexI("local.get", 1), IndexI("call", 1),
               IndexI("local.set", 1), I("end") >>) >>,
       <<>>, <<>>,
       <<[type |-> "i64", cells |-> <<0, 0>>], [type |-> "i32", cells |-> <<1>>]>>,
       TRUE) >>

ValidImages == {Linked, Failing, Recursive, Branching, Operators}

HostValues == {<<"i32", <<1>>>>, <<"i64", <<0, 1>>>>}
=============================================================================
