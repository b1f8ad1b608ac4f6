------------------------------ MODULE Assembly ------------------------------
(***************************************************************************)
(* Short forms to write instructions, functions and modules with, for the  *)
(* modules that choose programs for TLC.                                   *)
(***************************************************************************)
EXTENDS Integers, Sequences

LOCAL Plain(op) ==
  [op |-> op, type |-> "i32", types |-> <<>>, arg |-> 0, args |-> <<>>,
   cells |-> <<>>]

I(op)                == Plain(op)
IndexI(op, index)    == [Plain(op) EXCEPT !.arg = index]
TypedI(op, type)     == [Plain(op) EXCEPT !.type = type]
BlockI(op, results)  == [Plain(op) EXCEPT !.types = results]
ConstI(type, cells)  == [Plain("const") EXCEPT !.type = type, !.cells = cells]
TableI(targets, default) ==
  [Plain("br_table") EXCEPT !.args = targets, !.arg = default]
ConvertI(type, from) ==
  [Plain("convert") EXCEPT !.type = type, !.types = <<from>>]

\* A function with its code, of a signature that is an index.
WasmFunction(signature, locals, code) ==
  [signature |-> signature, import |-> 0, native |-> "none", locals |-> locals,
   code |-> code]
ImportedFunction(import) ==
  [signature |-> 1, import |-> import, native |-> "none", locals |-> <<>>,
   code |-> <<>>]
NativeFunction(signature, native) ==
  [signature |-> signature, import |-> 0, native |-> native, locals |-> <<>>,
   code |-> <<>>]

\* In a code section the size and the locals of each function precede its code.
\* They are not instructions, and appear here as an opcode without a meaning.
LOCAL Body(fn) ==
  IF fn.code = <<>> THEN <<>> ELSE <<Plain("unknown")>> \o fn.code

LinkedModule(signatures, functions, imports, tables, variables, memory) ==
  LET code[n \in 0..Len(functions)] ==
        IF n = 0 THEN <<>> ELSE code[n - 1] \o Body(functions[n])
      Linked(n) ==
        [signature |-> functions[n].signature, import |-> functions[n].import,
         native |-> functions[n].native, position |-> Len(code[n - 1]) + 1,
         size |-> Len(functions[n].code), locals |-> functions[n].locals]
  IN [code |-> code[Len(functions)], signatures |-> signatures,
      functions |-> [n \in 1..Len(functions) |-> Linked(n)],
      imports |-> imports, tables |-> tables, globals |-> variables,
      memory |-> memory]
=============================================================================
