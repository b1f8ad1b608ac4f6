------------------------------ MODULE Context -------------------------------
(***************************************************************************)
(* A wasmu execution context: the modules loaded into it, its call stack   *)
(* and label stack, and the information about the active call that it      *)
(* caches (src/stacks.h, src/contexts.h, src/declarations.h).              *)
(*                                                                         *)
(* Units.  Code is a sequence of decoded instructions, and a position      *)
(* counts the instructions read, so that code[position + 1] comes next.    *)
(* Indices of modules, functions, signatures, imports, tables, globals and *)
(* locals start at 1, and 0 stands for the C code's -1 and for NULL.       *)
(***************************************************************************)
EXTENDS Operands

CONSTANTS
  Images,                  \* the linked modules that a context may hold
  CallStackDepth,          \* WASMU_CALL_STACK_DEPTH, config.h
  ImportResolutionDepth    \* WASMU_IMPORT_RESOLUTION_DEPTH, config.h

BlockOp   == {"block", "loop", "if"}
NumericOp == {"unary", "binary", "float_compare", "convert"}
MemoryOp  == {"load", "store", "memory.size", "memory.grow"}

Op == BlockOp \cup NumericOp \cup MemoryOp \cup
      {"unreachable", "nop", "else", "end", "br", "br_if", "br_table",
       "return", "call", "call_indirect", "drop", "select",
       "local.get", "local.set", "local.tee", "global.get", "global.set",
       "const", "extend", "unknown"}

\* An instruction with its immediates, as far as its opcode has them: the
\* value type it works on; the object type of a conversion or the inline
\* result type of a block; an index; the targets of a br_table, whose default
\* is the index; a constant.
Instruction ==
  [op : Op, type : ValueType, types : Seq(ValueType), arg : Nat,
   args : Seq(Nat), cells : Seq(Cell)]

Signature == [params : Seq(ValueType), results : Seq(ValueType)]

\* native tells how the host's function behaves, if it is one.
Function ==
  [signature : Nat, import : Nat, native : {"none", "values", "refuse", "stop"},
   position : Nat, size : Nat, locals : Seq(ValueType)]

Import == [isFunction : BOOLEAN, module : Nat, index : Nat]
Global == [type : ValueType, cells : Seq(Cell)]

Module ==
  [code : Seq(Instruction), signatures : Seq(Signature),
   functions : Seq(Function), imports : Seq(Import), tables : Seq(Seq(Nat)),
   globals : Seq(Global), memory : BOOLEAN]

\* A host function is written for a signature of its module, which is short.
NativesFit(module) ==
  \A f \in 1..Len(module.functions) :
    module.functions[f].native # "none" =>
      LET s == module.functions[f].signature IN
      /\ s \in 1..Len(module.signatures)
      /\ Len(module.signatures[s].params) <= 2
      /\ Len(module.signatures[s].results) <= 1

\* A constant and the first value of a global have the width of their type: the
\* handlers and the parser read as many bytes as it takes.
ConstantsFit(module) ==
  /\ \A i \in 1..Len(module.code) :
       module.code[i].op = "const" =>
         Len(module.code[i].cells) = TypeSize(module.code[i].type)
  /\ \A g \in 1..Len(module.globals) :
       Len(module.globals[g].cells) = TypeSize(module.globals[g].type)

ASSUME ContextAssumption ==
  /\ Images \subseteq Seq(Module)
  /\ \A modules \in Images : \A m \in 1..Len(modules) :
       NativesFit(modules[m]) /\ ConstantsFit(modules[m])
  /\ CallStackDepth \in Nat \ {0}
  /\ ImportResolutionDepth \in Nat

Call ==
  [module : Nat, function : Nat, position : Nat, typeBase : Nat,
   valueBase : Nat]

Label ==
  [op : BlockOp, callIndex : Nat, position : Nat, results : Nat,
   resultsSize : Nat, typeBase : Nat, valueBase : Nat]

Slot == [position : Nat, type : ValueType]

\* What wasmu_populateActiveCallInfo caches; module is 0 while the context's
\* activeModule is NULL, and the rest is then left over from the last call.
\* results has the types of those locals that are marked as results.
ActiveCall ==
  [module : Nat, function : Nat, typeBase : Nat, valueBase : Nat,
   locals : Seq(Slot), results : Seq(ValueType)]

VARIABLES
  image,       \* the context's modules, parsed and linked: one of the Images
  operands,    \* the type stack, the value stack and the error state
  callStack,   \* the calls under way, the innermost last
  labelStack,  \* the labels of the blocks entered, the innermost last
  active,      \* the cached information on the innermost call
  modPos,      \* the position of each module
  globals      \* the globals of each module

NoCall == [module |-> 0, function |-> 0, typeBase |-> 0, valueBase |-> 0,
           locals |-> <<>>, results |-> <<>>]

FunctionOf(call)  == image[call.module].functions[call.function]
SignatureOf(call) == image[call.module].signatures[FunctionOf(call).signature]

Front(seq) == SubSeq(seq, 1, Len(seq) - 1)
Last(seq)  == seq[Len(seq)]

-----------------------------------------------------------------------------
(***************************************************************************)
(* The active call.                                                        *)
(***************************************************************************)

\* The slots of a call's locals.  The results of the signature get slots too,
\* between the parameters and the locals of the function.
StackLocals(call) ==
  LET types == SignatureOf(call).params \o SignatureOf(call).results
                 \o FunctionOf(call).locals
  IN [i \in 1..Len(types) |->
        [position |-> call.valueBase + StackSize(SubSeq(types, 1, i - 1)),
         type     |-> types[i]]]

\* wasmu_populateActiveCallInfo
ActiveInfo(call) ==
  [module |-> call.module, function |-> call.function,
   typeBase |-> call.typeBase, valueBase |-> call.valueBase,
   locals |-> StackLocals(call), results |-> SignatureOf(call).results]

-----------------------------------------------------------------------------
(***************************************************************************)
(* Calls and labels.                                                       *)
(***************************************************************************)
PushCall(calls, call) ==
  /\ callStack' = Append(calls, call)
  /\ active' = ActiveInfo(call)

\* Mutant of LabelsWithin: a return takes no labels off.
AllLabels(labels, calls) == labels

\* A return takes labels off the top of the stack up to the first one of a call
\* that still exists: that one, and all those below it, stay.
LabelsWithin(labels, calls) ==
  SubSeq(labels, 1,
    Cardinality({i \in 1..Len(labels) :
      \E j \in i..Len(labels) : labels[j].callIndex <= Len(calls)}))

\* Mutant of PopCall: the information about the call left stays cached.
PopCallOnly(s) ==
  /\ callStack # <<>>
  /\ operands' = s
  /\ callStack' = Front(callStack)
  /\ labelStack' = LabelsWithin(labelStack, Front(callStack))
  /\ UNCHANGED active

\* s is the operand state so far: an empty call stack leaves an error in it.
PopCall(s) ==
  IF callStack = <<>>
  THEN /\ operands' = SetError(s, "stack_underflow")
       /\ UNCHANGED <<callStack, labelStack, active>>
  ELSE /\ operands' = s
       /\ callStack' = Front(callStack)
       /\ labelStack' = LabelsWithin(labelStack, Front(callStack))
       /\ active' = IF Len(callStack) = 1 THEN [active EXCEPT !.module = 0]
                    ELSE ActiveInfo(callStack[Len(callStack) - 1])

PushLabel(op, results, s, position) ==
  labelStack' =
    Append(labelStack,
      [op |-> op, callIndex |-> Len(callStack), position |-> position,
       results |-> Len(results), resultsSize |-> StackSize(results),
       typeBase |-> Len(s.types), valueBase |-> Len(s.data)])

\* Whether wasmu_getLabel finds the label index of the innermost call; with no
\* call left the call index it asks for is -1, which every label matches.
HasLabel(index) ==
  /\ index < Len(labelStack)
  /\ \/ callStack = <<>>
     \/ labelStack[Len(labelStack) - index].callIndex = Len(callStack)

LabelAt(index) == labelStack[Len(labelStack) - index]

\* wasmu_stop empties the stacks and leaves the error state as it is.
Stopped(s) == [s EXCEPT !.types = <<>>, !.data = <<>>]

\* Mutant of DropCalls: the active module is left.
DropCallsOnly ==
  /\ callStack' = <<>>
  /\ labelStack' = <<>>
  /\ UNCHANGED active

DropCalls ==
  /\ callStack' = <<>>
  /\ labelStack' = <<>>
  /\ active' = [active EXCEPT !.module = 0]
=============================================================================
