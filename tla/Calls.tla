------------------------------- MODULE Calls --------------------------------
(***************************************************************************)
(* Calling a function and returning from one (src/functions.h).            *)
(*                                                                         *)
(* Each action takes the operand state s and the module positions that the *)
(* instruction under way has computed so far, and leaves the rest of the   *)
(* context's change to its own primed variables.                           *)
(***************************************************************************)
EXTENDS Context

contextVars ==
  <<image, operands, callStack, labelStack, active, modPos, globals>>

-----------------------------------------------------------------------------
(***************************************************************************)
(* Resolving imports.  A target is a module and a function of it; import   *)
(* resolution follows it from module to module, ImportResolutionDepth      *)
(* times at most.  Module 0 is an import that was never resolved.          *)
(***************************************************************************)
Exists(target) ==
  /\ target.module \in 1..Len(image)
  /\ target.index \in 1..Len(image[target.module].functions)

FunctionAt(target) == image[target.module].functions[target.index]

Imported(target) == FunctionAt(target).import # 0

Hop(target) ==
  LET imports == image[target.module].imports
      i       == FunctionAt(target).import
  IN IF ~Exists(target) \/ ~Imported(target) THEN target
     ELSE IF i \notin 1..Len(imports) \/ ~imports[i].isFunction
     THEN [target EXCEPT !.index = 0]
     ELSE [module |-> imports[i].module, index |-> imports[i].index]

Resolution(m, f) ==
  LET hops[n \in 0..ImportResolutionDepth] ==
        IF n = 0 THEN [module |-> m, index |-> f] ELSE Hop(hops[n - 1])
  IN hops[ImportResolutionDepth]

ResolutionError(target) ==
  IF target.module = 0 THEN "precondition_failed"
  ELSE IF ~Exists(target) THEN "invalid_index"
  ELSE IF Imported(target) THEN "depth_exceeded" ELSE "none"

-----------------------------------------------------------------------------
(***************************************************************************)
(* Calls.  via tells who calls: the host, or one of the call instructions, *)
(* whose code goes on after wasmu_callFunctionByIndex has returned.        *)
(***************************************************************************)

\* The drop instruction, see Interpreter
DropTop(s) ==
  LET size == TypeSize(TopType(s)) IN
  IF Len(s.data) < size THEN Fail(PopType(s), "stack_underflow")
  ELSE PopCells(PopType(s), size)

\* A failed call instruction replaces the error; a call_indirect that
\* succeeded runs on into the code of drop.
After(s, via) ==
  IF via = "host" THEN s
  ELSE IF ~s.ok THEN SetError(s, "invalid_index")
  ELSE IF via = "call" THEN s ELSE DropTop(s)

\* A host function that pops its parameters, the last one first, and pushes
\* one result at most.
NativeValues(s, signature) ==
  LET n      == Len(signature.params)
      popped == PopOperands(s, [i \in 1..n |-> signature.params[n + 1 - i]])
  IN IF ~popped.ok \/ signature.results = <<>> THEN popped
     ELSE PushValue(popped, signature.results[1],
                    Repeat(Unknown, TypeSize(signature.results[1])))

\* No frame is pushed for a host function: it runs on its caller's stacks.
CallNative(s, fn, signature, via) ==
  \/ /\ fn.native = "values"
     /\ operands' = After(NativeValues(s, signature), via)
     /\ UNCHANGED <<callStack, labelStack, active>>
  \/ /\ fn.native = "refuse"
     /\ operands' = After([s EXCEPT !.ok = FALSE], via)
     /\ UNCHANGED <<callStack, labelStack, active>>
  \/ /\ fn.native = "stop"
     /\ operands' = After(Stopped(s), via)
     /\ DropCalls

\* Mutants of Prepared: the locals take a cell each, whatever their types; a
\* call more than the limit is made.
PreparedNarrow(s, fn, signature) ==
  LET pushed == PushCells(s, Repeat(0, Len(fn.locals)))
  IN IF Len(s.types) < Len(signature.params) THEN Fail(pushed, "stack_underflow")
     ELSE IF Len(callStack) >= CallStackDepth THEN Fail(pushed, "depth_exceeded")
     ELSE pushed

PreparedOneMore(s, fn, signature) ==
  LET pushed == PushCells(s, Repeat(0, StackSize(fn.locals)))
  IN IF Len(s.types) < Len(signature.params) THEN Fail(pushed, "stack_underflow")
     ELSE IF Len(callStack) > CallStackDepth THEN Fail(pushed, "depth_exceeded")
     ELSE pushed

\* The operand state once the locals of fn are allocated and the checks of a
\* call are made.
Prepared(s, fn, signature) ==
  LET pushed == PushCells(s, Repeat(0, StackSize(fn.locals)))
  IN IF Len(s.types) < Len(signature.params) THEN Fail(pushed, "stack_underflow")
     ELSE IF Len(callStack) >= CallStackDepth THEN Fail(pushed, "depth_exceeded")
     ELSE pushed

\* Mutant of Suspended: the position of the caller is not saved.
NotSuspended(positions, caller) == callStack

\* The innermost call is to resume where the module that the call was made in
\* has got to, which is its own module unless the host makes the call.
Suspended(positions, caller) ==
  IF callStack = <<>> THEN <<>>
  ELSE [callStack EXCEPT ![Len(callStack)].position = positions[caller]]

\* A call that pops more cells than there are would have its base below the
\* bottom of the value stack: it is not followed any further.
EnterFunction(s, positions, caller, target, fn, via) ==
  LET signatures == image[target.module].signatures
      signature  == signatures[fn.signature]
      prepared   == IF fn.signature \in 1..Len(signatures)
                    THEN Prepared(s, fn, signature) ELSE Fail(s, "invalid_index")
  IN /\ modPos' = [positions EXCEPT ![target.module] = fn.position]
     /\ operands' = After(prepared, via)
     /\ IF prepared.ok
        THEN /\ StackSize(signature.params) <= Len(s.data)
             /\ PushCall(Suspended(positions, caller),
                  [module |-> target.module, function |-> target.index,
                   position |-> fn.position,
                   typeBase |-> Len(s.types) - Len(signature.params),
                   valueBase |-> Len(s.data) - StackSize(signature.params)])
        ELSE /\ callStack' = Suspended(positions, caller)
             /\ UNCHANGED active
     /\ UNCHANGED labelStack

\* wasmu_callFunctionByIndex
CallFunctionByIndex(s, positions, m, f, via) ==
  LET target == Resolution(m, f)
      error  == ResolutionError(target)
      fn     == FunctionAt(target)
  IN CASE error # "none" ->
            /\ operands' = After(Fail(s, error), via)
            /\ modPos' = positions
            /\ UNCHANGED <<callStack, labelStack, active>>
       [] error = "none" /\ fn.native # "none" ->
            /\ CallNative(s, fn, image[target.module].signatures[fn.signature], via)
            /\ modPos' = positions
       [] OTHER -> EnterFunction(s, positions, m, target, fn, via)

-----------------------------------------------------------------------------
(***************************************************************************)
(* Returning.                                                              *)
(***************************************************************************)

\* The types below a call's base.  If the call has popped any of them, the
\* entries it left in the array come back, and may be of any type.
Restored(types, base) ==
  IF base <= Len(types) THEN {SubSeq(types, 1, base)}
  ELSE {types \o lost : lost \in [1..(base - Len(types)) -> ValueType]}

\* Mutant of Returned: the types of the results are not put back.
ReturnedWithoutTypes(s) ==
  LET data == KeepTop(s.data, active.valueBase, StackSize(active.results))
  IN {[s EXCEPT !.data = data, !.types = types] :
        types \in Restored(s.types, active.typeBase)}

\* The operand states wasmu_returnFromFunction may leave: the results moved
\* down to the base of the call, their types put back on the type stack.
Returned(s) ==
  LET data == KeepTop(s.data, active.valueBase, StackSize(active.results))
  IN {[s EXCEPT !.data = data, !.types = types \o active.results] :
        types \in Restored(s.types, active.typeBase)}

\* Mutant of ReturnFromFunction: the module goes on where the callee ended.
ReturnInPlace(s, positions) ==
  /\ \E returned \in Returned(s) : PopCall(returned)
  /\ modPos' = positions

\* The caller resumes at the position saved in its call.
ReturnFromFunction(s, positions) ==
  /\ \E returned \in Returned(s) : PopCall(returned)
  /\ modPos' = IF Len(callStack) > 1
               THEN LET resumed == callStack[Len(callStack) - 1]
                    IN [positions EXCEPT ![resumed.module] = resumed.position]
               ELSE positions
=============================================================================
