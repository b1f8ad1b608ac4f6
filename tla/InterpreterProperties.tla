----------------------- MODULE InterpreterProperties ------------------------
(***************************************************************************)
(* What makes the interpreter correct. The first group holds whatever code *)
(* is executed and whatever the host does, and is proved in                *)
(* InterpreterProofs; the second is about code that a WebAssembly          *)
(* validator accepts. What of the second needs no validator, or nothing of *)
(* one but SkipsPlainly, is proved in SearchProofs, and what of it is      *)
(* about the operand stacks in StackProofs, of code of which ValidSteps    *)
(* holds.                                                                  *)
(***************************************************************************)
EXTENDS Interpreter

Target == {"unreachable", "else", "end"}

\* Every variable has its type.
TypeOK ==
  /\ image \in Images
  /\ operands \in OperandState
  /\ callStack \in Seq(Call)
  /\ labelStack \in Seq(Label)
  /\ active \in ActiveCall
  /\ modPos \in [1..Len(image) -> Nat]
  /\ globals \in [1..Len(image) -> Seq(Global)]
  /\ ff \in [on : BOOLEAN, target : Target, depth : Nat]
  /\ branchPos \in Nat
  /\ pending \in Seq(Handler)
  /\ inRunLoop \in BOOLEAN

-----------------------------------------------------------------------------
(***************************************************************************)
(* Whatever the code is.                                                   *)
(***************************************************************************)

\* A call is of a function with code and a signature.
CallExists(call) ==
  /\ call.module \in 1..Len(image)
  /\ call.function \in 1..Len(image[call.module].functions)
  /\ FunctionOf(call).signature \in 1..Len(image[call.module].signatures)

\* Every call on the stack exists, and there are no more of them than
\* WASMU_CALL_STACK_DEPTH.
CallsExist ==
  /\ Len(callStack) <= CallStackDepth
  /\ \A n \in 1..Len(callStack) : CallExists(callStack[n])

\* The information cached about the active call is that of the innermost call,
\* at every step: a return, a stop or a failed call leaves nothing stale.
CacheCoherent ==
  IF callStack = <<>> THEN active.module = 0
  ELSE active = ActiveInfo(Last(callStack))

\* Every label belongs to a call that is still under way, and the labels of an
\* outer call lie below those of an inner one: no branch can reach a block of
\* another call.
LabelsBelongToCalls ==
  /\ \A i \in 1..Len(labelStack) : labelStack[i].callIndex \in 1..Len(callStack)
  /\ \A i, j \in 1..Len(labelStack) :
       i <= j => labelStack[i].callIndex <= labelStack[j].callIndex

\* The interpreter fast-forwards only on behalf of a handler that waits for it.
SearchHasHandler == ff.on => pending # <<>>

\* A search for an else or an end that a handler has started comes to an end,
\* however the skipped code is nested: wasmu_step returns to its caller, as
\* the README promises of a steppable interpreter.
StepsReturn == pending # <<>> ~> pending = <<>>

-----------------------------------------------------------------------------
(***************************************************************************)
(* Of valid code.                                                          *)
(***************************************************************************)

\* A call waits just after the call instruction that made the next one: the
\* position saved on the call stack is where its caller has got to, though
\* modules share one position between all their calls.
SuspendedAtCall ==
  \A n \in 1..(Len(callStack) - 1) :
    LET call   == callStack[n]
        module == image[call.module]
        callee == [module |-> callStack[n + 1].module,
                   index |-> callStack[n + 1].function]
    IN /\ call.position \in 1..Len(module.code)
       /\ LET instr == module.code[call.position] IN
          \/ /\ instr.op = "call"
             /\ Resolution(call.module, instr.arg) = callee
          \/ /\ instr.op = "call_indirect"
             /\ \E e \in 1..Len(module.tables[instr.arg]) :
                  Resolution(call.module, module.tables[instr.arg][e]) = callee

\* Valid code has its operands on the stacks when it needs them, with the types
\* it needs: wasmu_runFunction of it does not fail for want of them.  (While an
\* if looks for an else it may not have, the error says only that.)
NoOperandErrors ==
  pending = <<>> => operands.error \notin {"stack_underflow", "type_mismatch"}

\* The cells that the locals of the first n of some calls take, for every n
CellsBelow(calls) ==
  LET sum[n \in 0..Len(calls)] ==
        IF n = 0 THEN 0 ELSE sum[n - 1] + StackSize(FunctionOf(calls[n]).locals)
  IN sum

\* The cells that the locals of the calls under way take
LocalCells == CellsBelow(callStack)[Len(callStack)]

\* While nothing has failed, the value stack holds exactly the operands that
\* the type stack names, and the locals of the calls under way: what is popped
\* by one is what was pushed by the other.
StacksAgree ==
  operands.error = "none" =>
    Len(operands.data) = StackSize(operands.types) + LocalCells

\* A step leaves alone what was on the stacks when the innermost call was made,
\* its parameters excepted, unless it returns from it.
CallKeepsToItsOperands ==
  callStack # <<>> /\ operands'.error = "none" /\ Len(callStack') >= Len(callStack)
  => /\ Len(operands'.data) >= active.valueBase
     /\ Len(operands'.types) >= active.typeBase
     /\ \A i \in 1..active.valueBase : operands'.data[i] = operands.data[i]
     /\ \A i \in 1..active.typeBase : operands'.types[i] = operands.types[i]

\* So the operands and locals of a call's callers are as they were.
CallsKeepToTheirOperands == [][CallKeepsToItsOperands]_vars

\* A step returns from the function of the innermost call.
Returns ==
  /\ Return \/ End \/ ResumeElse
  /\ callStack # <<>> /\ Len(callStack') = Len(callStack) - 1

\* The results on top of the stack when a function returns are the results its
\* caller finds there.
ResultsSurviveReturn ==
  [][ Returns =>
        LET n == StackSize(active.results)
        IN TopCells(operands', n) = TopCells(operands, n)
    ]_vars

Stacks(s) == <<s.types, s.data>>

\* Code that is skipped has no effect but on the position and the labels.
SkippingIsInert ==
  [][ ff.on /\ ff'.on
      => /\ Stacks(operands') = Stacks(operands)
         /\ UNCHANGED <<callStack, globals>> ]_vars

\* Whether as many blocks are opened as are ended in the code from first to
\* last, and none is ended that was opened before.
Nested(code, first, last) ==
  LET Depth(n) == Cardinality({i \in first..n : code[i].op \in BlockOp})
                    - Cardinality({i \in first..n : code[i].op = "end"})
  IN Depth(last) = 0 /\ \A n \in first..last : Depth(n) >= 0

\* What a search may meet without going wrong: no else but of the block that it
\* is in itself, no end of a nested block without a label to take off, and no
\* else whose end has none.  The code does not look whether it skips them.
SkipsPlainly ==
  /\ Skips({"else"}) => ff.depth = 0
  /\ Skips({"end"}) /\ ff.depth > 0 => HasLabel(0)
  /\ operands.ok /\ ~ff.on /\ Len(pending) > 1 => HasLabel(0)

\* A search stops at the else or the end of the block it was started for, past
\* all blocks nested in it, and its handler resumes there.
SearchStopsAtMatch ==
  [][ pending # <<>> /\ operands.ok /\ pending' = Front(pending)
      => LET handler == Last(pending)
             code    == image[handler.module].code
             stop    == modPos[handler.module]
         IN /\ code[stop + 1].op = IF handler.kind = "if_else" THEN "else" ELSE "end"
            /\ Nested(code, handler.position + 1, stop)
    ]_vars

\* The interpreter never runs past the body of the function it executes.
PositionInFunction ==
  callStack # <<>> /\ operands.error = "none" =>
    LET fn == FunctionOf(Last(callStack))
    IN Pos \in fn.position..(fn.position + fn.size - 1)

-----------------------------------------------------------------------------
(***************************************************************************)
(* What a validator promises of the code, and what keeps it clear of the   *)
(* constructs that go wrong though they are valid (MCFindings).  It speaks *)
(* of types, labels and positions, and of how many cells a return drops;   *)
(* what becomes of the values is left to the interpreter, and is proved in *)
(* StackProofs.                                                            *)
(***************************************************************************)

\* The operands above the first n belong to the innermost block: those below
\* are of its callers or of the blocks around it.  (The label of an if is
\* pushed before its condition is popped, and its base is one too high.)
Own(n) ==
  /\ active.typeBase <= n
  /\ \A i \in 1..Len(labelStack) :
       labelStack[i].callIndex = Len(callStack) /\ labelStack[i].op # "if"
         => labelStack[i].typeBase <= n

\* The innermost block has operands of the types ts to pop, in this order.
MayPop(ts) ==
  /\ Own(Len(operands.types) - Len(ts))
  /\ \A i \in 1..Len(ts) :
       operands.types[(Len(operands.types) + 1) - i] = ts[i]

\* It has the arguments of a function to call.
MayInvoke(m, f) ==
  LET target == Resolution(m, f)
      params == image[target.module].signatures[FunctionAt(target).signature].params
  IN /\ ArgumentsFit(m, f)
     /\ ResolutionError(target) = "none" =>
          Own(Len(operands.types) - Len(params))

\* With types on the type stack, a branch finds the results of the block that
\* it leaves, and as many operands below them to drop, or none.
MayBranch(index, types) ==
  LET label == LabelAt(index)
      n     == Len(types) - label.typeBase
  IN /\ HasLabel(index)
     /\ label.op # "loop" =>
          /\ label.op # "if"
          /\ n = label.results \/ n >= 2 * label.results
          /\ StackSize(SubSeq(types, Len(types) - label.results + 1, Len(types)))
               = label.resultsSize

OperandsFit ==
  /\ Executes({"if", "br_if", "br_table"}) => MayPop(<<"i32">>)
  /\ Executes(NumericOp) => MayPop(NumericPops)
  /\ Executes(MemoryOp) => MayPop(MemoryPops)
  /\ Executes({"local.set", "local.tee"}) /\ Instr.arg \in 1..Len(active.locals)
       => MayPop(<<active.locals[Instr.arg].type>>)
  /\ Executes({"global.set"}) /\ Instr.arg \in 1..Len(globals[Here])
       => MayPop(<<globals[Here][Instr.arg].type>>)
  /\ Executes({"drop"}) => Own(Len(operands.types) - 1)
  /\ Executes({"call"}) => MayInvoke(Here, Instr.arg)
  /\ Executes({"br"}) => MayBranch(Instr.arg, operands.types)
  /\ Executes({"br_if"}) => MayBranch(Instr.arg, Front(operands.types))
  /\ Executes({"br_table"}) =>
       \A i \in 1..Len(Instr.args) : MayBranch(Instr.args[i], Front(operands.types))
  /\ Executes({"br_table"}) => MayBranch(Instr.arg, Front(operands.types))
  /\ ~Executes({"select", "extend", "call_indirect"})

\* The blocks of a call were entered in the order of the code, and a branch
\* has left all blocks within the one it leaves when it has found its end.
LabelsNest ==
  /\ \A i, j \in 1..Len(labelStack) :
       i < j /\ labelStack[i].callIndex = labelStack[j].callIndex
         => labelStack[i].position < labelStack[j].position
  /\ operands.ok /\ ~ff.on /\ pending # <<>> /\ Last(pending).kind = "branch" =>
       \A i \in 1..Len(labelStack) :
         labelStack[i].callIndex = Len(callStack)
           => labelStack[i].position <= Last(pending).position

\* No br_table is in code that is skipped: it would pop its index.
SkipsNoTable == ~Skips({"br_table"})

\* A return is about to happen.
MayReturn ==
  \/ Executes({"return"})
  \/ Decodes({"end"}) /\ ~(ff.on /\ ff.depth = 0) /\ ~HasLabel(0)
  \/ /\ operands.ok /\ ~ff.on /\ pending # <<>> /\ Last(pending).kind = "else"
     /\ ~HasLabel(0)

\* A function has as many cells below its results to drop as these take, or none.
ResultsFit ==
  MayReturn =>
    LET size  == StackSize(active.results)
        extra == (Len(operands.data) - active.valueBase) - size
    IN extra = 0 \/ extra >= size

\* What an instruction needs is in its place when it is executed.
ValidSteps ==
  OperandsFit /\ LabelsNest /\ SkipsNoTable /\ ResultsFit
=============================================================================
