---------------------------- MODULE Interpreter -----------------------------
(***************************************************************************)
(* The interpreter of wasmu (src/interpreter.h) and the host that drives   *)
(* it.                                                                     *)
(*                                                                         *)
(* A step is one call of wasmu_step: one opcode decoded.  Blocks are not   *)
(* indexed beforehand, so a branch "fast-forwards": it goes on stepping    *)
(* with the opcodes skipped, until the one it looks for.  That search is a *)
(* nested C call, wasmu_fastForward, from the middle of a handler, and     *)
(* pending is the stack of the handlers it will return to.                 *)
(***************************************************************************)
EXTENDS Calls

CONSTANTS
  HostOperands,      \* what a host may push: pairs of a type and its cells
  MaxHostOperands,   \* bound on the operands a host leaves on the stack
  CarefulHost,       \* whether the host keeps to the rules of Available
  MaxCells,          \* bound on the value stack in steps of code
  MaxLabels          \* bound on the label stack in steps of code

ASSUME InterpreterAssumption ==
  /\ HostOperands \subseteq (ValueType \X Seq(Cell))
  /\ \A operand \in HostOperands : Len(operand[2]) = TypeSize(operand[1])
  /\ MaxHostOperands \in Nat
  /\ CarefulHost \in BOOLEAN
  /\ MaxCells \in Nat /\ MaxLabels \in Nat

\* A handler that waits for wasmu_fastForward: a failed if that looks for its
\* else, or for its end; an else reached; a branch.  It knows its module and
\* the position it had.
Handler ==
  [kind : {"if_else", "if_end", "else", "branch"}, module : Nat, position : Nat]

VARIABLES
  ff,          \* the context's fastForward, target opcode and label depth
  branchPos,   \* positionBeforeFastForward
  pending,     \* the handlers waiting for a search, the innermost last
  inRunLoop    \* wasmu_runFunction is stepping the context

vars == <<image, operands, callStack, labelStack, active, modPos, globals,
          ff, branchPos, pending, inRunLoop>>

searchVars == <<ff, branchPos, pending>>

NotSearching == [on |-> FALSE, target |-> "unreachable", depth |-> 0]

\* wasmu_newContext, the modules being loaded, parsed and linked
Init ==
  /\ image \in Images
  /\ operands = NoOperands
  /\ callStack = <<>>
  /\ labelStack = <<>>
  /\ active = NoCall
  /\ modPos = [m \in 1..Len(image) |-> Len(image[m].code)]
  /\ globals = [m \in 1..Len(image) |-> image[m].globals]
  /\ ff = NotSearching
  /\ branchPos = 0
  /\ pending = <<>>
  /\ inRunLoop = FALSE

-----------------------------------------------------------------------------
(***************************************************************************)
(* Fetching.                                                               *)
(***************************************************************************)
Here == active.module
Code == image[Here].code
Pos  == modPos[Here]

\* Who steps the context: wasmu_fastForward, the loop of wasmu_runFunction, or
\* the host, which if it is careful does not go on after an error.
Driven ==
  \/ pending # <<>> /\ ff.on
  \/ pending = <<>> /\ (inRunLoop \/ (CarefulHost => operands.error = "none"))

\* The context is about to be stepped, and nothing has failed.  Only while it
\* skips code may its stacks be as large as the bounds.
Stepping ==
  /\ operands.ok /\ callStack # <<>> /\ Driven
  /\ ~ff.on => Len(operands.data) < MaxCells /\ Len(labelStack) < MaxLabels

\* Past the end of the code, and once any read was, no opcode is to be had.
CanFetch == Pos < Len(Code) /\ operands.error # "memory_oob"

Instr == Code[Pos + 1]

\* The module positions with the instruction read.  How far past the end of
\* the code a position is makes no difference, so it stops one past it.
Advance(positions, m) ==
  [positions EXCEPT ![m] = IF @ > Len(image[m].code) THEN @ ELSE @ + 1]

Read == Advance(modPos, Here)

Matches == ff.on /\ ff.depth = 0 /\ Instr.op = ff.target

\* The instruction is fetched and is one of ops.
Decodes(ops) == Stepping /\ CanFetch /\ ~Matches /\ Instr.op \in ops

\* Mutant of Executes: WASMU_FF_SKIP_HERE is forgotten.
ExecutesSkipped(ops) == Decodes(ops)

Executes(ops) == Decodes(ops) /\ ~ff.on
Skips(ops)    == Decodes(ops) /\ ff.on

FetchFails ==
  /\ Stepping /\ ~CanFetch
  /\ operands' = Fail(operands, "memory_oob")
  /\ modPos' = Read
  /\ UNCHANGED <<image, callStack, labelStack, active, globals, inRunLoop>>
  /\ UNCHANGED searchVars

\* A change of the operands alone
Computes(s) ==
  /\ operands' = s
  /\ modPos' = Read
  /\ UNCHANGED <<image, callStack, labelStack, active, globals, inRunLoop>>
  /\ UNCHANGED searchVars

-----------------------------------------------------------------------------
(***************************************************************************)
(* Fast-forwarding.                                                        *)
(***************************************************************************)

\* Mutant of Search: the block that is searched is counted as nested in itself.
SearchFromOutside(target, kind, positions) ==
  /\ ff' = [on |-> TRUE, target |-> target, depth |-> 1]
  /\ pending' = Append(pending,
       [kind |-> kind, module |-> Here, position |-> positions[Here]])

\* wasmu_fastForward, called by a handler of kind that is at positions
Search(target, kind, positions) ==
  /\ ff' = [on |-> TRUE, target |-> target, depth |-> 0]
  /\ pending' = Append(pending,
       [kind |-> kind, module |-> Here, position |-> positions[Here]])

\* The target is found: it is left to be read again.
FindTarget ==
  /\ Stepping /\ CanFetch /\ Matches
  /\ ff' = [ff EXCEPT !.on = FALSE]
  /\ UNCHANGED <<contextVars, branchPos, pending, inRunLoop>>

\* The opcodes that do something even when they are skipped
Unskippable == BlockOp \cup {"else", "end", "br_table", "unknown"}

SkipInstruction ==
  /\ Skips(Op \ Unskippable)
  /\ Computes(operands)

-----------------------------------------------------------------------------
(***************************************************************************)
(* Blocks.                                                                 *)
(***************************************************************************)

\* A block's result types are written in it, or in a signature of the module.
BadBlockType == Instr.arg > Len(image[Here].signatures)

BlockResults ==
  IF Instr.arg = 0 THEN Instr.types
  ELSE image[Here].signatures[Instr.arg].results

\* Mutant of SkipBlock: a nested block is not counted.
SkipBlockFlat ==
  /\ Skips(BlockOp)
  /\ ~BadBlockType
  /\ Computes(operands)

SkipBlock ==
  /\ Skips(BlockOp)
  /\ ~BadBlockType
  /\ ff' = [ff EXCEPT !.depth = @ + 1]
  /\ modPos' = Read
  /\ UNCHANGED <<image, operands, callStack, labelStack, active, globals,
                 branchPos, pending, inRunLoop>>

UnknownBlockType ==
  /\ Decodes(BlockOp)
  /\ BadBlockType
  /\ Computes(Fail(operands, "invalid_index"))

EnterBlock ==
  /\ Executes({"block", "loop"})
  /\ ~BadBlockType
  /\ PushLabel(Instr.op, BlockResults, operands, Read[Here])
  /\ modPos' = Read
  /\ UNCHANGED <<image, operands, callStack, active, globals, inRunLoop>>
  /\ UNCHANGED searchVars

\* The label of an if is pushed before its condition is popped.
EnterIf ==
  /\ Executes({"if"})
  /\ ~BadBlockType
  /\ PushLabel("if", BlockResults, operands, Read[Here])
  /\ operands' = PopTyped(operands, "i32")
  /\ modPos' = Read
  /\ \/ /\ operands'.ok => TRUE \in Truth(TopCells(operands, 1)[1])
        /\ UNCHANGED <<ff, pending>>
     \/ /\ operands'.ok /\ FALSE \in Truth(TopCells(operands, 1)[1])
        /\ Search("else", "if_else", Read)
  /\ UNCHANGED <<image, callStack, active, globals, branchPos, inRunLoop>>

\* An else that is reached, skipping or not, looks for the end of its block.
Else ==
  /\ Decodes({"else"})
  /\ modPos' = Read
  /\ Search("end", "else", Read)
  /\ UNCHANGED <<image, operands, callStack, labelStack, active, globals,
                 branchPos, inRunLoop>>

\* The end handler in module m: leave the innermost block of this call, and
\* return from the function if there is none.
LeaveBlock(m, positions) ==
  IF HasLabel(0)
  THEN /\ labelStack' = IF positions[m] < branchPos THEN labelStack
                        ELSE Front(labelStack)
       /\ modPos' = positions
       /\ UNCHANGED <<operands, callStack, active>>
  ELSE ReturnFromFunction(operands, positions)

\* Mutant of End: the depth of the search is not checked.
EndUnchecked ==
  /\ Decodes({"end"})
  /\ ff' = [ff EXCEPT !.depth = IF ff.on THEN @ - 1 ELSE @]
  /\ LeaveBlock(Here, Read)
  /\ UNCHANGED <<image, globals, branchPos, pending, inRunLoop>>

End ==
  /\ Decodes({"end"})
  /\ IF ff.on /\ ff.depth = 0
     THEN /\ operands' = Fail(operands, "stack_underflow")
          /\ modPos' = Read
          /\ UNCHANGED <<callStack, labelStack, active, ff>>
     ELSE /\ ff' = [ff EXCEPT !.depth = IF ff.on THEN @ - 1 ELSE @]
          /\ LeaveBlock(Here, Read)
  /\ UNCHANGED <<image, globals, branchPos, pending, inRunLoop>>

-----------------------------------------------------------------------------
(***************************************************************************)
(* Branches.                                                               *)
(***************************************************************************)

\* Mutant of CleanedUp: the clean-up starts at the bottom of the stacks.
CleanedUpAll(s, label) ==
  [s EXCEPT !.types = KeepTop(@, 0, label.results),
            !.data = KeepTop(@, 0, label.resultsSize)]

\* The operand state after the clean-up of a branch out of the block of label:
\* what lies between the base of the block and its results is removed.
CleanedUp(s, label) ==
  IF \/ Len(s.types) < label.typeBase + label.results
     \/ Len(s.data) < label.valueBase + label.resultsSize
  THEN Fail(s, "stack_underflow")
  ELSE [s EXCEPT
          !.types = KeepTop(@, label.typeBase, label.results),
          !.data = KeepTop(@, label.valueBase, label.resultsSize)]

\* Branch to the label index: back to the start of a loop, whose label and
\* operands stay as they are, or on to the end of a block.
BranchTo(index, s) ==
  LET label == LabelAt(index)
      clean == CleanedUp(s, label)
      there == [Read EXCEPT ![Here] = label.position]
  IN CASE ~HasLabel(index) ->
            Computes(Fail(s, "stack_underflow"))
       [] HasLabel(index) /\ label.op = "loop" ->
            /\ operands' = s
            /\ branchPos' = Read[Here]
            /\ modPos' = there
            /\ UNCHANGED <<image, callStack, labelStack, active, globals, ff,
                           pending, inRunLoop>>
       [] HasLabel(index) /\ label.op # "loop" /\ ~clean.ok ->
            Computes(clean)
       [] OTHER ->
            /\ operands' = clean
            /\ branchPos' = Read[Here]
            /\ modPos' = there
            /\ Search("end", "branch", there)
            /\ UNCHANGED <<image, callStack, labelStack, active, globals,
                           inRunLoop>>

Branch ==
  /\ Executes({"br"})
  /\ BranchTo(Instr.arg, operands)

\* The condition is popped once the label is known to exist.
BranchIf ==
  LET popped == PopTyped(operands, "i32")
      truth  == Truth(TopCells(operands, 1)[1])
  IN /\ Executes({"br_if"})
     /\ \/ /\ ~HasLabel(Instr.arg)
           /\ BranchTo(Instr.arg, operands)
        \/ /\ HasLabel(Instr.arg)
           /\ ~popped.ok \/ FALSE \in truth
           /\ Computes(popped)
        \/ /\ HasLabel(Instr.arg)
           /\ popped.ok /\ TRUE \in truth
           /\ BranchTo(Instr.arg, popped)

\* The targets of a br_table are its args, and its arg if the index is beyond
\* them.  An index of unknown value selects any of them.
Selected(cell) ==
  LET n == Len(Instr.args) IN
  CASE cell = Unknown -> {Instr.args[i] : i \in 1..n} \cup {Instr.arg}
    [] cell # Unknown /\ cell < n -> {Instr.args[cell + 1]}
    [] OTHER -> {Instr.arg}

\* The index is popped before the handler looks whether it is being skipped.
BranchTable ==
  LET popped == PopTyped(operands, "i32")
  IN /\ Decodes({"br_table"})
     /\ \/ /\ ~popped.ok \/ ff.on
           /\ Computes(popped)
        \/ /\ popped.ok /\ ~ff.on
           /\ \E index \in Selected(TopCells(operands, 1)[1]) :
                BranchTo(index, popped)

-----------------------------------------------------------------------------
(***************************************************************************)
(* Calls and returns.                                                      *)
(***************************************************************************)
Return ==
  /\ Executes({"return"})
  /\ ReturnFromFunction(operands, Read)
  /\ UNCHANGED <<image, globals, inRunLoop>>
  /\ UNCHANGED searchVars

CallInstruction ==
  /\ Executes({"call"})
  /\ CallFunctionByIndex(operands, Read, Here, Instr.arg, "call")
  /\ UNCHANGED <<image, globals, inRunLoop>>
  /\ UNCHANGED searchVars

\* The function is an element of a table: the one whose index is popped.
Elements(table, cell) ==
  IF cell = Unknown THEN 1..Len(table) ELSE {cell + 1} \cap 1..Len(table)

CallIndirect ==
  LET popped   == PopTyped(operands, "i32")
      tables   == image[Here].tables
      elements == IF Instr.arg \in 1..Len(tables)
                  THEN Elements(tables[Instr.arg], TopCells(operands, 1)[1])
                  ELSE {}
  IN /\ Executes({"call_indirect"})
     /\ \/ /\ ~popped.ok
           /\ Computes(popped)
        \/ /\ popped.ok /\ elements = {}
           /\ Computes(Fail(popped, "invalid_index"))
        \/ /\ popped.ok
           /\ \E e \in elements :
                CallFunctionByIndex(popped, Read, Here, tables[Instr.arg][e],
                                    "call_indirect")
           /\ UNCHANGED <<image, globals, inRunLoop>>
           /\ UNCHANGED searchVars

-----------------------------------------------------------------------------
(***************************************************************************)
(* Operands, locals, globals and memory.                                   *)
(***************************************************************************)
Unknowns(type) == Repeat(Unknown, TypeSize(type))

Nop ==
  /\ Executes({"nop"})
  /\ Computes(operands)

Unreachable ==
  /\ Executes({"unreachable"})
  /\ Computes(Fail(operands, "unreachable"))

\* An opcode that is not implemented fails even when it is skipped.
NotImplemented ==
  /\ Decodes({"unknown"})
  /\ Computes(Fail(operands, "not_implemented"))

Drop ==
  /\ Executes({"drop"})
  /\ Computes(DropTop(operands))

\* Either operand is put back, as cells without a type.
Select ==
  LET Take(s)   == PopCells(PopType(s), TypeSize(TopType(s)))
      Taken(s)  == TopCells(s, TypeSize(TopType(s)))
      popped    == PopTyped(operands, "i32")
      ifFalse   == Taken(popped)
      ifTrue    == Taken(Take(popped))
  IN /\ Executes({"select"})
     /\ IF ~popped.ok THEN Computes(popped)
        ELSE \E condition \in Truth(TopCells(operands, 1)[1]) :
               Computes(PushCells(Take(Take(popped)),
                                  IF condition THEN ifTrue ELSE ifFalse))

\* An index without a local crashes the interpreter, which reads through the
\* null pointer: such code is not followed any further.  So for globals.
LocalGet ==
  LET slot == active.locals[Instr.arg]
  IN /\ Executes({"local.get"})
     /\ Instr.arg \in 1..Len(active.locals)
     /\ Computes(PushValue(operands, slot.type,
          Slice(operands.data, slot.position, TypeSize(slot.type))))

LocalSet ==
  LET slot   == active.locals[Instr.arg]
      value  == TopCells(operands, TypeSize(slot.type))
      popped == PopTyped(operands, slot.type)
      stored == [popped EXCEPT
                   !.data = Overwrite(@, slot.position, value)]
  IN /\ Executes({"local.set", "local.tee"})
     /\ Instr.arg \in 1..Len(active.locals)
     /\ Computes(CASE ~popped.ok -> popped
                   [] popped.ok /\ Instr.op = "local.set" -> stored
                   [] OTHER -> PushValue(stored, slot.type, value))

GlobalGet ==
  LET global == globals[Here][Instr.arg]
  IN /\ Executes({"global.get"})
     /\ Instr.arg \in 1..Len(globals[Here])
     /\ Computes(PushValue(operands, global.type, global.cells))

GlobalSet ==
  LET global == globals[Here][Instr.arg]
      popped == PopTyped(operands, global.type)
  IN /\ Executes({"global.set"})
     /\ Instr.arg \in 1..Len(globals[Here])
     /\ operands' = popped
     /\ globals' = IF popped.ok
                   THEN [globals EXCEPT ![Here][Instr.arg].cells =
                           TopCells(operands, TypeSize(global.type))]
                   ELSE globals
     /\ modPos' = Read
     /\ UNCHANGED <<image, callStack, labelStack, active, inRunLoop>>
     /\ UNCHANGED searchVars

\* Memory is a component of its own: here what is read is unknown, and a store
\* may be refused.
MemoryPops ==
  CASE Instr.op = "store" -> <<Instr.type, "i32">>
    [] Instr.op = "memory.size" -> <<>>
    [] OTHER -> <<"i32">>

MemoryType == IF Instr.op = "load" THEN Instr.type ELSE "i32"

MemoryAccess ==
  LET popped == PopOperands(operands, MemoryPops)
  IN /\ Executes(MemoryOp)
     /\ \/ /\ ~image[Here].memory
           /\ Computes(Fail(operands, "invalid_index"))
        \/ /\ image[Here].memory
           /\ Computes(IF ~popped.ok \/ Instr.op = "store" THEN popped
                       ELSE PushValue(popped, MemoryType, Unknowns(MemoryType)))
        \/ /\ image[Here].memory /\ popped.ok /\ Instr.op = "store"
           /\ Computes(Fail(popped, "memory_oob"))

Const ==
  /\ Executes({"const"})
  /\ Computes(PushValue(operands, Instr.type, Instr.cells))

\* Arithmetic and conversions.  The integer comparisons are binary operators:
\* they push the type of their operands, where those of floats push i32.
NumericPops ==
  CASE Instr.op = "unary"   -> <<Instr.type>>
    [] Instr.op = "convert" -> Instr.types
    [] OTHER                -> <<Instr.type, Instr.type>>

NumericType == IF Instr.op = "float_compare" THEN "i32" ELSE Instr.type

Numeric ==
  LET popped == PopOperands(operands, NumericPops)
  IN /\ Executes(NumericOp)
     /\ Computes(IF ~popped.ok THEN popped
                 ELSE PushValue(popped, NumericType, Unknowns(NumericType)))

\* i64.extend_i32 pushes eight bytes and no type.
Extend ==
  LET popped == PopTyped(operands, "i32")
  IN /\ Executes({"extend"})
     /\ Computes(IF ~popped.ok THEN popped
                 ELSE PushCells(popped, Unknowns("i64")))

-----------------------------------------------------------------------------
(***************************************************************************)
(* Handlers that resume when a search ends.  A search ends well when it is *)
(* switched off, whoever found the target.                                 *)
(***************************************************************************)
Resumes(kinds) ==
  /\ operands.ok /\ ~ff.on
  /\ pending # <<>> /\ Last(pending).kind \in kinds
  /\ pending' = Front(pending)
  /\ UNCHANGED <<image, globals, ff, branchPos, inRunLoop>>

\* The else is found and read.
ResumeIf ==
  LET m == Last(pending).module
  IN /\ Resumes({"if_else"})
     /\ operands' = IF modPos[m] < Len(image[m].code) THEN operands
                    ELSE SetError(operands, "memory_oob")
     /\ modPos' = Advance(modPos, m)
     /\ UNCHANGED <<callStack, labelStack, active>>

ResumeBranch ==
  /\ Resumes({"if_end", "branch"})
  /\ UNCHANGED <<operands, modPos, callStack, labelStack, active>>

\* The code of else runs on into that of end.
ResumeElse ==
  /\ Resumes({"else"})
  /\ LeaveBlock(Last(pending).module, modPos)

\* The search ran out of calls to step.
SearchRunsOut ==
  /\ operands.ok /\ ff.on /\ callStack = <<>> /\ pending # <<>>
  /\ operands' = [operands EXCEPT !.ok = FALSE]
  /\ UNCHANGED <<image, callStack, labelStack, active, modPos, globals,
                 inRunLoop>>
  /\ UNCHANGED searchVars

\* Mutant of RetryIf: the second search is for the else again.
RetryElse ==
  LET handler == Last(pending)
  IN /\ ~operands.ok
     /\ pending # <<>> /\ handler.kind = "if_else"
     /\ operands' = [operands EXCEPT !.ok = TRUE]
     /\ modPos' = [modPos EXCEPT ![handler.module] = handler.position]
     /\ ff' = [on |-> TRUE, target |-> "else", depth |-> 0]
     /\ UNCHANGED <<image, callStack, labelStack, active, globals, branchPos,
                    pending, inRunLoop>>

\* An if that finds no else looks for its end instead.
RetryIf ==
  LET handler == Last(pending)
  IN /\ ~operands.ok
     /\ pending # <<>> /\ handler.kind = "if_else"
     /\ operands' = [operands EXCEPT
          !.ok = TRUE, !.error = IF @ = "stack_underflow" THEN "none" ELSE @]
     /\ modPos' = [modPos EXCEPT ![handler.module] = handler.position]
     /\ ff' = [on |-> TRUE, target |-> "end", depth |-> 0]
     /\ pending' = [pending EXCEPT ![Len(pending)].kind = "if_end"]
     /\ UNCHANGED <<image, callStack, labelStack, active, globals, branchPos,
                    inRunLoop>>

\* Mutant of AbandonSearch: the context goes on skipping.
AbandonHandler ==
  /\ ~operands.ok
  /\ pending # <<>> /\ Last(pending).kind # "if_else"
  /\ pending' = Front(pending)
  /\ UNCHANGED <<contextVars, ff, branchPos, inRunLoop>>

\* Any other handler fails with its search.
AbandonSearch ==
  /\ ~operands.ok
  /\ pending # <<>> /\ Last(pending).kind # "if_else"
  /\ ff' = [ff EXCEPT !.on = FALSE]
  /\ pending' = Front(pending)
  /\ UNCHANGED <<contextVars, branchPos, inRunLoop>>

-----------------------------------------------------------------------------
(***************************************************************************)
(* The host, between two calls into wasmu.                                 *)
(***************************************************************************)
Idle == operands.ok /\ pending = <<>> /\ ~inRunLoop

\* When the host may use the stacks: if it is careful, when no call is under
\* way and nothing has failed.
Available ==
  /\ Idle
  /\ CarefulHost => callStack = <<>> /\ operands.error = "none"
  /\ Len(operands.types) <= MaxHostOperands
  /\ Len(operands.data) <= 2 * MaxHostOperands

\* A careful host calls a function with operands of its parameters' types on
\* the stack.  The code does not check the types.
ArgumentsFit(m, f) ==
  LET target == Resolution(m, f)
      params == image[target.module].signatures[FunctionAt(target).signature].params
      n      == Len(params)
  IN ResolutionError(target) = "none" =>
       /\ n <= Len(operands.types)
       /\ \A i \in 1..n :
            operands.types[(Len(operands.types) - n) + i] = params[i]

MayCall(m, f) == Available /\ (CarefulHost => ArgumentsFit(m, f))

HostPush ==
  /\ Available /\ Len(operands.types) < MaxHostOperands
  /\ \E operand \in HostOperands :
       operands' = PushValue(operands, operand[1], operand[2])
  /\ UNCHANGED <<image, callStack, labelStack, active, modPos, globals,
                 inRunLoop>>
  /\ UNCHANGED searchVars

HostPop ==
  /\ Available /\ operands.types # <<>>
  /\ operands' = PopCells(PopType(operands), TypeSize(TopType(operands)))
  /\ UNCHANGED <<image, callStack, labelStack, active, modPos, globals,
                 inRunLoop>>
  /\ UNCHANGED searchVars

\* wasmu_callFunction: the host will step the context itself.
HostCall(m, f) ==
  /\ MayCall(m, f)
  /\ CallFunctionByIndex(operands, modPos, m, f, "host")
  /\ UNCHANGED <<image, globals, inRunLoop>>
  /\ UNCHANGED searchVars

\* wasmu_runFunction up to its loop
RunFunction(m, f) ==
  /\ MayCall(m, f)
  /\ CallFunctionByIndex(operands, modPos, m, f, "host")
  /\ inRunLoop' = operands'.ok
  /\ UNCHANGED <<image, globals>>
  /\ UNCHANGED searchVars

\* The loop of wasmu_runFunction ends: no call is left.
FunctionReturned ==
  /\ inRunLoop /\ operands.ok /\ pending = <<>> /\ callStack = <<>>
  /\ inRunLoop' = FALSE
  /\ UNCHANGED <<contextVars, searchVars>>

\* wasmu_step, or a call, has returned WASMU_FALSE to the host.
ReportFailure ==
  /\ ~operands.ok /\ pending = <<>>
  /\ operands' = [operands EXCEPT !.ok = TRUE]
  /\ inRunLoop' = FALSE
  /\ UNCHANGED <<image, callStack, labelStack, active, modPos, globals>>
  /\ UNCHANGED searchVars

HostStop ==
  /\ Idle
  /\ operands' = Stopped(operands)
  /\ DropCalls
  /\ UNCHANGED <<image, modPos, globals, inRunLoop>>
  /\ UNCHANGED searchVars

-----------------------------------------------------------------------------
Execute ==
  \/ EnterBlock \/ EnterIf \/ Else \/ End \/ UnknownBlockType
  \/ Branch \/ BranchIf \/ BranchTable
  \/ Return \/ CallInstruction \/ CallIndirect
  \/ Nop \/ Unreachable \/ NotImplemented \/ Drop \/ Select
  \/ LocalGet \/ LocalSet \/ GlobalGet \/ GlobalSet \/ MemoryAccess
  \/ Const \/ Numeric \/ Extend

Skip == FindTarget \/ SkipInstruction \/ SkipBlock

Resume ==
  ResumeIf \/ ResumeBranch \/ ResumeElse \/ SearchRunsOut \/ RetryIf
    \/ AbandonSearch

Interpret == FetchFails \/ Execute \/ Skip \/ Resume

Host ==
  \/ HostPush \/ HostPop \/ HostStop \/ FunctionReturned \/ ReportFailure
  \/ \E m \in 1..Len(image) : \E f \in 1..Len(image[m].functions) :
       HostCall(m, f) \/ RunFunction(m, f)

Next == Interpret \/ Host

Spec == Init /\ [][Next]_vars

\* A call into wasmu goes on until it returns: wasmu_fastForward and the loop
\* of wasmu_runFunction step again at once.  The host need not do anything.
Fairness ==
  WF_vars(/\ inRunLoop \/ pending # <<>>
          /\ Interpret \/ FunctionReturned \/ ReportFailure)

FairSpec == Spec /\ Fairness
=============================================================================
