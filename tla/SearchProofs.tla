---------------------------- MODULE SearchProofs -----------------------------
(***************************************************************************)
(* Where the interpreter is and where it goes: calls wait at the           *)
(* instruction that made the next one, a search stops at the else or the   *)
(* end that it is for, and the code that it skips has no effect.           *)
(***************************************************************************)
EXTENDS InterpreterProofs, Recursion

-----------------------------------------------------------------------------
(***************************************************************************)
(* Calls that wait.                                                        *)
(***************************************************************************)

\* The call n is at a call instruction that calls the next one.
WaitsAtCall(n) ==
  LET call   == callStack[n]
      module == image[call.module]
      callee == [module |-> callStack[n + 1].module,
                 index |-> callStack[n + 1].function]
  IN /\ call.position \in 1..Len(module.code)
     /\ LET instr == module.code[call.position] IN
        \/ /\ instr.op = "call"
           /\ Resolution(call.module, instr.arg) = callee
        \/ /\ instr.op = "call_indirect"
           /\ \E e \in 1..Len(module.tables[instr.arg]) :
                Resolution(call.module, module.tables[instr.arg][e]) = callee

\* What functions are resolved to does not change.
LEMMA ResolutionStays ==
  ASSUME image' = image, NEW m, NEW f
  PROVE  Resolution(m, f)' = Resolution(m, f)
BY DEF Resolution, Hop, Exists, Imported, FunctionAt

\* Calls are taken off the stack, or none is.
CallsFall == \E n \in 0..Len(callStack) : callStack' = SubSeq(callStack, 1, n)

\* The calls below those that are taken off wait as they did.
LEMMA FallenWait ==
  ASSUME IInv, image' = image, CallsFall, SuspendedAtCall
  PROVE  SuspendedAtCall'
<1>1. callStack \in Seq(Call)
  BY DEF IInv, CallsInv
<1>2. PICK n \in 0..Len(callStack) : callStack' = SubSeq(callStack, 1, n)
  BY DEF CallsFall
<1>3. /\ Len(callStack') = n
      /\ \A i \in 1..n : callStack'[i] = callStack[i]
  BY <1>1, <1>2
<1>4. SUFFICES ASSUME NEW i \in 1..(Len(callStack') - 1)
               PROVE  WaitsAtCall(i)'
  BY DEF SuspendedAtCall, WaitsAtCall
<1>5. /\ i \in 1..(Len(callStack) - 1)
      /\ callStack'[i] = callStack[i] /\ callStack'[i + 1] = callStack[i + 1]
  BY <1>1, <1>3
<1>6. WaitsAtCall(i)
  BY <1>5 DEF SuspendedAtCall, WaitsAtCall
<1>7. \A m, f : Resolution(m, f)' = Resolution(m, f)
  BY ResolutionStays
<1> QED
  BY <1>5, <1>6, <1>7 DEF WaitsAtCall

\* The function that a call names, and what an import leads to, are targets.
FunctionTarget == [module : Nat, index : Nat]

\* A hop leads from a target to one.
\* A hop leads from a target to one.
LEMMA HopType ==
  ASSUME image \in Images, NEW t \in FunctionTarget
  PROVE  Hop(t) \in FunctionTarget
<1> DEFINE imports == image[t.module].imports
           i       == FunctionAt(t).import
<1>1. CASE ~Exists(t) \/ ~Imported(t)
  BY <1>1 DEF Hop
<1>2. CASE /\ Exists(t) /\ Imported(t)
           /\ i \notin 1..Len(imports) \/ ~imports[i].isFunction
  <2>1. Hop(t) = [t EXCEPT !.index = 0]
    BY <1>2 DEF Hop
  <2> QED
    BY <2>1 DEF FunctionTarget
<1>3. CASE /\ Exists(t) /\ Imported(t)
           /\ i \in 1..Len(imports) /\ imports[i].isFunction
  <2>1. Hop(t) = [module |-> imports[i].module, index |-> imports[i].index]
    BY <1>3 DEF Hop
  <2>2. t.module \in 1..Len(image)
    BY <1>3 DEF Exists
  <2>3. imports \in Seq(Import)
    BY <2>2, ModuleType
  <2> HIDE DEF imports, i
  <2>4. imports[i] \in Import
    BY <1>3, <2>3, ElementOfSeq
  <2> QED
    BY <2>1, <2>4 DEF FunctionTarget, Import
<1> QED
  BY <1>1, <1>2, <1>3

\* The recursion of Resolution
Hops(m, f) ==
  LET hops[n \in 0..ImportResolutionDepth] ==
        IF n = 0 THEN [module |-> m, index |-> f] ELSE Hop(hops[n - 1])
  IN hops

\* A function is resolved to a target, whether there is one or not.
LEMMA ResolutionType ==
  ASSUME image \in Images, NEW m \in Nat, NEW f \in Nat
  PROVE  Resolution(m, f) \in FunctionTarget
<1> DEFINE d     == ImportResolutionDepth
           b     == [module |-> m, index |-> f]
           H     == Hops(m, f)
           Eq(h) == h = [n \in 0..d |-> IF n = 0 THEN b ELSE Hop(h[n - 1])]
           step  == [n \in 1..d |-> [t \in FunctionTarget |-> Hop(t)]]
<1>1. d \in Nat /\ b \in FunctionTarget
  BY ContextAssumption DEF FunctionTarget
<1>2. H = CHOOSE h : Eq(h)
  BY DEF Hops
<1>3. Resolution(m, f) = H[d]
  BY DEF Resolution, Hops
<1> HIDE DEF d, b, H
<1>4. \A t \in FunctionTarget : Hop(t) \in FunctionTarget
  BY HopType
<1>5. \E h : Eq(h)
  <2>1. step \in [1..d -> [FunctionTarget -> FunctionTarget]]
    BY <1>4
  <2>2. IsRecursion(FunctionTarget, b, d, step)
    BY <1>1, <2>1 DEF IsRecursion
  <2>3. PICK h \in [0..d -> FunctionTarget] :
          h[0] = b /\ \A n \in 1..d : h[n] = step[n][h[n - 1]]
    <3> HIDE DEF step
    <3> QED
      BY <2>2, RecursionExists
  <2>4. ASSUME NEW n \in 1..d
        PROVE  step[n][h[n - 1]] = Hop(h[n - 1])
    <3>1. h[n - 1] \in FunctionTarget
      BY <1>1
    <3> QED
      BY <3>1
  <2> HIDE DEF step
  <2>5. ASSUME NEW n \in 0..d
        PROVE  h[n] = IF n = 0 THEN b ELSE Hop(h[n - 1])
    BY <1>1, <2>3, <2>4
  <2>6. Eq(h)
    BY <2>3, <2>5
  <2> QED
    BY <2>6
<1>6. Eq(H)
  BY <1>2, <1>5
<1>7. H[0] = b /\ \A n \in 1..d : H[n] = Hop(H[n - 1])
  BY <1>1, <1>6
<1> HIDE DEF Eq
<1> DEFINE T == {n \in Nat : n <= d => H[n] \in FunctionTarget}
<1>8. 0 \in T
  BY <1>1, <1>7
<1>9. ASSUME NEW n \in Nat, n \in T
      PROVE  n + 1 \in T
  <2>1. SUFFICES ASSUME n + 1 <= d PROVE H[n + 1] \in FunctionTarget
    OBVIOUS
  <2>2. n + 1 \in 1..d /\ (n + 1) - 1 = n /\ H[n] \in FunctionTarget
    BY <1>1, <1>9, <2>1
  <2>3. H[n + 1] = Hop(H[n])
    BY <1>7, <2>2
  <2> QED
    BY <1>4, <2>2, <2>3
<1>10. d \in T
  <2> HIDE DEF T
  <2> QED
    BY <1>1, <1>8, <1>9, Induction
<1> QED
  BY <1>1, <1>3, <1>10

\* What a call of a function does to the call stack
CallsRise(positions, m, f) ==
  \/ callStack' = callStack
  \/ callStack' = <<>>
  \/ callStack' = Suspended(positions, m)
  \/ \E call \in Call :
       /\ callStack' = Append(Suspended(positions, m), call)
       /\ Resolution(m, f) = [module |-> call.module, index |-> call.function]

\* A call that is made saves where its caller goes on.
\* A call that is made saves where its caller goes on.
LEMMA CallRises ==
  ASSUME CallsInv, image \in Images, image' = image,
         NEW s \in OperandState,
         NEW positions \in [1..Len(image) -> Nat], NEW m \in 1..Len(image),
         NEW f \in Nat, NEW via, CallFunctionByIndex(s, positions, m, f, via)
  PROVE  CallsRise(positions, m, f)
<1> DEFINE target == Resolution(m, f)
           error  == ResolutionError(target)
           fn     == FunctionAt(target)
           signatures == image[target.module].signatures
           signature  == signatures[fn.signature]
           prepared   == IF fn.signature \in 1..Len(signatures)
                         THEN Prepared(s, fn, signature)
                         ELSE Fail(s, "invalid_index")
           call == [module |-> target.module, function |-> target.index,
                    position |-> fn.position,
                    typeBase |-> Len(s.types) - Len(signature.params),
                    valueBase |-> Len(s.data) - StackSize(signature.params)]
<1>1. target \in FunctionTarget
  BY ResolutionType
<1>2. CASE error # "none"
  BY <1>2 DEF CallFunctionByIndex, CallsRise
<1>3. CASE error = "none" /\ fn.native # "none"
  BY <1>3 DEF CallFunctionByIndex, CallNative, DropCalls, CallsRise
<1>4. CASE error = "none" /\ fn.native = "none"
  <2>1. EnterFunction(s, positions, m, target, fn, via)
    BY <1>4 DEF CallFunctionByIndex
  <2>2. CASE prepared.ok
    <3>1. callStack' = Append(Suspended(positions, m), call)
          /\ active' = ActiveInfo(call)
      BY <2>1, <2>2 DEF EnterFunction, PushCall
    <3>2. call \in Call
      <4>1. CallsInv'
        BY FunctionCalled DEF Kept
      <4>2. callStack' \in Seq(Call)
        BY <4>1 DEF CallsInv
      <4>3. Suspended(positions, m) \in Seq(Call)
        BY SuspendedType
      <4> HIDE DEF call
      <4>4. Len(callStack') \in 1..Len(callStack') /\ callStack'[Len(callStack')] = call
        BY <3>1, <4>3
      <4> QED
        BY <4>2, <4>4, ElementOfSeq
    <3>3. target = [module |-> call.module, index |-> call.function]
      BY <1>1 DEF FunctionTarget
    <3> HIDE DEF call, target
    <3> QED
      BY <3>1, <3>2, <3>3 DEF CallsRise, target
  <2>3. CASE ~prepared.ok
    BY <2>1, <2>3 DEF EnterFunction, CallsRise
  <2> QED
    BY <2>2, <2>3
<1> QED
  BY <1>2, <1>3, <1>4

\* Only the innermost call is suspended, where it was made.
LEMMA SuspendedCalls ==
  ASSUME CallsInv, NEW positions, NEW m
  PROVE  LET calls == Suspended(positions, m)
             last  == Len(callStack)
         IN /\ \A n \in 1..(last - 1) : calls[n] = callStack[n]
            /\ callStack # <<>> =>
                 /\ calls[last].module = callStack[last].module
                 /\ calls[last].function = callStack[last].function
                 /\ calls[last].position = positions[m]
<1> DEFINE last == Len(callStack)
<1>1. callStack \in Seq(Call) /\ last \in Nat
  BY DEF CallsInv
<1>2. CASE callStack = <<>>
  BY <1>2
<1>3. CASE callStack # <<>>
  <2> DEFINE call == [callStack[last] EXCEPT !.position = positions[m]]
  <2>1. last \in 1..last
    BY <1>1, <1>3
  <2>2. Suspended(positions, m) = [callStack EXCEPT ![last] = call]
    BY <1>3 DEF Suspended
  <2>3. callStack[last] \in Call
    BY <1>1, <2>1, ElementOfSeq
  <2>4. /\ call.module = callStack[last].module
        /\ call.function = callStack[last].function
        /\ call.position = positions[m]
    BY <2>3 DEF Call
  <2> HIDE DEF call
  <2>5. \A n \in 1..last : [callStack EXCEPT ![last] = call][n]
                             = IF n = last THEN call ELSE callStack[n]
    BY <1>1
  <2> HIDE DEF last
  <2> QED
    BY <1>1, <2>1, <2>2, <2>4, <2>5 DEF last
<1> QED
  BY <1>2, <1>3

\* A call instruction, at the position before the one that is read, leaves its
\* call waiting if it makes another one.
LEMMA CallerWaits ==
  ASSUME IInv, image' = image, SuspendedAtCall, Stepping, CanFetch,
         NEW f \in Nat, CallsRise(Read, Here, f),
         \/ Instr.op = "call" /\ f = Instr.arg
         \/ /\ Instr.op = "call_indirect"
            /\ \E e \in 1..Len(image[Here].tables[Instr.arg]) :
                 f = image[Here].tables[Instr.arg][e]
  PROVE  SuspendedAtCall'
<1> DEFINE calls == Suspended(Read, Here)
           last  == Len(callStack)
<1>1. /\ callStack \in Seq(Call) /\ callStack # <<>> /\ CallsInv /\ image \in Images
      /\ Here \in 1..Len(image) /\ Read \in [1..Len(image) -> Nat]
  BY Fetched DEF IInv, CallsInv
<1>2. last \in Nat /\ last >= 1 /\ last \in 1..last
  BY <1>1
<1>3. callStack[last].module = Here
  BY <1>1 DEF CallsInv, CacheCoherent, ActiveInfo, Last, Here
<1>4. /\ calls \in Seq(Call) /\ Len(calls) = last
  BY <1>1, SuspendedType
<1>5. /\ \A n \in 1..(last - 1) : calls[n] = callStack[n]
      /\ calls[last].module = callStack[last].module
      /\ calls[last].function = callStack[last].function
      /\ calls[last].position = Read[Here]
  BY <1>1, SuspendedCalls
<1>6. Pos \in Nat /\ Len(Code) \in Nat /\ Read[Here] = Pos + 1
      /\ Pos + 1 \in 1..Len(Code)
  <2>1. Pos \in Nat
    BY Fetched DEF Pos
  <2>2. Code \in Seq(Instruction)
    BY <1>1, ModuleType DEF Code
  <2>3. Len(Code) \in Nat /\ Pos < Len(Code)
    BY <2>2, LenProperties DEF CanFetch
  <2>4. Read[Here] = Pos + 1
    BY <1>1, <2>1, <2>3 DEF Read, Advance, Pos, Code, IInv
  <2> QED
    BY <2>1, <2>3, <2>4
<1> HIDE DEF calls, last
<1>7. SUFFICES ASSUME NEW n \in 1..(Len(callStack') - 1)
               PROVE  WaitsAtCall(n)'
  BY DEF SuspendedAtCall, WaitsAtCall
<1>8. \A k, g : Resolution(k, g)' = Resolution(k, g)
  BY ResolutionStays
<1>9. \A k \in 1..(last - 1) : WaitsAtCall(k)
  BY DEF SuspendedAtCall, WaitsAtCall, last
<1>10. CASE callStack' = callStack
  BY <1>8, <1>9, <1>10 DEF WaitsAtCall, last
<1>11. CASE callStack' = <<>>
  BY <1>11
<1>12. ASSUME n \in 1..(last - 1), callStack'[n] = calls[n],
              callStack'[n + 1] = calls[n + 1]
       PROVE  WaitsAtCall(n)'
  <2>1. /\ callStack'[n] = callStack[n]
        /\ callStack'[n + 1].module = callStack[n + 1].module
        /\ callStack'[n + 1].function = callStack[n + 1].function
    <3>1. n + 1 \in 1..(last - 1) \/ n + 1 = last
      BY <1>2, <1>12
    <3> QED
      BY <1>5, <1>12, <3>1
  <2>2. WaitsAtCall(n)
    BY <1>9, <1>12
  <2> QED
    BY <1>8, <2>1, <2>2 DEF WaitsAtCall
<1>13. CASE callStack' = calls
  <2>1. n \in 1..(last - 1)
    BY <1>4, <1>13
  <2> QED
    BY <1>12, <1>13, <2>1
<1>14. ASSUME NEW call \in Call, callStack' = Append(calls, call),
              Resolution(Here, f)
                = [module |-> call.module, index |-> call.function]
       PROVE  WaitsAtCall(n)'
  <2>1. /\ Len(callStack') = last + 1
        /\ \A k \in 1..last : callStack'[k] = calls[k]
        /\ callStack'[last + 1] = call
    <3>1. callStack' = Append(calls, call)
      BY <1>14
    <3>2. /\ Len(Append(calls, call)) = Len(calls) + 1
          /\ \A k \in 1..Len(calls) : Append(calls, call)[k] = calls[k]
          /\ Append(calls, call)[Len(calls) + 1] = call
      BY ONLY <1>4, call \in Call, AppendProperties
    <3> QED
      BY <1>4, <3>1, <3>2
  <2>2. n \in 1..last
    BY <1>2, <2>1
  <2>3. CASE n # last
    <3>1. n \in 1..(last - 1) /\ n \in 1..last /\ n + 1 \in 1..last
      BY <1>2, <2>2, <2>3
    <3> QED
      BY <1>12, <2>1, <3>1
  <2>4. CASE n = last
    <3>1. /\ callStack'[n].module = Here
          /\ callStack'[n].position = Pos + 1
          /\ callStack'[n + 1] = call
      BY <1>2, <1>3, <1>5, <1>6, <2>1, <2>4
    <3>2. Code[Pos + 1] = Instr /\ Code = image[Here].code
      BY DEF Instr, Code
    <3>3. /\ image'[Here] = image[Here]
          /\ Pos + 1 \in 1..Len(image[Here].code)
          /\ image[Here].code[Pos + 1] = Instr
      BY <1>6, <3>2
    <3>4. CASE Instr.op = "call" /\ f = Instr.arg
      BY <1>8, <1>14, <3>1, <3>3, <3>4 DEF WaitsAtCall
    <3>5. CASE /\ Instr.op = "call_indirect"
               /\ \E e \in 1..Len(image[Here].tables[Instr.arg]) :
                    f = image[Here].tables[Instr.arg][e]
      BY <1>8, <1>14, <3>1, <3>3, <3>5 DEF WaitsAtCall
    <3> QED
      BY <3>4, <3>5
  <2> QED
    BY <2>3, <2>4
<1> QED
  BY <1>10, <1>11, <1>13, <1>14 DEF CallsRise, calls

\* A step that leaves the call stack alone, takes calls off it.
LEMMA SameFalls ==
  ASSUME CallsInv, callStack' = callStack
  PROVE  CallsFall
<1>1. callStack \in Seq(Call)
  BY DEF CallsInv
<1>2. /\ Len(callStack) \in 0..Len(callStack)
      /\ SubSeq(callStack, 1, Len(callStack)) = callStack
  BY <1>1
<1> QED
  BY <1>2 DEF CallsFall

\* So they do when a function returns,
LEMMA ReturnFalls ==
  ASSUME CallsInv, NEW s, NEW positions, ReturnFromFunction(s, positions)
  PROVE  CallsFall
<1>1. PICK r \in Returned(s) : PopCall(r)
  BY DEF ReturnFromFunction
<1>2. CASE callStack = <<>>
  BY <1>1, <1>2, SameFalls DEF PopCall
<1>3. CASE callStack # <<>>
  <2>1. callStack' = SubSeq(callStack, 1, Len(callStack) - 1)
    BY <1>1, <1>3 DEF PopCall, Front
  <2>2. Len(callStack) - 1 \in 0..Len(callStack)
    BY <1>3 DEF CallsInv
  <2> QED
    BY <2>1, <2>2 DEF CallsFall
<1> QED
  BY <1>2, <1>3

\* at the end of a block, which may return,
\* So do the end of a block, which may return,
LEMMA LeaveFalls ==
  ASSUME CallsInv, NEW m, NEW positions, LeaveBlock(m, positions)
  PROVE  CallsFall
BY ReturnFalls, SameFalls DEF LeaveBlock

\* and when the host stops the context.
\* and a host that stops the context.
LEMMA DropFalls ==
  ASSUME CallsInv, DropCalls
  PROVE  CallsFall
<1>1. callStack \in Seq(Call) /\ callStack' = <<>>
  BY DEF CallsInv, DropCalls
<1>2. 0 \in 0..Len(callStack) /\ SubSeq(callStack, 1, 0) = <<>>
  BY <1>1
<1> QED
  BY <1>1, <1>2 DEF CallsFall

\* ... and a branch.
LEMMA BranchSame ==
  ASSUME NEW index, NEW s, BranchTo(index, s)
  PROVE  callStack' = callStack /\ image' = image
BY DEF BranchTo, Computes

\* All steps of the interpreter but the call instructions take calls off the
\* stack.
LEMMA OthersFall ==
  ASSUME CallsInv, FetchFails \/ Execute \/ Skip \/ Resume
  PROVE  \/ image' = image /\ CallsFall
         \/ CallInstruction \/ CallIndirect
<1> SUFFICES ASSUME ~CallInstruction, ~CallIndirect
             PROVE  image' = image /\ CallsFall
  OBVIOUS
<1>1. CASE \/ FetchFails \/ EnterBlock \/ EnterIf \/ Else \/ UnknownBlockType
           \/ Nop \/ Unreachable \/ NotImplemented
  BY <1>1, SameFalls DEF FetchFails, EnterBlock, EnterIf, Else,
     UnknownBlockType, Nop, Unreachable, NotImplemented, Computes
<1>2. CASE Drop \/ Select \/ LocalGet \/ LocalSet \/ GlobalGet \/ GlobalSet
  BY <1>2, SameFalls DEF Drop, Select, LocalGet, LocalSet, GlobalGet,
     GlobalSet, Computes
<1>3. CASE MemoryAccess \/ Const \/ Numeric \/ Extend
  BY <1>3, SameFalls DEF MemoryAccess, Const, Numeric, Extend, Computes
<1>4. CASE End
  <2>1. image' = image
    BY <1>4 DEF End
  <2>2. callStack' = callStack \/ LeaveBlock(Here, Read)
    BY <1>4 DEF End
  <2> QED
    BY <2>1, <2>2, SameFalls, LeaveFalls
<1>5. CASE Branch \/ BranchIf \/ BranchTable
  <2>1. callStack' = callStack /\ image' = image
    BY <1>5, BranchSame DEF Branch, BranchIf, BranchTable, Computes
  <2> QED
    BY <2>1, SameFalls
<1>6. CASE Return
  BY <1>6, ReturnFalls DEF Return
<1>7. CASE Skip
  BY <1>7, SameFalls
     DEF Skip, FindTarget, SkipInstruction, SkipBlock, Computes, contextVars
<1>8. CASE Resume
  <2>1. CASE ResumeElse
    BY <2>1, LeaveFalls DEF ResumeElse, Resumes
  <2>2. CASE ResumeIf \/ ResumeBranch
    BY <2>2, SameFalls DEF ResumeIf, ResumeBranch, Resumes
  <2>3. CASE SearchRunsOut \/ RetryIf \/ AbandonSearch
    BY <2>3, SameFalls DEF SearchRunsOut, RetryIf, AbandonSearch, contextVars
  <2> QED
    BY <1>8, <2>1, <2>2, <2>3 DEF Resume
<1> QED
  BY <1>1, <1>2, <1>3, <1>4, <1>5, <1>6, <1>7, <1>8 DEF Execute

\* A call instruction
LEMMA CallWaits ==
  ASSUME IInv, SuspendedAtCall, CallInstruction
  PROVE  SuspendedAtCall'
<1>1. /\ Stepping /\ CanFetch /\ Instr.op = "call" /\ image' = image
      /\ CallFunctionByIndex(operands, Read, Here, Instr.arg, "call")
  BY DEF CallInstruction, Executes, Decodes
<1>2. /\ Here \in 1..Len(image) /\ Read \in [1..Len(image) -> Nat]
      /\ Instr.arg \in Nat
  BY <1>1, Fetched DEF Instruction
<1>3. CallsInv /\ image \in Images /\ operands \in OperandState
  BY DEF IInv
<1>4. CallsRise(Read, Here, Instr.arg)
  BY <1>1, <1>2, <1>3, CallRises
<1> QED
  BY <1>1, <1>2, <1>4, CallerWaits

\* An indirect call
LEMMA CallIndirectWaits ==
  ASSUME IInv, SuspendedAtCall, CallIndirect
  PROVE  SuspendedAtCall'
<1> DEFINE popped == PopTyped(operands, "i32")
           tables == image[Here].tables
<1>1. Stepping /\ CanFetch /\ Instr.op = "call_indirect"
  BY DEF CallIndirect, Executes, Decodes
<1>2. /\ Here \in 1..Len(image) /\ Read \in [1..Len(image) -> Nat]
  BY <1>1, Fetched
<1>3. CallsInv /\ image \in Images /\ popped \in OperandState
  <2>1. "i32" \in ValueType /\ operands \in OperandState
    BY DEF ValueType, IInv
  <2> QED
    BY <2>1, PopTypedType DEF IInv
<1>4. CASE image' = image /\ callStack' = callStack
  BY <1>3, <1>4, SameFalls, FallenWait
<1>5. ASSUME Instr.arg \in 1..Len(tables), image' = image,
             NEW e \in 1..Len(tables[Instr.arg]),
             CallFunctionByIndex(popped, Read, Here, tables[Instr.arg][e],
                                 "call_indirect")
      PROVE  SuspendedAtCall'
  <2>1. tables \in Seq(Seq(Nat))
    BY <1>2, <1>3, ModuleType
  <2>2. tables[Instr.arg] \in Seq(Nat)
    BY <1>5, <2>1, ElementOfSeq
  <2>3. tables[Instr.arg][e] \in Nat
    BY <1>5, <2>2, ElementOfSeq
  <2>4. CallsRise(Read, Here, tables[Instr.arg][e])
    BY <1>2, <1>3, <1>5, <2>3, CallRises
  <2>5. PICK f \in Nat : f = tables[Instr.arg][e]
    BY <2>3
  <2> QED
    BY <1>1, <1>5, <2>4, <2>5, CallerWaits
<1>6. \/ image' = image /\ callStack' = callStack
      \/ /\ Instr.arg \in 1..Len(tables) /\ image' = image
         /\ \E e \in 1..Len(tables[Instr.arg]) :
              CallFunctionByIndex(popped, Read, Here, tables[Instr.arg][e],
                                  "call_indirect")
  BY DEF CallIndirect, Computes, Elements
<1> QED
  BY <1>4, <1>5, <1>6

\* A careful host makes a call while there is none.
LEMMA HostCallWaits ==
  ASSUME CarefulHost, IInv, NEW m \in 1..Len(image),
         NEW f \in 1..Len(image[m].functions),
         HostCall(m, f) \/ RunFunction(m, f)
  PROVE  SuspendedAtCall'
<1>1. /\ callStack = <<>> /\ image' = image
      /\ CallFunctionByIndex(operands, modPos, m, f, "host")
  BY DEF HostCall, RunFunction, MayCall, Available
<1>2. /\ CallsInv /\ image \in Images /\ operands \in OperandState
      /\ modPos \in [1..Len(image) -> Nat]
  BY DEF IInv
<1>3. f \in Nat
  OBVIOUS
<1>4. CallsRise(modPos, m, f)
  BY <1>1, <1>2, <1>3, CallRises
<1>5. Suspended(modPos, m) = <<>>
  BY <1>1 DEF Suspended
<1>6. Len(callStack') = 0 \/ Len(callStack') = 1
  <2>1. ASSUME NEW call \in Call, callStack' = Append(<<>>, call)
        PROVE  Len(callStack') = 1
    BY <2>1
  <2> QED
    BY <1>1, <1>4, <1>5, <2>1 DEF CallsRise
<1>7. PICK k \in {0, 1} : Len(callStack') = k
  BY <1>6
<1>8. SUFFICES ASSUME NEW n \in 1..(Len(callStack') - 1)
               PROVE  WaitsAtCall(n)'
  BY DEF SuspendedAtCall, WaitsAtCall
<1>9. n \in 1..(k - 1)
  BY <1>7
<1> QED
  BY <1>9

\* A call waits just after the call instruction that made the next one, if the
\* host makes no call while another is under way: every return finds the code
\* that it goes on with, though modules share one position between their calls.
THEOREM CallsWaitAtCalls == ASSUME CarefulHost PROVE Spec => []SuspendedAtCall
<1>1. Init => SuspendedAtCall
  <2>1. SUFFICES ASSUME Init, NEW n \in 1..(Len(callStack) - 1)
                 PROVE  WaitsAtCall(n)
    BY DEF SuspendedAtCall, WaitsAtCall
  <2>2. callStack = <<>>
    BY <2>1 DEF Init
  <2>3. Len(callStack) = 0
    BY <2>2
  <2> QED
    BY <2>3
<1>2. IInv /\ SuspendedAtCall /\ [Next]_vars => SuspendedAtCall'
  <2> SUFFICES ASSUME IInv, SuspendedAtCall, [Next]_vars PROVE SuspendedAtCall'
    OBVIOUS
  <2>1. CallsInv
    BY DEF IInv
  <2>2. CASE image' = image /\ CallsFall
    BY <2>2, FallenWait
  <2>3. CASE UNCHANGED vars
    BY <2>1, <2>2, <2>3, SameFalls DEF vars
  <2>4. CASE Interpret
    BY <2>1, <2>2, <2>4, OthersFall, CallWaits, CallIndirectWaits DEF Interpret
  <2>5. CASE Host
    <3>1. CASE HostPush \/ HostPop \/ FunctionReturned \/ ReportFailure
      BY <2>1, <2>2, <3>1, SameFalls
         DEF HostPush, HostPop, FunctionReturned, ReportFailure, contextVars
    <3>2. CASE HostStop
      BY <2>1, <2>2, <3>2, DropFalls DEF HostStop
    <3> QED
      BY <2>5, <3>1, <3>2, HostCallWaits DEF Host
  <2> QED
    BY <2>3, <2>4, <2>5 DEF Next
<1> QED
  BY <1>1, <1>2, Invariance, PTL DEF Spec

-----------------------------------------------------------------------------
(***************************************************************************)
(* Searches.  All handlers that wait look for the same opcode in the same  *)
(* module, and the code from each of them to the position is nested as     *)
(* deep as the search has counted: SearchPlace is inductive as long as     *)
(* SkipsPlainly holds.                                                     *)
(***************************************************************************)

\* The opcode that a handler waits for
Sought(kind) == IF kind = "if_else" THEN "else" ELSE "end"

\* How many more blocks are opened than are ended in the code from first to n
DepthTo(code, first, n) ==
  Cardinality({i \in first..n : code[i].op \in BlockOp})
    - Cardinality({i \in first..n : code[i].op = "end"})

\* The code behind p has been skipped, and counted.
Skipped(p) ==
  /\ p <= Pos
  /\ DepthTo(Code, p + 1, Pos) = ff.depth
  /\ \A n \in (p + 1)..Pos : DepthTo(Code, p + 1, n) >= 0

Waits(handler) ==
  /\ callStack # <<>> /\ handler.module = Here
  /\ Sought(handler.kind) = ff.target

SearchPlace ==
  /\ \A i \in 1..Len(pending) :
       /\ Waits(pending[i])
       /\ i > 1 => pending[i].kind = "else"
       /\ operands.ok => Skipped(pending[i].position)
  /\ pending # <<>> /\ operands.ok /\ ~ff.on =>
       ff.depth = 0 /\ Pos < Len(Code) /\ Code[Pos + 1].op = ff.target

\* What an instruction adds to the depth
Deeper(op) == IF op \in BlockOp THEN 1 ELSE IF op = "end" THEN -1 ELSE 0

\* The members of T in an interval: one more item may add one to them.
Within(T, first, n) == {i \in first..n : i \in T}

\* One more item is counted if it is in the set.
\* One more item is counted if it is in the set.
LEMMA CountNext ==
  ASSUME NEW T, NEW first \in Nat, NEW n \in Nat, first <= n + 1
  PROVE  /\ Cardinality(Within(T, first, n)) \in Nat
         /\ Cardinality(Within(T, first, n + 1))
              = IF n + 1 \in T THEN Cardinality(Within(T, first, n)) + 1
                ELSE Cardinality(Within(T, first, n))
<1> DEFINE S    == Within(T, first, n)
           more == Within(T, first, n + 1)
<1>1. IsFiniteSet(first..n)
  BY FS_Interval
<1>2. IsFiniteSet(S)
  BY <1>1, FS_Subset DEF Within
<1>3. Cardinality(S) \in Nat
  BY <1>2, FS_CardinalityType
<1>4. CASE n + 1 \in T
  <2>1. more = S \cup {n + 1} /\ n + 1 \notin S
    BY <1>4 DEF Within
  <2> HIDE DEF S, more
  <2> QED
    BY <1>2, <1>3, <1>4, <2>1, FS_AddElement DEF S, more
<1>5. CASE n + 1 \notin T
  <2>1. more = S
    BY <1>5 DEF Within
  <2> HIDE DEF S, more
  <2> QED
    BY <1>3, <1>5, <2>1 DEF S, more
<1> QED
  BY <1>4, <1>5

Openings(code) == {i \in Nat : code[i].op \in BlockOp}
Endings(code)  == {i \in Nat : code[i].op = "end"}

\* A depth is a difference of two counts.
\* A depth is a difference of two counts.
LEMMA DepthIs ==
  ASSUME NEW code, NEW first \in Nat, NEW n
  PROVE  DepthTo(code, first, n)
           = Cardinality(Within(Openings(code), first, n))
               - Cardinality(Within(Endings(code), first, n))
<1>1. {i \in first..n : code[i].op \in BlockOp} = Within(Openings(code), first, n)
  BY DEF Within, Openings
<1>2. {i \in first..n : code[i].op = "end"} = Within(Endings(code), first, n)
  BY DEF Within, Endings
<1> QED
  BY <1>1, <1>2, Zenon DEF DepthTo

\* The depth of the empty stretch of code is zero, and each instruction adds to
\* it what it should.
LEMMA DepthNext ==
  ASSUME NEW code, NEW first \in Nat, NEW n \in Nat, first <= n + 1
  PROVE  /\ DepthTo(code, first, n) \in Int
         /\ DepthTo(code, first, n + 1)
              = DepthTo(code, first, n) + Deeper(code[n + 1].op)
<1> DEFINE B == Openings(code)
           E == Endings(code)
<1>1. /\ DepthTo(code, first, n)
           = Cardinality(Within(B, first, n)) - Cardinality(Within(E, first, n))
      /\ DepthTo(code, first, n + 1)
           = Cardinality(Within(B, first, n + 1)) - Cardinality(Within(E, first, n + 1))
  BY DepthIs
<1>2. /\ n + 1 \in B <=> code[n + 1].op \in BlockOp
      /\ n + 1 \in E <=> code[n + 1].op = "end"
  BY DEF Openings, Endings
<1>3. "end" \notin BlockOp
  BY DEF BlockOp
<1> HIDE DEF B, E
<1>4. /\ Cardinality(Within(B, first, n)) \in Nat
      /\ Cardinality(Within(B, first, n + 1))
           = IF n + 1 \in B THEN Cardinality(Within(B, first, n)) + 1
             ELSE Cardinality(Within(B, first, n))
  BY CountNext
<1>5. /\ Cardinality(Within(E, first, n)) \in Nat
      /\ Cardinality(Within(E, first, n + 1))
           = IF n + 1 \in E THEN Cardinality(Within(E, first, n)) + 1
             ELSE Cardinality(Within(E, first, n))
  BY CountNext
<1> QED
  BY <1>1, <1>2, <1>3, <1>4, <1>5 DEF Deeper

\* Nothing has been skipped where a search begins.
\* Nothing has been skipped where a search begins.
LEMMA DepthStart ==
  ASSUME NEW code, NEW p \in Nat
  PROVE  DepthTo(code, p + 1, p) = 0
<1>1. \A T : Within(T, p + 1, p) = {}
  BY DEF Within
<1>2. p + 1 \in Nat
  OBVIOUS
<1>3. DepthTo(code, p + 1, p) = Cardinality({}) - Cardinality({})
  BY <1>1, <1>2, DepthIs
<1> QED
  BY <1>3, FS_EmptySet

\* A handler that starts to wait has skipped nothing.
LEMMA SkippedNone ==
  ASSUME NEW p \in Nat, Pos' = p, ff'.depth = 0
  PROVE  Skipped(p)'
<1>1. DepthTo(Code', p + 1, p) = 0
  BY DepthStart
<1>2. (p + 1)..p = {}
  OBVIOUS
<1> QED
  BY <1>1, <1>2 DEF Skipped, DepthTo

\* What is skipped stays skipped, and one more instruction is, if it is counted.
LEMMA SkippedSame ==
  ASSUME NEW p, Skipped(p), Code' = Code, Pos' = Pos, ff'.depth = ff.depth
  PROVE  Skipped(p)'
BY DEF Skipped, DepthTo

\* One more instruction is skipped.
\* One more instruction is skipped.
LEMMA SkippedNext ==
  ASSUME NEW p \in Nat, Skipped(p), Pos \in Nat, ff.depth \in Nat,
         Code' = Code, Pos' = Pos + 1,
         ff'.depth = ff.depth + Deeper(Instr.op), ff'.depth >= 0
  PROVE  Skipped(p)'
<1>1. /\ p <= Pos /\ DepthTo(Code, p + 1, Pos) = ff.depth
      /\ \A n \in (p + 1)..Pos : DepthTo(Code, p + 1, n) >= 0
  BY DEF Skipped
<1>2. p + 1 \in Nat /\ p + 1 <= Pos + 1
  BY <1>1
<1>3. DepthTo(Code, p + 1, Pos + 1)
        = DepthTo(Code, p + 1, Pos) + Deeper(Code[Pos + 1].op)
  BY <1>2, DepthNext
<1>4. DepthTo(Code, p + 1, Pos + 1) = ff'.depth
  BY <1>1, <1>3 DEF Instr
<1>5. \A n \in (p + 1)..(Pos + 1) : n \in (p + 1)..Pos \/ n = Pos + 1
  BY <1>2
<1>6. \A n \in (p + 1)..(Pos + 1) : DepthTo(Code, p + 1, n) >= 0
  BY <1>1, <1>4, <1>5
<1>7. p <= Pos + 1
  BY <1>1
<1>8. \A n : DepthTo(Code, p + 1, n)' = DepthTo(Code, p + 1, n)
  BY DEF DepthTo
<1> QED
  BY <1>4, <1>6, <1>7, <1>8 DEF Skipped

\* What SearchPlace says of one handler
Placed(i) ==
  /\ Waits(pending[i])
  /\ i > 1 => pending[i].kind = "else"
  /\ operands.ok => Skipped(pending[i].position)

\* SearchPlace, one handler at a time
\* SearchPlace, one handler at a time
LEMMA PlaceParts ==
  /\ SearchPlace <=>
       /\ \A i \in 1..Len(pending) : Placed(i)
       /\ pending # <<>> /\ operands.ok /\ ~ff.on =>
            ff.depth = 0 /\ Pos < Len(Code) /\ Code[Pos + 1].op = ff.target
  /\ SearchPlace' <=>
       /\ \A i \in 1..Len(pending') : Placed(i)'
       /\ pending' # <<>> /\ operands'.ok /\ ~ff'.on =>
            ff'.depth = 0 /\ Pos' < Len(Code') /\ Code'[Pos' + 1].op = ff'.target
BY DEF SearchPlace, Placed

\* The handlers that wait
LEMMA HandlerType ==
  ASSUME IInv
  PROVE  /\ pending \in Seq(Handler) /\ Len(pending) \in Nat
         /\ \A i \in 1..Len(pending) : pending[i] \in Handler
         /\ pending # <<>> => Last(pending) = pending[Len(pending)] /\ Len(pending) >= 1
<1>1. pending \in Seq(Handler)
  BY DEF IInv, SearchInv
<1> QED
  BY <1>1, ElementOfSeq DEF Last

\* It holds if no handler waits,
\* It holds if no handler waits,
LEMMA PlaceNone ==
  ASSUME pending' = <<>>
  PROVE  SearchPlace'
<1>1. Len(pending') = 0
  BY ONLY pending' = <<>>
<1> QED
  BY <1>1 DEF SearchPlace

\* What an instruction that is read changes
LEMMA PositionRead ==
  ASSUME IInv, Stepping, CanFetch, modPos' = Read, image' = image,
         active' = active
  PROVE  /\ Pos \in Nat /\ Pos' = Pos + 1 /\ Read[Here] = Pos + 1
         /\ Code' = Code /\ Here' = Here
<1>1. Here \in 1..Len(image) /\ Pos \in Nat
  BY Fetched DEF Pos
<1>2. Here' = Here /\ Code' = Code
  BY DEF Here, Code
<1>3. Code \in Seq(Instruction)
  BY <1>1, ModuleType DEF Code, IInv
<1>4. Len(Code) \in Nat /\ Pos < Len(Code)
  BY <1>3, LenProperties DEF CanFetch
<1>5. Read[Here] = Pos + 1
  BY <1>1, <1>4 DEF Read, Advance, Pos, Code, IInv
<1>6. Pos' = Read[Here]
  BY <1>2 DEF Pos
<1> QED
  BY <1>1, <1>2, <1>5, <1>6

\* A handler that waits, or the step fails, or skips an instruction and counts it
\* rightly.
LEMMA PlaceStays ==
  ASSUME IInv, SearchPlace, UNCHANGED <<image, active, callStack, pending>>,
         Driven \/ ~operands'.ok, ff'.on = ff.on, ff'.target = ff.target,
         \A i \in 1..Len(pending) : operands'.ok => Skipped(pending[i].position)'
  PROVE  SearchPlace'
<1>1. \A i \in 1..Len(pending) : Placed(i)
  BY PlaceParts
<1>2. \A i \in 1..Len(pending) : Placed(i)'
  BY <1>1 DEF Placed, Waits, Here
<1>3. ~(pending' # <<>> /\ operands'.ok /\ ~ff'.on)
  BY DEF Driven
<1> QED
  BY <1>2, <1>3, PlaceParts

\* if a step fails,
\* if a step fails,
LEMMA PlaceFails ==
  ASSUME IInv, SearchPlace, UNCHANGED <<image, active, callStack, pending>>,
         ~operands'.ok, ff'.on = ff.on, ff'.target = ff.target
  PROVE  SearchPlace'
BY PlaceStays

\* and if an instruction is read and counted.
\* and if an instruction is read and counted.
LEMMA PlaceNext ==
  ASSUME IInv, SearchPlace, UNCHANGED <<image, active, callStack, pending>>,
         Stepping, CanFetch, modPos' = Read, ff'.on = ff.on,
         ff'.target = ff.target,
         ff'.depth = ff.depth + Deeper(Instr.op), ff'.depth >= 0
  PROVE  SearchPlace'
<1>1. /\ Pos \in Nat /\ Pos' = Pos + 1 /\ Code' = Code
  BY PositionRead
<1>2. ff.depth \in Nat
  BY DEF IInv, SearchInv
<1>3. operands.ok /\ Driven
  BY DEF Stepping
<1>4. ASSUME NEW i \in 1..Len(pending)
      PROVE  Skipped(pending[i].position)'
  <2>1. Skipped(pending[i].position)
    BY <1>3 DEF SearchPlace
  <2>2. pending[i].position \in Nat
    BY HandlerType DEF Handler
  <2>3. PICK p \in Nat : p = pending[i].position
    BY <2>2
  <2>4. Skipped(p)'
    BY <1>1, <1>2, <2>1, <2>3, SkippedNext
  <2>5. pending'[i].position = p
    BY <2>3
  <2> QED
    BY <2>4, <2>5
<1> QED
  BY <1>3, <1>4, PlaceStays

\* A search starts where its handler is, in the search under way if there is one.
LEMMA PlaceStarts ==
  ASSUME IInv, UNCHANGED <<image, active, callStack>>, Stepping,
         NEW target, NEW kind, NEW positions \in [1..Len(image) -> Nat],
         Search(target, kind, positions), Pos' = positions[Here],
         Sought(kind) = target,
         \A i \in 1..Len(pending) :
           /\ pending[i].module = Here /\ Sought(pending[i].kind) = target
           /\ i > 1 => pending[i].kind = "else"
           /\ kind = "else" /\ (operands'.ok => Skipped(pending[i].position)')
  PROVE  SearchPlace'
<1>1. PICK p \in Nat, n \in Nat : p = positions[Here] /\ n = Len(pending)
  BY Fetched, HandlerType
<1> DEFINE handler == [kind |-> kind, module |-> Here, position |-> p]
<1>2. /\ ff' = [on |-> TRUE, target |-> target, depth |-> 0]
      /\ pending' = Append(pending, handler)
  BY <1>1 DEF Search
<1>3. ff'.on /\ ff'.target = target /\ ff'.depth = 0
  BY <1>2
<1>4. pending \in Seq(Handler)
  BY HandlerType
<1>5. Here' = Here /\ callStack' # <<>>
  BY Fetched DEF Here
<1>6. handler.kind = kind /\ handler.module = Here /\ handler.position = p
  OBVIOUS
<1> HIDE DEF handler
<1>7. /\ Len(pending') = n + 1
      /\ \A i \in 1..n : pending'[i] = pending[i]
      /\ pending'[n + 1] = handler
  BY <1>1, <1>2, <1>4
<1>8. ASSUME NEW i \in 1..n
      PROVE  Placed(i)'
  BY <1>1, <1>3, <1>5, <1>7, <1>8 DEF Placed, Waits
<1>9. Placed(n + 1)'
  <2>1. Skipped(p)'
    BY <1>1, <1>3, SkippedNone
  <2>2. PICK m \in Nat : m = n + 1
    OBVIOUS
  <2>3. /\ pending'[m].kind = kind /\ pending'[m].module = Here'
        /\ pending'[m].position = p
    BY <1>5, <1>6, <1>7, <2>2
  <2>4. m > 1 => kind = "else"
    BY <1>1, <2>2
  <2>5. Placed(m)'
    BY <1>3, <1>5, <2>1, <2>3, <2>4 DEF Placed, Waits
  <2> QED
    BY <2>2, <2>5
<1>10. \A i \in 1..Len(pending') : Placed(i)'
  BY <1>7, <1>8, <1>9
<1> QED
  BY <1>3, <1>10, PlaceParts

\* An instruction is executed only while no handler waits.
LEMMA ExecutesAlone ==
  ASSUME NEW ops, Executes(ops)
  PROVE  pending = <<>> /\ ~ff.on /\ Stepping /\ CanFetch
BY DEF Executes, Decodes, Stepping, Driven

\* A step that changes only the operands, and is not skipped, or fails, or is of
\* an instruction that does not count.
LEMMA PlaceComputes ==
  ASSUME IInv, SearchPlace, Stepping, NEW s, Computes(s),
         \/ pending = <<>>
         \/ ~s.ok
         \/ CanFetch /\ Deeper(Instr.op) = 0
  PROVE  SearchPlace'
<1>1. /\ operands' = s /\ modPos' = Read /\ UNCHANGED <<ff, pending>>
      /\ UNCHANGED <<image, active, callStack, pending>>
  BY DEF Computes, searchVars
<1>2. CASE pending = <<>>
  BY <1>1, <1>2, PlaceNone
<1>3. CASE ~s.ok
  BY <1>1, <1>3, PlaceFails
<1>4. CASE CanFetch /\ Deeper(Instr.op) = 0
  <2>1. ff.depth \in Nat
    BY DEF IInv, SearchInv
  <2>2. ff'.depth = ff.depth + Deeper(Instr.op) /\ ff'.depth >= 0
    BY <1>1, <1>4, <2>1
  <2> QED
    BY <1>1, <1>4, <2>2, PlaceNext
<1> QED
  BY <1>2, <1>3, <1>4

\* A branch
LEMMA BranchPlace ==
  ASSUME IInv, SearchPlace, Stepping, pending = <<>>, NEW index \in Nat, NEW s,
         BranchTo(index, s)
  PROVE  SearchPlace'
<1> DEFINE label == LabelAt(index)
           there == [Read EXCEPT ![Here] = label.position]
<1>1. \/ pending' = pending
      \/ /\ HasLabel(index) /\ modPos' = there
         /\ Search("end", "branch", there)
         /\ UNCHANGED <<image, callStack, active>>
  BY DEF BranchTo, Computes, searchVars
<1>2. CASE pending' = pending
  BY <1>2, PlaceNone
<1>3. CASE /\ HasLabel(index) /\ modPos' = there
           /\ Search("end", "branch", there)
           /\ UNCHANGED <<image, callStack, active>>
  <2>1. Here \in 1..Len(image) /\ Read \in [1..Len(image) -> Nat]
    BY Fetched
  <2>2. label.position \in Nat
    BY <1>3, LabelFound DEF Label
  <2> HIDE DEF label
  <2>3. there \in [1..Len(image) -> Nat]
    BY <2>1, <2>2
  <2>4. Pos' = there[Here]
    BY <1>3 DEF Pos, Here
  <2>5. Sought("branch") = "end"
    BY DEF Sought
  <2>6. 1..Len(pending) = {}
    <3>1. Len(pending) = 0
      BY ONLY pending = <<>>
    <3> QED
      BY <3>1
  <2> HIDE DEF there
  <2> QED
    BY <1>3, <2>3, <2>4, <2>5, <2>6, PlaceStarts
<1> QED
  BY <1>1, <1>2, <1>3

\* An if whose condition fails
LEMMA EnterIfPlace ==
  ASSUME IInv, SearchPlace, EnterIf
  PROVE  SearchPlace'
<1>1. pending = <<>> /\ Stepping /\ CanFetch
  BY ExecutesAlone DEF EnterIf
<1>2. /\ UNCHANGED <<image, active, callStack>> /\ modPos' = Read
      /\ pending' = pending \/ Search("else", "if_else", Read)
  BY DEF EnterIf
<1>3. CASE pending' = pending
  BY <1>1, <1>3, PlaceNone
<1>4. CASE Search("else", "if_else", Read)
  <2>1. Read \in [1..Len(image) -> Nat]
    BY <1>1, Fetched
  <2>2. Pos' = Read[Here]
    BY <1>2 DEF Pos, Here
  <2>3. Sought("if_else") = "else"
    BY DEF Sought
  <2>4. 1..Len(pending) = {}
    <3>1. Len(pending) = 0
      BY ONLY <1>1
    <3> QED
      BY <3>1
  <2> QED
    BY <1>1, <1>2, <1>4, <2>1, <2>2, <2>3, <2>4, PlaceStarts
<1> QED
  BY <1>2, <1>3, <1>4

\* An else, which is skipped only by the searches for the end of its block
LEMMA ElsePlace ==
  ASSUME IInv, SearchPlace, SkipsPlainly, Else
  PROVE  SearchPlace'
<1>1. /\ Stepping /\ CanFetch /\ ~Matches /\ Instr.op = "else"
      /\ modPos' = Read /\ Search("end", "else", Read)
      /\ UNCHANGED <<image, active, callStack>> /\ operands' = operands
  BY DEF Else, Decodes
<1>2. Read \in [1..Len(image) -> Nat]
  BY <1>1, Fetched
<1>3. /\ Pos \in Nat /\ Pos' = Pos + 1 /\ Read[Here] = Pos + 1
      /\ Code' = Code /\ Here' = Here
  BY <1>1, PositionRead
<1>4. Sought("else") = "end"
  BY DEF Sought
<1>5. ASSUME NEW i \in 1..Len(pending)
      PROVE  /\ pending[i].module = Here /\ Sought(pending[i].kind) = "end"
             /\ i > 1 => pending[i].kind = "else"
             /\ Skipped(pending[i].position)'
  <2>1. pending # <<>> /\ ff.on
    BY <1>1, <1>5 DEF Stepping, Driven
  <2>2. ff.depth = 0
    BY <1>1, <2>1 DEF SkipsPlainly, Skips, Decodes
  <2>3. /\ Waits(pending[i]) /\ (i > 1 => pending[i].kind = "else")
        /\ Skipped(pending[i].position)
    BY <1>1, PlaceParts DEF Placed, Stepping
  <2>4. Sought(pending[i].kind) = "end"
    BY <1>1, <2>1, <2>2, <2>3 DEF Waits, Matches, Sought
  <2>5. Skipped(pending[i].position)'
    <3>1. PICK p \in Nat : p = pending[i].position
      BY HandlerType DEF Handler
    <3>2. ff'.depth = 0 /\ Deeper(Instr.op) = 0
      BY <1>1 DEF Search, Deeper, BlockOp
    <3>3. ff'.depth = ff.depth + Deeper(Instr.op) /\ ff'.depth >= 0 /\ ff.depth \in Nat
      BY <2>2, <3>2
    <3>4. Skipped(p)'
      BY <1>3, <2>3, <3>1, <3>3, SkippedNext
    <3>5. pending'[i].position = p
      <4>1. pending \in Seq(Handler)
        BY HandlerType
      <4>2. pending'[i] = pending[i]
        BY <1>1, <4>1 DEF Search
      <4> QED
        BY <3>1, <4>2
    <3> QED
      BY <3>4, <3>5
  <2> QED
    BY <2>3, <2>4, <2>5 DEF Waits
<1>6. Pos' = Read[Here]
  BY <1>3
<1> QED
  BY <1>1, <1>2, <1>4, <1>5, <1>6, PlaceStarts

\* An end, which a search does not look beyond
LEMMA EndPlace ==
  ASSUME IInv, SearchPlace, SkipsPlainly, End
  PROVE  SearchPlace'
<1>1. /\ Stepping /\ CanFetch /\ Instr.op = "end" /\ operands \in OperandState
      /\ UNCHANGED <<image, pending>>
  BY DEF End, Decodes, IInv
<1>2. CASE pending = <<>>
  BY <1>1, <1>2, PlaceNone
<1>3. CASE pending # <<>> /\ ff.depth = 0
  <2>1. ff.on
    BY <1>1, <1>3 DEF Stepping, Driven
  <2>2. /\ operands' = Fail(operands, "stack_underflow")
        /\ UNCHANGED <<callStack, active, ff>>
    BY <1>3, <2>1 DEF End
  <2>3. ~operands'.ok
    BY <1>1, <2>2 DEF Fail, SetError, OperandState
  <2> QED
    BY <1>1, <2>2, <2>3, PlaceFails
<1>4. CASE pending # <<>> /\ ff.depth # 0
  <2>1. ff.on
    BY <1>1, <1>4 DEF Stepping, Driven
  <2>2. ff.depth \in Nat /\ ff.depth > 0
    BY <1>4 DEF IInv, SearchInv
  <2>3. Skips({"end"})
    BY <2>1 DEF End, Skips
  <2>4. HasLabel(0)
    BY <2>2, <2>3 DEF SkipsPlainly
  <2>5. /\ ff' = [ff EXCEPT !.depth = ff.depth - 1]
        /\ LeaveBlock(Here, Read)
    BY <1>4, <2>1 DEF End
  <2>6. modPos' = Read /\ UNCHANGED <<operands, callStack, active>>
    BY <2>4, <2>5 DEF LeaveBlock
  <2>7. Deeper(Instr.op) = -1
    BY <1>1 DEF Deeper, BlockOp
  <2>8. ff'.on = ff.on /\ ff'.target = ff.target /\ ff'.depth = ff.depth - 1
    BY <2>5 DEF IInv, SearchInv
  <2>9. ff'.depth = ff.depth + Deeper(Instr.op) /\ ff'.depth >= 0
    BY <2>2, <2>7, <2>8
  <2> QED
    BY <1>1, <2>6, <2>8, <2>9, PlaceNext
<1> QED
  BY <1>2, <1>3, <1>4

\* The opcodes that have an effect on the operands, or that fail, in skipped code
LEMMA SkippedPlace ==
  ASSUME IInv, SearchPlace,
         SkipInstruction \/ UnknownBlockType \/ NotImplemented \/ FetchFails
  PROVE  SearchPlace'
<1>1. operands \in OperandState
  BY DEF IInv
<1>2. CASE SkipInstruction
  <2>1. /\ Stepping /\ CanFetch /\ Computes(operands)
        /\ Instr.op \notin BlockOp /\ Instr.op # "end"
    BY <1>2 DEF SkipInstruction, Skips, Decodes, Unskippable
  <2>2. Deeper(Instr.op) = 0
    BY <2>1 DEF Deeper
  <2> QED
    BY <2>1, <2>2, PlaceComputes
<1>3. CASE UnknownBlockType
  <2>1. Stepping /\ Computes(Fail(operands, "invalid_index"))
    BY <1>3 DEF UnknownBlockType, Decodes
  <2>2. ~Fail(operands, "invalid_index").ok
    BY <1>1, ErrorTypes DEF ErrorState
  <2> QED
    BY <2>1, <2>2, PlaceComputes
<1>4. CASE NotImplemented
  <2>1. Stepping /\ Computes(Fail(operands, "not_implemented"))
    BY <1>4 DEF NotImplemented, Decodes
  <2>2. ~Fail(operands, "not_implemented").ok
    BY <1>1, ErrorTypes DEF ErrorState
  <2> QED
    BY <2>1, <2>2, PlaceComputes
<1>5. CASE FetchFails
  <2>1. Stepping /\ Computes(Fail(operands, "memory_oob"))
    BY <1>5 DEF FetchFails, Computes
  <2>2. ~Fail(operands, "memory_oob").ok
    BY <1>1, ErrorTypes DEF ErrorState
  <2> QED
    BY <2>1, <2>2, PlaceComputes
<1> QED
  BY <1>2, <1>3, <1>4, <1>5

\* The same for br_table, skipped or not,
\* The same for br_table, skipped or not,
LEMMA BranchTablePlace ==
  ASSUME IInv, SearchPlace, BranchTable
  PROVE  SearchPlace'
<1> DEFINE popped == PopTyped(operands, "i32")
<1>1. /\ Stepping /\ CanFetch /\ Instr.op = "br_table" /\ Decodes({"br_table"})
      /\ ~ff.on => pending = <<>>
  BY DEF BranchTable, Decodes, Stepping, Driven
<1>2. Deeper(Instr.op) = 0
  BY <1>1 DEF Deeper, BlockOp
<1>3. CASE Computes(popped)
  BY <1>1, <1>2, <1>3, PlaceComputes
<1>4. ASSUME ~ff.on, NEW index \in Selected(TopCells(operands, 1)[1]),
             BranchTo(index, popped)
      PROVE  SearchPlace'
  <2>1. index \in Nat
    BY <1>1, SelectedType
  <2> QED
    BY <1>1, <1>4, <2>1, BranchPlace
<1> QED
  BY <1>3, <1>4 DEF BranchTable

\* The searches themselves
LEMMA SkipPlace ==
  ASSUME IInv, SearchPlace, FindTarget \/ SkipBlock
  PROVE  SearchPlace'
<1>1. CASE FindTarget
  <2>1. /\ Stepping /\ CanFetch /\ Matches /\ operands.ok
        /\ ff' = [ff EXCEPT !.on = FALSE]
        /\ UNCHANGED <<image, operands, callStack, active, modPos, pending>>
    BY <1>1 DEF FindTarget, contextVars, Stepping
  <2>2. ~ff'.on /\ ff'.target = ff.target /\ ff'.depth = ff.depth
    BY <2>1 DEF IInv, SearchInv
  <2>3. Pos' = Pos /\ Code' = Code /\ Here' = Here
    BY <2>1 DEF Pos, Code, Here
  <2>4. ASSUME NEW i \in 1..Len(pending)
        PROVE  Placed(i)'
    <3>1. Placed(i)
      BY PlaceParts
    <3>2. Skipped(pending[i].position)
      BY <2>1, <3>1 DEF Placed
    <3>3. Skipped(pending[i].position)'
      <4>1. PICK p \in Nat : p = pending[i].position
        BY HandlerType DEF Handler
      <4>2. Skipped(p)'
        BY <2>2, <2>3, <3>2, <4>1, SkippedSame
      <4>3. pending'[i].position = p
        BY <2>1, <4>1
      <4> QED
        BY <4>2, <4>3
    <3> QED
      BY <2>1, <2>2, <2>3, <3>1, <3>3 DEF Placed, Waits
  <2>5. ff'.depth = 0 /\ Pos' < Len(Code') /\ Code'[Pos' + 1].op = ff'.target
    BY <2>1, <2>2, <2>3 DEF Matches, CanFetch, Instr
  <2> QED
    BY <2>1, <2>4, <2>5, PlaceParts
<1>2. CASE SkipBlock
  <2>1. /\ Stepping /\ CanFetch /\ Instr.op \in BlockOp
        /\ ff' = [ff EXCEPT !.depth = ff.depth + 1]
        /\ UNCHANGED <<image, callStack, active, pending>> /\ modPos' = Read
    BY <1>2 DEF SkipBlock, Skips, Decodes
  <2>2. Deeper(Instr.op) = 1
    BY <2>1 DEF Deeper
  <2>3. /\ ff'.on = ff.on /\ ff'.target = ff.target
        /\ ff'.depth = ff.depth + 1 /\ ff.depth \in Nat
    BY <2>1 DEF IInv, SearchInv
  <2>4. ff'.depth = ff.depth + Deeper(Instr.op) /\ ff'.depth >= 0
    BY <2>2, <2>3
  <2> QED
    BY <2>1, <2>3, <2>4, PlaceNext
<1> QED
  BY <1>1, <1>2

\* There is one handler, unless the last one is an else.
LEMMA LastHandler ==
  ASSUME IInv, SearchPlace, pending # <<>>
  PROVE  /\ Len(pending) = 1 \/ Len(pending) > 1
         /\ Last(pending).kind # "else" => Len(pending) = 1
         /\ Last(pending).kind = "if_else" => ff.target = "else"
         /\ Last(pending).module = Here /\ callStack # <<>>
         /\ Len(pending) = 1 => Front(pending) = <<>>
<1>1. /\ pending \in Seq(Handler) /\ Len(pending) >= 1 /\ Len(pending) \in Nat
      /\ Last(pending) = pending[Len(pending)]
  BY HandlerType
<1>2. Len(pending) \in 1..Len(pending)
  BY <1>1
<1>3. Placed(Len(pending))
  BY <1>2, PlaceParts
<1>4. Waits(Last(pending))
  BY <1>1, <1>3 DEF Placed
<1>5. Len(pending) = 1 \/ Len(pending) > 1
  <2>1. PICK n \in Nat : n = Len(pending)
    BY <1>1
  <2>2. n >= 1
    BY <1>1, <2>1
  <2>3. n = 1 \/ n > 1
    BY <2>2
  <2> QED
    BY <2>1, <2>3
<1>6. Len(pending) = 1 => Front(pending) = <<>>
  BY <1>1 DEF Front
<1> QED
  BY <1>1, <1>3, <1>4, <1>5, <1>6 DEF Placed, Waits, Sought

\* for the handlers that go on, each with the next search or with none,
\* for the handlers that go on, each with the next search or with none,
LEMMA ResumePlace ==
  ASSUME IInv, SearchPlace, SkipsPlainly, ResumeIf \/ ResumeBranch \/ ResumeElse
  PROVE  SearchPlace'
<1>1. /\ operands.ok /\ ~ff.on /\ pending # <<>> /\ pending' = Front(pending)
      /\ UNCHANGED <<image, ff>>
  BY DEF ResumeIf, ResumeBranch, ResumeElse, Resumes
<1>2. CASE Len(pending) = 1
  BY <1>1, <1>2, LastHandler, PlaceNone
<1>3. CASE Len(pending) # 1
  <2>1. Last(pending).kind = "else"
    BY <1>1, <1>3, LastHandler
  <2>2. ResumeElse
    BY <2>1 DEF ResumeIf, ResumeBranch, Resumes
  <2>3. Len(pending) > 1
    BY <1>1, <1>3, LastHandler
  <2>4. HasLabel(0)
    BY <1>1, <2>3 DEF SkipsPlainly
  <2>5. UNCHANGED <<image, operands, callStack, active, modPos, ff>>
    BY <1>1, <2>2, <2>4 DEF ResumeElse, LeaveBlock
  <2>6. Pos' = Pos /\ Code' = Code /\ Here' = Here
    BY <2>5 DEF Pos, Code, Here
  <2>7. /\ Len(pending') = Len(pending) - 1
        /\ \A i \in 1..(Len(pending) - 1) : pending'[i] = pending[i]
    BY <1>1, HandlerType, FrontType
  <2>8. ASSUME NEW i \in 1..Len(pending')
        PROVE  Placed(i)'
    <3>1. i \in 1..Len(pending) /\ pending'[i] = pending[i]
      BY <2>7, HandlerType
    <3>2. Placed(i)
      BY <3>1, PlaceParts
    <3>3. Skipped(pending[i].position)
      BY <1>1, <3>2 DEF Placed
    <3>4. PICK p \in Nat : p = pending[i].position
      BY <3>1, HandlerType DEF Handler
    <3>5. Skipped(p)'
      BY <2>5, <2>6, <3>3, <3>4, SkippedSame
    <3>6. /\ pending'[i].position = p /\ pending'[i].kind = pending[i].kind
          /\ pending'[i].module = pending[i].module
      BY <3>1, <3>4
    <3> QED
      BY <2>5, <2>6, <3>2, <3>5, <3>6 DEF Placed, Waits
  <2>9. ff'.depth = 0 /\ Pos' < Len(Code') /\ Code'[Pos' + 1].op = ff'.target
    BY <1>1, <2>5, <2>6 DEF SearchPlace
  <2> QED
    BY <2>8, <2>9, PlaceParts
<1> QED
  BY <1>2, <1>3

\* for those whose search failed,
\* for those whose search failed,
LEMMA FailedSearchPlace ==
  ASSUME IInv, SearchPlace, SearchRunsOut \/ RetryIf \/ AbandonSearch
  PROVE  SearchPlace'
<1>1. CASE SearchRunsOut
  BY <1>1, LastHandler DEF SearchRunsOut
<1>2. CASE RetryIf
  <2> DEFINE handler == Last(pending)
  <2>1. /\ pending # <<>> /\ handler.kind = "if_else"
        /\ modPos' = [modPos EXCEPT ![handler.module] = handler.position]
        /\ ff' = [on |-> TRUE, target |-> "end", depth |-> 0]
        /\ pending' = [pending EXCEPT ![Len(pending)].kind = "if_end"]
        /\ UNCHANGED <<image, callStack, active>>
    BY <1>2 DEF RetryIf
  <2>2. /\ Len(pending) = 1 /\ handler.module = Here /\ callStack # <<>>
        /\ handler = pending[1] /\ handler \in Handler
        /\ pending \in Seq(Handler)
    <3>1. Len(pending) = 1 /\ handler.module = Here /\ callStack # <<>>
      BY <2>1, LastHandler
    <3>2. handler = pending[1]
      BY <3>1 DEF Last
    <3>3. pending \in Seq(Handler) /\ 1 \in 1..Len(pending)
      BY <3>1, HandlerType
    <3> QED
      BY <3>1, <3>2, <3>3, HandlerType
  <2>3. PICK p \in Nat : p = handler.position
    BY <2>2 DEF Handler
  <2>4. /\ Len(pending') = 1
        /\ pending'[1].kind = "if_end" /\ pending'[1].module = Here
        /\ pending'[1].position = p
    <3>1. pending' = [pending EXCEPT ![1] = [handler EXCEPT !.kind = "if_end"]]
      BY <2>1, <2>2
    <3>2. /\ [handler EXCEPT !.kind = "if_end"].kind = "if_end"
          /\ [handler EXCEPT !.kind = "if_end"].module = Here
          /\ [handler EXCEPT !.kind = "if_end"].position = p
      BY <2>2, <2>3 DEF Handler
    <3> QED
      BY <2>2, <3>1, <3>2
  <2>5. Here' = Here /\ Here \in 1..Len(image)
    <3>1. callStack \in Seq(Call) /\ CallsInv
      BY DEF IInv, CallsInv
    <3>2. Len(callStack) \in 1..Len(callStack)
      BY <2>2, <3>1
    <3>3. Here \in 1..Len(image)
      BY <2>2, <3>1, <3>2 DEF CallsInv, CallsExist, CallExists, CacheCoherent,
         ActiveInfo, Last, Here
    <3> QED
      BY <2>1, <3>3 DEF Here
  <2>6. Pos' = p
    BY <2>1, <2>2, <2>3, <2>5 DEF Pos, IInv
  <2>7. ff'.on /\ ff'.target = "end" /\ ff'.depth = 0
    BY <2>1
  <2>8. Skipped(p)'
    BY <2>6, <2>7, SkippedNone
  <2>9. Placed(1)'
    BY <2>1, <2>2, <2>4, <2>5, <2>7, <2>8 DEF Placed, Waits, Sought
  <2>10. \A i \in 1..Len(pending') : Placed(i)'
    BY <2>4, <2>9
  <2> QED
    BY <2>7, <2>10, PlaceParts
<1>3. CASE AbandonSearch
  <2>1. /\ ~operands'.ok /\ pending # <<>> /\ pending' = Front(pending)
        /\ ff' = [ff EXCEPT !.on = FALSE]
        /\ UNCHANGED <<image, callStack, active>>
    BY <1>3 DEF AbandonSearch, contextVars
  <2>2. ff'.target = ff.target
    BY <2>1 DEF IInv, SearchInv
  <2>3. /\ Len(pending') = Len(pending) - 1
        /\ \A i \in 1..(Len(pending) - 1) : pending'[i] = pending[i]
    BY <2>1, HandlerType, FrontType
  <2>4. ASSUME NEW i \in 1..Len(pending')
        PROVE  Placed(i)'
    <3>1. i \in 1..Len(pending) /\ pending'[i] = pending[i]
      BY <2>3, HandlerType
    <3>2. Placed(i)
      BY <3>1, PlaceParts
    <3> QED
      BY <2>1, <2>2, <3>1, <3>2 DEF Placed, Waits, Here
  <2> QED
    BY <2>1, <2>4, PlaceParts
<1> QED
  BY <1>1, <1>2, <1>3

\* What a step does to the handlers that wait
LEMMA PendingChanges ==
  ASSUME [Next]_vars
  PROVE  \/ pending' = pending
         \/ \E handler : pending' = Append(pending, handler)
         \/ ResumeIf \/ ResumeBranch \/ ResumeElse \/ ~operands.ok
<1>1. ASSUME NEW index, NEW s, BranchTo(index, s)
      PROVE  \/ pending' = pending
             \/ \E handler : pending' = Append(pending, handler)
  BY <1>1 DEF BranchTo, Computes, Search, searchVars
<1>2. CASE UNCHANGED vars
  BY <1>2 DEF vars
<1>3. CASE \/ FetchFails \/ EnterBlock \/ End \/ UnknownBlockType \/ Return
           \/ CallInstruction \/ CallIndirect \/ Nop \/ Unreachable
           \/ NotImplemented \/ Drop \/ Select
  BY <1>3 DEF FetchFails, EnterBlock, End, UnknownBlockType, Return,
     CallInstruction, CallIndirect, Nop, Unreachable, NotImplemented, Drop,
     Select, Computes, searchVars
<1>4. CASE \/ LocalGet \/ LocalSet \/ GlobalGet \/ GlobalSet \/ MemoryAccess
           \/ Const \/ Numeric \/ Extend
  BY <1>4 DEF LocalGet, LocalSet, GlobalGet, GlobalSet, MemoryAccess, Const,
     Numeric, Extend, Computes, searchVars
<1>5. CASE EnterIf \/ Else
  BY <1>5 DEF EnterIf, Else, Search
<1>6. CASE Branch \/ BranchIf \/ BranchTable
  BY <1>1, <1>6 DEF Branch, BranchIf, BranchTable, Computes, searchVars
<1>7. CASE Skip
  BY <1>7 DEF Skip, FindTarget, SkipInstruction, SkipBlock, Computes, searchVars
<1>8. CASE Resume
  BY <1>8 DEF Resume, SearchRunsOut, RetryIf, AbandonSearch, searchVars
<1>9. CASE Host
  BY <1>9 DEF Host, HostPush, HostPop, HostStop, FunctionReturned,
     ReportFailure, HostCall, RunFunction, searchVars
<1> QED
  BY <1>2, <1>3, <1>4, <1>5, <1>6, <1>7, <1>8, <1>9 DEF Next, Interpret, Execute

\* The steps that are not made while a handler waits
LEMMA AlonePlace ==
  ASSUME IInv, SearchPlace,
         \/ EnterBlock \/ Branch \/ BranchIf \/ Return \/ CallInstruction
         \/ CallIndirect \/ Nop \/ Unreachable \/ Drop \/ Select \/ LocalGet
         \/ LocalSet \/ GlobalGet \/ GlobalSet \/ MemoryAccess \/ Const
         \/ Numeric \/ Extend
  PROVE  SearchPlace'
<1>1. PICK ops : Executes(ops)
  BY DEF EnterBlock, Branch, BranchIf, Return, CallInstruction, CallIndirect,
     Nop, Unreachable, Drop, Select, LocalGet, LocalSet, GlobalGet, GlobalSet,
     MemoryAccess, Const, Numeric, Extend
<1>2. pending = <<>> /\ Stepping /\ CanFetch
  BY <1>1, ExecutesAlone
<1>3. CASE \/ EnterBlock \/ Return \/ CallInstruction \/ CallIndirect \/ Nop
           \/ Unreachable \/ Drop \/ Select
  BY <1>2, <1>3, PlaceNone DEF EnterBlock, Return, CallInstruction,
     CallIndirect, Nop, Unreachable, Drop, Select, Computes, searchVars
<1>4. CASE \/ LocalGet \/ LocalSet \/ GlobalGet \/ GlobalSet \/ MemoryAccess
           \/ Const \/ Numeric \/ Extend
  BY <1>2, <1>4, PlaceNone DEF LocalGet, LocalSet, GlobalGet, GlobalSet,
     MemoryAccess, Const, Numeric, Extend, Computes, searchVars
<1>5. CASE Branch \/ BranchIf
  <2>1. Instr.arg \in Nat
    BY <1>2, Fetched DEF Instruction
  <2>2. ASSUME NEW s, Computes(s)
        PROVE  SearchPlace'
    BY <1>2, <2>2, PlaceComputes
  <2>3. ASSUME NEW s, BranchTo(Instr.arg, s)
        PROVE  SearchPlace'
    BY <1>2, <2>1, <2>3, BranchPlace
  <2> QED
    BY <1>5, <2>2, <2>3 DEF Branch, BranchIf
<1> QED
  BY <1>3, <1>4, <1>5

\* A host does nothing while a handler waits.
LEMMA HostAlone ==
  ASSUME Host
  PROVE  pending = <<>> /\ pending' = <<>>
BY DEF Host, HostPush, HostPop, HostStop, FunctionReturned, ReportFailure,
   HostCall, RunFunction, MayCall, Available, Idle, searchVars

\* and so for all steps.
\* and so for all steps.
LEMMA NextPlace ==
  ASSUME IInv, SearchPlace, SkipsPlainly, [Next]_vars
  PROVE  SearchPlace'
<1>1. CASE UNCHANGED vars
  <2>1. /\ UNCHANGED <<image, operands, callStack, active, modPos, ff, pending>>
    BY <1>1 DEF vars
  <2>2. Pos' = Pos /\ Code' = Code /\ Here' = Here
    BY <2>1 DEF Pos, Code, Here
  <2>3. \A p : Skipped(p)' <=> Skipped(p)
    BY <2>1, <2>2 DEF Skipped, DepthTo
  <2>4. ASSUME NEW i \in 1..Len(pending) PROVE Placed(i)'
    BY <2>1, <2>2, <2>3, PlaceParts DEF Placed, Waits
  <2> QED
    BY <2>1, <2>2, <2>4, PlaceParts
<1>2. CASE Interpret
  BY <1>2, AlonePlace, EnterIfPlace, ElsePlace, EndPlace, SkippedPlace,
     BranchTablePlace, SkipPlace, ResumePlace, FailedSearchPlace
     DEF Interpret, Execute, Skip, Resume
<1>3. CASE Host
  BY <1>3, HostAlone, PlaceNone
<1> QED
  BY <1>1, <1>2, <1>3 DEF Next

\* If no else is skipped but at the depth of the search, and no end without a
\* label, every search stops at the else or the end of the block it was started
\* for: the depth counted by wasmu_fastForwardStepInLabel and
\* wasmu_fastForwardStepOutLabel is that of the code passed, through searches that
\* are retried and searches within searches.
THEOREM SearchesStopAtMatch == Spec /\ []SkipsPlainly => SearchStopsAtMatch
<1>1. Init => SearchPlace
  <2>1. Init => Len(pending) = 0 /\ pending = <<>>
    BY DEF Init
  <2> QED
    BY <2>1 DEF SearchPlace
<1>2. IInv /\ SearchPlace /\ SkipsPlainly /\ [Next]_vars => SearchPlace'
  BY NextPlace
<1>3. IInv /\ SearchPlace /\ [Next]_vars
        => [ pending # <<>> /\ operands.ok /\ pending' = Front(pending)
             => LET handler == Last(pending)
                    code    == image[handler.module].code
                    stop    == modPos[handler.module]
                IN /\ code[stop + 1].op
                        = IF handler.kind = "if_else" THEN "else" ELSE "end"
                   /\ Nested(code, handler.position + 1, stop) ]_vars
  <2> SUFFICES ASSUME IInv, SearchPlace, [Next]_vars, pending # <<>>,
                      operands.ok, pending' = Front(pending)
               PROVE  LET handler == Last(pending)
                          code    == image[handler.module].code
                          stop    == modPos[handler.module]
                      IN /\ code[stop + 1].op
                              = IF handler.kind = "if_else" THEN "else" ELSE "end"
                         /\ Nested(code, handler.position + 1, stop)
    OBVIOUS
  <2>1. ~ff.on
    <3>1. /\ pending \in Seq(Handler) /\ Len(pending) \in Nat
          /\ Len(pending') = Len(pending) - 1
      BY HandlerType, FrontType
    <3>2. pending' # pending
      BY <3>1
    <3>3. ASSUME NEW handler PROVE pending' # Append(pending, handler)
      BY <3>1
    <3> QED
      BY <3>2, <3>3, PendingChanges DEF ResumeIf, ResumeBranch, ResumeElse, Resumes
  <2>2. /\ Last(pending) = pending[Len(pending)]
        /\ Len(pending) \in 1..Len(pending)
    BY HandlerType
  <2>3. Placed(Len(pending))
    BY <2>2, PlaceParts
  <2>4. Waits(Last(pending)) /\ Skipped(Last(pending).position)
    BY <2>2, <2>3 DEF Placed
  <2>5. ff.depth = 0 /\ Code[Pos + 1].op = ff.target
    BY <2>1 DEF SearchPlace
  <2>6. Nested(Code, Last(pending).position + 1, Pos)
    BY <2>4, <2>5 DEF Skipped, Nested, DepthTo
  <2>7. image[Last(pending).module].code = Code /\ modPos[Last(pending).module] = Pos
    BY <2>4 DEF Waits, Code, Pos
  <2> QED
    BY <2>4, <2>5, <2>6, <2>7 DEF Waits, Sought
<1> QED
  BY <1>1, <1>2, <1>3, Invariance, PTL DEF Spec, SearchStopsAtMatch

\* Skipped code has no effect on the stacks and the globals, and returns from no
\* function, unless it has a br_table, or an end that finds no label: of the more
\* than a hundred opcodes, these are the only ones that do not look in time
\* whether they are skipped.
THEOREM SkippedCodeInert ==
  Spec /\ []SkipsPlainly /\ []SkipsNoTable => SkippingIsInert
<1>1. IInv /\ SkipsPlainly /\ SkipsNoTable /\ [Next]_vars
        => [ ff.on /\ ff'.on
             => /\ Stacks(operands') = Stacks(operands)
                /\ UNCHANGED <<callStack, globals>> ]_vars
  <2> SUFFICES ASSUME IInv, SkipsPlainly, SkipsNoTable, [Next]_vars,
                      ff.on, ff'.on
               PROVE  /\ Stacks(operands') = Stacks(operands)
                      /\ UNCHANGED <<callStack, globals>>
    OBVIOUS
  <2>1. pending # <<>> /\ operands \in OperandState
    BY DEF IInv, SearchInv, SearchHasHandler
  <2>2. \A e : Stacks(Fail(operands, e)) = Stacks(operands)
    BY <2>1 DEF Stacks, Fail, OperandState
  <2>3. \A ops : ~Executes(ops)
    BY DEF Executes
  <2>4. CASE UNCHANGED vars
    BY <2>4 DEF vars
  <2>5. CASE \/ FetchFails \/ UnknownBlockType \/ NotImplemented \/ Else \/ Skip
    BY <2>2, <2>5 DEF FetchFails, UnknownBlockType, NotImplemented, Else, Skip,
       FindTarget, SkipInstruction, SkipBlock, Computes, contextVars
  <2>6. CASE End
    <3>1. CASE ff.depth = 0
      BY <2>2, <2>6, <3>1 DEF End
    <3>2. CASE ff.depth # 0
      <4>1. ff.depth > 0
        BY <3>2 DEF IInv, SearchInv
      <4>2. HasLabel(0)
        BY <2>6, <4>1 DEF SkipsPlainly, Skips, End
      <4> QED
        BY <2>6, <3>2, <4>2 DEF End, LeaveBlock
    <3> QED
      BY <3>1, <3>2
  <2>7. CASE BranchTable
    BY <2>7 DEF BranchTable, SkipsNoTable, Skips
  <2>8. CASE Execute
    BY <2>3, <2>5, <2>6, <2>7, <2>8 DEF Execute, EnterBlock, EnterIf, Branch,
       BranchIf, Return, CallInstruction, CallIndirect, Nop, Unreachable, Drop,
       Select, LocalGet, LocalSet, GlobalGet, GlobalSet, MemoryAccess, Const,
       Numeric, Extend
  <2>9. CASE Resume
    BY <2>1, <2>9 DEF Resume, ResumeIf, ResumeBranch, ResumeElse, Resumes,
       SearchRunsOut, RetryIf, AbandonSearch, contextVars, Stacks, OperandState
  <2>10. CASE Host
    BY <2>1, <2>10, HostAlone
  <2> QED
    BY <2>4, <2>5, <2>8, <2>9, <2>10 DEF Next, Interpret
<1> QED
  BY <1>1, Invariance, PTL DEF Spec, SkippingIsInert
=============================================================================
