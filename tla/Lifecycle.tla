----------------------------- MODULE Lifecycle ------------------------------
(***************************************************************************)
(* The life of a context in a host program: the modules set up in it       *)
(* (Loading), the functions run in it, the host functions that these call, *)
(* which use the context in turn, and its destruction (src/contexts.h,     *)
(* src/functions.h, src/interpreter.h).                                    *)
(*                                                                         *)
(* A body is the list of the functions that it calls, and its end: the     *)
(* rest of the code is the subject of Interpreter.  The C stack is what    *)
(* matters here: a host function that is called from a loop of             *)
(* wasmu_runFunction returns to it, whatever it did to the context.        *)
(***************************************************************************)
EXTENDS Loading

CONSTANTS
  CallStackDepth,         \* WASMU_CALL_STACK_DEPTH, config.h
  ImportResolutionDepth,  \* WASMU_IMPORT_RESOLUTION_DEPTH, config.h
  MaxHostCalls            \* bound: how often the host links, runs or calls

ASSUME LifecycleAssumption ==
  /\ CallStackDepth \in Nat \ {0}
  /\ ImportResolutionDepth \in Nat
  /\ MaxHostCalls \in Nat

\* A place in a module's code: done calls of the body that is its item; the
\* start of the binary is place 0.
Place == [item : Nat, done : Nat]

Call == [module : Nat, function : Nat, place : Place]

\* A C function of the library that has called, in the end, a host function:
\* wasmu_runFunction before its loop (start) or in it (loop), a wasmu_step or
\* a wasmu_callFunction of the host itself, and between them host functions.
Frame ==
  [kind : {"start", "loop", "step", "native"}, module : Nat, function : Nat]

VARIABLES
  callStack,        \* the calls under way, the innermost last
  places,           \* where each module has got to in its code
  cStack,           \* the C functions under way, the innermost last
  isInRunLoop,      \* the context's flag
  destroyAfterUse,  \* the context's flag
  freed,            \* whether the context has been destroyed
  hostCalls         \* how many of the MaxHostCalls are left

runVars ==
  <<callStack, places, cStack, isInRunLoop, destroyAfterUse, freed, hostCalls>>
vars == <<loadingVars, runVars>>

Init ==
  /\ LoadingInit
  /\ callStack = <<>>
  /\ places = [m \in 1..Len(plan) |-> [item |-> 0, done |-> 0]]
  /\ cStack = <<>>
  /\ isInRunLoop = FALSE
  /\ destroyAfterUse = FALSE
  /\ freed = FALSE
  /\ hostCalls = MaxHostCalls

Front(seq) == SubSeq(seq, 1, Len(seq) - 1)
Last(seq)  == seq[Len(seq)]

Plain(kind) == [kind |-> kind, module |-> 0, function |-> 0]

Top == IF cStack = <<>> THEN "host" ELSE Last(cStack).kind

-----------------------------------------------------------------------------
(***************************************************************************)
(* Calls, as in Calls.tla: imports are followed from module to module.     *)
(***************************************************************************)
Exists(target) ==
  /\ target.module \in 1..Len(modules)
  /\ target.function \in 1..Len(modules[target.module].functions)

FunctionAt(target) == modules[target.module].functions[target.function]

\* Mutant of Hop: the import's index does not replace the function's.
HopToModule(target) ==
  LET i == FunctionAt(target).import
      import == modules[target.module].imports[i]
  IN IF ~Exists(target) \/ i = 0 THEN target
     ELSE [target EXCEPT !.module = import.resolvedModule]

Hop(target) ==
  LET i == FunctionAt(target).import
      import == modules[target.module].imports[i]
  IN IF ~Exists(target) \/ i = 0 THEN target
     ELSE [module |-> import.resolvedModule, function |-> import.index]

Resolution(m, f) ==
  LET hops[n \in 0..ImportResolutionDepth] ==
        IF n = 0 THEN [module |-> m, function |-> f] ELSE Hop(hops[n - 1])
  IN hops[ImportResolutionDepth]

\* Why wasmu_callFunctionByIndex refuses a target, before or after it has saved
\* the position of the caller and moved that of the target's module.
TargetError(target) ==
  IF target.module = 0 THEN "precondition_failed"
  ELSE IF ~Exists(target) THEN "invalid_index"
  ELSE IF FunctionAt(target).import # 0 THEN "depth_exceeded" ELSE "none"

EntryError(target) ==
  IF FunctionAt(target).signature \notin 1..modules[target.module].signatures
  THEN "invalid_index"
  ELSE IF Len(callStack) >= CallStackDepth THEN "depth_exceeded" ELSE "none"

\* Mutant of Suspended: the caller is to resume where the module called is.
SuspendedElsewhere(calls, at, caller, callee) ==
  IF calls = <<>> THEN calls
  ELSE [calls EXCEPT ![Len(calls)].place = at[callee]]

\* The innermost call is to resume where the calling module has got to.
Suspended(calls, at, caller, callee) ==
  IF calls = <<>> THEN calls
  ELSE [calls EXCEPT ![Len(calls)].place = at[caller]]

Refusal(target) ==
  IF TargetError(target) # "none" THEN TargetError(target)
  ELSE IF FunctionAt(target).native THEN "none" ELSE EntryError(target)

\* The three outcomes of wasmu_callFunctionByIndex for the function f of module
\* m, called when the modules have got to the places at: it returns FALSE, ...
CallRefused(m, f, at) ==
  LET target == Resolution(m, f) IN
  /\ Refusal(target) # "none"
  /\ \/ /\ TargetError(target) # "none"
        /\ places' = at
        /\ UNCHANGED callStack
     \/ /\ TargetError(target) = "none"
        /\ places' = [at EXCEPT ![target.module] =
                        [item |-> FunctionAt(target).position, done |-> 0]]
        /\ callStack' = Suspended(callStack, at, m, target.module)

\* ... or it has called a host function, ...
CallNative(m, f, at) ==
  LET target == Resolution(m, f) IN
  /\ Refusal(target) = "none"
  /\ FunctionAt(target).native
  /\ places' = at
  /\ UNCHANGED callStack

\* ... or there is one call more.
CallPushed(m, f, at) ==
  LET target == Resolution(m, f)
      entry  == [item |-> FunctionAt(target).position, done |-> 0]
  IN /\ Refusal(target) = "none"
     /\ ~FunctionAt(target).native
     /\ places' = [at EXCEPT ![target.module] = entry]
     /\ callStack' =
          Append(Suspended(callStack, at, m, target.module),
                 [module |-> target.module, function |-> target.function,
                  place |-> entry])

NativeFrame(m, f) ==
  LET target == Resolution(m, f) IN
  [kind |-> "native", module |-> target.module, function |-> target.function]

-----------------------------------------------------------------------------
(***************************************************************************)
(* The host: the program that embeds the context, and its host functions.  *)
(* It keeps to four rules.  It uses nothing of a context that it has       *)
(* destroyed.  It does not go on with the calls of a run that failed.  A   *)
(* function that it calls while calls are under way is one of the module   *)
(* of the innermost.  And it destroys the context when the library is not  *)
(* using it, or from the only wasmu_runFunction under way, in its loop.    *)
(***************************************************************************)
HostInControl == ~freed /\ task = NoTask /\ Top \in {"host", "native"}

Abandoned ==
  callStack # <<>> /\ answer.call \in {"run", "call", "step"} /\ ~answer.ok

HostUses == HostInControl /\ ~destroyAfterUse /\ ~Abandoned

HostCalls ==
  /\ HostUses
  /\ hostCalls > 0
  /\ hostCalls' = hostCalls - 1

MayCall(m) == callStack # <<>> => Last(callStack).module = m

\* Setting up while calls are under way counts as a call of the host.
HostSetUp ==
  /\ SetUp
  /\ \/ HostUses /\ cStack = <<>> /\ callStack = <<>> /\ UNCHANGED hostCalls
     \/ HostCalls /\ cStack \o callStack # <<>>
  /\ UNCHANGED <<callStack, places, cStack, isInRunLoop, destroyAfterUse, freed>>

HostLink(m) ==
  /\ HostCalls
  /\ Link(m)
  /\ UNCHANGED <<callStack, places, cStack, isInRunLoop, destroyAfterUse, freed>>

\* wasmu_runFunction, up to its loop or to the host function that it calls
RunFunction(m, f) ==
  /\ HostCalls
  /\ MayCall(m)
  /\ \/ /\ CallRefused(m, f, places)
        /\ error' = Refusal(Resolution(m, f))
        /\ Told("run", m, FALSE)
        /\ UNCHANGED <<cStack, isInRunLoop>>
     \/ /\ CallNative(m, f, places)
        /\ cStack' = cStack \o <<Plain("start"), NativeFrame(m, f)>>
        /\ answer' = NoAnswer
        /\ UNCHANGED <<error, isInRunLoop>>
     \/ /\ CallPushed(m, f, places)
        /\ cStack' = Append(cStack, Plain("loop"))
        /\ isInRunLoop' = TRUE
        /\ answer' = NoAnswer
        /\ UNCHANGED error
  /\ UNCHANGED <<plan, modules, task, heap, lost, destroyAfterUse, freed>>

\* wasmu_callFunction
CallFunction(m, f) ==
  /\ HostCalls
  /\ MayCall(m)
  /\ \/ /\ CallRefused(m, f, places)
        /\ error' = Refusal(Resolution(m, f))
        /\ Told("call", m, FALSE)
        /\ UNCHANGED cStack
     \/ /\ CallNative(m, f, places)
        /\ cStack' = Append(cStack, NativeFrame(m, f))
        /\ answer' = NoAnswer
        /\ UNCHANGED error
     \/ /\ CallPushed(m, f, places)
        /\ Told("call", m, TRUE)
        /\ UNCHANGED <<error, cStack>>
  /\ UNCHANGED <<plan, modules, task, heap, lost, isInRunLoop, destroyAfterUse,
                 freed>>

\* The host's program calls wasmu_step itself.
HostStep ==
  /\ HostUses
  /\ cStack = <<>>
  /\ callStack # <<>>
  /\ cStack' = <<Plain("step")>>
  /\ UNCHANGED <<loadingVars, callStack, places, isInRunLoop, destroyAfterUse,
                 freed, hostCalls>>

\* wasmu_stop
HostStop ==
  /\ HostInControl
  /\ ~destroyAfterUse
  /\ callStack # <<>>
  /\ callStack' = <<>>
  /\ UNCHANGED <<loadingVars, places, cStack, isInRunLoop, destroyAfterUse,
                 freed, hostCalls>>

Frames(kind) == {i \in 1..Len(cStack) : cStack[i].kind = kind}

MayDestroy ==
  /\ Frames("start") = {}
  /\ \A i, j \in Frames("loop") : i = j
  /\ Frames("loop") # {} => isInRunLoop

\* Mutant of MustWait: without calls under way there is nothing to wait for.
MustWaitForCalls == isInRunLoop /\ callStack # <<>>

\* Why wasmu_destroyContext puts off the destruction
MustWait == isInRunLoop

\* wasmu_destroyContext
HostDestroy ==
  /\ HostInControl
  /\ destroyAfterUse => cStack = <<>>
  /\ MayDestroy
  /\ \/ /\ MustWait
        /\ destroyAfterUse' = TRUE
        /\ callStack' = <<>>
        /\ UNCHANGED <<heap, freed>>
     \/ /\ ~MustWait
        /\ heap' = heap - Owned
        /\ freed' = TRUE
        /\ UNCHANGED <<callStack, destroyAfterUse>>
  /\ UNCHANGED <<plan, modules, error, task, answer, lost, places, cStack,
                 isInRunLoop, hostCalls>>

-----------------------------------------------------------------------------
(***************************************************************************)
(* wasmu_step, called by the host or from the loop of wasmu_runFunction.   *)
(***************************************************************************)
Executing == Top = "step" \/ (Top = "loop" /\ callStack # <<>>)

\* It returns TRUE: to the host, or for another turn of the loop.
StepReturnsTrue ==
  /\ cStack' = IF Top = "step" THEN Front(cStack) ELSE cStack
  /\ IF Top = "step" THEN Told("step", 0, TRUE) ELSE UNCHANGED answer
  /\ UNCHANGED <<error, isInRunLoop>>

\* Mutant of StepReturnsFalse: the loop is left with its flag set.
StepReturnsFalseInLoop(caller, e) ==
  /\ error' = e
  /\ cStack' = Front(caller)
  /\ Told(IF Last(caller).kind = "step" THEN "step" ELSE "run", 0, FALSE)
  /\ UNCHANGED isInRunLoop

\* It returns FALSE to the last frame of caller: and so does wasmu_runFunction,
\* whether or not the context is to be destroyed.
StepReturnsFalse(caller, e) ==
  /\ error' = e
  /\ cStack' = Front(caller)
  /\ Told(IF Last(caller).kind = "step" THEN "step" ELSE "run", 0, FALSE)
  /\ isInRunLoop' = (isInRunLoop /\ Last(caller).kind = "step")

\* The module of the innermost call, where it is, and the body it is in
Running == Last(callStack).module
Here    == places[Running]
Body    == ItemAt(modules[Running], Here.item)

AtInstruction == Executing /\ error # "memory_oob" /\ Here.item # 0

StepUnchanged == UNCHANGED <<plan, modules, task, heap, lost, destroyAfterUse,
                             freed, hostCalls>>

\* Nothing is executed after a read past the end of a module.
StepAfterOverrun ==
  /\ Executing
  /\ error = "memory_oob"
  /\ StepReturnsFalse(cStack, "memory_oob")
  /\ UNCHANGED <<callStack, places>>
  /\ StepUnchanged

\* A function that never got a body starts at the zero that every binary starts
\* with, the opcode of unreachable.
StepWithoutBody ==
  /\ Executing
  /\ error # "memory_oob"
  /\ Here.item = 0
  /\ StepReturnsFalse(cStack, "reached_unreachable")
  /\ UNCHANGED <<callStack, places>>
  /\ StepUnchanged

StepCall ==
  LET f  == Body.list[Here.done + 1]
      at == [places EXCEPT ![Running].done = @ + 1]
  IN /\ AtInstruction
     /\ Here.done < Len(Body.list)
     /\ \/ /\ CallRefused(Running, f, at)
           /\ StepReturnsFalse(cStack, "invalid_index")
        \/ CallPushed(Running, f, at) /\ StepReturnsTrue
        \/ /\ CallNative(Running, f, at)
           /\ cStack' = Append(cStack, NativeFrame(Running, f))
           /\ UNCHANGED <<error, answer, isInRunLoop>>
     /\ StepUnchanged

\* The body has been cut off with the end of the binary.
StepPastEnd ==
  /\ AtInstruction
  /\ Here.done = Len(Body.list)
  /\ ~Body.there \/ ~Body.known
  /\ StepReturnsFalse(cStack, "memory_oob")
  /\ UNCHANGED <<callStack, places>>
  /\ StepUnchanged

\* wasmu_returnFromFunction: the caller's module goes back to where it was.
StepReturn ==
  LET calls == Front(callStack) IN
  /\ AtInstruction
  /\ Here.done = Len(Body.list)
  /\ Body.there /\ Body.known
  /\ callStack' = calls
  /\ places' = IF calls = <<>> THEN places
               ELSE [places EXCEPT ![Last(calls).module] = Last(calls).place]
  /\ StepReturnsTrue
  /\ StepUnchanged

\* Mutant of DestroysAtEnd: the flag is lowered only after the context was to be
\* destroyed, which puts the destruction off again.
DestroysBeforeEnd == destroyAfterUse /\ ~isInRunLoop

DestroysAtEnd == destroyAfterUse

\* The loop of wasmu_runFunction ends, and the context with it if it is to be
\* destroyed after use.  The loop may have run calls older than its own.
LoopEnd ==
  /\ Top = "loop"
  /\ callStack = <<>>
  /\ cStack' = Front(cStack)
  /\ isInRunLoop' = FALSE
  /\ Told("run", 0, TRUE)
  /\ freed' = DestroysAtEnd
  /\ heap' = IF DestroysAtEnd THEN heap - Owned ELSE heap
  /\ UNCHANGED <<plan, modules, error, task, lost, callStack, places,
                 destroyAfterUse, hostCalls>>

\* A host function returns.  One that has destroyed the context by itself, with
\* no run loop to do it, returns TRUE, for then nothing of it is used any more.
NativeReturns(ok) ==
  LET caller == Front(cStack)
      kind   == IF caller = <<>> THEN "host" ELSE Last(caller).kind
  IN /\ Top = "native"
     /\ task = NoTask
     /\ freed => ok
     /\ (Abandoned /\ ~freed) => ~ok
     /\ \/ /\ kind = "start"
           /\ ok
           /\ cStack' = Append(Front(caller), Plain("loop"))
           /\ isInRunLoop' = TRUE
           /\ UNCHANGED <<error, answer>>
        \/ /\ kind = "start"
           /\ ~ok
           /\ cStack' = Front(caller)
           /\ Told("run", 0, FALSE)
           /\ UNCHANGED <<error, isInRunLoop>>
        \/ /\ kind = "loop"
           /\ ok
           /\ cStack' = caller
           /\ UNCHANGED <<error, answer, isInRunLoop>>
        \/ /\ kind = "step"
           /\ ok
           /\ cStack' = Front(caller)
           /\ Told("step", 0, TRUE)
           /\ UNCHANGED <<error, isInRunLoop>>
        \/ /\ kind \in {"loop", "step"}
           /\ ~ok
           /\ StepReturnsFalse(caller, "invalid_index")
        \/ /\ kind \in {"host", "native"}
           /\ cStack' = caller
           /\ Told("call", 0, ok)
           /\ UNCHANGED <<error, isInRunLoop>>
     /\ UNCHANGED <<plan, modules, task, heap, lost, callStack, places,
                    destroyAfterUse, freed, hostCalls>>

-----------------------------------------------------------------------------
HostNext ==
  \/ HostSetUp
  \/ HostStep
  \/ HostStop
  \/ HostDestroy
  \/ \E m \in 1..Len(modules) :
       \/ HostLink(m)
       \/ \E e \in 1..Len(modules[m].exports) :
            LET f == ExportIndex(m, modules[m].exports[e].name) IN
            /\ modules[m].exports[e].isFunction
            /\ RunFunction(m, f) \/ CallFunction(m, f)

\* The library, while one of its functions runs
LibraryNext ==
  \/ LoadingStep /\ UNCHANGED runVars
  \/ StepAfterOverrun \/ StepWithoutBody \/ StepCall \/ StepPastEnd
  \/ StepReturn \/ LoopEnd

NativeEnds == \E ok \in BOOLEAN : NativeReturns(ok)

Next == HostNext \/ LibraryNext \/ NativeEnds

Spec == Init /\ [][Next]_vars

\* The library's loops go on, and host functions return.
FairSpec == Spec /\ WF_vars(LibraryNext) /\ WF_vars(NativeEnds)
=============================================================================
