# wasmu in TLA+

wasmu is a WebAssembly interpreter for small systems, written as a single C
header (`dist/wasmu.h`, put together from `src/src/*.h`). It does not compile
or index the code it runs: blocks are found by stepping over them, operands
and their types live on two stacks that are pushed and popped separately, and
calls, labels and locals are records on stacks of their own. This directory
models that machine in TLA+, checks it with TLC and proves part of it with
TLAPS. Paths below are relative to the repository; `src/x.h` is short for
`src/src/x.h`.

## 1. The system

| component | source | state | operations | interacts with |
|---|---|---|---|---|
| operand stacks | `stacks.h` | type stack, value stack, `errorState` | push and pop of types, integers and floats; assertions on popped types | written by every handler, by calls, returns, branches and by the host |
| execution context | `stacks.h`, `contexts.h`, `declarations.h` | call stack, label stack, `activeModule`, `activeFunction`, cached locals | `wasmu_pushCall`, `wasmu_popCall`, `wasmu_populateActiveCallInfo`, `wasmu_pushLabel`, `wasmu_popLabel`, `wasmu_getLabel`, `wasmu_stop` | the interpreter resolves every local and every byte of code through the cache |
| function calls | `functions.h` | the position of each module (one for all of its calls), the saved position in each call | `wasmu_callFunctionByIndex`, `wasmu_callFunction`, `wasmu_returnFromFunction`, import resolution | called by `call`, `call_indirect`, `return`, `end` and by the host; calls native functions of the host |
| interpreter | `interpreter.h`, `opcodes.h` | `fastForward`, its target opcode and label depth, `positionBeforeFastForward` | `wasmu_step`, `wasmu_fastForward`, `wasmu_runFunction` | drives all of the above; `wasmu_fastForward` calls `wasmu_step` from the middle of a handler |
| memory | `memory.h` | bytes, size and pages of each memory | `wasmu_memoryLoad`, `wasmu_memoryStore`, which grows the memory on demand | the interpreter's loads, stores, `memory.size`, `memory.grow`; the parser's data section; the host's size checker |
| module linking | `modules.h` | names, exports and imports of modules, what imports are resolved to | `wasmu_newModule`, `wasmu_assignModuleName`, `wasmu_addNativeFunction`, `wasmu_resolveModuleImports`, `wasmu_getExportedFunction` | the host, before or between calls, or from a host function; calls follow resolved imports |
| parser | `parser.h` | position in the binary, `nextFunctionIndexForCode`, the lists of a module | `wasmu_load`, `wasmu_parseSections`, one function for each section | fills modules; writes tables and memories |
| lifecycle | `contexts.h`, `modules.h`, `interpreter.h` | `isInRunLoop`, `destroyAfterUse`, the C stack, the blocks allocated | creation, destruction, nested `wasmu_runFunction`, `wasmu_stop` | a host function may re-enter, link, stop or destroy the context that runs it |
| numerics | `common.h`, `maths.h`, `subjects.h` | the loops' variables | operators, counting of zeros and ones, rotations, sign extension, rounding | the handlers of numeric opcodes, which push the results as bytes |
| reading | `modules.h`, `common.h` | module position | LEB128, little-endian | parser and interpreter |
| configuration, build, wrapper | `config.h`, `build.sh`, `dist/`, `test/` | | | |

What makes them correct, and what is hard about it:

* *Operand stacks*: the value stack holds what the type stack says; a pop
  fails rather than reads below the bottom. They are separate, counted in
  different units, and each of about 170 opcodes pushes and pops both.
* *Context*: the cache is that of the innermost call; every label is of a call
  under way; no more calls than the limit. Every return, failure and stop has
  to keep four records of the same thing in agreement.
* *Calls*: a call touches no operand of its callers, a return gives its
  results and resumes the caller where it was, even though recursive calls
  share one module position.
* *Interpreter*: skipped code has no effect; a search ends at the block it was
  started for, and it ends. Handlers nest (`if` in a skipped `else` in a
  branch), and wait in the middle of their code while others step.
* *Memory*: its code finds a byte at each address, whatever was allocated and
  whenever; the host finds it within its limits. Three counters (bytes
  allocated, size, pages) are kept apart, in units of bytes, blocks and pages,
  and a store may have to grow the memory, or be refused, at any of its bytes.
* *Linking*: an import is bound once, to what the module that it names exports
  under its name, although modules are created, named, loaded and linked in any
  order and linking may fail and be tried again. Functions, exports and imports
  are numbered each in its way, and imports lead to imports.
* *Parser*: sections may come in any order and more than once, and binaries may
  be cut off anywhere: what was announced is then read as zeros, and the parser
  says `WASMU_TRUE`. Bodies must go to the functions they are of, segments to
  their places, and damage must be reported.
* *Lifecycle*: all blocks are freed, once, and not under the feet of a C function
  that goes on with them. Destruction is put off by a flag that is one for all
  run loops, though they nest.
* *Numerics*: operands of four bytes are extended to eight before every operator,
  and results cut back. Loops over bits run over the extension, too, and have to
  end.

There are no threads. The interleaving is that of the host, which may push,
pop, call and stop between any two steps, with that of the nested searches.
Nothing is persisted, so there is no crash to recover from; failure means a
`WASMU_FALSE` half-way through a handler, with what it had changed already.
`PROJECT.json` lists each hazard at its line with the properties about it.

## 2. Modules

    Operands  <-  Context  <-  Calls  <-  Interpreter  <-  InterpreterProperties
                                                                ^        ^
                                               InterpreterProofs     MCValidCode,
                                                      ^              MCAnyCode,
                                           SearchProofs (+ Recursion)  MCFindings (+ Assembly)
                                                      ^
                                                StackProofs

    Memory  <-  MemoryProperties (implements ByteMap)  <-  MCMemory, MemoryProofs

    Loading  <-  Lifecycle  <-  EmbeddingProperties (implements Directory)
                                   ^                 ^
                               MCEmbedding     LoadingProofs (+ Recursion)
                                                     ^
                                               EmbeddingProofs  <-  LinkingProofs

    Numerics  <-  NumericsProperties  <-  MCNumerics

* **Operands** (`stacks.h`): the two operand stacks and the error state, as one
  record `operands`. It is passed through a handler as the C code passes the
  context through its pops, so that a handler that fails half-way keeps what it
  had popped: `ok` becomes FALSE where the code returns `WASMU_FALSE`, and
  nothing is popped after that. `KeepTop` is the loop of both clean-ups
  (`functions.h:186`, `interpreter.h:340`) with the number of cells it really
  moves.
* **Context** (`stacks.h`, `contexts.h`, `declarations.h`): the linked modules
  (`image`), `callStack`, `labelStack`, `active` (what
  `wasmu_populateActiveCallInfo` caches), `modPos` and `globals`; pushes and
  pops of calls and labels; `wasmu_stop`.
* **Calls** (`functions.h`): the resolution of imports hop by hop, native
  functions (`CallNative`: one that computes, one that refuses, one that stops
  the context), `EnterFunction` with the checks that come after it has changed
  things already, `ReturnFromFunction`. `After` is the rest of a call
  instruction, with the fall-through of `call_indirect` into `drop`.
* **Interpreter** (`interpreter.h`, `opcodes.h`): one action per handler; a
  step is one opcode decoded. A handler that calls `wasmu_fastForward` pushes
  a record on `pending` and resumes in an action of its own
  (`ResumeIf`, `ResumeElse`, `ResumeBranch`) when the search is over;
  `RetryIf` and `AbandonSearch` are the paths taken when it fails. `inRunLoop`
  says that `wasmu_runFunction` is stepping; otherwise the host does, through
  `HostPush`, `HostPop`, `HostCall` (`wasmu_callFunction`), `RunFunction`,
  `HostStop`.
* **InterpreterProperties**: what is checked, in two groups: of any code, and
  of code a validator accepts; and `ValidSteps`, which says of a step what a
  validator promises of it, so that the second group can be proved.
* **Assembly**, **MC\***: programs and hosts for TLC.
* **Memory** (`memory.h`, with the handlers of `interpreter.h:575-723` and
  the memory and data sections of `parser.h`): the `wasmu_Memory` with the bytes
  allocated for it, and `access`, the loop of `wasmu_memoryStore` under way:
  one step for each of its bytes (`WriteByte`, which grows the memory when it
  must, or `RefuseByte`). `Load` pushes the bytes read, after the shifts and the
  sign extension that the code makes of them; what it shifts by the width of
  an `int` or more is `UnknownByte`. **ByteMap** is what this promises to code: a byte for
  each address, zero until it is written, with no pages, blocks or sizes.
  **MemoryProperties** states that the one implements the other
  (`BehavesAsByteMap`, mapping the bytes past the size to zeros).
  The interpreter's model is not composed with it: there a load gives unknown
  cells, of which every byte map is a case.
* **Loading** (`parser.h`, `modules.h`): a context that is set up. A binary is a
  sequence of items (a type, an import, a body, a segment, ...), one of which the
  parser takes in a step; one that is not `there` lies past the end of the binary and
  reads as zeros, with an error. `task` is the loop of `wasmu_parseSections` or
  `wasmu_resolveModuleImports` under way, `answer` what the host was told. `heap`
  counts the blocks that are allocated, `lost` those nothing points to any more.
  A `plan` is what the host is about to set up. **Directory** is what linking
  promises: publications, requests and bindings, each for good.
* **Lifecycle** (`contexts.h`, `functions.h`, `interpreter.h:1228`) composes Loading
  with calls, reduced to what matters here: a body is the list of functions it
  calls. `cStack` has the C functions that wait: a `wasmu_runFunction` before its
  loop (`start`) or in it (`loop`), a `wasmu_step` of the host's own, and native
  functions, in which the host is in control and does what it may do outside.
  `places` are the modules' positions.
* **EmbeddingProperties**: what is checked of the two.
* **Numerics** (`interpreter.h:5-83`, `interpreter.h:725-1107`, `common.h`, `maths.h`,
  `subjects.h`, LEB128 of `modules.h`): one instruction to a behaviour, its operands
  as bytes on the value stack; the loops of `common.h` and the decoding of numbers
  take a step for each turn. **NumericsProperties** says what the results are,
  in bits and values of the operands' own width.
* **InterpreterProofs**, **SearchProofs**, **StackProofs**, **MemoryProofs**,
  **Recursion**, **LoadingProofs**, **EmbeddingProofs**, **LinkingProofs**: section 5.

Correspondence: `operands.types`/`operands.data` = `typeStack`/`valueStack`;
`operands.error` = `errorState`; `callStack` = `callStack`, with `position`,
`typeBase`, `valueBase` of a `wasmu_Call`; `labelStack` = `labelStack`;
`active` = `activeModule`, `activeFunctionIndex`, `activeCallInfo`;
`modPos[m]` = `module->position`; `ff` = `fastForward`,
`fastForwardTargetOpcode`, `fastForwardLabelDepth`; `branchPos` =
`positionBeforeFastForward`; `pending` = the C stack; `memory` = a
`wasmu_Memory`; `access` = the parameters and the counter of
`wasmu_memoryStore`; `modules` = `context->modules`, with `next` = the item at
`position`, `nextBody` = `nextFunctionIndexForCode`; `error` = `errorState`;
`cStack` = the C stack; `places[m].item` = `codePosition` of a body. `PROJECT.json` `map` gives
the lines of every definition.

### What the models abstract

* A cell is four bytes. Its value is one of `Data`, or `Unknown`, which stands
  for any value: results of arithmetic, and memory. A condition that is unknown
  is either true or false, an unknown index selects any target. So the control
  of the program is explored for all outcomes of the arithmetic.
* Code is a sequence of decoded instructions and positions count instructions.
  An opcode whose immediates end half-way, at the end of the code, leaves a
  position between two instructions in C; here it leaves the next one.
  The bytes between two function bodies are an opcode without a meaning.
* What was popped stays in the C arrays above the top and can come back:
  in a value it comes back as `Unknown`, in a type as any type (`Restored`).
* Undefined behaviour is not followed past the point where it happens: a local
  or a global that does not exist (a null pointer is read), a call whose
  parameters reach below the bottom of the value stack, an integer division
  by zero. Memory faults are an error or not, either way.
* In Loading names are values of a set: one that holds a NUL character is not
  modelled, nor is a string whose size is wrong. A section's announced size is not
  used by the code, but to skip custom sections. Start sections are refused like
  any section that is not known. A module that is renamed, or loaded a second
  time, is not modelled (the first name, or what was parsed, would stay allocated).
* In Lifecycle operands do not appear: the checks of a call on the operands are
  those of Calls. What executing a body may do besides calling is Interpreter's.
* In Numerics a byte has `ByteBits` bits, and all widths are in bytes as in the
  code. Where C leaves it open, an operator does what the processor's instruction
  does: sums, products and left shifts wrap, shifts are by the amount modulo 64
  (here `IntBits`), a right shift keeps the sign. Division by zero and of the
  least `i64` by -1 end the host's process and are left out. Floats are numbers of
  quarters, so that rounding is exact; NaN, infinities, negative zeros and
  numbers outside of the range of `wasmu_Int` are left out.
* An allocation that fails is not modelled. Nor is an address in the last block
  of the address space, for which the size wraps around to zero
  (`MemoryAssumption`), or an instruction on a memory that the module does not
  have: in the interpreter's model that is one of the outcomes of an access.

## 3. What is checked

| run | question | states | outcome |
|---|---|---|---|
| `valid_code` | does valid code keep its stacks, positions, results and searches right, over module boundaries, host functions, recursion and failures? | 5 images, 48 000 | pass |
| `any_code` | do calls, labels and searches stay in agreement on code nobody validated, and does every search end? | about 6 100 programs, 239 000 | pass |
| `embedding` | do parser, linker, nested runs and destruction keep functions, tables, links, positions and blocks right, for any order of what the host does? | 45 plans, 192 000 | pass |
| `numerics` | for which operands do numeric instructions compute what they should, and do their loops end? | 61 000 | pass |
| `memory` | does the memory behave as a map of bytes, within its limits, whatever it has to grow by and whatever is refused? | 3 limits, 16 000 | pass |
| `wide_result`, `indirect_call`, `table_branch`, `nested_else`, `skipped_block`, `earlier_block` | does the code do what its comments, logs and tests say of it? | one program each | violated |
| `data_rejected` | is a rejection by the size checker reported, as `config.h` says? | | violated |

`valid_code` uses five images: *Linked* (two modules that call each other
through imports and a third with native functions), *Failing* (imports
unresolved, of another kind and of themselves; host functions that refuse or
stop), *Recursive* (past the depth limit, with wide parameters and locals),
*Branching* (nested blocks, a loop, both arms of an if) and *Operators* (every
kind of numeric, global, memory and conversion handler). `any_code` takes every
word of two letters over twenty instructions, one of each kind of handler, after two
unknown operands, and every word of five letters over the six instructions
that structure code, inside of a block, that does not begin with an `end` or a `br`;
every word of three letters over a `block` and calls of host functions that
compute, refuse or stop, and of imports that are resolved, are not, or form a chain
that is too long; and a program whose code runs out, before the `end` of its last
function.

`valid_code` checks `ValidSteps` and `SkipsPlainly` as well, the hypotheses of
the theorems on valid code (section 5), so that these say something of its programs.
`ValidSteps` has four parts:

* `OperandsFit`: when an instruction that pops is executed, the types it pops are on
  top of the type stack and above the base of the innermost call and of the blocks
  that are open; a branch has a label, the results of its block on top, and as many
  operands below them to drop, or none; `select`, `i64.extend_i32` and
  `call_indirect` are not executed, and no branch leaves the label of an `if`. This
  is what a validator establishes, and what keeps clear of constructs that go
  wrong. It speaks of types only, and never of cells (`ResultsFit` does, for it
  compares what a return drops with what it keeps).
* `LabelsNest`: the labels of a call lie in the order of their positions, and when a
  branch has found its end, no label of the call lies behind the block it leaves.
* `SkipsNoTable`: no `br_table` is skipped (`table_branch`).
* `ResultsFit`: what a return drops takes as many cells as its results, or none
  (`wide_result`).

What passes: the cache is that of the innermost call (`CacheCoherent`, in `any_code`), a
suspended call waits behind the call instruction that made the next one
(`SuspendedAtCall`), valid code never lacks operands (`NoOperandErrors`), value
and type stack agree cell by cell (`StacksAgree`), execution stays within the
function's body (`PositionInFunction`), a call touches nothing of its callers
(`CallsKeepToTheirOperands`), results survive the return
(`ResultsSurviveReturn`), skipped code has no effect (`SkippingIsInert`), a
search stops at its own `else` or `end` (`SearchStopsAtMatch`), since its code skips
no `else` of a nested `if` and no `end` for which there is no label
(`SkipsPlainly`), calls exist and
are bounded (`CallsExist`), labels belong to calls under way
(`LabelsBelongToCalls`), the context skips only for a handler that waits
(`SearchHasHandler`), and every search returns (`StepsReturn`). The memory
implements the map of bytes (`BehavesAsByteMap`), has no more pages than its
maximum (`PagesWithinMaximum`) and no more bytes than one page beyond it
(`SizeBounded`: `memory.h:26` compares the page of an index, counted from zero,
with a number of pages).

`embedding` sets up one to three modules by one of its plans: *Linked* (a function
and a host function imported), *Chain* (an import exported again, and back),
*LongChain* (one import further than the depth goes: a resolution that followed it
would break `CallsAsNamed`), *Cycle* (a module that imports from itself), *SameName*, *Orders* (sections in an
unusual order, functions without bodies, recursion past the depth limit),
*Tables* (segments that overlap, leave gaps, go beyond the limit), *Refusals*,
*Unread* (a wrong or short magic) and *CutOff*. The host does this step by step in any order,
with runs, calls and links in between, from its program or from host functions.
Bodies go to the functions declared, in order (`BodiesOfDeclared`); a
table is what the last segment over each entry says (`TableAsSegments`); damage
leaves an error although the parser says `WASMU_TRUE` (`DamageReported`); imports
are bound for good to what is published (`LinkingIsDirectory`), the linker's
answer is right (`LinkAnswers`), and a call enters what its index means by the
names in the binaries (`CallsAsNamed`). Each call is in its own function's body
(`PlacesInBodies`). Nothing uses what is freed (`NoUseAfterFree`), the flag that
puts a destruction off has a loop (`FlagHasLoop`), the destruction comes unless the
run fails (`DestroyedAfterUse`), and every block is freed or known to be lost
(`HeapAccountedFor`).

`numerics` says of each instruction for which operands it is right. All
operators with a sign, comparisons with and without (sign extension keeps the
order of numbers without a sign), `eqz`, `wrap` and `extend` are, on all
(`OperatorsRight`), and constants and counts are read as written, in any number
of groups (`ReadsRight`). The other properties have preconditions, which are where
the code departs from WebAssembly:

* `div_u`, `rem_u`, `shr_u`, `popcnt`, `rotl` and `rotr` of a negative `i32` work on
  the ones of its extension (`UnsignedRight`, `CountsRight`, `RotationsRight`;
  `stacks.h:256`). In a rotation these ones are joined to the bits that are rotated:
  0x80000001 rotated left by one gives 0xFFFFFFFF. None of the rotated ones is lost;
* shifts of an `i32` are by the amount modulo 64, so that 32 to 63 shift everything
  out, instead of modulo 32;
* `ctz` of zero never ends (`common.h:124`; `CountsRight`, `LoopsEnd`);
* rotations of an `i64` keep only the lower half of the result, which goes through
  a `wasmu_Count` (`interpreter.h:976`);
* comparisons of `i64`, and its `eqz`, push an `i64`, where WebAssembly has an
  `i32` (`interpreter.h:16`);
* `ceil` of a negative fraction gives the number one above (`maths.h:12`), and
  `nearest` rounds halves away from zero instead of to even (`RoundingRight`).

The programs of `valid_code` avoid the constructs that do not work. Four of these
have no run of their own. What three put out of step has no name in the code: a
`select` or an `i64.extend_i32` pushes cells and no type, and a branch out of the block of an
`if` counts from one operand too high (section 5). The fourth is an `else` that is reached
from the first arm of its `if` (`interpreter.h:251-264`). It looks for its `end`, stops before
it, and runs on into the code of `end`, which takes the label of the `if` off; then the
`end` itself is executed, and takes off the label of the block around it, or returns
from the function if there is none. In the model this is `ResumeElse`, and then `End`. A
function that computes its result after such an `if` returns without it, which breaks
`ResultsSurviveReturn`; in *Branching*, as in `structures.wat:96`, the function
ends with the `if`, and nothing shows. `ValidSteps` leaves out such code where an operand, a
label or a result is then missing (`OperandsFit`, `ResultsFit`). That a function without
results returns before the rest of its code is executed, no property says. Six are
the subject of the other runs:

1. `wide_result`, `functions.h:188`: a return moves down as many bytes as it
   drops, so a result wider than the locals below it is moved in part.
2. `indirect_call`, `interpreter.h:458`: `call_indirect` has no `break` and
   runs on into `drop`.
3. `table_branch`, `interpreter.h:297`: `br_table` pops its index before it looks
   whether it is being skipped.
4. `nested_else`, `interpreter.h:255`: an `else` is executed even in skipped code, and
   restarts the search that is under way.
5. `skipped_block`, `interpreter.h:275`: a block that is skipped pushes no label, but
   its `end` pops one. An `if` that is false, has no `else` and has a block inside is
   searched twice, so the second time that `end` finds no label and returns from the
   function.
6. `earlier_block`, `interpreter.h:269`: the position of the last branch is
   never reset, so a later block at a lower position keeps its label and the
   function's own `end` no longer returns.

The seventh is in the parser:

7. `data_rejected`, `parser.h:406`: the data section ignores what
   `wasmu_memoryStore` returns, so a byte for which the checker rejects the
   memory is dropped without an error.

Two more limits of the memory show in the promise `ByteMap` makes, which is as
weak as the code: of a load of eight bytes only the size of its result is
promised, since each byte is shifted as an `int` (`memory.h:13`), and an
unsigned load of four bytes into eight may extend them by their sign. And
`memory.grow` adds pages in a counter that wraps, so growing by 2^32 - 1 pages
takes one off.

### Bounds

| bound | value | why it is enough |
|---|---|---|
| `CallStackDepth` | 3 (valid), 2 (any) | a caller, a callee and a call in between of another module; the limit is reached by recursion |
| `ImportResolutionDepth` | 2 (valid), 1 (any) | a chain of as many imports resolves; one that is longer, and a cycle, do not |
| `MaxHostOperands` | 2, 1 or 0 | the parameters of the functions called, and one to spare |
| `MaxCells`, `MaxLabels` | 40/8, 6/4 | code that pushes for ever is cut there; the valid programs never reach it |
| word length | 2 and 5 | with the prologue and the closing ends, the shortest forms of the failures known are of three to five structural instructions |
| `PageSize`, `BlockSize`, `CountLimit` | 8, 4, 64 | a page of two blocks; accesses of eight bytes cross blocks and pages; `memory.grow` by 63 wraps |
| `ByteLimit` | 4 | bytes with and without a sign, and zero |
| `Limits` | (1,1), (0,2), (2,4) | a memory that is at its maximum, one that starts with no pages, and one with room to spare |
| `AuthorisedSizes` | multiples of 4 up to 32 without 24 | the checker refuses in the middle, at the end or, in `data_rejected`, always |
| `MaxTableSize` | 4 | segments end below, at and beyond it, in padding, in elements, and by a second segment |
| `CallStackDepth`, `ImportResolutionDepth` (embedding) | 3, 2 | as above; a chain of three imports and a cycle meet the second |
| `MaxHostCalls` | 3 | how often the host runs, calls or links, or sets up during calls: a run within a run, and something after or in both; or linking that fails twice and succeeds |
| `Plans` | 45 | each section, refused and cut off; each outcome of linking; see above |
| `ByteBits` | 2 | numbers of 8 and 16 bits: all 256 of the first for one operand, 16 and 17 edge cases for others; `NumericsAssumption` allows 8 |
| `Data` | {0}, {0, 1} | a condition and an index need one value on each side; others are `Unknown` |

The positions past the end of the code are counted one past it only (`Advance`).
`any_code` is without a deadlock check: after an error a careful
host stops, and code that reads through a null pointer is not followed.
`memory` and `data_rejected` are too: a memory that is full stops its program for good.
`embedding` ends when the context is destroyed, or when the host has made its calls and
its plan is carried out; `numerics` ends when the instruction is done.
`valid_code` and the six others check for deadlock.

### Fairness

`FairSpec` is weakly fair to the steps of the interpreter while a C call is
under way (`inRunLoop` or `pending` not empty): `wasmu_fastForward` and the
loop of `wasmu_runFunction` (`interpreter.h:92`, `interpreter.h:1244`) step
again at once, with nothing in between. The host is under no obligation: it
need not call or step. With that, `StepsReturn` says that a search always comes
back to its caller. It says nothing of the program that is run, which may loop.

In Lifecycle `FairSpec` is weakly fair to the library (its loops take their next turn) and
to the return of native functions, which is an assumption on the host: one that
never returns holds everything up. The host need not do anything else. In Numerics
a loop that has begun goes on.

## 4. Host

A *careful* host (`CarefulHost`) uses the stacks when no call is under way,
passes arguments of the right types and does not step on after an error, as
the examples and the tests of the repository do. Every other host is covered by
the proofs, which do not depend on the constant, but for those of four theorems.
`CallsWaitAtCalls` does, since a host
that calls a function between two steps of another makes a call that no call
instruction has made; `StacksAlwaysAgree`, `OperandsAreThere` and `CallersOperandsKept` do,
since a host that pops the operands of a call under way, or goes on after a handler has
failed between its two pops, takes the stacks apart itself.

In Lifecycle the host keeps to four rules, and what happens otherwise follows from
the code:

1. It uses nothing of a context that it has destroyed.
2. It does not go on with the calls of a run that failed. They stay on the call stack,
   with positions that may have moved; a later `wasmu_runFunction` would run them
   too, before it returns.
3. A function that it calls from a native function is one of the module that
   called this. `wasmu_callFunctionByIndex` saves the position of the *named*
   module in the innermost call (`functions.h:80`), so that with another one the
   caller would resume in the wrong place.
4. It destroys the context when no function of the library is using it, or from a
   native function that the loop of the only `wasmu_runFunction` has called. A native function that
   `wasmu_runFunction` calls directly finds `isInRunLoop` down
   (`interpreter.h:1233`), as does one that an outer loop calls after an inner
   loop has ended (`interpreter.h:1251`): there the context is freed at once, and the caller goes on with it. Inside of a
   nested run, the inner loop frees the context under the outer one.

A nested `wasmu_runFunction` does not stop at the call it has made: it steps until
the call stack is empty (`interpreter.h:1241`), and so runs the outer function to
its end. The model does as the code does, and the properties hold with it.
The host adds native functions before parsing in some behaviours; they then take the
bodies of the functions declared (`parser.h:349` passes over imports only), and
`BodiesOfDeclared` is stated for the other order, in which no native function is a
module's first.

## 5. What is proved

For every set of images, every depth limit, every host, all bounds:

| theorem | says |
|---|---|
| `TypeCorrect` | every variable keeps its type; the depth of a search is never below zero |
| `CacheNeverStale` | the cached call is the innermost call |
| `CallDepthBounded` | calls are of functions that exist, and within the limit |
| `LabelsStayInCalls` | labels are of calls under way, in their order |
| `SearchesHaveHandlers` | the context skips only for a handler that waits |
| `CallsWaitAtCalls` | with a careful host, a suspended call waits behind the call instruction that made the next |
| `SearchesStopAtMatch` | if `SkipsPlainly` holds, a search stops at its own `else` or `end` |
| `SkippedCodeInert` | if `SkipsPlainly` and `SkipsNoTable` hold, skipped code has no effect |
| `StacksAlwaysAgree` | with a careful host, if `SkipsPlainly` and `ValidSteps` hold, value stack and type stack agree |
| `OperandsAreThere` | under the same conditions, no pop fails for want of operands |
| `CallersOperandsKept` | under the same conditions, no step touches what lies below the innermost call |
| `ResultsReturned` | if `ResultsFit` holds, results survive the return, whatever the code and the host |
| `MemoryTypeCorrect` | one byte more is allocated than the size of the memory |
| `PagesBounded` | `memory.grow` and the stores keep to the maximum of pages |
| `MemoryBounded` | the memory is no larger than the page after its maximum |
| `MemoryImplementsByteMap` | the memory is a map of bytes to its code |
| `EmbeddingTypes` | every variable of Loading and Lifecycle keeps its type |
| `BlocksAreOwned` | every block is freed with the context or is one of those lost |
| `FreedIsUnused` | nothing uses the context once it is freed |
| `FlagIsOfALoop` | a destruction is put off only while a loop can carry it out |
| `DamageIsReported` | a table beyond its limit, and a binary cut off, leave an error |
| `CallsAreInBodies` | each call resumes in its own function's body |
| `LinkingImplementsDirectory` | set-up and linking implement Directory |
| `LinkerAnswers` | the linker's answers are right |
| `TablesAreAsSegments` | a table is what the last segment over each of its entries says |
| `BodiesAreOfDeclared` | bodies go to the functions declared, in their order |
| `CallsAreAsNamed` | a call enters the function that its index means by the names |

The first five follow from `Invariance == Spec => []IInv` (**InterpreterProofs**). `IInv` is the
conjunction of the types of all variables, `CallsInv` (`CallsExist`, `CacheCoherent`, `LabelsBelongToCalls` and the types of the stacks)
and `SearchInv`. None of its parts is inductive alone. A branch follows
`active.module` to the code it fetches, so types need the cache to be coherent and
the call to exist; a return recomputes the cache from the caller, which has to
exist for it to have a type; `LabelsWithin` takes labels off from the top until
it meets one of a call that remains, which leaves none behind only if labels are
in the order of their calls; and a search ends without a handler unless every
start of one pushes a handler and every failure switches it off.

The proof goes bottom up: the types of `KeepTop`, pops and
pushes, one lemma for each operation on calls and labels
(`CallEntered`, `CallPopped`, `CallsDropped`, `LabelPushed`, ...) and for
`CallFunctionByIndex` and `ReturnFromFunction`, one for
each handler and `NextInv` for the step.

**SearchProofs** has three theorems that need more than `IInv`:

* `SuspendedAtCall` is inductive with `IInv`, if the host is careful. Calls are
  taken off the stack and the others wait as they did (`CallsFall`), or one is pushed and
  the call below it is where a `call` or a `call_indirect` was read whose target is
  resolved to the new one (`CallsRise`); the position that the host's calls save is
  no such place, and a careful host makes them when there is none to save.
* `SearchPlace` is the invariant that makes a search stop where it should: each
  handler that waits has been passed by the code from its position on, at a depth
  that was never negative and is now `ff.depth`; it waits in the module that is
  active, for the opcode that is searched for; and if the search has just ended it
  is at depth zero, in front of that opcode. The depth that the code counts up and
  down is that of `Nested`, which counts blocks and ends in what was passed
  (`DepthNext`), if no `else` is executed on the way, which would start another
  search, and no `end` that returns from the function.
* That is `SkipsPlainly`, an invariant which `valid_code` checks of its programs and the
  runs `nested_else` and `skipped_block` break. With `SkipsNoTable`, which
  `table_branch` breaks, the proof of `SkippedCodeInert` goes through all handlers: they are the only
  ones that change anything before they look whether they are skipped. So
  the findings of section 3 about skipped code are all there are.

**StackProofs** is about the operand stacks. The type stack counts types, the value stack
cells, with the locals of every call in between, and each handler moves them separately. The
hypotheses speak of the types, but for `ResultsFit`; what is concluded speaks of the cells. The invariant
is `SInv == (Agree \/ Dead) /\ ErrorsFit /\ GlobalsFit`, with `IInv` and `SearchPlace`
(TLC found it to hold of all states of `valid_code` before it was proved):

* `Agree` has `StacksAgree`, which alone is not inductive: a return cuts both stacks at
  bases saved in the call, a branch at those saved in the label, in types and in cells.
  So every base of a call, and of a label, is the same place on both stacks: below its
  `valueBase` are the cells of the types below its `typeBase` and the locals of the calls up to
  it, and bases lie in the order of calls and labels (`Based`, `InOrder`).
* Two kinds of labels are left out (`Live`). That of an `if` remembers one type too many, since
  it is pushed before the condition is popped (`interpreter.h:219`). And
  while a branch looks for the end of its block, the labels of the blocks inside of it are above the
  operands that are left (`Stale`). This is why no search may pop them off or find
  them: `LabelsNest` says that they are gone when it ends.
* `Dead`: a handler that fails between its two pops leaves the stacks apart. It has set an
  error, and nothing goes on but the loops that end with it and the host.
* `ErrorsFit`: no pop has failed; the one state with `stack_underflow` is that of an `if` which looks for
  an `else`, finds the function's end and puts it back (`RetryIf`).
* `GlobalsFit`: a global keeps the cells of its type, so that `global.get` pushes as many as
  the type that it pushes says.

All lemmas on handlers conclude `Settled`: `SInv'`, and that nothing below the innermost call
has changed (`CallKeepsToItsOperands`). That an intermediate state of a handler lies over a floor, with the
stacks below it as they were, is `Over(s, r)`; pops that stay above the floor and
pushes keep it (`OverPopped`, `OverPushed`). The views of calls and labels before
and after are compared by three lemmas: something falls away from the top
(`AgreesFall`), a label is put on top (`LabelOnTop`), a call is (`CallOnTop`). `KeepTopExact` says
what both clean-ups do, if there are as many cells to drop as to keep, or none; `BranchCleans` and
`ReturnSettled` use it for both stacks at once. `ResultsReturned` needs it and `IInv` only.

What `ValidSteps` cannot be freed of here: that validated code satisfies it is an
induction over code. The two parts of it that are not a validator's,
`SkipsNoTable` and `ResultsFit`, and the exclusions in the other two are not conveniences of the proof.
A `select` and an `i64.extend_i32` push cells but no type (`interpreter.h:492`, `interpreter.h:1103`), and
the label of an `if` has its bases above the condition (`interpreter.h:219`), so that a branch out of it counts one operand too
few. The proof does not go through for any of them.

The four about memory follow from `MemoryInvariance == Spec => []MInv`
(**MemoryProofs**). `MInv` adds to the types and the two limits that an access
under way stays below the last block of the address space, without which its
index could wrap and a size be less than the index it is made for. `NewSizeFits`
and `NewSizeInPage` are the arithmetic: rounding up makes room, and does not
leave the page, since pages are made of whole blocks. `Written` says what one
turn of the store loop does to every byte, grown or not; the refinement has one
lemma for each action (`WriteMap`, `RefuseMap`, `BeginMap`, `LoadMap`).

Those about the embedding follow from `Invariance == Spec => []Inv`
(**EmbeddingProofs**), where
`Inv == LoadInv /\ HeapAccountedFor /\ FrameInv /\ CallInv /\ BodyInv`:

* `LoadInv` (**LoadingProofs**) has the types of the modules, that a module which is
  damaged has left an error (and no step clears one), and that a module which has not
  been loaded has native functions only.
* `HeapAccountedFor` is inductive with the types alone: each step
  allocates what it adds to `Owned`, a sum over modules (`OwnedIs`, `OwnedMore`
  and `Recursion`), and what it loses.
* `FrameInv`: a frame of the library lies under a native function or on top; while the
  flag is up there is a loop; a context to be destroyed is used by at most one loop,
  and one that is freed by none. `NoUseAfterFree` alone is not inductive: between
  the destruction that is put off and the end of the loop the host may
  not start another loop.
* `CallInv`: calls are of functions that exist and are not native, so that
  setting up, which only appends, leaves what they call alone; and
  no call is of the module that is parsed, whose functions still get bodies. This
  follows from `LoadInv`: before it was loaded it had nothing but native functions.
* `BodyInv` is `PlacesInBodies` with what makes it so: an abandoned run is not
  continued, and meanwhile the host is in control.

`LinkInv` (**LinkingProofs**) adds that the imports the linker has passed are
resolved; nothing else runs while its loop does, or appends to the imports it goes
over. The refinement maps `modules` to three sets, of publications, requests and
bindings (`EmbeddingProperties`), with a lemma for what each kind of edit does to
each of them: an export publishes, an import wants, a resolution binds, and
nothing else changes any.

`TablesInv` says of each module that its first table is as `TableAsSegments` has
it, and that it has none as long as no segment was taken. Only the parser changes tables
(`StepIs` sorts all steps by what they do to a module's lists); a segment pads
the table and replaces and adds entries, one by one in the code, whose sum is
`EntryOf` by induction on the segment (`PaddedIs`, `PlacedIs`, `WithElementsIs`).

`BodiesInv` says that the nth body taken is that of the nth function declared.
What makes it inductive: the parser's search for the next function,
`nextBody`, has passed over all functions with bodies and no other that is declared;
it is at the first function before a binary is loaded; and while the
parser is at work the host adds no function. `Rank` counts what is below an index, and
`RankIs` shows from two of its values that a set has as many members as another. The attempt to prove
`BodiesOfDeclared` in the form it had before failed for a reason: it was stated for modules
whose host functions come last, which a module can be whose binary declares
nothing and that got its host function first. It is now stated for modules whose first
function is not the host's, and the plans have a module of the other kind.

`CallsAreAsNamed` rests on two invariants. `ImportsInv` says of each module
that the nth function that is an import has the nth import record, and this the names
in the nth item taken of an import section; it is kept because the parser adds the
three together and nothing else adds one of them, and by `Rank` again (`RankOne`) the
item that `Meant` chooses is that one. `BindingsInv` says that what is bound was asked for and is
published; it follows from what the Directory does, not from the code again. So a hop from an import leads to one of the
functions that it means (`HopIsMeant`), and n hops to what n rounds of names mean, by induction
(`ResolutionIsMeant`). That a step which adds a call or a host function's frame is
`StepCall` and enters the resolution is shown for each action (`OnlyCallsCall`,
`EntersResolution`).

Recursive functions (`Owned`, `WithElements`, `Resolution`, `MeantInTheEnd`) are reached through
**Recursion**, which proves for sets and functions what the library's induction
theorems have for operators: `Induction` from the well-foundedness of < alone,
and `RecursionExists`, that a function defined by recursion over an interval is
what its definition says.

Assumptions: `OperandsAssumption` (data are naturals, `Unknown` is none),
`ContextAssumption` (images are well-typed modules; a native function has a
signature of its module with at most two parameters and one result; the depth
limit is positive; a constant and a global have the cells of their type),
`InterpreterAssumption` (types of the bounds; the host pushes the cells of the type that it pushes), `MemoryAssumption` (types, and
addresses below the last block), `BlocksFitPages`, `LoadingAssumption` (plans are
well-typed, and a binary is cut off within one section) and `LifecycleAssumption`. TLC evaluates
them in every run. Note that images are *not* assumed to be valid code.

Only model-checked, not proved: `ValidSteps`, `SkipsPlainly` and `PositionInFunction`, which are of
the code more than of the interpreter: that code which passes a validator satisfies them is an
induction over code, and there is no validator in the repository to take the rules from;
`StepsReturn`, `DestroyedAfterUse` and `LoopsEnd`, since
liveness under fairness is beyond the prover, as is ENABLED; and all of Numerics, whose
bitwise operators the provers do not have. The library's induction theorems take an
operator as a parameter, which the provers cannot instantiate; where
induction is needed, `Recursion` takes their place. Modules that are
proved about use recursive functions and no RECURSIVE operator.

## 6. What is not modelled, and the plan

Done: operand stacks, context, calls, interpreter, memory, linking, parser,
lifecycle, and numerics but for floats. What is left, in order of importance:

1. **Structured control**: an abstract machine whose blocks are indexed
   beforehand, which the interpreter implements on code without the constructs of
   section 3, by `SearchesStopAtMatch` and `SkippedCodeInert`.
2. A validator as an operator on code, from which `ValidSteps` and `PositionInFunction` would
   follow; TLC could compare the two on all short programs.
3. `i64` arithmetic with full bytes (`ByteBits` = 8) on chosen operands.

Not modelled, and why: floating-point arithmetic, `wasmu_sqrt`, conversions to and from
floats and `f32.const` (TLC has integers only); the string helpers, which copy and
compare and keep no state; `userData`, which the library does not touch; `wasmu_popPtr`, which the
library does not call; a `wasmu_Function*` that a host keeps while functions are added (it dangles:
`common.h:33` reallocates); groups of LEB128 beyond the width of a number.

Out of reach: floating-point arithmetic (TLC has integers only), the C
compiler's treatment of undefined behaviour, allocation by the platform's
`malloc`, output of the debug log. `dist/wasmu.h` is generated and is not modelled
apart from its sources.
