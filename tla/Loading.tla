------------------------------ MODULE Loading -------------------------------
(***************************************************************************)
(* Setting up a context: creating and naming modules, adding host          *)
(* functions to them, parsing their binaries (src/parser.h) and resolving  *)
(* their imports (src/modules.h).                                          *)
(*                                                                         *)
(* A binary is the sequence of the items in its sections, and its parser   *)
(* takes one in a step; what a section is announced with, its number and   *)
(* size, leads to no state of its own.  Indices start at 1, and 0 stands   *)
(* for the C code's -1.  A function's position is the number of the item   *)
(* that holds its body, or 0 if it never got one.                          *)
(***************************************************************************)
EXTENDS Naturals, Sequences, FiniteSets

CONSTANTS
  Names,         \* the names of modules, imports and exports
  EmptyName,     \* the name of no characters
  NoName,        \* NULL, the name of a module that has none
  MaxTableSize,  \* WASMU_MAX_TABLE_SIZE, config.h
  Plans          \* what a host may set up: the names, binaries and functions

Section ==
  {"custom", "type", "import", "function", "table", "memory", "global",
   "export", "element", "code", "data", "unknown"}

\* An item with what its section needs of the rest: the kind of type, import,
\* export or global that the program can use, or the whole of a body (known);
\* names; a signature, a function or the start of a segment (index); the
\* elements of a segment or the functions that a body calls (list).  An item
\* that is not there lies past the end of a binary that was cut off.
Item ==
  [section : Section, there : BOOLEAN, known : BOOLEAN, module : Names,
   name : Names, index : Nat, list : Seq(Nat)]

\* The first bytes of a binary are the right ones, others, or too few.
Binary == [magic : {"none", "right", "wrong", "short"}, items : Seq(Item)]

NoBinary == [magic |-> "none", items |-> <<>>]

\* Past the end, and after a body that goes beyond it, are only items that the
\* section which began last has announced.
CutWithinSection(items) ==
  \A i \in 2..Len(items) :
    \/ ~items[i - 1].there
    \/ items[i - 1].section = "code" /\ ~items[i - 1].known
    => ~items[i].there /\ items[i].section = items[i - 1].section

\* What becomes of one module: the name, binary and host functions it gets.
Planned == [name : Names, binary : Binary, natives : Seq(Names)]

ASSUME LoadingAssumption ==
  /\ EmptyName \in Names
  /\ NoName \notin Names
  /\ MaxTableSize \in Nat
  /\ Plans \subseteq Seq(Planned)
  /\ \A p \in Plans : \A m \in 1..Len(p) :
       CutWithinSection(p[m].binary.items)

Function ==
  [import : Nat, native : BOOLEAN, signature : Nat, position : Nat]
Import ==
  [module : Names, name : Names, resolvedModule : Nat, index : Nat]
Export == [name : Names, isFunction : BOOLEAN, index : Nat]

\* next is the item that the parser has got to, nextBody is the code's
\* nextFunctionIndexForCode; of what is only counted there is the number.
Module ==
  [name : Names \cup {NoName}, binary : Binary, next : Nat, nextBody : Nat,
   customs : Nat, signatures : Nat, memories : Nat, functions : Seq(Function),
   imports : Seq(Import), exports : Seq(Export), tables : Seq(Seq(Nat))]

\* The library call that is under way, and the import it has got to.
Task == [call : {"none", "parse", "link"}, module : Nat, import : Nat]

\* What the last call gave as an answer, which is TRUE or FALSE; it is of no
\* call while the host waits for that of a function that it has run.
Answer ==
  [call : {"none", "parse", "link", "run", "call", "step"}, module : Nat,
   ok : BOOLEAN]

VARIABLES
  plan,      \* what the host is about to set up: one of the Plans
  modules,   \* the modules of the context
  error,     \* the context's errorState
  task,      \* the parser's or the linker's loop, if one runs
  answer,    \* what the host was told last
  heap,      \* the number of blocks allocated for the context
  lost       \* how many of these nothing refers to any more

loadingVars == <<plan, modules, error, task, answer, heap, lost>>

NoTask == [call |-> "none", module |-> 0, import |-> 0]

NoAnswer == [call |-> "none", module |-> 0, ok |-> TRUE]

Told(call, m, ok) == answer' = [call |-> call, module |-> m, ok |-> ok]

Allocates(n) == heap' = heap + n /\ lost' = lost

Loses(n) == heap' = heap + n /\ lost' = lost + n

\* wasmu_newContext allocates the context, its list of modules and five stacks.
ContextBlocks == 7

LoadingInit ==
  /\ plan \in Plans
  /\ modules = <<>>
  /\ error = "none"
  /\ task = NoTask
  /\ answer = NoAnswer
  /\ heap = ContextBlocks
  /\ lost = 0

-----------------------------------------------------------------------------
(***************************************************************************)
(* What the host does to set up its modules.                               *)
(***************************************************************************)
EmptyModule ==
  [name |-> NoName, binary |-> NoBinary, next |-> 1, nextBody |-> 1,
   customs |-> 0, signatures |-> 0, memories |-> 0, functions |-> <<>>,
   imports |-> <<>>, exports |-> <<>>, tables |-> <<>>]

\* wasmu_newModule allocates the module and its eight lists.
NewModule ==
  /\ task = NoTask
  /\ Len(modules) < Len(plan)
  /\ modules' = Append(modules, EmptyModule)
  /\ Allocates(9)
  /\ UNCHANGED <<plan, error, task, answer>>

\* wasmu_assignModuleName; the host names a module once.
AssignName(m) ==
  /\ task = NoTask
  /\ modules[m].name = NoName
  /\ modules' = [modules EXCEPT ![m].name = plan[m].name]
  /\ Allocates(1)
  /\ UNCHANGED <<plan, error, task, answer>>

NativesOf(module) ==
  {f \in 1..Len(module.functions) : module.functions[f].native}

WithNative(module, name) ==
  [module EXCEPT
     !.functions = Append(@, [import |-> 0, native |-> TRUE, signature |-> 0,
                              position |-> 0]),
     !.exports = Append(@, [name |-> name, isFunction |-> TRUE,
                            index |-> Len(module.functions) + 1])]

\* wasmu_addNativeFunction
AddNativeFunction(m) ==
  LET added == Cardinality(NativesOf(modules[m])) IN
  /\ task = NoTask
  /\ added < Len(plan[m].natives)
  /\ modules' =
       [modules EXCEPT ![m] = WithNative(@, plan[m].natives[added + 1])]
  /\ Allocates(2)
  /\ UNCHANGED <<plan, error, task, answer>>

\* wasmu_load, and wasmu_parseSections up to the first section.  Whatever is
\* wrong with the first bytes, only reading past the end leaves an error.
Load(m) ==
  LET binary == plan[m].binary IN
  /\ task = NoTask
  /\ modules[m].binary = NoBinary
  /\ binary # NoBinary
  /\ modules' = [modules EXCEPT ![m].binary = binary]
  /\ \/ /\ binary.magic = "right"
        /\ task' = [call |-> "parse", module |-> m, import |-> 0]
        /\ UNCHANGED <<error, answer>>
     \/ /\ binary.magic # "right"
        /\ error' = IF binary.magic = "short" THEN "memory_oob" ELSE error
        /\ Told("parse", m, FALSE)
        /\ UNCHANGED task
  /\ UNCHANGED <<plan, heap, lost>>

-----------------------------------------------------------------------------
(***************************************************************************)
(* The parser.                                                             *)
(***************************************************************************)
Current == modules[task.module]

AtItem == task.call = "parse" /\ Current.next <= Len(Current.binary.items)

\* What reading zeros makes of an item: a function type or a kind of global is
\* not zero, an imported or exported function is.
Zeros(section) ==
  [section |-> section, there |-> FALSE,
   known |-> section \notin {"type", "global"},
   module |-> EmptyName, name |-> EmptyName,
   index |-> IF section = "element" THEN 0 ELSE 1, list |-> <<>>]

ItemAt(module, i) ==
  LET item == module.binary.items[i] IN
  IF item.there THEN item ELSE Zeros(item.section)

Read == ItemAt(Current, Current.next)

ReadError == IF Read.there THEN error ELSE "memory_oob"

Parsing(section) == AtItem /\ Read.section = section

Parsed(module, e, blocks) ==
  /\ modules' = [modules EXCEPT ![task.module] =
                   [module EXCEPT !.next = Current.next + 1]]
  /\ error' = e
  /\ Allocates(blocks)
  /\ UNCHANGED <<plan, task, answer>>

\* The section's handler returns WASMU_FALSE, and so does wasmu_parseSections.
\* blocks were allocated for the item, and nothing refers to them any more.
Refused(module, e, blocks) ==
  /\ modules' = [modules EXCEPT ![task.module] = module]
  /\ error' = e
  /\ Told("parse", task.module, FALSE)
  /\ task' = NoTask
  /\ Loses(blocks)
  /\ UNCHANGED plan

\* The number of data segments, in a section of its own, is of no effect.
ParseCustom ==
  /\ Parsing("custom")
  /\ Parsed([Current EXCEPT !.customs = @ + 1], ReadError, 1)

ParseType ==
  /\ Parsing("type")
  /\ \/ /\ Read.known
        /\ Parsed([Current EXCEPT !.signatures = @ + 1], ReadError, 2)
     \/ /\ ~Read.known
        /\ Refused(Current, "not_implemented", 0)

\* The function that stands for an import in the module's index space
WithImport(module, item) ==
  [module EXCEPT
     !.functions = Append(@, [import |-> Len(module.imports) + 1,
                              native |-> FALSE, signature |-> item.index,
                              position |-> 0]),
     !.imports = Append(@, [module |-> item.module, name |-> item.name,
                            resolvedModule |-> 0, index |-> 0])]

\* The two names of an import that is refused are lost.
ParseImport ==
  /\ Parsing("import")
  /\ \/ /\ Read.known
        /\ Parsed(WithImport(Current, Read), ReadError, 3)
     \/ /\ ~Read.known
        /\ Refused(Current, "not_implemented", 2)

ParseFunction ==
  /\ Parsing("function")
  /\ Parsed([Current EXCEPT !.functions =
               Append(@, [import |-> 0, native |-> FALSE,
                          signature |-> Read.index, position |-> 0])],
            ReadError, 1)

ParseTable ==
  /\ Parsing("table")
  /\ Parsed([Current EXCEPT !.tables = Append(@, <<>>)], ReadError, 1)

ParseMemory ==
  /\ Parsing("memory")
  /\ Parsed([Current EXCEPT !.memories = @ + 1], ReadError, 1)

\* Nothing depends on the globals that a module has: they are not kept.
ParseGlobal ==
  /\ Parsing("global")
  /\ \/ /\ Read.known
        /\ Parsed(Current, ReadError, 0)
     \/ /\ ~Read.known
        /\ Refused(Current, "not_implemented", 0)

ParseExport ==
  /\ Parsing("export")
  /\ Parsed([Current EXCEPT !.exports =
               Append(@, [name |-> Read.name, isFunction |-> Read.known,
                          index |-> Read.index])],
            ReadError, 1)

-----------------------------------------------------------------------------
(***************************************************************************)
(* Element segments, which fill the first table.  The elements of a        *)
(* segment go to start + 1, start + 2, ...                                 *)
(***************************************************************************)
Padded(table, start) ==
  table \o [i \in 1..(IF start > Len(table) THEN start - Len(table) ELSE 0)
              |-> 0]

\* Mutant of Placed: an element never replaces one that is there.
PlacedAppending(table, at, element) == Append(table, element)

\* An element is added to the end of the table, or replaces one.
Placed(table, at, element) ==
  IF Len(table) < at THEN Append(table, element)
  ELSE [table EXCEPT ![at] = element]

WithElements(table, start, elements) ==
  LET filled[i \in 0..Len(elements)] ==
        IF i = 0 THEN Padded(table, start)
        ELSE Placed(filled[i - 1], start + i, elements[i])
  IN filled[Len(elements)]

\* Mutant of LimitMet: the limit is looked for before the first element only.
LimitMetAtStart(table, start, elements) ==
  Len(Padded(table, start)) = MaxTableSize /\ elements # <<>>

\* The table was as large as it may be when an entry was added, in the padding
\* or after it, or replaced; the entry is added all the same.
LimitMet(table, start, elements) ==
  LET padded == Len(Padded(table, start)) IN
  \/ Len(table) <= MaxTableSize /\ MaxTableSize < padded
  \/ \E i \in 1..Len(elements) :
       MaxTableSize = IF start + i - 1 > padded THEN start + i - 1 ELSE padded

ParseElement ==
  /\ Parsing("element")
  /\ \/ /\ Current.tables = <<>>
        /\ Refused(Current, "invalid_index", 0)
     \/ /\ Current.tables # <<>>
        /\ Parsed([Current EXCEPT !.tables[1] =
                     WithElements(@, Read.index, Read.list)],
                  IF LimitMet(Current.tables[1], Read.index, Read.list)
                    THEN "limit_exceeded" ELSE ReadError,
                  0)

-----------------------------------------------------------------------------
(***************************************************************************)
(* Bodies of code and data.                                                *)
(***************************************************************************)

\* Mutant of Bodiless: imports are not passed over.
BodilessImports(module) == module.nextBody..Len(module.functions)

\* The functions that the next body may belong to
Bodiless(module) ==
  {f \in module.nextBody..Len(module.functions) :
     module.functions[f].import = 0}

First(indices) == CHOOSE i \in indices : \A j \in indices : i <= j

\* Host functions added before the module is parsed are given bodies too.
\* A body that is refused has used up the indices it went through.
ParseCode ==
  /\ Parsing("code")
  /\ \/ /\ Bodiless(Current) = {}
        /\ LET n == Len(Current.functions) IN
           Refused([Current EXCEPT
                      !.nextBody = IF @ > n THEN @ + 1 ELSE n + 2],
                   "code_body_mismatch", 0)
     \/ /\ Bodiless(Current) # {}
        /\ LET f == First(Bodiless(Current)) IN
           Parsed([Current EXCEPT !.nextBody = f + 1,
                                  !.functions[f].position = Current.next],
                  ReadError, 0)

\* What the data does to the memory is the subject of Memory.
ParseData ==
  /\ Parsing("data")
  /\ \/ /\ Current.memories = 0
        /\ Refused(Current, "invalid_index", 0)
     \/ /\ Current.memories > 0
        /\ Parsed(Current, ReadError, 0)

ParseUnknown ==
  /\ Parsing("unknown")
  /\ Refused(Current, "not_implemented", 0)

ParseEnd ==
  /\ task.call = "parse"
  /\ ~AtItem
  /\ Told("parse", task.module, TRUE)
  /\ task' = NoTask
  /\ UNCHANGED <<plan, modules, error, heap, lost>>

-----------------------------------------------------------------------------
(***************************************************************************)
(* Resolving the imports of a module, one after the other.                 *)
(***************************************************************************)

\* wasmu_resolveModuleImports is called.
Link(m) ==
  /\ task = NoTask
  /\ task' = [call |-> "link", module |-> m, import |-> 1]
  /\ UNCHANGED <<plan, modules, error, answer, heap, lost>>

\* The functions that a module exports under a name; the first one counts.
ExportsNamed(m, name) ==
  {e \in 1..Len(modules[m].exports) :
     modules[m].exports[e].isFunction /\ modules[m].exports[e].name = name}

\* Mutant of ExportIndex: the number of the export is taken for its function.
ExportPosition(m, name) == First(ExportsNamed(m, name))

\* wasmu_getExportIndex
ExportIndex(m, name) == modules[m].exports[First(ExportsNamed(m, name))].index

ModulesNamed(name) == {m \in 1..Len(modules) : modules[m].name = name}

AtImport == task.call = "link" /\ task.import <= Len(Current.imports)

ImportRead == Current.imports[task.import]

\* The first module of the name decides, even if another one has the export.
Available(import) ==
  /\ ModulesNamed(import.module) # {}
  /\ ExportsNamed(First(ModulesNamed(import.module)), import.name) # {}

\* Mutant of IsResolved: every call resolves every import anew.
IsResolvedNever(import) == FALSE

IsResolved(import) == import.resolvedModule # 0

\* An import that was resolved by an earlier call is passed over.
PassImport ==
  /\ AtImport
  /\ IsResolved(ImportRead)
  /\ task' = [task EXCEPT !.import = @ + 1]
  /\ UNCHANGED <<plan, modules, error, answer, heap, lost>>

ResolveImport ==
  LET target == First(ModulesNamed(ImportRead.module)) IN
  /\ AtImport
  /\ ~IsResolved(ImportRead)
  /\ Available(ImportRead)
  /\ modules' = [modules EXCEPT ![task.module].imports[task.import] =
                   [@ EXCEPT !.resolvedModule = target,
                             !.index = ExportIndex(target, ImportRead.name)]]
  /\ task' = [task EXCEPT !.import = @ + 1]
  /\ UNCHANGED <<plan, error, answer, heap, lost>>

\* Those resolved so far stay resolved; the copy of the module's name is lost.
RefuseImport ==
  /\ AtImport
  /\ ~IsResolved(ImportRead)
  /\ ~Available(ImportRead)
  /\ error' = "import_not_found"
  /\ Told("link", task.module, FALSE)
  /\ task' = NoTask
  /\ Loses(1)
  /\ UNCHANGED <<plan, modules>>

LinkEnd ==
  /\ task.call = "link"
  /\ ~AtImport
  /\ Told("link", task.module, TRUE)
  /\ task' = NoTask
  /\ UNCHANGED <<plan, modules, error, heap, lost>>

-----------------------------------------------------------------------------
\* Mutant of OwnedBy: one of the two names of an import is forgotten.
OwnedByButNames(module) ==
  (IF module.name = NoName THEN 9 ELSE 10)
    + module.customs + 2 * module.signatures + Len(module.imports)
    + Len(module.functions) + Len(module.tables) + module.memories
    + Len(module.exports)

\* Mutant of OwnedBy: a name is freed whether there is one or not.
OwnedByNamed(module) ==
  10 + module.customs + 2 * module.signatures + 2 * Len(module.imports)
    + Len(module.functions) + Len(module.tables) + module.memories
    + Len(module.exports)

\* wasmu_destroyModule: its name, what its lists refer to, the lists, itself.
OwnedBy(module) ==
  (IF module.name = NoName THEN 9 ELSE 10)
    + module.customs + 2 * module.signatures + 2 * Len(module.imports)
    + Len(module.functions) + Len(module.tables) + module.memories
    + Len(module.exports)

\* What wasmu_destroyContext frees
Owned ==
  LET upTo[m \in 0..Len(modules)] ==
        IF m = 0 THEN ContextBlocks ELSE upTo[m - 1] + OwnedBy(modules[m])
  IN upTo[Len(modules)]

SetUp ==
  \/ NewModule
  \/ \E m \in 1..Len(modules) :
       AssignName(m) \/ AddNativeFunction(m) \/ Load(m)

LoadingStep ==
  \/ ParseCustom \/ ParseType \/ ParseImport \/ ParseFunction \/ ParseTable
  \/ ParseMemory \/ ParseGlobal \/ ParseExport \/ ParseElement \/ ParseCode
  \/ ParseData \/ ParseUnknown \/ ParseEnd
  \/ PassImport \/ ResolveImport \/ RefuseImport \/ LinkEnd
=============================================================================
