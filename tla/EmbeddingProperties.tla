------------------------ MODULE EmbeddingProperties -------------------------
(***************************************************************************)
(* What the set-up of a context and its life are checked for.              *)
(***************************************************************************)
EXTENDS Lifecycle

Errors ==
  {"none", "memory_oob", "not_implemented", "limit_exceeded", "invalid_index",
   "code_body_mismatch", "import_not_found", "precondition_failed",
   "depth_exceeded", "reached_unreachable"}

LoadingTypeOK ==
  /\ plan \in Plans
  /\ modules \in Seq(Module)
  /\ Len(modules) <= Len(plan)
  /\ error \in Errors
  /\ task \in Task
  /\ task.call # "none" => task.module \in 1..Len(modules)
  /\ answer \in Answer
  /\ heap \in Nat
  /\ lost \in Nat

RunTypeOK ==
  /\ callStack \in Seq(Call)
  /\ places \in [1..Len(plan) -> Place]
  /\ cStack \in Seq(Frame)
  /\ isInRunLoop \in BOOLEAN
  /\ destroyAfterUse \in BOOLEAN
  /\ freed \in BOOLEAN
  /\ hostCalls \in 0..MaxHostCalls

\* The types of all variables of parser.h, modules.h and contexts.h.
TypeOK == LoadingTypeOK /\ RunTypeOK

-----------------------------------------------------------------------------
(***************************************************************************)
(* The parser.                                                             *)
(***************************************************************************)

\* The items of a section that the parser has taken from a module's binary
Taken(m, section) ==
  {i \in 1..(modules[m].next - 1) :
     modules[m].binary.items[i].section = section}

Rank(i, indices) == Cardinality({j \in indices : j < i})

Declared(m) ==
  {f \in 1..Len(modules[m].functions) :
     modules[m].functions[f].import = 0 /\ ~modules[m].functions[f].native}

\* The bodies of a module go to the functions it declares, in their order, and
\* to no import, however sections follow each other, if the host adds its
\* functions after the parser is done: none of them is the first (parser.h:336-354:
\* the search for the next function goes on where it stopped).
BodiesOfDeclared ==
  \A m \in 1..Len(modules) :
    1 \notin NativesOf(modules[m]) =>
      \A f \in 1..Len(modules[m].functions) :
        LET own == {i \in Taken(m, "code") :
                      /\ f \in Declared(m)
                      /\ Rank(i, Taken(m, "code")) = Rank(f, Declared(m))}
        IN IF own = {} THEN modules[m].functions[f].position = 0
           ELSE modules[m].functions[f].position \in own

\* The segments that say what entry k of a module's first table is
Covering(m, k) ==
  {i \in Taken(m, "element") :
     LET segment == ItemAt(modules[m], i) IN
     k \in (segment.index + 1)..(segment.index + Len(segment.list))}

\* A table is as long as its segments reach, each entry is what the last
\* segment over it says, and the gaps between them refer to no function
\* (parser.h:280-327: padding, appending and replacing are three branches).
TableAsSegments ==
  \A m \in 1..Len(modules) : modules[m].tables # <<>> =>
    LET table == modules[m].tables[1]
        ends  == {0} \cup {ItemAt(modules[m], i).index
                             + Len(ItemAt(modules[m], i).list) :
                           i \in Taken(m, "element")}
    IN /\ Len(table) \in ends
       /\ \A n \in ends : n <= Len(table)
       /\ \A k \in 1..Len(table) :
            IF Covering(m, k) = {} THEN table[k] = 0
            ELSE \E i \in Covering(m, k) :
                   LET segment == ItemAt(modules[m], i) IN
                   /\ \A j \in Covering(m, k) : j <= i
                   /\ table[k] = segment.list[k - segment.index]

\* A table that has outgrown its limit, and a binary that was read past its
\* end, leave an error, though wasmu_parseSections returns WASMU_TRUE
\* (parser.h:299, parser.h:316, modules.h:100).
DamageReported ==
  \A m \in 1..Len(modules) :
    \/ modules[m].tables # <<>> /\ Len(modules[m].tables[1]) > MaxTableSize
    \/ \E i \in 1..(modules[m].next - 1) : ~modules[m].binary.items[i].there
    => error # "none"

-----------------------------------------------------------------------------
(***************************************************************************)
(* Linking.                                                                *)
(***************************************************************************)
Links == {l \in (1..Len(modules)) \X UNION {1..Len(modules[m].imports) :
                                             m \in 1..Len(modules)} :
            l[2] <= Len(modules[l[1]].imports)}

LinkAt(l) == modules[l[1]].imports[l[2]]

Publications ==
  UNION {{<<modules[m].name, modules[m].exports[e].name,
            <<m, modules[m].exports[e].index>>>> :
            e \in {x \in 1..Len(modules[m].exports) :
                     modules[m].exports[x].isFunction}} :
         m \in {k \in 1..Len(modules) : modules[k].name # NoName}}

Requests == {<<l, LinkAt(l).module, LinkAt(l).name>> : l \in Links}

Bindings ==
  {<<l, <<LinkAt(l).resolvedModule, LinkAt(l).index>>>> :
     l \in {k \in Links : LinkAt(k).resolvedModule # 0}}

D == INSTANCE Directory WITH
  published <- Publications, wanted <- Requests, bound <- Bindings

\* Imports are bound one by one, each for good and to a function that the module
\* it names exports under its name, in whatever order modules are created,
\* named, parsed, given host functions and resolved, and whatever fails
\* (modules.h:266-357).
LinkingIsDirectory == D!DirectorySpec

Unresolved(m) ==
  {i \in 1..Len(modules[m].imports) : modules[m].imports[i].resolvedModule = 0}

\* wasmu_resolveModuleImports returns TRUE only when every import is resolved,
\* and FALSE only because the first of those that are not has nothing to be
\* resolved to: what is before it is kept for the next attempt (modules.h:303).
LinkAnswers ==
  [][task.call = "link" /\ task' = NoTask =>
       LET missing == Unresolved(task.module) IN
       IF answer'.ok THEN missing = {}
       ELSE missing # {} /\ ~Available(Current.imports[First(missing)])]_vars

-----------------------------------------------------------------------------
(***************************************************************************)
(* Running.                                                                *)
(***************************************************************************)
ImportsOf(m) ==
  {f \in 1..Len(modules[m].functions) : modules[m].functions[f].import # 0}

\* What a function of a module means, by the names in the binary: itself, or if
\* it is the nth import what modules of the name export under the other name.
Meant(m, f) ==
  IF f \notin ImportsOf(m) THEN {<<m, f>>}
  ELSE LET i == CHOOSE j \in Taken(m, "import") :
                  Rank(j, Taken(m, "import")) = Rank(f, ImportsOf(m))
           import == ItemAt(modules[m], i)
       IN {p[3] : p \in {q \in Publications :
                           q[1] = import.module /\ q[2] = import.name}}

MeantInTheEnd(m, f) ==
  LET meant[n \in 0..ImportResolutionDepth] ==
        IF n = 0 THEN {<<m, f>>}
        ELSE UNION {Meant(t[1], t[2]) : t \in meant[n - 1]}
  IN meant[ImportResolutionDepth]

Entered(calls, frames) ==
  IF Len(frames) > Len(cStack) THEN Last(frames) ELSE Last(calls)

\* A call instruction enters the function that its index means by the names in
\* the binaries, through any chain of imports, a host function or not: parser,
\* linker and caller number the functions alike (functions.h:20-72).
CallsAsNamed ==
  [][AtInstruction /\ Here.done < Len(Body.list)
       /\ (Len(callStack') > Len(callStack) \/ Len(cStack') > Len(cStack)) =>
     LET callee == Entered(callStack', cStack') IN
     <<callee.module, callee.function>> \in
       MeantInTheEnd(Running, Body.list[Here.done + 1])]_vars

\* Every call under way waits, or runs, in its function's own body, though its
\* module's position is shared by all calls in the module and host functions
\* call back (functions.h:78, functions.h:208).
PlacesInBodies ==
  (~freed /\ callStack # <<>> /\ ~Abandoned) =>
    \A i \in 1..Len(callStack) :
      LET call  == callStack[i]
          place == IF i = Len(callStack) THEN places[call.module]
                   ELSE call.place
      IN place.item = modules[call.module].functions[call.function].position

-----------------------------------------------------------------------------
(***************************************************************************)
(* Destruction.                                                            *)
(***************************************************************************)

\* No C function that is still to use the context is under way when it is freed
\* (contexts.h:40, interpreter.h:1255).
NoUseAfterFree ==
  freed => Frames("start") = {} /\ Frames("loop") = {} /\ task = NoTask

\* While the flag is up, which defers destruction, there is a loop to carry it
\* out, however loops nest and whichever way they end (interpreter.h:1239-1251).
FlagHasLoop == isInRunLoop => Frames("loop") # {}

\* Whatever was allocated is freed with the context, but for what was lost when
\* an import could not be parsed or resolved (contexts.h:48, modules.h:25).
HeapAccountedFor == heap = lost + (IF freed THEN 0 ELSE Owned)

\* A destruction that was put off is carried out, unless the run ends in an
\* error, when it is forgotten (interpreter.h:1244-1258).
DestroyedAfterUse ==
  (destroyAfterUse /\ Frames("loop") # {})
    ~> (freed \/ (Frames("loop") = {} /\ ~answer.ok))
=============================================================================
