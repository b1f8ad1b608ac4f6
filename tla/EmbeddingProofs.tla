--------------------------- MODULE EmbeddingProofs ----------------------------
(***************************************************************************)
(* Proofs about the life of a context, for every plan of the host, every   *)
(* depth of the call stack and of imports, and every limit of a table:     *)
(* types, the frames of the C stack and the destruction of the context,    *)
(* the blocks it owns, the places that calls are at, and damage that is    *)
(* reported.                                                               *)
(***************************************************************************)
EXTENDS LoadingProofs

-----------------------------------------------------------------------------
(***************************************************************************)
(* The C stack.                                                            *)
(***************************************************************************)

\* Whatever frame is no host function's lies on one, or at the bottom; a loop
\* is there while the flag says so; and what is to be destroyed, or has been, is
\* used by no more than one loop, or by none.
FramesOK(s, looping, destroying, gone) ==
  /\ s \in Seq(Frame)
  /\ \A i \in 2..Len(s) : s[i].kind # "native" => s[i - 1].kind = "native"
  /\ looping => \E i \in 1..Len(s) : s[i].kind = "loop"
  /\ gone => \A i \in 1..Len(s) : s[i].kind # "start" /\ s[i].kind # "loop"
  /\ destroying =>
       /\ \A i \in 1..Len(s) : s[i].kind # "start"
       /\ \A i, j \in 1..Len(s) :
            s[i].kind = "loop" /\ s[j].kind = "loop" => i = j

\* A sequence without its last element
LEMMA FrontIs ==
  ASSUME NEW S, NEW s \in Seq(S), s # <<>>
  PROVE  /\ Front(s) \in Seq(S)
         /\ Len(s) \in Nat \ {0}
         /\ Len(Front(s)) = Len(s) - 1
         /\ \A i \in 1..(Len(s) - 1) : Front(s)[i] = s[i]
         /\ Last(s) = s[Len(s)] /\ Last(s) \in S
<1>1. Len(s) \in Nat \ {0}
  BY EmptySeq
<1>2. Last(s) = s[Len(s)] /\ Last(s) \in S
  BY <1>1, ElementOfSeq DEF Last
<1> DEFINE k == Len(s) - 1
<1>3. k \in Nat /\ k <= Len(s) /\ Front(s) = SubSeq(s, 1, k)
  BY <1>1 DEF Front
<1> HIDE DEF k
<1>4. /\ SubSeq(s, 1, k) \in Seq(S)
      /\ Len(SubSeq(s, 1, k)) = k
      /\ \A i \in 1..k : SubSeq(s, 1, k)[i] = s[i]
  BY <1>1, <1>3
<1> QED
  BY <1>1, <1>2, <1>3, <1>4 DEF k

\* A frame is left.
LEMMA FramePopped ==
  ASSUME NEW s, NEW l \in BOOLEAN, NEW d \in BOOLEAN, NEW g \in BOOLEAN,
         FramesOK(s, l, d, g), s # <<>>,
         NEW k \in BOOLEAN, k => l /\ Last(s).kind # "loop"
  PROVE  FramesOK(Front(s), k, d, g)
<1>1. /\ Front(s) \in Seq(Frame) /\ Len(s) \in Nat \ {0}
      /\ Len(Front(s)) = Len(s) - 1
      /\ \A i \in 1..(Len(s) - 1) : Front(s)[i] = s[i]
      /\ Last(s) = s[Len(s)]
  BY FrontIs DEF FramesOK
<1>2. k => \E i \in 1..Len(Front(s)) : Front(s)[i].kind = "loop"
  <2>1. SUFFICES ASSUME k PROVE \E i \in 1..Len(Front(s)) :
                                  Front(s)[i].kind = "loop"
    OBVIOUS
  <2>2. PICK i \in 1..Len(s) : s[i].kind = "loop"
    BY <2>1 DEF FramesOK
  <2>3. i # Len(s)
    BY <1>1, <2>1, <2>2
  <2>4. i \in 1..(Len(s) - 1)
    BY <1>1, <2>3
  <2> QED
    BY <1>1, <2>2, <2>4
<1>3. \A i \in 2..Len(Front(s)) :
        Front(s)[i].kind # "native" => Front(s)[i - 1].kind = "native"
  BY <1>1 DEF FramesOK
<1>4. g => \A i \in 1..Len(Front(s)) :
             Front(s)[i].kind # "start" /\ Front(s)[i].kind # "loop"
  BY <1>1 DEF FramesOK
<1>5. d => /\ \A i \in 1..Len(Front(s)) : Front(s)[i].kind # "start"
           /\ \A i, j \in 1..Len(Front(s)) :
                Front(s)[i].kind = "loop" /\ Front(s)[j].kind = "loop" => i = j
  BY <1>1 DEF FramesOK
<1> QED
  BY <1>1, <1>2, <1>3, <1>4, <1>5 DEF FramesOK

\* A frame is entered: of a host function, or on one or at the bottom.
LEMMA FramePushed ==
  ASSUME NEW s, NEW l \in BOOLEAN, NEW d \in BOOLEAN, NEW g \in BOOLEAN,
         FramesOK(s, l, d, g), NEW f \in Frame,
         f.kind = "native" \/ s = <<>> \/ Last(s).kind = "native",
         f.kind \in {"start", "loop"} => ~d /\ ~g,
         NEW k \in BOOLEAN, k => l \/ f.kind = "loop"
  PROVE  FramesOK(Append(s, f), k, d, g)
<1> DEFINE t == Append(s, f)
           n == Len(s)
<1>1. s \in Seq(Frame) /\ n \in Nat
  BY DEF FramesOK
<1>2. /\ t \in Seq(Frame) /\ Len(t) = n + 1
      /\ \A i \in 1..n : t[i] = s[i]
      /\ t[n + 1] = f
  BY <1>1
<1>3. n # 0 => Last(s) = s[n] /\ s # <<>>
  BY <1>1, EmptySeq DEF Last
<1> HIDE DEF t, n
<1>4. k => \E i \in 1..Len(t) : t[i].kind = "loop"
  <2>1. CASE f.kind = "loop"
    <3>1. n + 1 \in 1..Len(t)
      BY <1>1, <1>2
    <3> QED
      BY <1>2, <2>1, <3>1
  <2>2. CASE l
    <3>1. PICK i \in 1..n : s[i].kind = "loop"
      BY <2>2 DEF FramesOK, n
    <3>2. i \in 1..Len(t) /\ t[i] = s[i]
      BY <1>1, <1>2
    <3> QED
      BY <3>1, <3>2
  <2> QED
    BY <2>1, <2>2
<1>5. ASSUME NEW i \in 2..Len(t), t[i].kind # "native"
      PROVE  t[i - 1].kind = "native"
  <2>1. CASE i = n + 1
    <3>1. n # 0 /\ n \in 1..n /\ i - 1 = n
      BY <1>1, <1>2, <2>1
    <3>2. Last(s).kind = "native"
      BY <1>2, <1>3, <1>5, <2>1, <3>1
    <3>3. t[n] = s[n]
      BY <1>2, <3>1
    <3> QED
      BY <1>3, <3>1, <3>2, <3>3
  <2>2. CASE i # n + 1
    <3>1. i \in 2..n /\ i \in 1..n /\ i - 1 \in 1..n
      BY <1>1, <1>2, <2>2
    <3>2. s[i].kind # "native"
      BY <1>2, <1>5, <3>1
    <3>3. s[i - 1].kind = "native"
      BY <3>1, <3>2 DEF FramesOK, n
    <3> QED
      BY <1>2, <3>1, <3>3
  <2> QED
    BY <2>1, <2>2
<1>6. ASSUME NEW i \in 1..Len(t)
      PROVE  (i = n + 1 /\ t[i] = f) \/ (i \in 1..n /\ t[i] = s[i])
  BY <1>1, <1>2
<1>7. g => \A i \in 1..Len(t) : t[i].kind # "start" /\ t[i].kind # "loop"
  BY <1>6 DEF FramesOK, n
<1>8. d => /\ \A i \in 1..Len(t) : t[i].kind # "start"
           /\ \A i, j \in 1..Len(t) :
                t[i].kind = "loop" /\ t[j].kind = "loop" => i = j
  BY <1>6 DEF FramesOK, n
<1>9. FramesOK(t, k, d, g)
  BY <1>2, <1>4, <1>5, <1>7, <1>8 DEF FramesOK
<1> QED
  BY <1>9 DEF t

-----------------------------------------------------------------------------
(***************************************************************************)
(* Targets of calls.                                                       *)
(***************************************************************************)
Target == [module : Nat, function : Nat]

\* A function that is there, and its body or the import it stands for
LEMMA FunctionIs ==
  ASSUME LoadInv, NEW t \in Target, Exists(t)
  PROVE  /\ t.module \in 1..Len(modules)
         /\ modules[t.module] \in Module
         /\ FunctionAt(t) = modules[t.module].functions[t.function]
         /\ FunctionAt(t) \in Function
         /\ FunctionAt(t).import \in Nat
         /\ FunctionAt(t).import <= Len(modules[t.module].imports)
         /\ FunctionAt(t).position \in Nat
         /\ FunctionAt(t).position <= Len(modules[t.module].binary.items)
<1>1. /\ t.module \in 1..Len(modules)
      /\ t.function \in 1..Len(modules[t.module].functions)
  BY DEF Exists
<1>2. modules[t.module] \in Module /\ ModuleOK(modules[t.module])
  BY <1>1, ElementOfSeq DEF LoadInv
<1>3. modules[t.module].functions \in Seq(Function)
  BY <1>2 DEF Module
<1>4. FunctionAt(t) = modules[t.module].functions[t.function]
  BY DEF FunctionAt
<1>5. FunctionAt(t) \in Function
  BY <1>1, <1>3, <1>4, ElementOfSeq
<1>6. FunctionAt(t).import \in Nat /\ FunctionAt(t).position \in Nat
  BY <1>5 DEF Function
<1>7. /\ FunctionAt(t).import <= Len(modules[t.module].imports)
      /\ FunctionAt(t).position <= Len(modules[t.module].binary.items)
  BY <1>1, <1>2, <1>4 DEF ModuleOK
<1> QED
  BY <1>1, <1>2, <1>4, <1>5, <1>6, <1>7

\* An import leads to a target.
LEMMA HopType ==
  ASSUME LoadInv, NEW t \in Target
  PROVE  Hop(t) \in Target
<1>1. CASE ~Exists(t) \/ FunctionAt(t).import = 0
  BY <1>1 DEF Hop
<1>2. CASE Exists(t) /\ FunctionAt(t).import # 0
  <2> DEFINE i == FunctionAt(t).import
             is == modules[t.module].imports
  <2>1. /\ i \in Nat /\ i # 0 /\ i <= Len(is)
        /\ modules[t.module] \in Module
    BY <1>2, FunctionIs
  <2>2. is \in Seq(Import)
    BY <2>1 DEF Module
  <2>3. Hop(t) = [module |-> is[i].resolvedModule, function |-> is[i].index]
    BY <1>2 DEF Hop
  <2> HIDE DEF i, is
  <2>4. i \in 1..Len(is)
    <3>1. Len(is) \in Nat
      BY <2>2
    <3> QED
      BY <2>1, <3>1
  <2>5. is[i] \in Import
    BY <2>2, <2>4, ElementOfSeq
  <2> QED
    BY <2>3, <2>5 DEF Import, Target
<1> QED
  BY <1>1, <1>2

Hops(m, f) ==
  LET hops[n \in 0..ImportResolutionDepth] ==
        IF n = 0 THEN [module |-> m, function |-> f] ELSE Hop(hops[n - 1])
  IN hops

\* The targets that imports lead to, one after the other
LEMMA HopsAre ==
  ASSUME LoadInv, NEW m \in Nat, NEW f \in Nat
  PROVE  /\ ImportResolutionDepth \in Nat
         /\ Resolution(m, f) = Hops(m, f)[ImportResolutionDepth]
         /\ Hops(m, f)[0] = [module |-> m, function |-> f]
         /\ \A n \in 1..ImportResolutionDepth :
              Hops(m, f)[n] = Hop(Hops(m, f)[n - 1])
<1> DEFINE d     == ImportResolutionDepth
           b     == [module |-> m, function |-> f]
           H     == Hops(m, f)
           Eq(h) == h = [n \in 0..d |-> IF n = 0 THEN b ELSE Hop(h[n - 1])]
           step  == [n \in 1..d |-> [t \in Target |-> Hop(t)]]
<1>1. d \in Nat /\ b \in Target
  BY LifecycleAssumption DEF Target
<1>2. H = CHOOSE h : Eq(h)
  BY DEF Hops
<1>3. Resolution(m, f) = H[d]
  BY DEF Resolution, Hops
<1> HIDE DEF d, b, H
<1>4. \A t \in Target : Hop(t) \in Target
  BY HopType
<1>5. \E h : Eq(h)
  <2>1. step \in [1..d -> [Target -> Target]]
    BY <1>4
  <2>2. IsRecursion(Target, b, d, step)
    BY <1>1, <2>1 DEF IsRecursion
  <2>3. PICK h \in [0..d -> Target] :
          h[0] = b /\ \A n \in 1..d : h[n] = step[n][h[n - 1]]
    <3> HIDE DEF step
    <3> QED
      BY <2>2, RecursionExists
  <2>4. ASSUME NEW n \in 1..d
        PROVE  step[n][h[n - 1]] = Hop(h[n - 1])
    <3>1. h[n - 1] \in Target
      BY <1>1
    <3> QED
      BY <3>1
  <2> HIDE DEF step
  <2>5. ASSUME NEW n \in 0..d
        PROVE  h[n] = IF n = 0 THEN b ELSE Hop(h[n - 1])
    BY <1>1, <2>3, <2>4
  <2>6. Eq(h)
    BY <2>3, <2>5
  <2> QED
    BY <2>6
<1>6. Eq(H)
  BY <1>2, <1>5
<1>7. H[0] = b /\ \A n \in 1..d : H[n] = Hop(H[n - 1])
  BY <1>1, <1>6
<1> QED
  BY <1>1, <1>3, <1>7 DEF d, b, H

\* So does any number of imports.
LEMMA ResolutionType ==
  ASSUME LoadInv, NEW m \in Nat, NEW f \in Nat
  PROVE  Resolution(m, f) \in Target
<1> DEFINE d == ImportResolutionDepth
           H == Hops(m, f)
<1>1. d \in Nat /\ [module |-> m, function |-> f] \in Target
  BY LifecycleAssumption DEF Target
<1>3. Resolution(m, f) = H[d]
  BY HopsAre
<1>4. \A t \in Target : Hop(t) \in Target
  BY HopType
<1>7. /\ H[0] = [module |-> m, function |-> f]
      /\ \A n \in 1..d : H[n] = Hop(H[n - 1])
  BY HopsAre
<1> HIDE DEF d, H
<1> DEFINE T == {n \in Nat : n <= d => H[n] \in Target}
<1>8. 0 \in T
  BY <1>1, <1>7
<1>9. ASSUME NEW n \in Nat, n \in T
      PROVE  n + 1 \in T
  <2>1. SUFFICES ASSUME n + 1 <= d PROVE H[n + 1] \in Target
    OBVIOUS
  <2>2. n + 1 \in 1..d /\ (n + 1) - 1 = n /\ H[n] \in Target
    BY <1>1, <1>9, <2>1
  <2>3. H[n + 1] = Hop(H[n])
    BY <1>7, <2>2
  <2> QED
    BY <1>4, <2>2, <2>3
<1>10. d \in T
  <2> HIDE DEF T
  <2> QED
    BY <1>1, <1>8, <1>9, Induction
<1> QED
  BY <1>1, <1>3, <1>10

\* Why a call is refused is an error; if it is not, there is a function that is
\* no import.
LEMMA RefusalIs ==
  ASSUME NEW t
  PROVE  /\ Refusal(t) \in Errors
         /\ TargetError(t) = "none" =>
              Exists(t) /\ FunctionAt(t).import = 0
         /\ Refusal(t) = "none" => TargetError(t) = "none"
<1>1. /\ TargetError(t) \in Errors
      /\ TargetError(t) = "none" => Exists(t) /\ FunctionAt(t).import = 0
  <2>1. CASE t.module = 0
    BY <2>1 DEF TargetError, Errors
  <2>2. CASE t.module # 0 /\ ~Exists(t)
    BY <2>2 DEF TargetError, Errors
  <2>3. CASE t.module # 0 /\ Exists(t)
    BY <2>3 DEF TargetError, Errors
  <2> QED
    BY <2>1, <2>2, <2>3
<1>2. EntryError(t) \in Errors
  BY DEF EntryError, Errors
<1>3. "none" \in Errors
  BY DEF Errors
<1> QED
  BY <1>1, <1>2, <1>3 DEF Refusal

-----------------------------------------------------------------------------
(***************************************************************************)
(* Calls and places.                                                       *)
(***************************************************************************)

\* A call is one of a function that is there and no host function, and no place
\* lies beyond its module's items; a module that is not there is at its start.
CallsOK(calls, at, ms) ==
  /\ calls \in Seq(Call)
  /\ \A i \in 1..Len(calls) :
       /\ calls[i].module \in 1..Len(ms)
       /\ calls[i].function \in 1..Len(ms[calls[i].module].functions)
       /\ ~ms[calls[i].module].functions[calls[i].function].native
       /\ calls[i].place.item <= Len(ms[calls[i].module].binary.items)
  /\ at \in [1..Len(plan) -> Place]
  /\ \A m \in 1..Len(plan) :
       at[m].item <= IF m \in 1..Len(ms) THEN Len(ms[m].binary.items) ELSE 0

\* Where the call i of calls is, or is to resume
PlaceOf(calls, at, i) ==
  IF i = Len(calls) THEN at[calls[i].module] ELSE calls[i].place

\* Each call is in its function's body.
InBodies(calls, at, ms) ==
  \A i \in 1..Len(calls) :
    PlaceOf(calls, at, i).item =
      ms[calls[i].module].functions[calls[i].function].position

\* The innermost call is suspended where its module is.
LEMMA SuspendedIs ==
  ASSUME LoadInv, NEW calls, NEW at, CallsOK(calls, at, modules),
         NEW m \in 1..Len(modules), calls # <<>> => Last(calls).module = m,
         NEW callee, NEW s, s = Suspended(calls, at, m, callee)
  PROVE  /\ CallsOK(s, at, modules)
         /\ Len(s) = Len(calls)
         /\ \A i \in 1..Len(calls) :
              /\ s[i].module = calls[i].module
              /\ s[i].function = calls[i].function
              /\ s[i].place = PlaceOf(calls, at, i)
         /\ InBodies(calls, at, modules) => InBodies(s, at, modules)
<1> DEFINE n == Len(calls)
<1>1. /\ calls \in Seq(Call) /\ n \in Nat
      /\ at \in [1..Len(plan) -> Place]
      /\ m \in 1..Len(plan)
  <2>1. Len(plan) \in Nat /\ Len(modules) \in Nat /\ Len(modules) <= Len(plan)
    BY PlanType DEF LoadInv
  <2> QED
    BY <2>1 DEF CallsOK
<1>2. at[m] \in Place /\ at[m].item <= Len(modules[m].binary.items)
  BY <1>1 DEF CallsOK
<1>3. /\ s \in Seq(Call) /\ Len(s) = n
      /\ \A i \in 1..n : /\ s[i].module = calls[i].module
                         /\ s[i].function = calls[i].function
                         /\ s[i].place = PlaceOf(calls, at, i)
  <2>1. CASE calls = <<>>
    BY <1>1, <2>1 DEF Suspended
  <2>2. CASE calls # <<>>
    <3>1. n \in 1..n /\ calls[n] \in Call /\ calls[n].module = m
      BY <1>1, <2>2, EmptySeq, ElementOfSeq DEF Last
    <3> DEFINE c == [calls[n] EXCEPT !.place = at[m]]
    <3>2. s = [calls EXCEPT ![n] = c]
      BY <1>1, <2>2 DEF Suspended
    <3>3. /\ c \in Call /\ c.module = m /\ c.function = calls[n].function
          /\ c.place = at[m]
      BY <1>2, <3>1 DEF Call
    <3> HIDE DEF c
    <3>4. /\ s \in Seq(Call) /\ Len(s) = n /\ s[n] = c
          /\ \A i \in 1..n : i # n => s[i] = calls[i]
      BY <1>1, <3>1, <3>2, <3>3
    <3>5. ASSUME NEW i \in 1..n
          PROVE  /\ s[i].module = calls[i].module
                 /\ s[i].function = calls[i].function
                 /\ s[i].place = PlaceOf(calls, at, i)
      <4>1. CASE i = n
        BY <3>1, <3>3, <3>4, <4>1 DEF PlaceOf
      <4>2. CASE i # n
        BY <3>4, <4>2 DEF PlaceOf
      <4> QED
        BY <4>1, <4>2
    <3> QED
      BY <3>4, <3>5
  <2> QED
    BY <2>1, <2>2
<1>4. ASSUME NEW i \in 1..n
      PROVE  /\ s[i].module \in 1..Len(modules)
             /\ s[i].function \in 1..Len(modules[s[i].module].functions)
             /\ ~modules[s[i].module].functions[s[i].function].native
             /\ s[i].place.item <= Len(modules[s[i].module].binary.items)
  <2>1. /\ s[i].module = calls[i].module
        /\ s[i].function = calls[i].function
        /\ s[i].place = PlaceOf(calls, at, i)
    BY <1>3
  <2>2. /\ calls[i].module \in 1..Len(modules)
        /\ calls[i].function \in 1..Len(modules[calls[i].module].functions)
        /\ ~modules[calls[i].module].functions[calls[i].function].native
        /\ calls[i].place.item <= Len(modules[calls[i].module].binary.items)
    BY DEF CallsOK
  <2>3. i = n => calls[i].module = m
    BY <1>1, EmptySeq DEF Last
  <2>4. s[i].place.item <= Len(modules[s[i].module].binary.items)
    <3>1. CASE i = n
      BY <1>2, <2>1, <2>3, <3>1 DEF PlaceOf
    <3>2. CASE i # n
      BY <2>1, <2>2, <3>2 DEF PlaceOf
    <3> QED
      BY <3>1, <3>2
  <2> QED
    BY <2>1, <2>2, <2>4
<1>5. CallsOK(s, at, modules)
  <2>1. \A k \in 1..Len(plan) :
          at[k].item <= IF k \in 1..Len(modules)
                          THEN Len(modules[k].binary.items) ELSE 0
    BY DEF CallsOK
  <2> QED
    BY <1>1, <1>3, <1>4, <2>1 DEF CallsOK
<1>6. ASSUME InBodies(calls, at, modules), NEW i \in 1..n
      PROVE  PlaceOf(s, at, i).item =
               modules[s[i].module].functions[s[i].function].position
  <2>1. PlaceOf(s, at, i) = PlaceOf(calls, at, i)
    BY <1>3 DEF PlaceOf
  <2>2. PlaceOf(calls, at, i).item =
          modules[calls[i].module].functions[calls[i].function].position
    BY <1>6 DEF InBodies
  <2> QED
    BY <1>3, <2>1, <2>2
<1> QED
  BY <1>3, <1>5, <1>6 DEF InBodies

\* The module that is called is moved to a place within it.
LEMMA MovedIs ==
  ASSUME NEW calls, NEW at, CallsOK(calls, at, modules),
         NEW m \in 1..Len(modules), NEW place \in Place,
         place.item <= Len(modules[m].binary.items), NEW b,
         b = [at EXCEPT ![m] = place]
  PROVE  CallsOK(calls, b, modules)
<1>1. /\ at \in [1..Len(plan) -> Place]
      /\ \A k \in 1..Len(plan) :
           at[k].item <= IF k \in 1..Len(modules)
                           THEN Len(modules[k].binary.items) ELSE 0
  BY DEF CallsOK
<1>2. /\ b \in [1..Len(plan) -> Place]
      /\ \A k \in 1..Len(plan) :
           b[k].item <= IF k \in 1..Len(modules)
                          THEN Len(modules[k].binary.items) ELSE 0
  BY <1>1
<1> QED
  BY <1>2 DEF CallsOK

\* A call that is refused leaves calls and places in order; one that is taken
\* leaves each call in its body.
LEMMA CallMade ==
  ASSUME LoadInv, NEW at, CallsOK(callStack, at, modules),
         NEW m \in 1..Len(modules), NEW f \in Nat, MayCall(m),
         CallRefused(m, f, at) \/ CallNative(m, f, at) \/ CallPushed(m, f, at)
  PROVE  /\ CallsOK(callStack', places', modules)
         /\ ~CallRefused(m, f, at) /\ InBodies(callStack, at, modules) =>
              InBodies(callStack', places', modules)
         /\ NativeFrame(m, f) \in Frame /\ NativeFrame(m, f).kind = "native"
         /\ Refusal(Resolution(m, f)) \in Errors
         /\ CallRefused(m, f, at) => Refusal(Resolution(m, f)) # "none"
<1> DEFINE t == Resolution(m, f)
           p == [item |-> FunctionAt(t).position, done |-> 0]
           s == Suspended(callStack, at, m, t.module)
<1>1. m \in Nat
  OBVIOUS
<1>2. t \in Target
  BY <1>1, ResolutionType
<1>3. /\ NativeFrame(m, f) \in Frame /\ NativeFrame(m, f).kind = "native"
  <2> HIDE DEF t
  <2>1. NativeFrame(m, f) = [kind |-> "native", module |-> t.module,
                             function |-> t.function]
    BY DEF NativeFrame, t
  <2> QED
    BY <1>2, <2>1 DEF Frame, Target
<1>4. /\ Refusal(t) \in Errors
      /\ TargetError(t) = "none" => Exists(t) /\ FunctionAt(t).import = 0
      /\ Refusal(t) = "none" => TargetError(t) = "none"
  BY RefusalIs
<1>5. CallRefused(m, f, at) =>
        /\ Refusal(t) # "none"
        /\ \/ places' = at /\ callStack' = callStack
           \/ /\ TargetError(t) = "none"
              /\ places' = [at EXCEPT ![t.module] = p]
              /\ callStack' = s
  BY DEF CallRefused
<1>6. CallNative(m, f, at) => places' = at /\ callStack' = callStack
  BY DEF CallNative
<1>7. CallPushed(m, f, at) =>
        /\ Refusal(t) = "none" /\ ~FunctionAt(t).native
        /\ places' = [at EXCEPT ![t.module] = p]
        /\ callStack' = Append(s, [module |-> t.module, function |-> t.function,
                                   place |-> p])
  BY DEF CallPushed
<1> HIDE DEF t
<1>8. ASSUME Exists(t)
      PROVE  /\ t.module \in 1..Len(modules)
             /\ p \in Place /\ p.item = FunctionAt(t).position
             /\ p.item <= Len(modules[t.module].binary.items)
             /\ FunctionAt(t) = modules[t.module].functions[t.function]
  <2>1. /\ t.module \in 1..Len(modules)
        /\ FunctionAt(t) = modules[t.module].functions[t.function]
        /\ FunctionAt(t).position \in Nat
        /\ FunctionAt(t).position <= Len(modules[t.module].binary.items)
    BY <1>2, <1>8, FunctionIs
  <2> QED
    BY <2>1 DEF Place
<1> HIDE DEF p
<1>9. /\ CallsOK(s, at, modules) /\ Len(s) = Len(callStack)
      /\ \A i \in 1..Len(callStack) :
           /\ s[i].module = callStack[i].module
           /\ s[i].function = callStack[i].function
           /\ s[i].place = PlaceOf(callStack, at, i)
  <2>1. callStack # <<>> => Last(callStack).module = m
    BY DEF MayCall
  <2> HIDE DEF s
  <2>2. s = Suspended(callStack, at, m, t.module)
    BY DEF s
  <2> QED
    BY <2>1, <2>2, SuspendedIs
<1> HIDE DEF s
<1>10. CASE CallRefused(m, f, at)
  <2>1. CallsOK(callStack', places', modules)
    <3>1. CASE places' = at /\ callStack' = callStack
      BY <3>1
    <3>2. CASE /\ TargetError(t) = "none"
               /\ places' = [at EXCEPT ![t.module] = p]
               /\ callStack' = s
      <4>1. Exists(t)
        BY <1>4, <3>2
      <4>2. CallsOK(s, places', modules)
        BY <1>8, <1>9, <3>2, <4>1, MovedIs
      <4> QED
        BY <3>2, <4>2
    <3> QED
      BY <1>5, <1>10, <3>1, <3>2
  <2> QED
    BY <1>3, <1>4, <1>5, <1>10, <2>1 DEF t
<1>11. CASE CallNative(m, f, at) /\ ~CallRefused(m, f, at)
  BY <1>3, <1>4, <1>6, <1>11 DEF t
<1>12. CASE CallPushed(m, f, at) /\ ~CallRefused(m, f, at)
  <2> DEFINE n == Len(callStack)
             c == [module |-> t.module, function |-> t.function, place |-> p]
  <2>1. /\ Exists(t) /\ ~FunctionAt(t).native
        /\ places' = [at EXCEPT ![t.module] = p]
        /\ callStack' = Append(s, c)
    BY <1>4, <1>7, <1>12
  <2>2. /\ t.module \in 1..Len(modules) /\ p \in Place
        /\ p.item = FunctionAt(t).position
        /\ p.item <= Len(modules[t.module].binary.items)
        /\ FunctionAt(t) = modules[t.module].functions[t.function]
        /\ t.function \in 1..Len(modules[t.module].functions)
    BY <1>8, <2>1 DEF Exists
  <2>3. /\ c \in Call /\ c.module = t.module /\ c.function = t.function
        /\ c.place = p
    BY <1>2, <2>2 DEF Call, Target
  <2> HIDE DEF c
  <2>4. /\ s \in Seq(Call) /\ n \in Nat /\ Len(s) = n
    BY <1>9 DEF CallsOK
  <2>5. /\ callStack' \in Seq(Call) /\ Len(callStack') = n + 1
        /\ callStack'[n + 1] = c
        /\ \A i \in 1..n : callStack'[i] = s[i]
    BY <2>1, <2>3, <2>4
  <2> HIDE DEF n
  <2>6. CallsOK(s, places', modules)
    BY <1>9, <2>1, <2>2, MovedIs
  <2>7. CallsOK(callStack', places', modules)
    <3>1. ASSUME NEW i \in 1..(n + 1)
          PROVE  LET d == callStack'[i] IN
                 /\ d.module \in 1..Len(modules)
                 /\ d.function \in 1..Len(modules[d.module].functions)
                 /\ ~modules[d.module].functions[d.function].native
                 /\ d.place.item <= Len(modules[d.module].binary.items)
      <4>1. CASE i = n + 1
        BY <2>1, <2>2, <2>3, <2>5, <4>1
      <4>2. CASE i \in 1..n
        <5>1. callStack'[i] = s[i] /\ i \in 1..Len(s)
          BY <2>4, <2>5, <4>2
        <5> QED
          BY <5>1, <2>6 DEF CallsOK
      <4> QED
        BY <2>4, <4>1, <4>2
    <3>2. /\ places' \in [1..Len(plan) -> Place]
          /\ \A k \in 1..Len(plan) :
               places'[k].item <= IF k \in 1..Len(modules)
                                    THEN Len(modules[k].binary.items) ELSE 0
      BY <2>6 DEF CallsOK
    <3> QED
      BY <2>5, <3>1, <3>2 DEF CallsOK
  <2>8. ASSUME InBodies(callStack, at, modules), NEW i \in 1..(n + 1)
        PROVE  PlaceOf(callStack', places', i).item =
                 modules[callStack'[i].module]
                   .functions[callStack'[i].function].position
    <3>1. CASE i = n + 1
      <4>1. /\ callStack'[i] = c /\ PlaceOf(callStack', places', i) =
                 places'[t.module]
        BY <2>3, <2>5, <3>1 DEF PlaceOf
      <4>2. places'[t.module] = p
        <5>1. t.module \in 1..Len(plan)
          <6>1. Len(plan) \in Nat /\ Len(modules) \in Nat
                /\ Len(modules) <= Len(plan)
            BY PlanType DEF LoadInv
          <6> QED
            BY <2>2, <6>1
        <5> QED
          BY <2>1, <5>1 DEF CallsOK
      <4> QED
        BY <2>2, <2>3, <4>1, <4>2
    <3>2. CASE i \in 1..n
      <4>1. /\ callStack'[i] = s[i] /\ i # n + 1
            /\ PlaceOf(callStack', places', i) = s[i].place
        BY <2>4, <2>5, <3>2 DEF PlaceOf
      <4>2. /\ s[i].place = PlaceOf(callStack, at, i)
            /\ s[i].module = callStack[i].module
            /\ s[i].function = callStack[i].function
        BY <1>9, <3>2 DEF n
      <4>3. PlaceOf(callStack, at, i).item =
              modules[callStack[i].module]
                .functions[callStack[i].function].position
        BY <2>8, <3>2 DEF InBodies, n
      <4> QED
        BY <4>1, <4>2, <4>3
    <3> QED
      BY <2>4, <3>1, <3>2
  <2>9. InBodies(callStack, at, modules) =>
          InBodies(callStack', places', modules)
    BY <2>5, <2>8 DEF InBodies
  <2> QED
    BY <1>3, <1>4, <1>12, <2>7, <2>9 DEF t
<1> QED
  BY <1>10, <1>11, <1>12

-----------------------------------------------------------------------------
(***************************************************************************)
(* The inductive invariant.                                                *)
(***************************************************************************)

\* While a loop of the parser or the linker runs, a host function or the host
\* has called it, and the host steps while there are calls.
FrameInv ==
  /\ isInRunLoop \in BOOLEAN /\ destroyAfterUse \in BOOLEAN
  /\ freed \in BOOLEAN
  /\ FramesOK(cStack, isInRunLoop, destroyAfterUse, freed)
  /\ task.call # "none" => ~freed /\ Top \in {"host", "native"}
  /\ Top = "step" => callStack # <<>>

\* No call is one of the module that is parsed.
CallInv ==
  /\ CallsOK(callStack, places, modules)
  /\ hostCalls \in 0..MaxHostCalls
  /\ task.call = "parse" =>
       \A i \in 1..Len(callStack) : callStack[i].module # task.module

\* Nothing runs after a run has failed, until the host stops it.
BodyInv ==
  ~freed =>
    IF Abandoned THEN task.call = "none" /\ Top \in {"host", "native"}
    ELSE InBodies(callStack, places, modules)

Inv == LoadInv /\ HeapAccountedFor /\ FrameInv /\ CallInv /\ BodyInv

-----------------------------------------------------------------------------
(***************************************************************************)
(* Setting up keeps the invariant.                                         *)
(***************************************************************************)

\* Setting up leaves calls what they call, and binaries what they are.
ModulesKept ==
  /\ Len(modules) <= Len(modules')
  /\ \A m \in 1..Len(modules) :
       modules'[m].binary = modules[m].binary \/ modules[m].binary = NoBinary
  /\ \A i \in 1..Len(callStack) :
       LET m == callStack[i].module
           f == callStack[i].function
       IN /\ f \in 1..Len(modules'[m].functions)
          /\ modules'[m].functions[f] = modules[m].functions[f]

\* The length of the plan, and of the modules that there are so far
LEMMA PlanLengths ==
  ASSUME LoadInv
  PROVE  Len(plan) \in Nat /\ Len(modules) \in Nat /\ Len(modules) <= Len(plan)
BY PlanType DEF LoadInv

\* Calls and places stay in order.
LEMMA CallsStay ==
  ASSUME LoadInv, LoadInv', CallsOK(callStack, places, modules), ModulesKept,
         plan' = plan, callStack' = callStack, places' = places
  PROVE  /\ CallsOK(callStack, places, modules)'
         /\ InBodies(callStack, places, modules) =>
              InBodies(callStack, places, modules)'
<1>1. /\ Len(modules) \in Nat /\ Len(modules') \in Nat
      /\ Len(modules) <= Len(modules') /\ Len(plan) \in Nat
  BY PlanLengths DEF LoadInv, ModulesKept
<1>2. \A m \in 1..Len(modules') : Len(modules'[m].binary.items) \in Nat
  <2>1. \A m \in 1..Len(modules') : modules'[m] \in Module
    BY ElementOfSeq DEF LoadInv
  <2>2. \A x \in Module : Len(x.binary.items) \in Nat
    BY LenProperties DEF Module, Binary
  <2> QED
    BY <2>1, <2>2
<1>3. Len(NoBinary.items) = 0
  BY EmptySeq DEF NoBinary
<1>4. ASSUME NEW m \in 1..Len(modules), NEW n \in Nat,
             n <= Len(modules[m].binary.items)
      PROVE  n <= Len(modules'[m].binary.items)
  <2>1. m \in 1..Len(modules')
    BY <1>1
  <2>2. CASE modules'[m].binary = modules[m].binary
    BY <1>4, <2>2
  <2>3. CASE modules[m].binary = NoBinary
    <3>1. n = 0
      BY <1>3, <1>4, <2>3
    <3> QED
      BY <1>2, <2>1, <3>1
  <2> QED
    BY <2>2, <2>3 DEF ModulesKept
<1>5. ASSUME NEW i \in 1..Len(callStack)
      PROVE  LET c == callStack[i] IN
             /\ c.module \in 1..Len(modules')
             /\ c.function \in 1..Len(modules'[c.module].functions)
             /\ ~modules'[c.module].functions[c.function].native
             /\ c.place.item <= Len(modules'[c.module].binary.items)
             /\ modules'[c.module].functions[c.function]
                  = modules[c.module].functions[c.function]
  <2> DEFINE c == callStack[i]
  <2>1. /\ c.module \in 1..Len(modules)
        /\ ~modules[c.module].functions[c.function].native
        /\ c.place.item <= Len(modules[c.module].binary.items)
    BY DEF CallsOK
  <2>2. /\ c.function \in 1..Len(modules'[c.module].functions)
        /\ modules'[c.module].functions[c.function]
             = modules[c.module].functions[c.function]
    BY DEF ModulesKept
  <2>3. c.place.item \in Nat
    <3>1. c \in Call
      BY ElementOfSeq DEF CallsOK
    <3> QED
      BY <3>1 DEF Call, Place
  <2>4. c.module \in 1..Len(modules')
    BY <1>1, <2>1
  <2> QED
    BY <1>4, <2>1, <2>2, <2>3, <2>4
<1>6. ASSUME NEW m \in 1..Len(plan)
      PROVE  places[m].item <= IF m \in 1..Len(modules')
                                 THEN Len(modules'[m].binary.items) ELSE 0
  <2>1. /\ places[m].item <= IF m \in 1..Len(modules)
                               THEN Len(modules[m].binary.items) ELSE 0
        /\ places[m].item \in Nat
    BY DEF CallsOK, Place
  <2>2. CASE m \in 1..Len(modules)
    <3>1. m \in 1..Len(modules')
      BY <1>1, <2>2
    <3> QED
      BY <1>4, <2>1, <2>2, <3>1
  <2>3. CASE m \notin 1..Len(modules)
    BY <1>2, <2>1, <2>3
  <2> QED
    BY <2>2, <2>3
<1>7. CallsOK(callStack, places, modules)'
  BY <1>5, <1>6 DEF CallsOK
<1>8. ASSUME InBodies(callStack, places, modules)
      PROVE  InBodies(callStack, places, modules)'
  BY <1>5, <1>8 DEF InBodies, PlaceOf
<1> QED
  BY <1>7, <1>8

\* A step that sets up modules keeps the invariant.
LEMMA SetUpInv ==
  ASSUME Inv, LoadInv', Accounted, ModulesKept, plan' = plan,
         ~freed, ~Abandoned, Top \in {"host", "native"},
         UNCHANGED <<callStack, places, cStack, isInRunLoop, destroyAfterUse,
                     freed>>,
         hostCalls' \in 0..MaxHostCalls,
         answer' = answer \/ answer'.call \in {"parse", "link"},
         task'.call = "parse" =>
           \A i \in 1..Len(callStack) : callStack[i].module # task'.module
  PROVE  Inv'
<1>1. HeapAccountedFor'
  <2>1. heap = lost + Owned /\ ~freed'
    BY DEF Inv, HeapAccountedFor
  <2>2. PICK a, l \in Nat : /\ heap' = heap + a /\ lost' = lost + l
                            /\ Owned' + l = Owned + a
    BY DEF Accounted
  <2>3. lost \in Nat /\ Owned \in Nat
    BY OwnedType DEF Inv, LoadInv
  <2>4. Owned' \in Nat
    <3>1. modules' \in Seq(Module)
      BY DEF LoadInv
    <3>2. Len(modules') \in 0..Len(modules')
      BY <3>1
    <3> QED
      BY <3>1, <3>2, SumIs, OwnedIs
  <2> DEFINE p == Owned
             q == Owned'
  <2>5. heap' = lost' + q
    <3>1. /\ p \in Nat /\ q \in Nat /\ q + l = p + a /\ heap = lost + p
          /\ heap' = heap + a /\ lost' = lost + l /\ lost \in Nat
      BY <2>1, <2>2, <2>3, <2>4
    <3> HIDE DEF p, q
    <3> QED
      BY <3>1
  <2> QED
    BY <2>1, <2>5 DEF HeapAccountedFor
<1>2. FrameInv'
  <2>1. Top' = Top
    BY DEF Top, Last
  <2> QED
    BY <2>1 DEF Inv, FrameInv
<1>3. /\ CallsOK(callStack, places, modules)'
      /\ InBodies(callStack, places, modules) =>
           InBodies(callStack, places, modules)'
  BY CallsStay DEF Inv, CallInv
<1>4. CallInv'
  BY <1>3 DEF CallInv
<1>5. BodyInv'
  <2>1. InBodies(callStack, places, modules)'
    BY <1>3 DEF Inv, BodyInv
  <2>2. ~Abandoned'
    BY DEF Abandoned
  <2> QED
    BY <2>1, <2>2 DEF BodyInv
<1> QED
  BY <1>1, <1>2, <1>4, <1>5 DEF Inv

\* The module that is parsed, in which no call is, or one whose functions stay,
\* or that has one more, is replaced.
LEMMA ReplacedKept ==
  ASSUME LoadInv, CallsOK(callStack, places, modules),
         NEW m \in 1..Len(modules), NEW x \in Module,
         modules' = [modules EXCEPT ![m] = x],
         x.binary = modules[m].binary \/ modules[m].binary = NoBinary,
         \/ \A i \in 1..Len(callStack) : callStack[i].module # m
         \/ x.functions = modules[m].functions
         \/ \E f \in Function : x.functions = Append(modules[m].functions, f)
  PROVE  ModulesKept
<1>1. /\ modules \in Seq(Module) /\ Len(modules') = Len(modules)
      /\ Len(modules) \in Nat
      /\ modules'[m] = x
      /\ \A k \in 1..Len(modules) : k # m => modules'[k] = modules[k]
  BY DEF LoadInv
<1>2. ASSUME NEW i \in 1..Len(callStack)
      PROVE  LET k == callStack[i].module
                 f == callStack[i].function
             IN /\ f \in 1..Len(modules'[k].functions)
                /\ modules'[k].functions[f] = modules[k].functions[f]
  <2> DEFINE k == callStack[i].module
             f == callStack[i].function
             fs == modules[k].functions
  <2>1. k \in 1..Len(modules) /\ f \in 1..Len(fs)
    BY DEF CallsOK
  <2>2. modules[k] \in Module
    BY <1>1, <2>1, ElementOfSeq
  <2>3. fs \in Seq(Function)
    BY <2>2 DEF Module
  <2>4. CASE k # m
    BY <1>1, <2>1, <2>4
  <2>5. CASE k = m /\ x.functions = modules[m].functions
    BY <1>1, <2>1, <2>5
  <2>6. CASE /\ k = m
             /\ \E g \in Function :
                  x.functions = Append(modules[m].functions, g)
    <3>1. PICK g \in Function : modules'[k].functions = Append(fs, g)
      BY <1>1, <2>6
    <3> HIDE DEF fs, k, f
    <3>2. f \in 1..Len(Append(fs, g)) /\ Append(fs, g)[f] = fs[f]
      BY <2>1, <2>3
    <3> QED
      BY <3>1, <3>2 DEF fs, k, f
  <2> QED
    BY <2>4, <2>5, <2>6
<1>3. \A k \in 1..Len(modules) :
        modules'[k].binary = modules[k].binary \/ modules[k].binary = NoBinary
  BY <1>1
<1>4. Len(modules) <= Len(modules')
  BY <1>1
<1> QED
  BY ONLY <1>2, <1>3, <1>4 DEF ModulesKept

\* The functions of a module to which a host function is added
LEMMA NativeAppended ==
  ASSUME NEW y \in Module, NEW name, NEW x, x = WithNative(y, name)
  PROVE  \E f \in Function : x.functions = Append(y.functions, f)
<1> DEFINE function == [import |-> 0, native |-> TRUE, signature |-> 0,
                        position |-> 0]
<1>1. x.functions = Append(y.functions, function)
  BY DEF WithNative, Module
<1>2. function \in Function
  BY DEF Function
<1> HIDE DEF function
<1> QED
  BY <1>1, <1>2

\* No module changes.
LEMMA SameKept ==
  ASSUME LoadInv, CallsOK(callStack, places, modules), modules' = modules
  PROVE  ModulesKept
BY DEF ModulesKept, CallsOK, LoadInv

\* The loops of the parser and the linker keep the invariant.
LEMMA LoadingStepInv ==
  ASSUME Inv, LoadingStep, UNCHANGED runVars
  PROVE  Inv'
<1>1. LoadInv' /\ Accounted
  BY LoadingKeeps DEF Inv
<1>2. task.call # "none"
  BY DEF LoadingStep, ParseCustom, ParseType, ParseImport, ParseFunction,
         ParseTable, ParseMemory, ParseGlobal, ParseExport, ParseElement,
         ParseCode, ParseData, ParseUnknown, ParseEnd, Parsing, AtItem,
         PassImport, ResolveImport, RefuseImport, LinkEnd, AtImport
<1>3. /\ ~freed /\ Top \in {"host", "native"} /\ ~Abandoned
  BY <1>2 DEF Inv, FrameInv, BodyInv
<1>4. /\ ModulesKept /\ plan' = plan
      /\ answer' = answer \/ answer'.call \in {"parse", "link"}
      /\ task'.call = "parse" =>
           task'.module = task.module /\ task.call = "parse"
  <2>1. CASE ParserStep
    <3>1. PICK x : Edits(task.module, x)
      BY <2>1, ParserEdits DEF Inv
    <3>2. task.call = "parse"
      BY <2>1
      DEF ParserStep, ParseCustom, ParseType, ParseImport, ParseFunction,
          ParseTable, ParseMemory, ParseGlobal, ParseExport, ParseElement,
          ParseCode, ParseData, ParseUnknown, Parsing, AtItem
    <3>3. \A i \in 1..Len(callStack) : callStack[i].module # task.module
      BY <3>2 DEF Inv, CallInv
    <3>4. task.module \in 1..Len(modules)
      BY <1>2, CurrentType DEF Inv
    <3>5. /\ x \in Module /\ modules' = [modules EXCEPT ![task.module] = x]
          /\ x.binary = modules[task.module].binary
          /\ plan' = plan
          /\ answer' = answer \/ answer'.call \in {"parse", "link"}
          /\ task' = task \/ task' = NoTask
      BY <3>1 DEF Edits
    <3>6. ModulesKept
      BY <3>3, <3>4, <3>5, ReplacedKept DEF Inv, CallInv
    <3> QED
      BY <3>2, <3>5, <3>6 DEF NoTask
  <2>2. CASE ParseEnd \/ PassImport \/ RefuseImport \/ LinkEnd
    <3>1. modules' = modules /\ plan' = plan
      BY <2>2 DEF ParseEnd, PassImport, RefuseImport, LinkEnd
    <3>2. answer' = answer \/ answer'.call \in {"parse", "link"}
      BY <2>2 DEF ParseEnd, PassImport, RefuseImport, LinkEnd, Told
    <3>3. task'.call # "parse"
      <4>1. CASE ParseEnd \/ RefuseImport \/ LinkEnd
        <5>1. task' = NoTask
          BY <4>1 DEF ParseEnd, RefuseImport, LinkEnd
        <5> QED
          BY <5>1 DEF NoTask
      <4>2. CASE PassImport
        <5>1. /\ task' = [task EXCEPT !.import = @ + 1] /\ task.call = "link"
              /\ task \in Task
          BY <4>2 DEF PassImport, AtImport, Inv, LoadInv
        <5> QED
          BY <5>1 DEF Task
      <4> QED
        BY <2>2, <4>1, <4>2
    <3>4. ModulesKept
      BY <3>1, SameKept DEF Inv, CallInv
    <3> QED
      BY <3>1, <3>2, <3>3, <3>4
  <2>3. CASE ResolveImport
    <3>1. PICK x : Resolving(x)
      BY <2>3, ResolvingIs DEF Inv
    <3>2. task.module \in 1..Len(modules) /\ Current = modules[task.module]
      BY <1>2, CurrentType DEF Inv, Current
    <3>3. /\ x \in Module /\ modules' = [modules EXCEPT ![task.module] = x]
          /\ x.binary = modules[task.module].binary
          /\ x.functions = modules[task.module].functions
      BY <3>1, <3>2 DEF Resolving
    <3>4. ModulesKept
      BY <3>2, <3>3, ReplacedKept DEF Inv, CallInv
    <3>5. task' = [task EXCEPT !.import = @ + 1] /\ task.call = "link"
      BY <2>3 DEF ResolveImport, AtImport
    <3>6. task'.call # "parse"
      BY <3>5 DEF Inv, LoadInv, Task
    <3>7. answer' = answer /\ plan' = plan
      BY <2>3 DEF ResolveImport
    <3> QED
      BY <3>4, <3>6, <3>7
  <2> QED
    BY <2>1, <2>2, <2>3 DEF LoadingStep, ParserStep
<1>5. /\ hostCalls' \in 0..MaxHostCalls
      /\ task'.call = "parse" =>
           \A i \in 1..Len(callStack) : callStack[i].module # task'.module
  BY <1>4 DEF Inv, CallInv, runVars
<1>6. UNCHANGED <<callStack, places, cStack, isInRunLoop, destroyAfterUse,
                  freed>>
  BY DEF runVars
<1> QED
  BY <1>1, <1>3, <1>4, <1>5, <1>6, SetUpInv

\* So does all that the host does to set up its modules.
LEMMA HostSetUpInv ==
  ASSUME Inv, HostSetUp
  PROVE  Inv'
<1>1. LoadInv' /\ Accounted
  BY SetUpKeeps DEF Inv, HostSetUp
<1>2. /\ ~freed /\ Top \in {"host", "native"} /\ ~Abandoned /\ task = NoTask
      /\ SetUp
      /\ UNCHANGED <<callStack, places, cStack, isInRunLoop, destroyAfterUse,
                     freed>>
  BY DEF HostSetUp, HostUses, HostCalls, HostInControl
<1>3. hostCalls' \in 0..MaxHostCalls
  BY LifecycleAssumption DEF HostSetUp, HostCalls, Inv, CallInv
<1>4. /\ ModulesKept /\ plan' = plan
      /\ answer' = answer \/ answer'.call \in {"parse", "link"}
      /\ task'.call = "parse" =>
           \A i \in 1..Len(callStack) : callStack[i].module # task'.module
  <2>1. CASE NewModule
    <3>1. modules' = Append(modules, EmptyModule)
      BY <2>1 DEF NewModule
    <3>2. /\ Len(modules) \in Nat /\ Len(modules') = Len(modules) + 1
          /\ \A m \in 1..Len(modules) : modules'[m] = modules[m]
      BY <3>1 DEF Inv, LoadInv
    <3>3. ModulesKept
      <4>1. \A i \in 1..Len(callStack) :
              /\ callStack[i].module \in 1..Len(modules)
              /\ callStack[i].function
                   \in 1..Len(modules[callStack[i].module].functions)
        BY DEF Inv, CallInv, CallsOK
      <4>2. Len(modules) <= Len(modules')
        BY <3>2
      <4> QED
        BY <3>2, <4>1, <4>2 DEF ModulesKept
    <3> QED
      BY <1>2, <2>1, <3>3 DEF NewModule, NoTask
  <2>2. ASSUME NEW m \in 1..Len(modules), AssignName(m)
        PROVE  ModulesKept
    <3> DEFINE x == [modules[m] EXCEPT !.name = plan[m].name]
    <3>1. modules[m] \in Module /\ plan[m] \in Planned
      BY <1>2, IdleType DEF Inv
    <3>2. modules' = [modules EXCEPT ![m] = x]
      BY <2>2 DEF AssignName, Inv, LoadInv
    <3>3. plan[m].name \in Names \cup {NoName}
      BY <3>1 DEF Planned
    <3>4. x \in Module /\ x.binary = modules[m].binary
          /\ x.functions = modules[m].functions
      BY <3>1, <3>3, NameChanged
    <3> HIDE DEF x
    <3> QED
      BY <3>2, <3>4, ReplacedKept DEF Inv, CallInv
  <2>3. ASSUME NEW m \in 1..Len(modules), AddNativeFunction(m)
        PROVE  ModulesKept
    <3>1. PICK name \in Names :
            modules' = [modules EXCEPT ![m] = WithNative(modules[m], name)]
      BY <2>3, AddNativeIs DEF Inv
    <3> DEFINE x == WithNative(modules[m], name)
    <3>2. modules[m] \in Module /\ ModuleOK(modules[m])
      BY <1>2, IdleType DEF Inv
    <3>3. /\ x \in Module /\ x.binary = modules[m].binary
          /\ \E f \in Function : x.functions = Append(modules[m].functions, f)
      <4>1. x = WithNative(modules[m], name)
        OBVIOUS
      <4> HIDE DEF x
      <4>2. x \in Module /\ x.binary = modules[m].binary
        BY <3>2, <4>1, WithNativeIs
      <4>3. \E f \in Function : x.functions = Append(modules[m].functions, f)
        BY <3>2, <4>1, NativeAppended
      <4> QED
        BY <4>2, <4>3
    <3>4. modules' = [modules EXCEPT ![m] = x]
      BY <3>1
    <3> HIDE DEF x
    <3> QED
      BY <3>3, <3>4, ReplacedKept DEF Inv, CallInv
  <2>4. ASSUME NEW m \in 1..Len(modules), Load(m)
        PROVE  /\ ModulesKept
               /\ task'.call = "parse" => task'.module = m
               /\ answer' = answer \/ answer'.call = "parse"
               /\ \A i \in 1..Len(callStack) : callStack[i].module # m
    <3> DEFINE x == [modules[m] EXCEPT !.binary = plan[m].binary]
    <3>1. modules[m] \in Module /\ ModuleOK(modules[m]) /\ plan[m] \in Planned
      BY <1>2, IdleType DEF Inv
    <3>2. modules' = [modules EXCEPT ![m] = x] /\ modules[m].binary = NoBinary
      BY <2>4 DEF Load, Inv, LoadInv
    <3>3. plan[m].binary \in Binary
      BY <3>1 DEF Planned
    <3>4. x \in Module /\ x.functions = modules[m].functions
      BY <3>1, <3>3, BinaryChanged
    <3> HIDE DEF x
    <3>5. ModulesKept
      BY <3>2, <3>4, ReplacedKept DEF Inv, CallInv
    <3>6. \A f \in 1..Len(modules[m].functions) : modules[m].functions[f].native
      BY <3>1, <3>2 DEF ModuleOK
    <3>7. \A i \in 1..Len(callStack) : callStack[i].module # m
      BY <3>6 DEF Inv, CallInv, CallsOK
    <3>8. task'.call = "parse" => task'.module = m
      <4>1. \/ task' = [call |-> "parse", module |-> m, import |-> 0]
            \/ task' = NoTask
        BY <1>2, <2>4 DEF Load
      <4> QED
        BY <4>1 DEF NoTask
    <3>9. answer' = answer \/ answer'.call = "parse"
      BY <2>4 DEF Load, Told
    <3> QED
      BY <3>5, <3>7, <3>8, <3>9
  <2>5. /\ \A m : AssignName(m) => answer' = answer /\ task' = task
        /\ \A m : AddNativeFunction(m) => answer' = answer /\ task' = task
        /\ task.call # "parse"
    BY <1>2 DEF AssignName, AddNativeFunction, NoTask
  <2>6. plan' = plan
    BY <1>2 DEF SetUp, NewModule, AssignName, AddNativeFunction, Load
  <2> QED
    BY <1>2, <2>1, <2>2, <2>3, <2>4, <2>5, <2>6 DEF SetUp
<1> QED
  BY <1>1, <1>2, <1>3, <1>4, SetUpInv

\* And the call that has imports resolved
LEMMA HostLinkInv ==
  ASSUME Inv, NEW m \in 1..Len(modules), HostLink(m)
  PROVE  Inv'
<1>1. /\ Link(m) /\ ~freed /\ Top \in {"host", "native"} /\ ~Abandoned
      /\ UNCHANGED <<callStack, places, cStack, isInRunLoop, destroyAfterUse,
                     freed>>
  BY DEF HostLink, HostUses, HostCalls, HostInControl
<1>2. LoadInv' /\ Accounted
  BY <1>1, LinkKeeps DEF Inv
<1>3. hostCalls' \in 0..MaxHostCalls
  BY LifecycleAssumption DEF HostLink, HostCalls, Inv, CallInv
<1>4. /\ modules' = modules /\ plan' = plan /\ answer' = answer
      /\ task'.call # "parse"
  BY <1>1 DEF Link
<1>5. ModulesKept
  BY <1>4, SameKept DEF Inv, CallInv
<1> QED
  BY <1>1, <1>2, <1>3, <1>4, <1>5, SetUpInv

-----------------------------------------------------------------------------
(***************************************************************************)
(* What a step of a run has to keep.                                       *)
(***************************************************************************)

\* What becomes of errors and answers
Reports ==
  /\ error' \in Errors
  /\ error # "none" => error' # "none"
  /\ answer' \in Answer

\* The modules stay; the blocks too, unless the context is freed.
LEMMA RunKeeps ==
  ASSUME Inv, Reports, UNCHANGED <<plan, modules, task, lost>>,
         \/ heap' = heap /\ freed' = freed
         \/ ~freed /\ freed' = TRUE /\ heap' = heap - Owned
  PROVE  LoadInv' /\ HeapAccountedFor'
<1>1. Owned' = Owned
  BY OwnedIs
<1>2. lost \in Nat /\ Owned \in Nat /\ heap \in Nat
  BY OwnedType DEF Inv, LoadInv
<1>3. heap = lost + (IF freed THEN 0 ELSE Owned)
  BY DEF Inv, HeapAccountedFor
<1>4. heap' = lost' + (IF freed' THEN 0 ELSE Owned')
  <2> DEFINE n == Owned
  <2>1. n \in Nat /\ Owned' = n
    BY <1>1, <1>2
  <2> HIDE DEF n
  <2>2. CASE heap' = heap /\ freed' = freed
    BY <1>3, <2>1, <2>2 DEF n
  <2>3. CASE ~freed /\ freed' = TRUE /\ heap' = heap - Owned
    BY <1>2, <1>3, <2>1, <2>3 DEF n
  <2> QED
    BY <2>2, <2>3
<1>5. heap' \in Nat
  BY <1>1, <1>2, <1>4
<1>6. LoadInv'
  BY <1>5 DEF Inv, LoadInv, Reports, Current, NoTask
<1> QED
  BY <1>4, <1>6 DEF HeapAccountedFor

\* Calls and places are left in order.
LEMMA RunCalls ==
  ASSUME Inv, UNCHANGED <<plan, modules, task>>, task.call = "none",
         CallsOK(callStack', places', modules),
         hostCalls' = hostCalls \/ HostCalls
  PROVE  CallInv'
<1>1. hostCalls' \in 0..MaxHostCalls
  BY LifecycleAssumption DEF HostCalls, Inv, CallInv
<1>2. CallsOK(callStack, places, modules)'
  BY DEF CallsOK
<1> QED
  BY <1>1, <1>2 DEF CallInv

\* The host is told that a call of a run has failed.
LEMMA BodyFails ==
  ASSUME NEW call \in {"run", "call", "step"}, NEW m, Told(call, m, FALSE),
         task'.call = "none", Top' \in {"host", "native"}
  PROVE  BodyInv'
<1>1. answer'.call \in {"run", "call", "step"} /\ ~answer'.ok
  BY DEF Told
<1>2. CASE callStack' = <<>>
  <2>1. InBodies(callStack, places, modules)'
    BY <1>2 DEF InBodies
  <2>2. ~Abandoned'
    BY <1>2 DEF Abandoned
  <2> QED
    BY <2>1, <2>2 DEF BodyInv
<1>3. CASE callStack' # <<>>
  <2>1. Abandoned'
    BY <1>1, <1>3 DEF Abandoned
  <2> QED
    BY <2>1 DEF BodyInv
<1> QED
  BY <1>2, <1>3

\* Or the calls go on.
LEMMA BodyGoes ==
  ASSUME modules' = modules,
         ~freed' => ~Abandoned' /\ InBodies(callStack', places', modules)
  PROVE  BodyInv'
<1>1. InBodies(callStack', places', modules) =>
        InBodies(callStack, places, modules)'
  BY DEF InBodies, PlaceOf
<1> QED
  BY <1>1 DEF BodyInv

TopOf(s) == IF s = <<>> THEN "host" ELSE Last(s).kind

\* Below a frame that is no host function's there is one, or none.
LEMMA TopBelow ==
  ASSUME NEW s, NEW l, NEW d, NEW g, FramesOK(s, l, d, g), s # <<>>,
         Last(s).kind # "native"
  PROVE  TopOf(Front(s)) \in {"host", "native"}
<1>1. /\ s \in Seq(Frame)
      /\ \A i \in 2..Len(s) : s[i].kind # "native" => s[i - 1].kind = "native"
  BY DEF FramesOK
<1>2. /\ Front(s) \in Seq(Frame) /\ Len(s) \in Nat \ {0}
      /\ Len(Front(s)) = Len(s) - 1
      /\ \A i \in 1..(Len(s) - 1) : Front(s)[i] = s[i]
      /\ Last(s) = s[Len(s)]
  BY <1>1, FrontIs
<1>3. CASE Len(s) = 1
  <2>1. Front(s) = <<>>
    BY <1>2, <1>3, EmptySeq
  <2> QED
    BY <2>1 DEF TopOf
<1>4. CASE Len(s) # 1
  <2>1. /\ Len(s) \in 2..Len(s) /\ Len(s) - 1 \in 1..(Len(s) - 1)
        /\ Front(s) # <<>>
    BY <1>2, <1>4, EmptySeq
  <2>2. s[Len(s) - 1].kind = "native"
    BY <1>1, <1>2, <2>1
  <2>3. Last(Front(s)) = s[Len(s) - 1]
    BY <1>2, <2>1 DEF Last
  <2> QED
    BY <2>1, <2>2, <2>3 DEF TopOf
<1> QED
  BY <1>3, <1>4

\* The kinds of frames
LEMMA TopType ==
  ASSUME NEW s \in Seq(Frame)
  PROVE  /\ TopOf(s) \in {"host", "start", "loop", "step", "native"}
         /\ TopOf(s) = "host" <=> s = <<>>
<1>1. CASE s = <<>>
  BY <1>1 DEF TopOf
<1>2. CASE s # <<>>
  <2>1. Last(s) \in Frame
    BY <1>2, FrontIs
  <2> QED
    BY <1>2, <2>1 DEF TopOf, Frame
<1> QED
  BY <1>1, <1>2

\* The frame that is pushed is at the top.
LEMMA TopPushed ==
  ASSUME NEW s \in Seq(Frame), NEW f \in Frame
  PROVE  TopOf(Append(s, f)) = f.kind
<1>1. /\ Append(s, f) # <<>>
      /\ Append(s, f)[Len(Append(s, f))] = f
  OBVIOUS
<1> QED
  BY <1>1 DEF TopOf, Last

\* A frame of the library's own
LEMMA PlainIs ==
  ASSUME NEW kind \in {"start", "loop", "step", "native"}
  PROVE  Plain(kind) \in Frame /\ Plain(kind).kind = kind
BY DEF Plain, Frame

\* The frame invariant of the next state
LEMMA FramesKept ==
  ASSUME Inv, task' = task, task.call = "none",
         isInRunLoop' \in BOOLEAN, destroyAfterUse' \in BOOLEAN,
         freed' \in BOOLEAN,
         FramesOK(cStack', isInRunLoop', destroyAfterUse', freed'),
         TopOf(cStack') = "step" => callStack' # <<>>
  PROVE  FrameInv'
<1>1. Top' = TopOf(cStack')
  BY DEF Top, TopOf, Last
<1>2. FramesOK(cStack, isInRunLoop, destroyAfterUse, freed)'
  BY DEF FramesOK
<1> QED
  BY <1>1, <1>2 DEF FrameInv

-----------------------------------------------------------------------------
(***************************************************************************)
(* What the host does while functions run keeps the invariant.             *)
(***************************************************************************)

\* What is so when the host is in control
LEMMA ControlIs ==
  ASSUME Inv, HostInControl
  PROVE  /\ ~freed /\ task.call = "none"
         /\ TopOf(cStack) \in {"host", "native"}
         /\ cStack \in Seq(Frame)
         /\ cStack = <<>> \/ Last(cStack).kind = "native"
         /\ FramesOK(cStack, isInRunLoop, destroyAfterUse, freed)
         /\ isInRunLoop \in BOOLEAN /\ destroyAfterUse \in BOOLEAN
         /\ freed \in BOOLEAN
         /\ CallsOK(callStack, places, modules)
         /\ ~Abandoned => InBodies(callStack, places, modules)
         /\ error \in Errors /\ answer \in Answer
<1>1. /\ ~freed /\ task.call = "none" /\ Top \in {"host", "native"}
  BY DEF HostInControl, NoTask
<1>2. Top = TopOf(cStack)
  BY DEF Top, TopOf
<1>3. FramesOK(cStack, isInRunLoop, destroyAfterUse, freed)
  BY DEF Inv, FrameInv
<1>4. cStack \in Seq(Frame)
  BY <1>3 DEF FramesOK
<1>5. cStack = <<>> \/ Last(cStack).kind = "native"
  BY <1>1, <1>2, <1>4, TopType DEF TopOf
<1> QED
  BY <1>1, <1>2, <1>3, <1>4, <1>5 DEF Inv, FrameInv, CallInv, BodyInv, LoadInv

\* The host steps.
LEMMA HostStepInv ==
  ASSUME Inv, HostStep
  PROVE  Inv'
<1> DEFINE f == Plain("step")
<1>1. /\ HostInControl /\ ~destroyAfterUse /\ ~Abandoned /\ cStack = <<>>
      /\ callStack # <<>> /\ cStack' = <<f>>
      /\ UNCHANGED <<callStack, places, isInRunLoop, destroyAfterUse, freed,
                     hostCalls>>
      /\ UNCHANGED <<plan, modules, error, task, answer, heap, lost>>
  BY DEF HostStep, HostUses, loadingVars
<1>2. f \in Frame /\ f.kind = "step"
  BY PlainIs
<1> HIDE DEF f
<1>3. cStack' = Append(cStack, f)
  BY <1>1
<1>4. FramesOK(Append(cStack, f), isInRunLoop, destroyAfterUse, freed)
  BY <1>1, <1>2, ControlIs, FramePushed
<1>5. FrameInv'
  BY <1>1, <1>3, <1>4, ControlIs, FramesKept
<1>6. LoadInv' /\ HeapAccountedFor'
  BY <1>1, ControlIs, RunKeeps DEF Reports
<1>7. CallInv'
  BY <1>1, ControlIs, RunCalls
<1>8. ~Abandoned'
  BY <1>1 DEF Abandoned
<1>9. InBodies(callStack', places', modules)
  BY <1>1, ControlIs
<1>10. BodyInv'
  BY <1>1, <1>8, <1>9, BodyGoes
<1> QED
  BY <1>5, <1>6, <1>7, <1>10 DEF Inv

\* Without calls all is in order.
LEMMA NoCalls ==
  ASSUME NEW at, NEW calls, CallsOK(calls, at, modules)
  PROVE  CallsOK(<<>>, at, modules) /\ InBodies(<<>>, at, modules)
<1>1. <<>> \in Seq(Call) /\ Len(<<>>) = 0
  BY EmptySeq
<1> QED
  BY <1>1 DEF CallsOK, InBodies

\* The host stops all calls.
LEMMA HostStopInv ==
  ASSUME Inv, HostStop
  PROVE  Inv'
<1>1. /\ HostInControl /\ callStack' = <<>>
      /\ UNCHANGED <<places, cStack, isInRunLoop, destroyAfterUse, freed,
                     hostCalls>>
      /\ UNCHANGED <<plan, modules, error, task, answer, heap, lost>>
  BY DEF HostStop, loadingVars
<1>2. TopOf(cStack') # "step"
  BY <1>1, ControlIs
<1>3. FrameInv'
  BY <1>1, <1>2, ControlIs, FramesKept
<1>4. LoadInv' /\ HeapAccountedFor'
  BY <1>1, ControlIs, RunKeeps DEF Reports
<1>5. /\ CallsOK(callStack', places', modules)
      /\ InBodies(callStack', places', modules)
  BY <1>1, ControlIs, NoCalls
<1>6. CallInv'
  BY <1>1, <1>5, ControlIs, RunCalls
<1>7. ~Abandoned'
  BY <1>1 DEF Abandoned
<1>8. BodyInv'
  BY <1>1, <1>5, <1>7, BodyGoes
<1> QED
  BY <1>3, <1>4, <1>6, <1>8 DEF Inv

\* The host destroys the context, or has it destroyed after use.
LEMMA HostDestroyInv ==
  ASSUME Inv, HostDestroy
  PROVE  Inv'
<1>1. /\ HostInControl /\ MayDestroy
      /\ UNCHANGED <<plan, modules, error, task, answer, lost>>
      /\ UNCHANGED <<places, cStack, isInRunLoop, hostCalls>>
  BY DEF HostDestroy
<1>2. FramesOK(cStack, isInRunLoop, destroyAfterUse, freed)
  BY <1>1, ControlIs
<1>3. /\ \A i \in 1..Len(cStack) : cStack[i].kind # "start"
      /\ \A i, j \in 1..Len(cStack) :
           cStack[i].kind = "loop" /\ cStack[j].kind = "loop" => i = j
      /\ (\E i \in 1..Len(cStack) : cStack[i].kind = "loop") => isInRunLoop
  BY <1>1 DEF MayDestroy, Frames
<1>4. TopOf(cStack') # "step"
  BY <1>1, ControlIs
<1>5. CASE /\ isInRunLoop /\ destroyAfterUse' = TRUE /\ callStack' = <<>>
           /\ UNCHANGED <<heap, freed>>
  <2>1. FramesOK(cStack, isInRunLoop, TRUE, freed)
    BY <1>2, <1>3 DEF FramesOK
  <2>2. FrameInv'
    BY <1>1, <1>4, <1>5, <2>1, ControlIs, FramesKept
  <2>3. LoadInv' /\ HeapAccountedFor'
    BY <1>1, <1>5, ControlIs, RunKeeps DEF Reports
  <2>4. /\ CallsOK(callStack', places', modules)
        /\ InBodies(callStack', places', modules)
    BY <1>1, <1>5, ControlIs, NoCalls
  <2>5. CallInv'
    BY <1>1, <2>4, ControlIs, RunCalls
  <2>6. ~Abandoned'
    BY <1>5 DEF Abandoned
  <2>7. BodyInv'
    BY <1>1, <2>4, <2>6, BodyGoes
  <2> QED
    BY <2>2, <2>3, <2>5, <2>7 DEF Inv
<1>6. CASE /\ ~isInRunLoop /\ heap' = heap - Owned /\ freed' = TRUE
           /\ UNCHANGED <<callStack, destroyAfterUse>>
  <2>1. FramesOK(cStack, isInRunLoop, destroyAfterUse, TRUE)
    BY <1>2, <1>3, <1>6 DEF FramesOK
  <2>2. FrameInv'
    BY <1>1, <1>4, <1>6, <2>1, ControlIs, FramesKept
  <2>3. LoadInv' /\ HeapAccountedFor'
    BY <1>1, <1>6, ControlIs, RunKeeps DEF Reports
  <2>4. CallInv'
    BY <1>1, <1>6, ControlIs, RunCalls
  <2>5. BodyInv'
    BY <1>1, <1>6, BodyGoes
  <2> QED
    BY <2>2, <2>3, <2>4, <2>5 DEF Inv
<1> QED
  BY <1>5, <1>6 DEF HostDestroy, MustWait

\* The host runs a function.
LEMMA RunFunctionInv ==
  ASSUME Inv, NEW m \in 1..Len(modules), NEW f \in Nat, RunFunction(m, f)
  PROVE  Inv'
<1>1. /\ HostInControl /\ ~destroyAfterUse /\ ~Abandoned
      /\ HostCalls /\ MayCall(m)
      /\ UNCHANGED <<plan, modules, task, heap, lost, destroyAfterUse, freed>>
  BY DEF RunFunction, HostCalls, HostUses
<1>2. LoadInv /\ CallsOK(callStack, places, modules)
  BY DEF Inv, CallInv
<1>3. CASE /\ CallRefused(m, f, places) /\ error' = Refusal(Resolution(m, f))
           /\ Told("run", m, FALSE) /\ UNCHANGED <<cStack, isInRunLoop>>
  <2>1. /\ CallsOK(callStack', places', modules)
        /\ error' \in Errors /\ error' # "none"
    BY <1>1, <1>2, <1>3, CallMade
  <2>2. TopOf(cStack') \in {"host", "native"}
    BY <1>1, <1>3, ControlIs
  <2>3. FrameInv'
    BY <1>1, <1>3, <2>2, ControlIs, FramesKept
  <2>4. answer' \in Answer
    <3>1. m \in Nat
      OBVIOUS
    <3> QED
      BY <1>3, <3>1, AnswerType
  <2>5. LoadInv' /\ HeapAccountedFor'
    BY <1>1, <2>1, <2>4, RunKeeps DEF Reports
  <2>6. CallInv'
    BY <1>1, <2>1, ControlIs, RunCalls
  <2>7. task'.call = "none" /\ Top' \in {"host", "native"}
    BY <1>1, <2>2, ControlIs DEF Top, TopOf, Last
  <2>8. BodyInv'
    BY <1>3, <2>7, BodyFails
  <2> QED
    BY <2>3, <2>5, <2>6, <2>8 DEF Inv
<1>4. CASE /\ CallNative(m, f, places)
           /\ cStack' = cStack \o <<Plain("start"), NativeFrame(m, f)>>
           /\ answer' = NoAnswer /\ UNCHANGED <<error, isInRunLoop>>
  <2> DEFINE g == Plain("start")
             h == NativeFrame(m, f)
             s == Append(cStack, g)
  <2>1. /\ CallsOK(callStack', places', modules)
        /\ InBodies(callStack', places', modules)
        /\ h \in Frame /\ h.kind = "native"
    <3>1. ~CallRefused(m, f, places)
      BY <1>4 DEF CallNative, CallRefused
    <3> QED
      BY <1>1, <1>2, <1>4, <3>1, CallMade, ControlIs
  <2>2. g \in Frame /\ g.kind = "start"
    BY PlainIs
  <2> HIDE DEF g, h
  <2>3. s \in Seq(Frame) /\ s # <<>> /\ Last(s) = g
        /\ cStack' = Append(s, h)
    <3>1. cStack \in Seq(Frame)
      BY <1>1, ControlIs
    <3>2. cStack' = cStack \o <<g, h>>
      BY <1>4 DEF g, h
    <3> QED
      BY <2>1, <2>2, <3>1, <3>2 DEF Last
  <2>4. FramesOK(s, isInRunLoop, destroyAfterUse, freed)
    BY <1>1, <2>2, ControlIs, FramePushed
  <2> HIDE DEF s
  <2>5. FramesOK(cStack', isInRunLoop', destroyAfterUse', freed')
    BY <1>1, <1>4, <2>1, <2>3, <2>4, ControlIs, FramePushed
  <2>6. TopOf(cStack') = "native"
    BY <2>1, <2>3, TopPushed
  <2>7. FrameInv'
    BY <1>1, <1>4, <2>5, <2>6, ControlIs, FramesKept
  <2>8. answer' \in Answer
    BY <1>4 DEF NoAnswer, Answer
  <2>9. LoadInv' /\ HeapAccountedFor'
    BY <1>1, <1>4, <2>8, ControlIs, RunKeeps DEF Reports
  <2>10. CallInv'
    BY <1>1, <2>1, ControlIs, RunCalls
  <2>11. ~Abandoned'
    BY <1>4 DEF Abandoned, NoAnswer
  <2>12. BodyInv'
    BY <1>1, <2>1, <2>11, BodyGoes
  <2> QED
    BY <2>7, <2>9, <2>10, <2>12 DEF Inv
<1>5. CASE /\ CallPushed(m, f, places)
           /\ cStack' = Append(cStack, Plain("loop"))
           /\ isInRunLoop' = TRUE /\ answer' = NoAnswer /\ error' = error
  <2> DEFINE g == Plain("loop")
  <2>1. /\ CallsOK(callStack', places', modules)
        /\ InBodies(callStack', places', modules)
    <3>1. ~CallRefused(m, f, places)
      BY <1>5 DEF CallPushed, CallRefused
    <3> QED
      BY <1>1, <1>2, <1>5, <3>1, CallMade, ControlIs
  <2>2. g \in Frame /\ g.kind = "loop" /\ cStack' = Append(cStack, g)
    BY <1>5, PlainIs
  <2> HIDE DEF g
  <2>3. FramesOK(cStack', isInRunLoop', destroyAfterUse', freed')
    BY <1>1, <1>5, <2>2, ControlIs, FramePushed
  <2>4. TopOf(cStack') = "loop"
    BY <1>1, <2>2, ControlIs, TopPushed
  <2>5. FrameInv'
    BY <1>1, <1>5, <2>3, <2>4, ControlIs, FramesKept
  <2>6. answer' \in Answer
    BY <1>5 DEF NoAnswer, Answer
  <2>7. LoadInv' /\ HeapAccountedFor'
    BY <1>1, <1>5, <2>6, ControlIs, RunKeeps DEF Reports
  <2>8. CallInv'
    BY <1>1, <2>1, ControlIs, RunCalls
  <2>9. ~Abandoned'
    BY <1>5 DEF Abandoned, NoAnswer
  <2>10. BodyInv'
    BY <1>1, <2>1, <2>9, BodyGoes
  <2> QED
    BY <2>5, <2>7, <2>8, <2>10 DEF Inv
<1> QED
  BY <1>3, <1>4, <1>5 DEF RunFunction

\* The host calls a function without running it.
LEMMA CallFunctionInv ==
  ASSUME Inv, NEW m \in 1..Len(modules), NEW f \in Nat, CallFunction(m, f)
  PROVE  Inv'
<1>1. /\ HostInControl /\ ~destroyAfterUse /\ ~Abandoned
      /\ HostCalls /\ MayCall(m)
      /\ UNCHANGED <<plan, modules, task, heap, lost, isInRunLoop,
                     destroyAfterUse, freed>>
  BY DEF CallFunction, HostCalls, HostUses
<1>2. LoadInv /\ CallsOK(callStack, places, modules)
  BY DEF Inv, CallInv
<1>3. CASE /\ CallRefused(m, f, places) /\ error' = Refusal(Resolution(m, f))
           /\ Told("call", m, FALSE) /\ UNCHANGED cStack
  <2>1. /\ CallsOK(callStack', places', modules)
        /\ error' \in Errors /\ error' # "none"
    BY <1>1, <1>2, <1>3, CallMade
  <2>2. TopOf(cStack') \in {"host", "native"}
    BY <1>1, <1>3, ControlIs
  <2>3. FrameInv'
    BY <1>1, <1>3, <2>2, ControlIs, FramesKept
  <2>4. answer' \in Answer
    <3>1. m \in Nat
      OBVIOUS
    <3> QED
      BY <1>3, <3>1, AnswerType
  <2>5. LoadInv' /\ HeapAccountedFor'
    BY <1>1, <2>1, <2>4, RunKeeps DEF Reports
  <2>6. CallInv'
    BY <1>1, <2>1, ControlIs, RunCalls
  <2>7. task'.call = "none" /\ Top' \in {"host", "native"}
    BY <1>1, <2>2, ControlIs DEF Top, TopOf, Last
  <2>8. BodyInv'
    BY <1>3, <2>7, BodyFails
  <2> QED
    BY <2>3, <2>5, <2>6, <2>8 DEF Inv
<1>4. CASE /\ CallNative(m, f, places)
           /\ cStack' = Append(cStack, NativeFrame(m, f))
           /\ answer' = NoAnswer /\ UNCHANGED error
  <2> DEFINE h == NativeFrame(m, f)
  <2>1. /\ CallsOK(callStack', places', modules)
        /\ InBodies(callStack', places', modules)
        /\ h \in Frame /\ h.kind = "native"
    <3>1. ~CallRefused(m, f, places)
      BY <1>4 DEF CallNative, CallRefused
    <3> QED
      BY <1>1, <1>2, <1>4, <3>1, CallMade, ControlIs
  <2>2. cStack' = Append(cStack, h)
    BY <1>4
  <2> HIDE DEF h
  <2>3. FramesOK(cStack', isInRunLoop', destroyAfterUse', freed')
    BY <1>1, <2>1, <2>2, ControlIs, FramePushed
  <2>4. TopOf(cStack') = "native"
    BY <1>1, <2>1, <2>2, ControlIs, TopPushed
  <2>5. FrameInv'
    BY <1>1, <2>3, <2>4, ControlIs, FramesKept
  <2>6. answer' \in Answer
    BY <1>4 DEF NoAnswer, Answer
  <2>7. LoadInv' /\ HeapAccountedFor'
    BY <1>1, <1>4, <2>6, ControlIs, RunKeeps DEF Reports
  <2>8. CallInv'
    BY <1>1, <2>1, ControlIs, RunCalls
  <2>9. ~Abandoned'
    BY <1>4 DEF Abandoned, NoAnswer
  <2>10. BodyInv'
    BY <1>1, <2>1, <2>9, BodyGoes
  <2> QED
    BY <2>5, <2>7, <2>8, <2>10 DEF Inv
<1>5. CASE /\ CallPushed(m, f, places) /\ Told("call", m, TRUE)
           /\ UNCHANGED <<error, cStack>>
  <2>1. /\ CallsOK(callStack', places', modules)
        /\ InBodies(callStack', places', modules)
    <3>1. ~CallRefused(m, f, places)
      BY <1>5 DEF CallPushed, CallRefused
    <3> QED
      BY <1>1, <1>2, <1>5, <3>1, CallMade, ControlIs
  <2>2. TopOf(cStack') # "step"
    BY <1>1, <1>5, ControlIs
  <2>3. FrameInv'
    BY <1>1, <1>5, <2>2, ControlIs, FramesKept
  <2>4. answer' \in Answer
    <3>1. m \in Nat
      OBVIOUS
    <3> QED
      BY <1>5, <3>1, AnswerType
  <2>5. LoadInv' /\ HeapAccountedFor'
    BY <1>1, <1>5, <2>4, ControlIs, RunKeeps DEF Reports
  <2>6. CallInv'
    BY <1>1, <2>1, ControlIs, RunCalls
  <2>7. ~Abandoned'
    BY <1>5 DEF Abandoned, Told
  <2>8. BodyInv'
    BY <1>1, <2>1, <2>7, BodyGoes
  <2> QED
    BY <2>3, <2>5, <2>6, <2>8 DEF Inv
<1> QED
  BY <1>3, <1>4, <1>5 DEF CallFunction

-----------------------------------------------------------------------------
(***************************************************************************)
(* The steps of the interpreter keep the invariant.                        *)
(***************************************************************************)

\* What is so when an instruction is about to be executed
LEMMA ExecutingIs ==
  ASSUME Inv, Executing
  PROVE  /\ TopOf(cStack) = Top /\ Top \in {"step", "loop"}
         /\ cStack \in Seq(Frame) /\ cStack # <<>> /\ Last(cStack).kind = Top
         /\ FramesOK(cStack, isInRunLoop, destroyAfterUse, freed)
         /\ isInRunLoop \in BOOLEAN /\ destroyAfterUse \in BOOLEAN
         /\ freed \in BOOLEAN
         /\ task.call = "none"
         /\ callStack # <<>>
         /\ CallsOK(callStack, places, modules)
         /\ ~freed => ~Abandoned /\ InBodies(callStack, places, modules)
         /\ error \in Errors /\ answer \in Answer
<1>1. /\ Top \in {"step", "loop"} /\ callStack # <<>>
      /\ task.call = "none"
  BY DEF Executing, Inv, FrameInv
<1>2. Top = TopOf(cStack)
  BY DEF Top, TopOf
<1>3. FramesOK(cStack, isInRunLoop, destroyAfterUse, freed)
  BY DEF Inv, FrameInv
<1>4. cStack \in Seq(Frame)
  BY <1>3 DEF FramesOK
<1>5. cStack # <<>> /\ Last(cStack).kind = Top
  BY <1>1 DEF Top
<1> QED
  BY <1>1, <1>2, <1>3, <1>4, <1>5
  DEF Inv, FrameInv, CallInv, BodyInv, LoadInv

\* FALSE is returned to the host, from its wasmu_step or its wasmu_runFunction.
LEMMA FalseReturned ==
  ASSUME Inv, task.call = "none", NEW s,
         FramesOK(s, isInRunLoop, destroyAfterUse, freed),
         s # <<>>, Last(s).kind \in {"loop", "step"},
         NEW e \in Errors, e # "none", StepReturnsFalse(s, e), StepUnchanged,
         CallsOK(callStack', places', modules)
  PROVE  Inv'
<1> DEFINE k == isInRunLoop /\ Last(s).kind = "step"
           c == IF Last(s).kind = "step" THEN "step" ELSE "run"
<1>1. /\ error' = e /\ cStack' = Front(s) /\ Told(c, 0, FALSE)
      /\ isInRunLoop' = k
      /\ UNCHANGED <<plan, modules, task, heap, lost, destroyAfterUse, freed,
                     hostCalls>>
  BY DEF StepReturnsFalse, StepUnchanged
<1>2. /\ isInRunLoop \in BOOLEAN /\ destroyAfterUse \in BOOLEAN
      /\ freed \in BOOLEAN /\ k \in BOOLEAN
      /\ k => isInRunLoop /\ Last(s).kind # "loop"
  BY DEF Inv, FrameInv
<1>3. c \in {"step", "run"}
  OBVIOUS
<1> HIDE DEF k, c
<1>4. FramesOK(cStack', isInRunLoop', destroyAfterUse', freed')
  BY <1>1, <1>2, FramePopped
<1>5. TopOf(cStack') \in {"host", "native"}
  BY <1>1, TopBelow
<1>6. FrameInv'
  BY <1>1, <1>2, <1>4, <1>5, FramesKept
<1>7. answer' \in Answer
  BY <1>1, <1>3, AnswerType
<1>8. Reports
  BY <1>1, <1>7 DEF Reports
<1>9. LoadInv' /\ HeapAccountedFor'
  BY <1>1, <1>8, RunKeeps
<1>10. CallInv'
  BY <1>1, RunCalls
<1>11. Top' \in {"host", "native"} /\ task'.call = "none"
  BY <1>1, <1>5 DEF Top, TopOf, Last
<1>12. BodyInv'
  BY <1>1, <1>3, <1>11, BodyFails
<1> QED
  BY <1>6, <1>9, <1>10, <1>12 DEF Inv

\* TRUE is returned to the host, or to the loop.
LEMMA TrueReturned ==
  ASSUME Inv, Executing, StepReturnsTrue, StepUnchanged,
         CallsOK(callStack', places', modules),
         ~freed => InBodies(callStack', places', modules)
  PROVE  Inv'
<1>1. /\ error' = error /\ isInRunLoop' = isInRunLoop
      /\ UNCHANGED <<plan, modules, task, heap, lost, destroyAfterUse, freed,
                     hostCalls>>
  BY DEF StepReturnsTrue, StepUnchanged
<1>2. CASE Top = "step"
  <2>1. cStack' = Front(cStack) /\ Told("step", 0, TRUE)
    BY <1>2 DEF StepReturnsTrue
  <2>2. Last(cStack).kind = "step"
    BY <1>2, ExecutingIs
  <2>3. FramesOK(cStack', isInRunLoop', destroyAfterUse', freed')
    BY <1>1, <2>1, <2>2, ExecutingIs, FramePopped
  <2>4. TopOf(cStack') \in {"host", "native"}
    BY <2>1, <2>2, ExecutingIs, TopBelow
  <2>5. FrameInv'
    BY <1>1, <2>3, <2>4, ExecutingIs, FramesKept
  <2>6. answer' \in Answer
    BY <2>1, AnswerType
  <2>7. LoadInv' /\ HeapAccountedFor'
    BY <1>1, <2>6, ExecutingIs, RunKeeps DEF Reports
  <2>8. CallInv'
    BY <1>1, ExecutingIs, RunCalls
  <2>9. ~Abandoned'
    BY <2>1 DEF Abandoned, Told
  <2>10. BodyInv'
    BY <1>1, <2>9, BodyGoes
  <2> QED
    BY <2>5, <2>7, <2>8, <2>10 DEF Inv
<1>3. CASE Top = "loop"
  <2>1. cStack' = cStack /\ answer' = answer
    BY <1>3 DEF StepReturnsTrue
  <2>2. TopOf(cStack') # "step"
    BY <1>3, <2>1, ExecutingIs
  <2>3. FrameInv'
    BY <1>1, <2>1, <2>2, ExecutingIs, FramesKept
  <2>4. LoadInv' /\ HeapAccountedFor'
    BY <1>1, <2>1, ExecutingIs, RunKeeps DEF Reports
  <2>5. CallInv'
    BY <1>1, ExecutingIs, RunCalls
  <2>6. ~freed => ~Abandoned'
    BY <2>1, ExecutingIs DEF Abandoned
  <2>7. BodyInv'
    BY <1>1, <2>6, BodyGoes
  <2> QED
    BY <2>3, <2>4, <2>5, <2>7 DEF Inv
<1> QED
  BY <1>2, <1>3, ExecutingIs

\* There is an error, and nothing is executed.
LEMMA StepFailsInv ==
  ASSUME Inv, StepAfterOverrun \/ StepWithoutBody \/ StepPastEnd
  PROVE  Inv'
<1>1. Executing /\ StepUnchanged /\ UNCHANGED <<callStack, places>>
  BY DEF StepAfterOverrun, StepWithoutBody, StepPastEnd, AtInstruction
<1>2. PICK e \in Errors : e # "none" /\ StepReturnsFalse(cStack, e)
  <2>1. CASE StepAfterOverrun \/ StepPastEnd
    <3>1. StepReturnsFalse(cStack, "memory_oob")
      BY <2>1 DEF StepAfterOverrun, StepPastEnd
    <3> QED
      BY <3>1 DEF Errors
  <2>2. CASE StepWithoutBody
    <3>1. StepReturnsFalse(cStack, "reached_unreachable")
      BY <2>2 DEF StepWithoutBody
    <3> QED
      BY <3>1 DEF Errors
  <2> QED
    BY <2>1, <2>2
<1>3. /\ task.call = "none" /\ cStack # <<>>
      /\ Last(cStack).kind \in {"loop", "step"}
      /\ FramesOK(cStack, isInRunLoop, destroyAfterUse, freed)
      /\ CallsOK(callStack', places', modules)
  BY <1>1, ExecutingIs
<1> QED
  BY <1>1, <1>2, <1>3, FalseReturned

\* The module of the innermost call is there, and where it is too.
LEMMA RunningIs ==
  ASSUME Inv, Executing
  PROVE  /\ Running \in 1..Len(modules)
         /\ Running \in 1..Len(plan)
         /\ MayCall(Running)
         /\ Len(callStack) \in Nat \ {0}
         /\ Running = callStack[Len(callStack)].module
         /\ Here = places[Running] /\ Here \in Place
         /\ Here.item <= Len(modules[Running].binary.items)
<1>1. callStack # <<>> /\ CallsOK(callStack, places, modules)
  BY ExecutingIs
<1>2. callStack \in Seq(Call)
  BY <1>1 DEF CallsOK
<1>3. /\ Len(callStack) \in Nat \ {0}
      /\ Last(callStack) = callStack[Len(callStack)]
  BY <1>1, <1>2, FrontIs
<1>4. Len(callStack) \in 1..Len(callStack)
  BY <1>3
<1>5. Running = callStack[Len(callStack)].module
  BY <1>3 DEF Running
<1>6. Running \in 1..Len(modules)
  BY <1>1, <1>4, <1>5 DEF CallsOK
<1>7. Running \in 1..Len(plan)
  <2>1. Len(plan) \in Nat /\ Len(modules) \in Nat /\ Len(modules) <= Len(plan)
    BY PlanLengths DEF Inv
  <2> QED
    BY <1>6, <2>1
<1>8. Here \in Place /\ Here.item <= Len(modules[Running].binary.items)
  BY <1>1, <1>6, <1>7 DEF Here, CallsOK
<1> QED
  BY <1>3, <1>5, <1>6, <1>7, <1>8 DEF MayCall, Running, Here

\* The index that a call instruction has is a number.
LEMMA IndexIs ==
  ASSUME Inv, AtInstruction, Here.done < Len(Body.list)
  PROVE  Body.list[Here.done + 1] \in Nat
<1>1. /\ Running \in 1..Len(modules) /\ Here \in Place
      /\ Here.item <= Len(modules[Running].binary.items) /\ Here.item # 0
  BY RunningIs DEF AtInstruction
<1>2. modules[Running] \in Module
  BY <1>1, ElementOfSeq DEF Inv, LoadInv
<1>3. Here.item \in 1..Len(modules[Running].binary.items)
  <2>1. Here.item \in Nat
    BY <1>1 DEF Place
  <2>2. Len(modules[Running].binary.items) \in Nat
    BY <1>2, LenProperties DEF Module, Binary
  <2> QED
    BY <1>1, <2>1, <2>2
<1>4. Body.list \in Seq(Nat)
  <2>1. Body \in Item
    BY <1>2, <1>3, ItemType DEF Body
  <2> QED
    BY <2>1 DEF Item
<1>5. Here.done + 1 \in 1..Len(Body.list)
  <2>1. Here.done \in Nat
    BY <1>1 DEF Place
  <2>2. Len(Body.list) \in Nat
    BY <1>4, LenProperties
  <2> QED
    BY <2>1, <2>2
<1> QED
  BY <1>4, <1>5, ElementOfSeq

\* An instruction calls a function.
LEMMA StepCallInv ==
  ASSUME Inv, StepCall
  PROVE  Inv'
<1> DEFINE f  == Body.list[Here.done + 1]
           p  == [Here EXCEPT !.done = @ + 1]
           at == [places EXCEPT ![Running].done = @ + 1]
<1>1. /\ Executing /\ Here.item # 0 /\ Here.done < Len(Body.list)
      /\ StepUnchanged
      /\ \/ /\ CallRefused(Running, f, at)
            /\ StepReturnsFalse(cStack, "invalid_index")
         \/ CallPushed(Running, f, at) /\ StepReturnsTrue
         \/ /\ CallNative(Running, f, at)
            /\ cStack' = Append(cStack, NativeFrame(Running, f))
            /\ UNCHANGED <<error, answer, isInRunLoop>>
  BY DEF StepCall, AtInstruction
<1>2. /\ Running \in 1..Len(modules) /\ MayCall(Running)
      /\ Here \in Place /\ Here.item <= Len(modules[Running].binary.items)
      /\ Here = places[Running] /\ Running \in 1..Len(plan)
  BY <1>1, RunningIs
<1>3. f \in Nat
  <2>1. AtInstruction /\ Here.done < Len(Body.list)
    BY DEF StepCall
  <2> QED
    BY <2>1, IndexIs
<1>4. p \in Place /\ p.item = Here.item
  BY <1>2 DEF Place
<1>5. at = [places EXCEPT ![Running] = p]
  BY <1>2
<1> HIDE DEF p, at, f
<1>6. CallsOK(callStack, at, modules)
  BY <1>1, <1>2, <1>4, <1>5, ExecutingIs, MovedIs
<1>7. ~freed => InBodies(callStack, at, modules)
  <2>1. CallsOK(callStack, places, modules)
    BY <1>1, ExecutingIs
  <2>2. ASSUME NEW i \in 1..Len(callStack)
        PROVE  PlaceOf(callStack, at, i).item
                 = PlaceOf(callStack, places, i).item
    <3>1. CASE i = Len(callStack)
      <4>1. callStack[i].module = Running
        BY <1>1, <3>1, RunningIs
      <4>2. at[Running] = p
        BY <1>2, <1>5, <2>1 DEF CallsOK
      <4> QED
        BY <1>2, <1>4, <3>1, <4>1, <4>2 DEF PlaceOf
    <3>2. CASE i # Len(callStack)
      BY <3>2 DEF PlaceOf
    <3> QED
      BY <3>1, <3>2
  <2>3. ~freed => InBodies(callStack, places, modules)
    BY <1>1, ExecutingIs
  <2> QED
    BY <2>2, <2>3 DEF InBodies
<1>8. LoadInv
  BY DEF Inv
<1>9. CASE /\ CallRefused(Running, f, at)
           /\ StepReturnsFalse(cStack, "invalid_index")
  <2>1. CallsOK(callStack', places', modules)
    BY <1>2, <1>3, <1>6, <1>8, <1>9, CallMade
  <2>2. "invalid_index" \in Errors
    BY DEF Errors
  <2>3. /\ task.call = "none" /\ cStack # <<>>
        /\ Last(cStack).kind \in {"loop", "step"}
        /\ FramesOK(cStack, isInRunLoop, destroyAfterUse, freed)
    BY <1>1, ExecutingIs
  <2> QED
    BY <1>1, <1>9, <2>1, <2>2, <2>3, FalseReturned
<1>10. CASE CallPushed(Running, f, at) /\ StepReturnsTrue
  <2>1. ~CallRefused(Running, f, at)
    BY <1>10 DEF CallPushed, CallRefused
  <2>2. /\ CallsOK(callStack', places', modules)
        /\ ~freed => InBodies(callStack', places', modules)
    BY <1>2, <1>3, <1>6, <1>7, <1>8, <1>10, <2>1, CallMade
  <2> QED
    BY <1>1, <1>10, <2>2, TrueReturned
<1>11. CASE /\ CallNative(Running, f, at)
            /\ cStack' = Append(cStack, NativeFrame(Running, f))
            /\ UNCHANGED <<error, answer, isInRunLoop>>
  <2> DEFINE h == NativeFrame(Running, f)
  <2>1. ~CallRefused(Running, f, at)
    BY <1>11 DEF CallNative, CallRefused
  <2>2. /\ CallsOK(callStack', places', modules)
        /\ ~freed => InBodies(callStack', places', modules)
        /\ h \in Frame /\ h.kind = "native"
    BY <1>2, <1>3, <1>6, <1>7, <1>8, <1>11, <2>1, CallMade
  <2>3. cStack' = Append(cStack, h)
    BY <1>11
  <2> HIDE DEF h
  <2>4. UNCHANGED <<plan, modules, task, heap, lost, destroyAfterUse, freed,
                    hostCalls>>
    BY <1>1 DEF StepUnchanged
  <2>5. FramesOK(cStack', isInRunLoop', destroyAfterUse', freed')
    BY <1>1, <1>11, <2>2, <2>3, <2>4, ExecutingIs, FramePushed
  <2>6. TopOf(cStack') = "native"
    BY <1>1, <2>2, <2>3, ExecutingIs, TopPushed
  <2>7. FrameInv'
    BY <1>1, <1>11, <2>4, <2>5, <2>6, ExecutingIs, FramesKept
  <2>8. LoadInv' /\ HeapAccountedFor'
    BY <1>1, <1>11, <2>4, ExecutingIs, RunKeeps DEF Reports
  <2>9. CallInv'
    BY <1>1, <2>2, <2>4, ExecutingIs, RunCalls
  <2>10. ~freed => ~Abandoned'
    <3>1. callStack' = callStack
      BY <1>11 DEF CallNative
    <3> QED
      BY <1>1, <1>11, <3>1, ExecutingIs DEF Abandoned
  <2>11. BodyInv'
    BY <2>2, <2>4, <2>10, BodyGoes
  <2> QED
    BY <2>7, <2>8, <2>9, <2>11 DEF Inv
<1> QED
  BY <1>1, <1>9, <1>10, <1>11

\* A function returns, and its caller goes on where it was.
LEMMA StepReturnInv ==
  ASSUME Inv, StepReturn
  PROVE  Inv'
<1> DEFINE calls == Front(callStack)
<1>1. /\ Executing /\ StepReturnsTrue /\ StepUnchanged
      /\ callStack' = calls
      /\ places' = IF calls = <<>> THEN places
                   ELSE [places EXCEPT
                           ![Last(calls).module] = Last(calls).place]
  BY DEF StepReturn, AtInstruction
<1>2. CallsOK(callStack, places, modules) /\ callStack # <<>>
  BY <1>1, ExecutingIs
<1>3. /\ calls \in Seq(Call) /\ Len(callStack) \in Nat \ {0}
      /\ Len(calls) = Len(callStack) - 1
      /\ \A i \in 1..(Len(callStack) - 1) : calls[i] = callStack[i]
  <2>1. callStack \in Seq(Call)
    BY <1>2 DEF CallsOK
  <2> QED
    BY <1>2, <2>1, FrontIs
<1> HIDE DEF calls
<1>4. \A i \in 1..Len(calls) :
        i \in 1..Len(callStack) /\ calls[i] = callStack[i]
  BY <1>3
<1>5. CallsOK(calls, places, modules)
  BY <1>2, <1>3, <1>4 DEF CallsOK
<1>6. ~freed => InBodies(callStack, places, modules)
  BY <1>1, ExecutingIs
<1>7. /\ CallsOK(callStack', places', modules)
      /\ ~freed => InBodies(callStack', places', modules)
  <2>1. CASE calls = <<>>
    BY <1>1, <1>5, <2>1, NoCalls
  <2>2. CASE calls # <<>>
    <3> DEFINE c == Last(calls)
               n == Len(calls)
    <3>1. n \in 1..n /\ c = calls[n] /\ c \in Call
      BY <1>3, <2>2, FrontIs
    <3>2. /\ c.module \in 1..Len(modules)
          /\ c.place.item <= Len(modules[c.module].binary.items)
      BY <1>5, <3>1 DEF CallsOK
    <3>3. c.place \in Place
      BY <3>1 DEF Call
    <3>4. places' = [places EXCEPT ![c.module] = c.place]
      BY <1>1, <2>2
    <3> HIDE DEF c, n
    <3>5. CallsOK(calls, places', modules)
      BY <1>5, <3>2, <3>3, <3>4, MovedIs
    <3>6. places'[c.module] = c.place
      <4>1. c.module \in 1..Len(plan)
        <5>1. Len(plan) \in Nat /\ Len(modules) \in Nat
              /\ Len(modules) <= Len(plan)
          BY PlanLengths DEF Inv
        <5> QED
          BY <3>2, <5>1
      <4> QED
        BY <1>5, <3>4, <4>1 DEF CallsOK
    <3>7. ASSUME NEW i \in 1..Len(calls)
          PROVE  PlaceOf(calls, places', i) = PlaceOf(callStack, places, i)
      <4>1. i # Len(callStack) /\ calls[i] = callStack[i]
        BY <1>3
      <4>2. CASE i = n
        BY <3>1, <3>6, <4>1, <4>2 DEF PlaceOf, n
      <4>3. CASE i # n
        BY <4>1, <4>3 DEF PlaceOf, n
      <4> QED
        BY <4>2, <4>3
    <3>8. ~freed => InBodies(calls, places', modules)
      BY <1>4, <1>6, <3>7 DEF InBodies
    <3> QED
      BY <1>1, <3>5, <3>8
  <2> QED
    BY <2>1, <2>2
<1> QED
  BY <1>1, <1>7, TrueReturned

\* The loop of wasmu_runFunction ends: if the context is freed then, there is no
\* other loop.
LEMMA LoopEndInv ==
  ASSUME Inv, LoopEnd
  PROVE  Inv'
<1>1. /\ Top = "loop" /\ callStack = <<>> /\ cStack' = Front(cStack)
      /\ isInRunLoop' = FALSE /\ Told("run", 0, TRUE)
      /\ freed' = destroyAfterUse
      /\ heap' = IF destroyAfterUse THEN heap - Owned ELSE heap
      /\ UNCHANGED <<plan, modules, error, task, lost, callStack, places,
                     destroyAfterUse, hostCalls>>
  BY DEF LoopEnd, DestroysAtEnd
<1>2. /\ isInRunLoop \in BOOLEAN /\ destroyAfterUse \in BOOLEAN
      /\ freed \in BOOLEAN /\ task.call = "none"
      /\ FramesOK(cStack, isInRunLoop, destroyAfterUse, freed)
      /\ CallsOK(callStack, places, modules)
      /\ error \in Errors
  BY <1>1 DEF Inv, FrameInv, CallInv, LoadInv
<1>3. cStack # <<>> /\ Last(cStack).kind = "loop" /\ cStack \in Seq(Frame)
  BY <1>1, <1>2 DEF Top, FramesOK
<1>4. /\ Front(cStack) \in Seq(Frame) /\ Len(cStack) \in Nat \ {0}
      /\ Len(Front(cStack)) = Len(cStack) - 1
      /\ \A i \in 1..(Len(cStack) - 1) : Front(cStack)[i] = cStack[i]
      /\ Last(cStack) = cStack[Len(cStack)]
  BY <1>3, FrontIs
<1>5. Len(cStack) \in 1..Len(cStack) /\ cStack[Len(cStack)].kind = "loop"
  BY <1>3, <1>4
<1>6. ~freed
  BY <1>2, <1>5 DEF FramesOK
<1>7. FramesOK(Front(cStack), FALSE, destroyAfterUse, freed)
  BY <1>2, <1>3, FramePopped
<1>8. FramesOK(cStack', isInRunLoop', destroyAfterUse', freed')
  <2>1. ASSUME destroyAfterUse, NEW i \in 1..Len(Front(cStack))
        PROVE  Front(cStack)[i].kind # "start" /\ Front(cStack)[i].kind # "loop"
    <3>1. /\ i \in 1..Len(cStack) /\ i # Len(cStack)
          /\ Front(cStack)[i] = cStack[i]
      BY <1>4
    <3> QED
      BY <1>2, <1>5, <2>1, <3>1 DEF FramesOK
  <2>2. FramesOK(Front(cStack), FALSE, destroyAfterUse, destroyAfterUse)
    BY <1>7, <2>1 DEF FramesOK
  <2> QED
    BY <1>1, <2>2
<1>9. TopOf(cStack') # "step"
  BY <1>1, <1>2, <1>3, TopBelow
<1>10. FrameInv'
  BY <1>1, <1>2, <1>8, <1>9, FramesKept
<1>11. answer' \in Answer
  BY <1>1, AnswerType
<1>12. \/ heap' = heap /\ freed' = freed
       \/ ~freed /\ freed' = TRUE /\ heap' = heap - Owned
  BY <1>1, <1>2, <1>6
<1>13. LoadInv' /\ HeapAccountedFor'
  BY <1>1, <1>2, <1>11, <1>12, RunKeeps DEF Reports
<1>14. CallInv'
  BY <1>1, <1>2, RunCalls
<1>15. BodyInv'
  <2>1. InBodies(callStack', places', modules)
    BY <1>1, <1>2, NoCalls
  <2>2. ~Abandoned'
    BY <1>1 DEF Abandoned
  <2> QED
    BY <1>1, <2>1, <2>2, BodyGoes
<1> QED
  BY <1>10, <1>13, <1>14, <1>15 DEF Inv

\* A host function returns.
LEMMA NativeReturnsInv ==
  ASSUME Inv, NEW ok \in BOOLEAN, NativeReturns(ok)
  PROVE  Inv'
<1> DEFINE s    == Front(cStack)
           kind == TopOf(s)
<1>1. /\ Top = "native" /\ task = NoTask
      /\ freed => ok
      /\ Abandoned /\ ~freed => ~ok
      /\ UNCHANGED <<plan, modules, task, heap, lost, callStack, places,
                     destroyAfterUse, freed, hostCalls>>
      /\ \/ /\ kind = "start" /\ ok
            /\ cStack' = Append(Front(s), Plain("loop"))
            /\ isInRunLoop' = TRUE
            /\ UNCHANGED <<error, answer>>
         \/ /\ kind = "start" /\ ~ok /\ cStack' = Front(s)
            /\ Told("run", 0, FALSE) /\ UNCHANGED <<error, isInRunLoop>>
         \/ /\ kind = "loop" /\ ok /\ cStack' = s
            /\ UNCHANGED <<error, answer, isInRunLoop>>
         \/ /\ kind = "step" /\ ok /\ cStack' = Front(s)
            /\ Told("step", 0, TRUE) /\ UNCHANGED <<error, isInRunLoop>>
         \/ /\ kind \in {"loop", "step"} /\ ~ok
            /\ StepReturnsFalse(s, "invalid_index")
         \/ /\ kind \in {"host", "native"} /\ cStack' = s
            /\ Told("call", 0, ok) /\ UNCHANGED <<error, isInRunLoop>>
  BY DEF NativeReturns, TopOf
<1>2. /\ isInRunLoop \in BOOLEAN /\ destroyAfterUse \in BOOLEAN
      /\ freed \in BOOLEAN /\ task.call = "none"
      /\ FramesOK(cStack, isInRunLoop, destroyAfterUse, freed)
      /\ CallsOK(callStack, places, modules)
      /\ error \in Errors /\ answer \in Answer
  BY <1>1 DEF Inv, FrameInv, CallInv, LoadInv, NoTask
<1>3. cStack # <<>> /\ Last(cStack).kind = "native" /\ cStack \in Seq(Frame)
  BY <1>1, <1>2 DEF Top, FramesOK
<1>4. FramesOK(s, isInRunLoop, destroyAfterUse, freed)
  BY <1>2, <1>3, FramePopped
<1>5. s \in Seq(Frame)
  BY <1>4 DEF FramesOK
<1> HIDE DEF s
<1>6. ASSUME kind \notin {"host"}
      PROVE  s # <<>> /\ Last(s).kind = kind
  BY <1>6 DEF TopOf
<1>7. ~freed /\ ~Abandoned => InBodies(callStack, places, modules)
  BY DEF Inv, BodyInv
<1>8. CallInv'
  BY <1>1, <1>2, RunCalls
<1> HIDE DEF kind
<1>9. ASSUME ok,
             answer' = answer \/ Told("call", 0, TRUE) \/ Told("step", 0, TRUE)
      PROVE  BodyInv'
  <2>1. ~freed => ~Abandoned /\ InBodies(callStack', places', modules)
    BY <1>1, <1>7, <1>9
  <2>2. ~freed => ~Abandoned'
    <3>1. CASE answer' = answer
      BY <1>1, <2>1, <3>1 DEF Abandoned
    <3>2. CASE Told("call", 0, TRUE) \/ Told("step", 0, TRUE)
      BY <3>2 DEF Abandoned, Told
    <3> QED
      BY <1>9, <3>1, <3>2
  <2> QED
    BY <1>1, <2>1, <2>2, BodyGoes
<1>10. ASSUME error' = error, answer' \in Answer
       PROVE  LoadInv' /\ HeapAccountedFor'
  BY <1>1, <1>2, <1>10, RunKeeps DEF Reports
<1>11. CASE /\ kind = "start" /\ ok
            /\ cStack' = Append(Front(s), Plain("loop"))
            /\ isInRunLoop' = TRUE
            /\ UNCHANGED <<error, answer>>
  <2> DEFINE g == Plain("loop")
             r == Front(s)
  <2>1. s # <<>> /\ Last(s).kind = "start"
    BY <1>6, <1>11
  <2>2. FramesOK(r, isInRunLoop, destroyAfterUse, freed)
    BY <1>2, <1>4, <2>1, FramePopped
  <2>3. TopOf(r) \in {"host", "native"}
    BY <1>4, <2>1, TopBelow
  <2>4. r \in Seq(Frame)
    BY <2>2 DEF FramesOK
  <2>5. g \in Frame /\ g.kind = "loop" /\ cStack' = Append(r, g)
    BY <1>11, PlainIs
  <2> HIDE DEF g, r
  <2>6. r = <<>> \/ Last(r).kind = "native"
    BY <2>3, <2>4, TopType DEF TopOf
  <2>7. ~destroyAfterUse /\ ~freed
    <3>1. Len(s) \in Nat \ {0} /\ Last(s) = s[Len(s)]
      BY <1>5, <2>1, FrontIs
    <3>2. Len(s) \in 1..Len(s) /\ s[Len(s)].kind = "start"
      BY <2>1, <3>1
    <3> QED
      BY <1>4, <3>2 DEF FramesOK
  <2>8. FramesOK(cStack', isInRunLoop', destroyAfterUse', freed')
    BY <1>1, <1>2, <1>11, <2>2, <2>5, <2>6, <2>7, FramePushed
  <2>9. TopOf(cStack') = "loop"
    BY <2>4, <2>5, TopPushed
  <2>10. FrameInv'
    BY <1>1, <1>2, <1>11, <2>8, <2>9, FramesKept
  <2> QED
    BY <1>2, <1>8, <1>9, <1>10, <1>11, <2>10 DEF Inv
<1>12. CASE \/ /\ kind = "start" /\ ~ok /\ cStack' = Front(s)
               /\ Told("run", 0, FALSE) /\ UNCHANGED <<error, isInRunLoop>>
            \/ /\ kind = "step" /\ ok /\ cStack' = Front(s)
               /\ Told("step", 0, TRUE) /\ UNCHANGED <<error, isInRunLoop>>
  <2>1. s # <<>> /\ Last(s).kind \in {"start", "step"}
    BY <1>6, <1>12
  <2>2. cStack' = Front(s) /\ UNCHANGED <<error, isInRunLoop>>
    BY <1>12
  <2>3. FramesOK(cStack', isInRunLoop', destroyAfterUse', freed')
    BY <1>1, <1>2, <1>4, <2>1, <2>2, FramePopped
  <2>4. TopOf(cStack') \in {"host", "native"}
    BY <1>4, <2>1, <2>2, TopBelow
  <2>5. FrameInv'
    BY <1>1, <1>2, <2>2, <2>3, <2>4, FramesKept
  <2>6. answer' \in Answer
    BY <1>12, AnswerType
  <2>7. BodyInv'
    <3>1. CASE ok
      BY <1>9, <1>12, <3>1
    <3>2. CASE ~ok
      <4>1. Told("run", 0, FALSE)
        BY <1>12, <3>2
      <4>2. Top' \in {"host", "native"} /\ task'.call = "none"
        BY <1>1, <1>2, <2>4 DEF Top, TopOf, Last
      <4> QED
        BY <4>1, <4>2, BodyFails
    <3> QED
      BY <3>1, <3>2
  <2> QED
    BY <1>8, <1>10, <2>2, <2>5, <2>6, <2>7 DEF Inv
<1>13. CASE /\ kind = "loop" /\ ok /\ cStack' = s
            /\ UNCHANGED <<error, answer, isInRunLoop>>
  <2>1. FramesOK(cStack', isInRunLoop', destroyAfterUse', freed')
    BY <1>1, <1>4, <1>13
  <2>2. TopOf(cStack') # "step"
    BY <1>13 DEF kind
  <2>3. FrameInv'
    BY <1>1, <1>2, <1>13, <2>1, <2>2, FramesKept
  <2> QED
    BY <1>2, <1>8, <1>9, <1>10, <1>13, <2>3 DEF Inv
<1>14. CASE /\ kind \in {"loop", "step"} /\ ~ok
            /\ StepReturnsFalse(s, "invalid_index")
  <2>1. s # <<>> /\ Last(s).kind \in {"loop", "step"}
    BY <1>6, <1>14
  <2>2. StepUnchanged
    BY <1>1 DEF StepUnchanged
  <2>3. "invalid_index" \in Errors
    BY DEF Errors
  <2>4. CallsOK(callStack', places', modules)
    BY <1>1, <1>2
  <2> QED
    BY <1>2, <1>4, <1>14, <2>1, <2>2, <2>3, <2>4, FalseReturned
<1>15. CASE /\ kind \in {"host", "native"} /\ cStack' = s
            /\ Told("call", 0, ok) /\ UNCHANGED <<error, isInRunLoop>>
  <2>1. FramesOK(cStack', isInRunLoop', destroyAfterUse', freed')
    BY <1>1, <1>4, <1>15
  <2>2. TopOf(cStack') \in {"host", "native"}
    BY <1>15 DEF kind
  <2>3. FrameInv'
    BY <1>1, <1>2, <1>15, <2>1, <2>2, FramesKept
  <2>4. answer' \in Answer
    BY <1>15, AnswerType
  <2>5. BodyInv'
    <3>1. CASE ok
      <4>1. Told("call", 0, TRUE)
        BY <1>15, <3>1
      <4> QED
        BY <1>9, <3>1, <4>1
    <3>2. CASE ~ok
      <4>1. Told("call", 0, FALSE)
        BY <1>15, <3>2
      <4>2. Top' \in {"host", "native"} /\ task'.call = "none"
        BY <1>1, <1>2, <2>2 DEF Top, TopOf, Last
      <4> QED
        BY <4>1, <4>2, BodyFails
    <3> QED
      BY <3>1, <3>2
  <2> QED
    BY <1>8, <1>10, <1>15, <2>3, <2>4, <2>5 DEF Inv
<1> QED
  BY <1>1, <1>11, <1>12, <1>13, <1>14, <1>15

-----------------------------------------------------------------------------
(***************************************************************************)
(* The theorems.                                                           *)
(***************************************************************************)

\* The invariant holds at first.
LEMMA InitInv ==
  ASSUME Init
  PROVE  Inv
<1>1. /\ LoadInv /\ heap = lost + Owned
      /\ callStack = <<>> /\ cStack = <<>> /\ ~freed
      /\ freed = FALSE /\ isInRunLoop = FALSE /\ destroyAfterUse = FALSE
      /\ places = [m \in 1..Len(plan) |-> [item |-> 0, done |-> 0]]
      /\ hostCalls = MaxHostCalls
  BY LoadingInitKeeps DEF Init
<1>2. modules = <<>> /\ task = NoTask
  BY DEF Init, LoadingInit
<1>3. /\ Len(callStack) = 0 /\ Len(cStack) = 0 /\ Len(modules) = 0
      /\ callStack \in Seq(Call) /\ cStack \in Seq(Frame)
  BY <1>1, <1>2, EmptySeq
<1>4. HeapAccountedFor
  BY <1>1 DEF HeapAccountedFor
<1>5. FrameInv
  <2>1. FramesOK(cStack, FALSE, FALSE, FALSE)
    BY <1>3 DEF FramesOK
  <2>2. task.call = "none" /\ Top = "host"
    BY <1>1, <1>2 DEF NoTask, Top
  <2> QED
    BY <1>1, <2>1, <2>2 DEF FrameInv
<1>6. CallsOK(callStack, places, modules)
  <2>1. /\ places \in [1..Len(plan) -> Place]
        /\ \A m \in 1..Len(plan) : places[m].item = 0
    BY <1>1 DEF Place
  <2> QED
    BY <1>3, <2>1 DEF CallsOK
<1>7. CallInv
  BY <1>1, <1>2, <1>3, <1>6, LifecycleAssumption DEF CallInv, NoTask
<1>8. BodyInv
  BY <1>1, <1>3 DEF BodyInv, Abandoned, InBodies
<1> QED
  BY <1>1, <1>4, <1>5, <1>7, <1>8 DEF Inv

\* What the host does keeps it.
LEMMA HostNextInv ==
  ASSUME Inv, HostNext
  PROVE  Inv'
<1>1. CASE HostSetUp \/ HostStep \/ HostStop \/ HostDestroy
  BY <1>1, HostSetUpInv, HostStepInv, HostStopInv, HostDestroyInv
<1>2. ASSUME NEW m \in 1..Len(modules), HostLink(m)
      PROVE  Inv'
  BY <1>2, HostLinkInv
<1>3. ASSUME NEW m \in 1..Len(modules),
             NEW e \in 1..Len(modules[m].exports), NEW f,
             f = ExportIndex(m, modules[m].exports[e].name),
             modules[m].exports[e].isFunction,
             RunFunction(m, f) \/ CallFunction(m, f)
      PROVE  Inv'
  <2> DEFINE named == ExportsNamed(m, modules[m].exports[e].name)
  <2>1. named \subseteq Nat /\ e \in named
    BY <1>3 DEF ExportsNamed
  <2>2. First(named) \in named
    BY <2>1, FirstIs
  <2>3. First(named) \in 1..Len(modules[m].exports)
    BY <2>2 DEF ExportsNamed
  <2>4. modules[m].exports \in Seq(Export)
    <3>1. modules[m] \in Module
      BY ElementOfSeq DEF Inv, LoadInv
    <3> QED
      BY <3>1 DEF Module
  <2>5. f = modules[m].exports[First(named)].index
    BY <1>3 DEF ExportIndex
  <2> HIDE DEF named
  <2>6. f \in Nat
    <3>1. modules[m].exports[First(named)] \in Export
      BY <2>3, <2>4, ElementOfSeq
    <3> QED
      BY <2>5, <3>1 DEF Export
  <2> QED
    BY <1>3, <2>6, RunFunctionInv, CallFunctionInv
<1> QED
  BY <1>1, <1>2, <1>3 DEF HostNext

\* Every step keeps the invariant.
LEMMA NextInv ==
  ASSUME Inv, [Next]_vars
  PROVE  Inv'
<1>1. CASE HostNext
  BY <1>1, HostNextInv
<1>2. CASE LibraryNext
  <2>1. CASE LoadingStep /\ UNCHANGED runVars
    BY <2>1, LoadingStepInv
  <2>2. CASE StepAfterOverrun \/ StepWithoutBody \/ StepPastEnd
    BY <2>2, StepFailsInv
  <2> QED
    BY <1>2, <2>1, <2>2, StepCallInv, StepReturnInv, LoopEndInv DEF LibraryNext
<1>3. CASE NativeEnds
  BY <1>3, NativeReturnsInv DEF NativeEnds
<1>4. CASE UNCHANGED vars
  <2>1. /\ UNCHANGED <<plan, modules, error, task, answer, heap, lost>>
        /\ UNCHANGED <<callStack, places, cStack, isInRunLoop, destroyAfterUse,
                       freed, hostCalls>>
    BY <1>4 DEF vars, loadingVars, runVars
  <2>2. LoadInv'
    BY <2>1 DEF Inv, LoadInv, Current
  <2>3. Owned' = Owned
    BY <2>1, OwnedIs
  <2>4. HeapAccountedFor'
    BY <2>1, <2>3 DEF Inv, HeapAccountedFor
  <2>5. FrameInv'
    <3>1. Top' = Top
      BY <2>1 DEF Top, Last
    <3>2. FramesOK(cStack, isInRunLoop, destroyAfterUse, freed)'
      BY <2>1 DEF Inv, FrameInv, FramesOK
    <3> QED
      BY <2>1, <3>1, <3>2 DEF Inv, FrameInv
  <2>6. CallsOK(callStack, places, modules)'
    BY <2>1 DEF Inv, CallInv, CallsOK
  <2>7. CallInv'
    BY <2>1, <2>6 DEF Inv, CallInv
  <2>8. BodyInv'
    <3>1. /\ Top' = Top /\ (Abandoned' <=> Abandoned)
          /\ InBodies(callStack, places, modules)
               => InBodies(callStack, places, modules)'
      BY <2>1 DEF Top, Last, Abandoned, InBodies, PlaceOf
    <3> QED
      BY <2>1, <3>1 DEF Inv, BodyInv
  <2> QED
    BY <2>2, <2>4, <2>5, <2>7, <2>8 DEF Inv
<1> QED
  BY <1>1, <1>2, <1>3, <1>4 DEF Next

\* The invariant holds always.
LEMMA Invariance == Spec => []Inv
<1>1. Init => Inv
  BY InitInv
<1>2. Inv /\ [Next]_vars => Inv'
  BY NextInv
<1> QED
  BY <1>1, <1>2, PTL DEF Spec

\* The types of all variables of parser.h, modules.h and contexts.h.
THEOREM EmbeddingTypes == Spec => []TypeOK
<1>1. Inv => TypeOK
  <2> SUFFICES ASSUME Inv PROVE TypeOK
    OBVIOUS
  <2>1. LoadingTypeOK
    BY DEF Inv, LoadInv, LoadingTypeOK
  <2>2. RunTypeOK
    BY DEF Inv, FrameInv, CallInv, CallsOK, FramesOK, RunTypeOK
  <2> QED
    BY <2>1, <2>2 DEF TypeOK
<1> QED
  BY <1>1, Invariance, PTL

\* Every block allocated for the context is owned by it, or was lost when an
\* import could not be parsed or resolved, until it is freed (contexts.h:48).
THEOREM BlocksAreOwned == Spec => []HeapAccountedFor
<1>1. Inv => HeapAccountedFor
  BY DEF Inv
<1> QED
  BY <1>1, Invariance, PTL

\* No loop of the interpreter, the parser or the linker is under way when the
\* context is freed, however deep host functions nest (interpreter.h:1255).
THEOREM FreedIsUnused == Spec => []NoUseAfterFree
<1>1. Inv => NoUseAfterFree
  <2> SUFFICES ASSUME Inv, freed
               PROVE  /\ Frames("start") = {} /\ Frames("loop") = {}
                      /\ task = NoTask
    BY DEF NoUseAfterFree
  <2>1. \A i \in 1..Len(cStack) :
          cStack[i].kind # "start" /\ cStack[i].kind # "loop"
    BY DEF Inv, FrameInv, FramesOK
  <2>2. task = NoTask
    BY DEF Inv, FrameInv, LoadInv
  <2> QED
    BY <2>1, <2>2 DEF Frames
<1> QED
  BY <1>1, Invariance, PTL

\* The flag that defers destruction is up only while a loop of
\* wasmu_runFunction is there to carry it out (interpreter.h:1239-1251).
THEOREM FlagIsOfALoop == Spec => []FlagHasLoop
<1>1. Inv => FlagHasLoop
  BY DEF Inv, FrameInv, FramesOK, FlagHasLoop, Frames
<1> QED
  BY <1>1, Invariance, PTL

\* Damage that the parser does, or meets, leaves an error, though it returns
\* TRUE (parser.h:299, parser.h:316).
THEOREM DamageIsReported == Spec => []DamageReported
<1>1. Inv => DamageReported
  BY DEF Inv, LoadInv, Damaged, DamageReported
<1> QED
  BY <1>1, Invariance, PTL

\* Every call under way waits, or runs, in the body of its own function, however
\* host functions call back (functions.h:78, functions.h:208).
THEOREM CallsAreInBodies == Spec => []PlacesInBodies
<1>1. Inv => PlacesInBodies
  BY DEF Inv, BodyInv, InBodies, PlaceOf, PlacesInBodies
<1> QED
  BY <1>1, Invariance, PTL

=============================================================================
