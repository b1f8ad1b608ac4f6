---------------------------- MODULE LinkingProofs -----------------------------
(***************************************************************************)
(* Proofs about linking and parsing, for every plan of the host: parser,   *)
(* host and linker implement a directory in which links are bound one by   *)
(* one, the linker answers rightly, tables are what the segments say,      *)
(* bodies go to the functions that are declared, and a call enters the     *)
(* function that its index means by the names in the binaries.             *)
(***************************************************************************)
EXTENDS EmbeddingProofs

-----------------------------------------------------------------------------
(***************************************************************************)
(* The sets that the directory is about, of modules ms.                    *)
(***************************************************************************)
LinksOf(ms) ==
  {l \in (1..Len(ms)) \X UNION {1..Len(ms[m].imports) : m \in 1..Len(ms)} :
     l[2] <= Len(ms[l[1]].imports)}

PublishedOf(ms) ==
  UNION {{<<ms[m].name, ms[m].exports[e].name, <<m, ms[m].exports[e].index>>>> :
            e \in {x \in 1..Len(ms[m].exports) : ms[m].exports[x].isFunction}} :
         m \in {k \in 1..Len(ms) : ms[k].name # NoName}}

WantedOf(ms) ==
  {<<l, ms[l[1]].imports[l[2]].module, ms[l[1]].imports[l[2]].name>> :
     l \in LinksOf(ms)}

BoundOf(ms) ==
  {<<l, <<ms[l[1]].imports[l[2]].resolvedModule,
          ms[l[1]].imports[l[2]].index>>>> :
     l \in {k \in LinksOf(ms) : ms[k[1]].imports[k[2]].resolvedModule # 0}}

\* The directory's steps are steps of these sets.
LEMMA StepsOfDirectory ==
  /\ D!Publish <=> /\ PublishedOf(modules) \subseteq PublishedOf(modules')
                   /\ WantedOf(modules') = WantedOf(modules)
                   /\ BoundOf(modules') = BoundOf(modules)
  /\ D!Want <=>
       \E w \in WantedOf(modules') :
         /\ \A v \in WantedOf(modules) : v[1] # w[1]
         /\ WantedOf(modules') = WantedOf(modules) \cup {w}
         /\ PublishedOf(modules') = PublishedOf(modules)
         /\ BoundOf(modules') = BoundOf(modules)
  /\ D!Bind <=>
       \E b \in BoundOf(modules') :
         /\ \A c \in BoundOf(modules) : c[1] # b[1]
         /\ \E w \in WantedOf(modules) :
              w[1] = b[1] /\ <<w[2], w[3], b[2]>> \in PublishedOf(modules)
         /\ BoundOf(modules') = BoundOf(modules) \cup {b}
         /\ PublishedOf(modules') = PublishedOf(modules)
         /\ WantedOf(modules') = WantedOf(modules)
<1>1. /\ Publications = PublishedOf(modules)
      /\ Publications' = PublishedOf(modules')
  BY DEF Publications, PublishedOf
<1>2. Links = LinksOf(modules) /\ Links' = LinksOf(modules')
  BY DEF Links, LinksOf
<1>3. Requests = WantedOf(modules) /\ Requests' = WantedOf(modules')
  BY <1>2 DEF Requests, LinkAt, WantedOf
<1>4. Bindings = BoundOf(modules) /\ Bindings' = BoundOf(modules')
  BY <1>2 DEF Bindings, LinkAt, BoundOf
<1>5. D!Publish <=> /\ PublishedOf(modules) \subseteq PublishedOf(modules')
                    /\ WantedOf(modules') = WantedOf(modules)
                    /\ BoundOf(modules') = BoundOf(modules)
  BY <1>1, <1>3, <1>4 DEF D!Publish
<1>6. D!Want <=>
        \E w \in WantedOf(modules') :
          /\ \A v \in WantedOf(modules) : v[1] # w[1]
          /\ WantedOf(modules') = WantedOf(modules) \cup {w}
          /\ PublishedOf(modules') = PublishedOf(modules)
          /\ BoundOf(modules') = BoundOf(modules)
  BY <1>1, <1>3, <1>4 DEF D!Want
<1>7. D!Bind <=>
        \E b \in BoundOf(modules') :
          /\ \A c \in BoundOf(modules) : c[1] # b[1]
          /\ \E w \in WantedOf(modules) :
               w[1] = b[1] /\ <<w[2], w[3], b[2]>> \in PublishedOf(modules)
          /\ BoundOf(modules') = BoundOf(modules) \cup {b}
          /\ PublishedOf(modules') = PublishedOf(modules)
          /\ WantedOf(modules') = WantedOf(modules)
  BY <1>1, <1>3, <1>4 DEF D!Bind
<1> QED
  BY <1>5, <1>6, <1>7

\* What export e of module m publishes, and import i of it wants and is bound to
PublicationAt(ms, m, e) ==
  <<ms[m].name, ms[m].exports[e].name, <<m, ms[m].exports[e].index>>>>

RequestAt(ms, m, i) ==
  <<<<m, i>>, ms[m].imports[i].module, ms[m].imports[i].name>>

BindingAt(ms, m, i) ==
  <<<<m, i>>, <<ms[m].imports[i].resolvedModule, ms[m].imports[i].index>>>>

IsPublished(ms, m, e) ==
  /\ m \in 1..Len(ms) /\ e \in 1..Len(ms[m].exports)
  /\ ms[m].name # NoName /\ ms[m].exports[e].isFunction

IsLink(ms, m, i) == m \in 1..Len(ms) /\ i \in 1..Len(ms[m].imports)

IsBound(ms, m, i) == IsLink(ms, m, i) /\ ms[m].imports[i].resolvedModule # 0

\* What is published
LEMMA PublishedAre ==
  ASSUME NEW ms
  PROVE  /\ \A t \in PublishedOf(ms) :
              \E m, e : IsPublished(ms, m, e) /\ t = PublicationAt(ms, m, e)
         /\ \A m, e : IsPublished(ms, m, e) =>
                        PublicationAt(ms, m, e) \in PublishedOf(ms)
BY DEF PublishedOf, IsPublished, PublicationAt

\* Links are the imports of the modules.
LEMMA LinksAre ==
  ASSUME NEW ms \in Seq(Module), NEW l
  PROVE  l \in LinksOf(ms) <=>
           \E m \in 1..Len(ms) : \E i \in 1..Len(ms[m].imports) : l = <<m, i>>
<1>1. \A m \in 1..Len(ms) : Len(ms[m].imports) \in Nat
  <2>1. \A m \in 1..Len(ms) : ms[m] \in Module
    BY ElementOfSeq
  <2> QED
    BY <2>1, LenProperties DEF Module
<1>2. ASSUME l \in LinksOf(ms)
      PROVE  \E m \in 1..Len(ms) : \E i \in 1..Len(ms[m].imports) : l = <<m, i>>
  <2> DEFINE m == l[1]
             i == l[2]
  <2>1. /\ l = <<m, i>> /\ m \in 1..Len(ms)
        /\ i \in UNION {1..Len(ms[k].imports) : k \in 1..Len(ms)}
        /\ i <= Len(ms[m].imports)
    BY <1>2 DEF LinksOf
  <2>2. PICK k \in 1..Len(ms) : i \in 1..Len(ms[k].imports)
    BY <2>1
  <2> HIDE DEF m, i
  <2>3. i \in 1..Len(ms[m].imports)
    BY <1>1, <2>1, <2>2
  <2> QED
    BY <2>1, <2>3
<1>3. ASSUME NEW m \in 1..Len(ms), NEW i \in 1..Len(ms[m].imports), l = <<m, i>>
      PROVE  l \in LinksOf(ms)
  <2>1. i \in UNION {1..Len(ms[k].imports) : k \in 1..Len(ms)}
    OBVIOUS
  <2>2. l[1] = m /\ l[2] = i /\ i <= Len(ms[m].imports)
    BY <1>1, <1>3
  <2> QED
    BY <1>3, <2>1, <2>2 DEF LinksOf
<1> QED
  BY <1>2, <1>3

\* What is wanted
LEMMA WantedAre ==
  ASSUME NEW ms \in Seq(Module)
  PROVE  /\ \A w \in WantedOf(ms) :
              \E m, i : IsLink(ms, m, i) /\ w = RequestAt(ms, m, i)
         /\ \A m, i : IsLink(ms, m, i) => RequestAt(ms, m, i) \in WantedOf(ms)
<1>1. ASSUME NEW w \in WantedOf(ms)
      PROVE  \E m, i : IsLink(ms, m, i) /\ w = RequestAt(ms, m, i)
  <2>1. PICK l \in LinksOf(ms) :
          w = <<l, ms[l[1]].imports[l[2]].module, ms[l[1]].imports[l[2]].name>>
    BY DEF WantedOf
  <2>2. PICK m \in 1..Len(ms) : \E i \in 1..Len(ms[m].imports) : l = <<m, i>>
    BY LinksAre
  <2>3. PICK i \in 1..Len(ms[m].imports) : l = <<m, i>>
    BY <2>2
  <2> QED
    BY <2>1, <2>3 DEF IsLink, RequestAt
<1>2. ASSUME NEW m, NEW i, IsLink(ms, m, i)
      PROVE  RequestAt(ms, m, i) \in WantedOf(ms)
  <2>1. <<m, i>> \in LinksOf(ms)
    BY <1>2, LinksAre DEF IsLink
  <2> QED
    BY <2>1 DEF WantedOf, RequestAt
<1> QED
  BY <1>1, <1>2

\* What is bound
LEMMA BoundAre ==
  ASSUME NEW ms \in Seq(Module)
  PROVE  /\ \A b \in BoundOf(ms) :
              \E m, i : IsBound(ms, m, i) /\ b = BindingAt(ms, m, i)
         /\ \A m, i : IsBound(ms, m, i) => BindingAt(ms, m, i) \in BoundOf(ms)
<1>1. ASSUME NEW b \in BoundOf(ms)
      PROVE  \E m, i : IsBound(ms, m, i) /\ b = BindingAt(ms, m, i)
  <2>1. PICK l \in LinksOf(ms) :
          /\ ms[l[1]].imports[l[2]].resolvedModule # 0
          /\ b = <<l, <<ms[l[1]].imports[l[2]].resolvedModule,
                        ms[l[1]].imports[l[2]].index>>>>
    BY DEF BoundOf
  <2>2. PICK m \in 1..Len(ms) : \E i \in 1..Len(ms[m].imports) : l = <<m, i>>
    BY LinksAre
  <2>3. PICK i \in 1..Len(ms[m].imports) : l = <<m, i>>
    BY <2>2
  <2> QED
    BY <2>1, <2>3 DEF IsLink, IsBound, BindingAt
<1>2. ASSUME NEW m, NEW i, IsBound(ms, m, i)
      PROVE  BindingAt(ms, m, i) \in BoundOf(ms)
  <2>1. <<m, i>> \in LinksOf(ms)
    BY <1>2, LinksAre DEF IsBound, IsLink
  <2> QED
    BY <1>2, <2>1 DEF BoundOf, IsBound, BindingAt
<1> QED
  BY <1>1, <1>2

-----------------------------------------------------------------------------
(***************************************************************************)
(* The steps of the directory.                                             *)
(***************************************************************************)

\* Modules ns are ms with a name, an export or a module more, if anything.
Enlarges(ms, ns) ==
  /\ Len(ms) <= Len(ns)
  /\ \A m \in 1..Len(ms) :
       /\ ns[m].name = ms[m].name \/ ms[m].name = NoName
       /\ ns[m].imports = ms[m].imports
       /\ \/ ns[m].exports = ms[m].exports
          \/ \E e \in Export : ns[m].exports = Append(ms[m].exports, e)
  /\ \A m \in 1..Len(ns) : m \in 1..Len(ms) \/ ns[m].imports = <<>>

\* What modules export stays where it is.
LEMMA ExportsStay ==
  ASSUME NEW x \in Module, NEW y \in Module,
         \/ y.exports = x.exports
         \/ \E e \in Export : y.exports = Append(x.exports, e),
         NEW i \in 1..Len(x.exports)
  PROVE  i \in 1..Len(y.exports) /\ y.exports[i] = x.exports[i]
<1> DEFINE es == x.exports
<1>1. es \in Seq(Export)
  BY DEF Module
<1>2. CASE y.exports = es
  BY <1>2
<1>3. CASE \E e \in Export : y.exports = Append(es, e)
  <2>1. PICK e \in Export : y.exports = Append(es, e)
    BY <1>3
  <2> HIDE DEF es
  <2>2. i \in 1..Len(es)
    BY DEF es
  <2>3. i \in 1..Len(Append(es, e)) /\ Append(es, e)[i] = es[i]
    BY <1>1, <2>2
  <2> QED
    BY <2>1, <2>3 DEF es
<1> QED
  BY <1>2, <1>3

\* If imports stay, so does what is wanted and what is bound.
LEMMA SameLinks ==
  ASSUME NEW ms \in Seq(Module), NEW ns \in Seq(Module),
         \A m, i : /\ IsLink(ns, m, i) <=> IsLink(ms, m, i)
                   /\ IsLink(ns, m, i) => ns[m].imports[i] = ms[m].imports[i]
  PROVE  WantedOf(ns) = WantedOf(ms) /\ BoundOf(ns) = BoundOf(ms)
<1>1. \A m, i : IsLink(ms, m, i) =>
        /\ IsLink(ns, m, i) /\ RequestAt(ns, m, i) = RequestAt(ms, m, i)
        /\ BindingAt(ns, m, i) = BindingAt(ms, m, i)
        /\ IsBound(ns, m, i) <=> IsBound(ms, m, i)
  BY DEF RequestAt, BindingAt, IsBound
<1>2. /\ \A m, i : IsLink(ns, m, i) => IsLink(ms, m, i)
      /\ \A m, i : IsBound(ns, m, i) => IsLink(ns, m, i)
      /\ \A m, i : IsBound(ms, m, i) => IsLink(ms, m, i)
  BY DEF IsBound
<1>3. WantedOf(ns) = WantedOf(ms)
  <2>1. ASSUME NEW w \in WantedOf(ms) PROVE w \in WantedOf(ns)
    <3>1. PICK m, i : IsLink(ms, m, i) /\ w = RequestAt(ms, m, i)
      BY WantedAre
    <3> QED
      BY <1>1, <3>1, WantedAre
  <2>2. ASSUME NEW w \in WantedOf(ns) PROVE w \in WantedOf(ms)
    <3>1. PICK m, i : IsLink(ns, m, i) /\ w = RequestAt(ns, m, i)
      BY WantedAre
    <3> QED
      BY <1>1, <1>2, <3>1, WantedAre
  <2> QED
    BY <2>1, <2>2
<1>4. BoundOf(ns) = BoundOf(ms)
  <2>1. ASSUME NEW b \in BoundOf(ms) PROVE b \in BoundOf(ns)
    <3>1. PICK m, i : IsBound(ms, m, i) /\ b = BindingAt(ms, m, i)
      BY BoundAre
    <3> QED
      BY <1>1, <1>2, <3>1, BoundAre
  <2>2. ASSUME NEW b \in BoundOf(ns) PROVE b \in BoundOf(ms)
    <3>1. PICK m, i : IsBound(ns, m, i) /\ b = BindingAt(ns, m, i)
      BY BoundAre
    <3> QED
      BY <1>1, <1>2, <3>1, BoundAre
  <2> QED
    BY <2>1, <2>2
<1> QED
  BY <1>3, <1>4

\* Then more may be published, and that is all.
LEMMA EnlargedPublishes ==
  ASSUME modules \in Seq(Module), modules' \in Seq(Module),
         Enlarges(modules, modules')
  PROVE  D!Publish
<1> DEFINE ms == modules
           ns == modules'
<1>1. Len(ms) \in Nat /\ Len(ns) \in Nat /\ Len(ms) <= Len(ns)
  BY DEF Enlarges
<1>2. ASSUME NEW m \in 1..Len(ms)
      PROVE  /\ m \in 1..Len(ns)
             /\ ns[m].name = ms[m].name \/ ms[m].name = NoName
             /\ ns[m].imports = ms[m].imports
             /\ \A i \in 1..Len(ms[m].exports) :
                  /\ i \in 1..Len(ns[m].exports)
                  /\ ns[m].exports[i] = ms[m].exports[i]
  <2>1. m \in 1..Len(ns)
    BY <1>1
  <2>2. ms[m] \in Module /\ ns[m] \in Module
    BY <2>1, ElementOfSeq
  <2>3. /\ ns[m].name = ms[m].name \/ ms[m].name = NoName
        /\ ns[m].imports = ms[m].imports
        /\ \/ ns[m].exports = ms[m].exports
           \/ \E e \in Export : ns[m].exports = Append(ms[m].exports, e)
    BY DEF Enlarges
  <2> QED
    BY <2>1, <2>2, <2>3, ExportsStay
<1>3. ASSUME NEW m, NEW i
      PROVE  /\ IsLink(ns, m, i) <=> IsLink(ms, m, i)
             /\ IsLink(ns, m, i) => ns[m].imports[i] = ms[m].imports[i]
  <2>1. CASE m \in 1..Len(ms)
    BY <1>2, <2>1 DEF IsLink
  <2>2. CASE m \notin 1..Len(ms) /\ m \in 1..Len(ns)
    <3>1. ns[m].imports = <<>>
      BY <2>2 DEF Enlarges
    <3>2. i \notin 1..Len(ns[m].imports)
      BY <3>1, EmptySeq
    <3> QED
      BY <2>2, <3>2 DEF IsLink
  <2>3. CASE m \notin 1..Len(ms) /\ m \notin 1..Len(ns)
    BY <2>3 DEF IsLink
  <2> QED
    BY <2>1, <2>2, <2>3
<1> HIDE DEF ms, ns
<1>4. ms \in Seq(Module) /\ ns \in Seq(Module)
  BY DEF ms, ns
<1>5. PublishedOf(ms) \subseteq PublishedOf(ns)
  <2>1. SUFFICES ASSUME NEW m, NEW e, IsPublished(ms, m, e)
                 PROVE  PublicationAt(ms, m, e) \in PublishedOf(ns)
    BY PublishedAre
  <2>2. /\ IsPublished(ns, m, e)
        /\ PublicationAt(ms, m, e) = PublicationAt(ns, m, e)
    BY <1>2, <2>1 DEF IsPublished, PublicationAt
  <2> QED
    BY <2>2, PublishedAre
<1>6. WantedOf(ns) = WantedOf(ms) /\ BoundOf(ns) = BoundOf(ms)
  BY <1>3, <1>4, SameLinks
<1> QED
  BY <1>5, <1>6, StepsOfDirectory DEF ms, ns

\* The same holds if one module is replaced.
LEMMA ReplacedPublishes ==
  ASSUME modules \in Seq(Module), NEW m \in 1..Len(modules), NEW x \in Module,
         modules' = [modules EXCEPT ![m] = x],
         x.name = modules[m].name \/ modules[m].name = NoName,
         x.imports = modules[m].imports,
         \/ x.exports = modules[m].exports
         \/ \E e \in Export : x.exports = Append(modules[m].exports, e)
  PROVE  D!Publish
<1>1. /\ modules' \in Seq(Module) /\ Len(modules') = Len(modules)
      /\ Len(modules) \in Nat
      /\ modules'[m] = x
      /\ \A k \in 1..Len(modules) : k # m => modules'[k] = modules[k]
  OBVIOUS
<1>2. Enlarges(modules, modules')
  <2>1. ASSUME NEW k \in 1..Len(modules)
        PROVE  /\ modules'[k].name = modules[k].name \/ modules[k].name = NoName
               /\ modules'[k].imports = modules[k].imports
               /\ \/ modules'[k].exports = modules[k].exports
                  \/ \E e \in Export :
                       modules'[k].exports = Append(modules[k].exports, e)
    <3>1. CASE k = m
      BY <1>1, <3>1
    <3>2. CASE k # m
      BY <1>1, <3>2
    <3> QED
      BY <3>1, <3>2
  <2> QED
    BY <1>1, <2>1 DEF Enlarges
<1> QED
  BY <1>1, <1>2, EnlargedPublishes

\* And if no module changes
LEMMA SamePublishes ==
  ASSUME modules' = modules
  PROVE  D!Publish
BY StepsOfDirectory

\* If names and exports stay, so does what is published.
LEMMA SamePublished ==
  ASSUME NEW ms \in Seq(Module), NEW m \in 1..Len(ms), NEW x \in Module,
         NEW ns, ns = [ms EXCEPT ![m] = x],
         x.name = ms[m].name, x.exports = ms[m].exports
  PROVE  PublishedOf(ns) = PublishedOf(ms)
<1>1. /\ Len(ns) = Len(ms)
      /\ \A k \in 1..Len(ms) : /\ ns[k].name = ms[k].name
                               /\ ns[k].exports = ms[k].exports
  OBVIOUS
<1>2. \A k, e : /\ IsPublished(ns, k, e) <=> IsPublished(ms, k, e)
                /\ IsPublished(ms, k, e) =>
                     PublicationAt(ns, k, e) = PublicationAt(ms, k, e)
  BY <1>1 DEF IsPublished, PublicationAt
<1>3. ASSUME NEW p \in PublishedOf(ms) PROVE p \in PublishedOf(ns)
  <2>1. PICK k, e : IsPublished(ms, k, e) /\ p = PublicationAt(ms, k, e)
    BY PublishedAre
  <2>2. IsPublished(ns, k, e) /\ p = PublicationAt(ns, k, e)
    BY <1>2, <2>1
  <2> QED
    BY <2>2, PublishedAre
<1>4. ASSUME NEW p \in PublishedOf(ns) PROVE p \in PublishedOf(ms)
  <2>1. PICK k, e : IsPublished(ns, k, e) /\ p = PublicationAt(ns, k, e)
    BY PublishedAre
  <2>2. IsPublished(ms, k, e) /\ p = PublicationAt(ms, k, e)
    BY <1>2, <2>1
  <2> QED
    BY <2>2, PublishedAre
<1> QED
  BY <1>3, <1>4

\* A module gets an import that is not bound.
LEMMA AppendedWants ==
  ASSUME modules \in Seq(Module), NEW m \in 1..Len(modules), NEW x \in Module,
         modules' = [modules EXCEPT ![m] = x],
         x.name = modules[m].name, x.exports = modules[m].exports,
         NEW i \in Import, i.resolvedModule = 0,
         x.imports = Append(modules[m].imports, i)
  PROVE  D!Want
<1> DEFINE ms == modules
           ns == modules'
           is == ms[m].imports
           n  == Len(is) + 1
           w  == RequestAt(ns, m, n)
<1>1. ms \in Seq(Module) /\ ns = [ms EXCEPT ![m] = x]
  OBVIOUS
<1>2. is \in Seq(Import)
  <2>1. ms[m] \in Module
    BY ElementOfSeq
  <2> QED
    BY <2>1 DEF Module
<1> HIDE DEF ms, ns
<1>3. /\ m \in 1..Len(ms) /\ x.imports = Append(is, i)
      /\ x.name = ms[m].name /\ x.exports = ms[m].exports
  BY DEF ms
<1>4. /\ ns \in Seq(Module) /\ Len(ns) = Len(ms) /\ ns[m] = x
      /\ \A k \in 1..Len(ms) : k # m => ns[k] = ms[k]
  BY <1>1, <1>3
<1>5. PublishedOf(ns) = PublishedOf(ms)
  <2>1. /\ ms \in Seq(Module) /\ m \in 1..Len(ms) /\ x \in Module
        /\ ns = [ms EXCEPT ![m] = x]
        /\ x.name = ms[m].name /\ x.exports = ms[m].exports
    BY <1>1, <1>3
  <2> HIDE DEF is
  <2> QED
    BY ONLY <2>1, SamePublished
<1> HIDE DEF is
<1>6. /\ Len(is) \in Nat /\ n \in Nat
      /\ Len(x.imports) = n
      /\ \A k \in 1..Len(is) : x.imports[k] = is[k]
      /\ x.imports[n] = i
  BY <1>2, <1>3
<1>7. /\ \A k : k \in 1..n <=> k = n \/ k \in 1..Len(is)
      /\ n \notin 1..Len(is)
  BY <1>6 DEF n
<1> HIDE DEF n
<1>8. ms[m].imports = is
  BY DEF is
<1>9. /\ IsLink(ns, m, n) /\ ns[m].imports[n] = i
      /\ ~IsLink(ms, m, n) /\ ~IsBound(ns, m, n)
      /\ \A k, j : <<k, j>> # <<m, n>> =>
           /\ IsLink(ns, k, j) <=> IsLink(ms, k, j)
           /\ IsLink(ms, k, j) => ns[k].imports[j] = ms[k].imports[j]
  <2>1. /\ IsLink(ns, m, n) /\ ns[m].imports[n] = i
        /\ ~IsLink(ms, m, n) /\ ~IsBound(ns, m, n)
    BY <1>3, <1>4, <1>6, <1>7, <1>8 DEF IsLink, IsBound
  <2>2. ASSUME NEW k, NEW j, <<k, j>> # <<m, n>>
        PROVE  /\ IsLink(ns, k, j) <=> IsLink(ms, k, j)
               /\ IsLink(ms, k, j) => ns[k].imports[j] = ms[k].imports[j]
    <3>1. CASE k = m
      BY <1>3, <1>4, <1>6, <1>7, <1>8, <2>2, <3>1 DEF IsLink
    <3>2. CASE k # m
      BY <1>4, <3>2 DEF IsLink
    <3> QED
      BY <3>1, <3>2
  <2> QED
    BY <2>1, <2>2
<1>10. w \in WantedOf(ns) /\ w[1] = <<m, n>>
  BY <1>4, <1>9, WantedAre DEF RequestAt
<1>11. ASSUME NEW v \in WantedOf(ms)
       PROVE  v[1] # w[1] /\ v \in WantedOf(ns)
  <2>1. PICK k, j : IsLink(ms, k, j) /\ v = RequestAt(ms, k, j)
    BY <1>1, WantedAre
  <2>2. <<k, j>> # <<m, n>>
    BY <1>9, <2>1
  <2>3. IsLink(ns, k, j) /\ ns[k].imports[j] = ms[k].imports[j]
    BY <1>9, <2>1, <2>2
  <2>4. v = RequestAt(ns, k, j) /\ v[1] = <<k, j>>
    BY <2>1, <2>3 DEF RequestAt
  <2>5. v \in WantedOf(ns)
    BY <1>4, <2>3, <2>4, WantedAre
  <2> QED
    BY <1>10, <2>2, <2>4, <2>5
<1>12. ASSUME NEW v \in WantedOf(ns), v # w
       PROVE  v \in WantedOf(ms)
  <2>1. PICK k, j : IsLink(ns, k, j) /\ v = RequestAt(ns, k, j)
    BY <1>4, WantedAre
  <2>2. <<k, j>> # <<m, n>>
    BY <1>12, <2>1
  <2>3. IsLink(ms, k, j) /\ ns[k].imports[j] = ms[k].imports[j]
    BY <1>9, <2>1, <2>2
  <2>4. v = RequestAt(ms, k, j)
    BY <2>1, <2>3 DEF RequestAt
  <2> QED
    BY <1>1, <2>3, <2>4, WantedAre
<1> HIDE DEF w
<1>13. WantedOf(ns) = WantedOf(ms) \cup {w}
  BY <1>10, <1>11, <1>12
<1>14. BoundOf(ns) = BoundOf(ms)
  <2>1. ASSUME NEW k, NEW j, IsBound(ms, k, j) \/ IsBound(ns, k, j)
        PROVE  /\ IsBound(ms, k, j) /\ IsBound(ns, k, j)
               /\ BindingAt(ns, k, j) = BindingAt(ms, k, j)
    <3>1. <<k, j>> # <<m, n>>
      BY <1>9, <2>1 DEF IsBound
    <3>2. /\ IsLink(ns, k, j) <=> IsLink(ms, k, j)
          /\ IsLink(ms, k, j) => ns[k].imports[j] = ms[k].imports[j]
      BY <1>9, <3>1
    <3> QED
      BY <2>1, <3>2 DEF IsBound, BindingAt
  <2>2. ASSUME NEW b \in BoundOf(ns) PROVE b \in BoundOf(ms)
    <3>1. PICK k, j : IsBound(ns, k, j) /\ b = BindingAt(ns, k, j)
      BY <1>4, BoundAre
    <3>2. IsBound(ms, k, j) /\ b = BindingAt(ms, k, j)
      BY <2>1, <3>1
    <3> QED
      BY <1>1, <3>2, BoundAre
  <2>3. ASSUME NEW b \in BoundOf(ms) PROVE b \in BoundOf(ns)
    <3>1. PICK k, j : IsBound(ms, k, j) /\ b = BindingAt(ms, k, j)
      BY <1>1, BoundAre
    <3>2. IsBound(ns, k, j) /\ b = BindingAt(ns, k, j)
      BY <2>1, <3>1
    <3> QED
      BY <1>4, <3>2, BoundAre
  <2> QED
    BY <2>2, <2>3
<1> QED
  BY <1>5, <1>10, <1>11, <1>13, <1>14, StepsOfDirectory DEF ms, ns

\* An import is bound that was not, to what is published.
LEMMA ResolvedBinds ==
  ASSUME LoadInv, ResolveImport
  PROVE  D!Bind
<1> DEFINE ms     == modules
           ns     == modules'
           m      == task.module
           j      == task.import
           old    == ImportRead
           target == First(ModulesNamed(old.module))
           e      == First(ExportsNamed(target, old.name))
           index  == ExportIndex(target, old.name)
           b      == BindingAt(ns, m, j)
           w      == RequestAt(ms, m, j)
<1>1. PICK x : Resolving(x)
  BY ResolvingIs
<1>2. /\ ms \in Seq(Module) /\ m \in 1..Len(ms) /\ Current = ms[m]
      /\ NoName \notin Names
  BY CurrentType, LoadingAssumption
  DEF LoadInv, ResolveImport, AtImport, Current
<1>3. /\ old = ms[m].imports[j]
      /\ old.resolvedModule = 0 /\ Available(old)
  BY <1>2 DEF ResolveImport, IsResolved, ImportRead
<1>4. /\ x \in Module /\ x.name = ms[m].name /\ x.exports = ms[m].exports
      /\ j \in 1..Len(ms[m].imports) /\ Len(x.imports) = Len(ms[m].imports)
      /\ x.imports[j] = [old EXCEPT !.resolvedModule = target, !.index = index]
      /\ \A i \in 1..Len(ms[m].imports) :
           i # j => x.imports[i] = ms[m].imports[i]
      /\ ns = [ms EXCEPT ![m] = x]
  BY <1>1, <1>2 DEF Resolving
<1>5. old \in Import
  <2>1. ms[m] \in Module
    BY <1>2, ElementOfSeq
  <2>2. ms[m].imports \in Seq(Import)
    BY <2>1 DEF Module
  <2> QED
    BY <1>3, <1>4, <2>2, ElementOfSeq
<1>6. /\ target \in 1..Len(ms) /\ ms[target].name = old.module
      /\ e \in 1..Len(ms[target].exports)
      /\ ms[target].exports[e].isFunction
      /\ ms[target].exports[e].name = old.name
      /\ index = ms[target].exports[e].index
  <2> HIDE DEF old
  <2> QED
    BY <1>3, AvailableIs
<1> HIDE DEF ms, ns, m, j, old, target, e, index
<1>7. /\ ns \in Seq(Module) /\ Len(ns) = Len(ms) /\ ns[m] = x
      /\ \A k \in 1..Len(ms) : k # m => ns[k] = ms[k]
  BY <1>2, <1>4
<1>8. PublishedOf(ns) = PublishedOf(ms)
  BY <1>2, <1>4, SamePublished
<1>9. /\ x.imports[j].module = old.module /\ x.imports[j].name = old.name
      /\ x.imports[j].resolvedModule = target /\ x.imports[j].index = index
  BY <1>4, <1>5 DEF Import
<1>10. \A k, i : /\ IsLink(ns, k, i) <=> IsLink(ms, k, i)
                 /\ IsLink(ms, k, i) /\ <<k, i>> # <<m, j>> =>
                      ns[k].imports[i] = ms[k].imports[i]
  <2>1. ASSUME NEW k, NEW i
        PROVE  /\ IsLink(ns, k, i) <=> IsLink(ms, k, i)
               /\ IsLink(ms, k, i) /\ <<k, i>> # <<m, j>> =>
                    ns[k].imports[i] = ms[k].imports[i]
    <3>1. CASE k = m
      BY <1>4, <1>7, <3>1 DEF IsLink
    <3>2. CASE k # m
      BY <1>7, <3>2 DEF IsLink
    <3> QED
      BY <3>1, <3>2
  <2> QED
    BY <2>1
<1>11. /\ IsLink(ms, m, j) /\ IsLink(ns, m, j)
       /\ ns[m].imports[j] = x.imports[j]
  BY <1>2, <1>4, <1>7 DEF IsLink
<1>12. target # 0
  BY <1>6
<1>13. IsBound(ns, m, j) /\ ~IsBound(ms, m, j)
  BY <1>3, <1>9, <1>11, <1>12 DEF IsBound
<1>14. WantedOf(ns) = WantedOf(ms)
  <2>1. \A k, i : IsLink(ms, k, i) => RequestAt(ns, k, i) = RequestAt(ms, k, i)
    <3>1. ASSUME NEW k, NEW i, IsLink(ms, k, i)
          PROVE  RequestAt(ns, k, i) = RequestAt(ms, k, i)
      <4>1. CASE <<k, i>> = <<m, j>>
        BY <1>3, <1>9, <1>11, <4>1 DEF RequestAt
      <4>2. CASE <<k, i>> # <<m, j>>
        BY <1>10, <3>1, <4>2 DEF RequestAt
      <4> QED
        BY <4>1, <4>2
    <3> QED
      BY <3>1
  <2>2. ASSUME NEW v \in WantedOf(ms) PROVE v \in WantedOf(ns)
    <3>1. PICK k, i : IsLink(ms, k, i) /\ v = RequestAt(ms, k, i)
      BY <1>2, WantedAre
    <3>2. IsLink(ns, k, i) /\ v = RequestAt(ns, k, i)
      BY <1>10, <2>1, <3>1
    <3> QED
      BY <1>7, <3>2, WantedAre
  <2>3. ASSUME NEW v \in WantedOf(ns) PROVE v \in WantedOf(ms)
    <3>1. PICK k, i : IsLink(ns, k, i) /\ v = RequestAt(ns, k, i)
      BY <1>7, WantedAre
    <3>2. IsLink(ms, k, i) /\ v = RequestAt(ms, k, i)
      BY <1>10, <2>1, <3>1
    <3> QED
      BY <1>2, <3>2, WantedAre
  <2> QED
    BY <2>2, <2>3
<1>15. /\ b \in BoundOf(ns) /\ b[1] = <<m, j>> /\ b[2] = <<target, index>>
  BY <1>7, <1>9, <1>11, <1>13, BoundAre DEF BindingAt
<1>16. /\ w \in WantedOf(ms) /\ w[1] = <<m, j>>
       /\ w[2] = old.module /\ w[3] = old.name
  BY <1>2, <1>3, <1>11, WantedAre DEF RequestAt
<1>17. ASSUME NEW k, NEW i, <<k, i>> # <<m, j>>,
              IsBound(ms, k, i) \/ IsBound(ns, k, i)
       PROVE  /\ IsBound(ms, k, i) /\ IsBound(ns, k, i)
              /\ BindingAt(ns, k, i) = BindingAt(ms, k, i)
  <2>1. IsLink(ms, k, i) /\ IsLink(ns, k, i)
    BY <1>10, <1>17 DEF IsBound
  <2>2. ns[k].imports[i] = ms[k].imports[i]
    BY <1>10, <1>17, <2>1
  <2> QED
    BY <1>17, <2>1, <2>2 DEF IsBound, BindingAt
<1>18. ASSUME NEW c \in BoundOf(ms)
       PROVE  c[1] # b[1] /\ c \in BoundOf(ns)
  <2>1. PICK k, i : IsBound(ms, k, i) /\ c = BindingAt(ms, k, i)
    BY <1>2, BoundAre
  <2>2. <<k, i>> # <<m, j>>
    BY <1>13, <2>1
  <2>3. IsBound(ns, k, i) /\ c = BindingAt(ns, k, i)
    BY <1>17, <2>1, <2>2
  <2>4. c[1] = <<k, i>>
    BY <2>1 DEF BindingAt
  <2>5. c \in BoundOf(ns)
    BY <1>7, <2>3, BoundAre
  <2> HIDE DEF b
  <2> QED
    BY <1>15, <2>2, <2>4, <2>5
<1>19. ASSUME NEW c \in BoundOf(ns), c # b
       PROVE  c \in BoundOf(ms)
  <2>1. PICK k, i : IsBound(ns, k, i) /\ c = BindingAt(ns, k, i)
    BY <1>7, BoundAre
  <2>2. <<k, i>> # <<m, j>>
    BY <1>19, <2>1
  <2>3. IsBound(ms, k, i) /\ c = BindingAt(ms, k, i)
    BY <1>17, <2>1, <2>2
  <2> QED
    BY <1>2, <2>3, BoundAre
<1> HIDE DEF b, w
<1>20. BoundOf(ns) = BoundOf(ms) \cup {b}
  BY <1>15, <1>18, <1>19
<1>21. <<w[2], w[3], b[2]>> \in PublishedOf(ms)
  <2>1. old.module \in Names
    BY <1>5 DEF Import
  <2>2. IsPublished(ms, target, e)
    BY <1>2, <1>6, <2>1 DEF IsPublished
  <2>3. PublicationAt(ms, target, e) = <<w[2], w[3], b[2]>>
    BY <1>6, <1>15, <1>16 DEF PublicationAt
  <2> QED
    BY <2>2, <2>3, PublishedAre
<1>22. w \in WantedOf(ms) /\ w[1] = b[1]
  BY <1>15, <1>16
<1>23. \A c \in BoundOf(ms) : c[1] # b[1]
  BY <1>18
<1> QED
  BY <1>8, <1>14, <1>15, <1>20, <1>21, <1>22, <1>23, StepsOfDirectory DEF ms, ns

\* Setting up publishes, or does nothing.
LEMMA SetUpPublishes ==
  ASSUME LoadInv, SetUp
  PROVE  D!Publish
<1>1. modules \in Seq(Module) /\ NoName \notin Names
  BY LoadingAssumption DEF LoadInv
<1>2. CASE NewModule
  <2>1. modules' = Append(modules, EmptyModule)
    BY <1>2 DEF NewModule
  <2>2. modules' \in Seq(Module)
    BY <1>2, NewModuleKeeps DEF LoadInv
  <2>3. /\ Len(modules) \in Nat /\ Len(modules') = Len(modules) + 1
        /\ modules'[Len(modules) + 1] = EmptyModule
        /\ \A m \in 1..Len(modules) : modules'[m] = modules[m]
    BY <1>1, <2>1
  <2>4. EmptyModule.imports = <<>>
    BY DEF EmptyModule
  <2>5. \A m \in 1..Len(modules') :
          m \in 1..Len(modules) \/ modules'[m] = EmptyModule
    BY <2>3
  <2>6. Enlarges(modules, modules')
    BY <2>3, <2>4, <2>5 DEF Enlarges
  <2> QED
    BY <1>1, <2>2, <2>6, EnlargedPublishes
<1>3. ASSUME NEW m \in 1..Len(modules), AssignName(m)
      PROVE  D!Publish
  <2> DEFINE x == [modules[m] EXCEPT !.name = plan[m].name]
  <2>1. /\ task = NoTask /\ modules[m].name = NoName
        /\ modules' = [modules EXCEPT ![m] = x]
    BY <1>1, <1>3 DEF AssignName
  <2>2. modules[m] \in Module /\ plan[m] \in Planned
    BY <2>1, IdleType
  <2>3. plan[m].name \in Names \cup {NoName}
    BY <2>2 DEF Planned
  <2>4. /\ x \in Module /\ x.imports = modules[m].imports
        /\ x.exports = modules[m].exports
    BY <2>2, <2>3, NameChanged
  <2> HIDE DEF x
  <2> QED
    BY <1>1, <2>1, <2>4, ReplacedPublishes
<1>4. ASSUME NEW m \in 1..Len(modules), AddNativeFunction(m)
      PROVE  D!Publish
  <2>1. PICK name \in Names :
          modules' = [modules EXCEPT ![m] = WithNative(modules[m], name)]
    BY <1>4, AddNativeIs
  <2>2. modules[m] \in Module /\ ModuleOK(modules[m])
    BY <1>4, IdleType DEF AddNativeFunction
  <2> DEFINE x == WithNative(modules[m], name)
  <2>3. x = WithNative(modules[m], name) /\ modules' = [modules EXCEPT ![m] = x]
    BY <2>1
  <2> HIDE DEF x
  <2>4. /\ x \in Module /\ x.name = modules[m].name
        /\ x.imports = modules[m].imports
    BY <2>2, <2>3, WithNativeIs
  <2>5. \E e \in Export : x.exports = Append(modules[m].exports, e)
    <3> DEFINE y == modules[m]
    <3>1. y \in Module /\ ModuleOK(y) /\ x = WithNative(y, name)
      BY <2>2, <2>3
    <3> HIDE DEF y
    <3>2. \E e \in Export : x.exports = Append(y.exports, e)
      BY <3>1, WithNativeIs
    <3> QED
      BY <3>2 DEF y
  <2> QED
    BY <1>1, <2>3, <2>4, <2>5, ReplacedPublishes
<1>5. ASSUME NEW m \in 1..Len(modules), Load(m)
      PROVE  D!Publish
  <2> DEFINE x == [modules[m] EXCEPT !.binary = plan[m].binary]
  <2>1. task = NoTask /\ modules' = [modules EXCEPT ![m] = x]
    BY <1>1, <1>5 DEF Load
  <2>2. modules[m] \in Module /\ plan[m] \in Planned
    BY <2>1, IdleType
  <2>3. plan[m].binary \in Binary
    BY <2>2 DEF Planned
  <2>4. /\ x \in Module /\ x.name = modules[m].name
        /\ x.imports = modules[m].imports
        /\ x.exports = modules[m].exports
    BY <2>2, <2>3, BinaryChanged
  <2> HIDE DEF x
  <2> QED
    BY <1>1, <2>1, <2>4, ReplacedPublishes
<1> QED
  BY <1>2, <1>3, <1>4, <1>5 DEF SetUp

\* The parser publishes or wants.
LEMMA ParserPublishes ==
  ASSUME LoadInv, ParserStep
  PROVE  D!Publish \/ D!Want
<1>1. PICK x : Edits(task.module, x)
  BY ParserEdits
<1> DEFINE m == task.module
<1>2. task.call # "none"
  BY DEF ParserStep, ParseCustom, ParseType, ParseImport, ParseFunction,
         ParseTable, ParseMemory, ParseGlobal, ParseExport, ParseElement,
         ParseCode, ParseData, ParseUnknown, Parsing, AtItem
<1>3. modules \in Seq(Module) /\ m \in 1..Len(modules)
  BY <1>2 DEF LoadInv
<1>4. /\ x \in Module /\ Declares(modules[m], x)
      /\ x.name = modules[m].name
      /\ modules' = [modules EXCEPT ![m] = x]
  BY <1>1 DEF Edits
<1> HIDE DEF m
<1>5. CASE /\ x.imports = modules[m].imports
           /\ \/ x.exports = modules[m].exports
              \/ \E e \in Export : x.exports = Append(modules[m].exports, e)
  BY <1>3, <1>4, <1>5, ReplacedPublishes
<1>6. CASE \E i \in Import : /\ x.imports = Append(modules[m].imports, i)
                             /\ i.resolvedModule = 0
                             /\ x.exports = modules[m].exports
  BY <1>3, <1>4, <1>6, AppendedWants
<1> QED
  BY <1>4, <1>5, <1>6 DEF Declares

\* Every step is one of the directory's.
LEMMA NextOfDirectory ==
  ASSUME Inv, [Next]_vars
  PROVE  D!Publish \/ D!Want \/ D!Bind
<1>1. CASE modules' = modules
  BY <1>1, SamePublishes
<1>2. CASE SetUp
  BY <1>2, SetUpPublishes DEF Inv
<1>3. CASE ParserStep
  BY <1>3, ParserPublishes DEF Inv
<1>4. CASE ResolveImport
  BY <1>4, ResolvedBinds DEF Inv
<1>5. CASE HostNext
  <2>1. CASE HostSetUp
    BY <1>2, <2>1 DEF HostSetUp
  <2>2. CASE HostStep \/ HostStop \/ HostDestroy
    BY <1>1, <2>2 DEF HostStep, HostStop, HostDestroy, loadingVars
  <2>3. ASSUME NEW m, HostLink(m)
        PROVE  modules' = modules
    BY <2>3 DEF HostLink, Link
  <2>4. ASSUME NEW m, NEW f, RunFunction(m, f) \/ CallFunction(m, f)
        PROVE  modules' = modules
    BY <2>4 DEF RunFunction, CallFunction
  <2> QED
    BY <1>1, <1>5, <2>1, <2>2, <2>3, <2>4 DEF HostNext
<1>6. CASE LibraryNext
  <2>1. CASE LoadingStep
    <3>1. CASE ParseEnd \/ PassImport \/ RefuseImport \/ LinkEnd
      BY <1>1, <3>1 DEF ParseEnd, PassImport, RefuseImport, LinkEnd
    <3> QED
      BY <1>3, <1>4, <2>1, <3>1 DEF LoadingStep, ParserStep
  <2>2. CASE \/ StepAfterOverrun \/ StepWithoutBody \/ StepCall \/ StepPastEnd
             \/ StepReturn \/ LoopEnd
    BY <1>1, <2>2
    DEF StepAfterOverrun, StepWithoutBody, StepCall, StepPastEnd, StepReturn,
        LoopEnd, StepUnchanged
  <2> QED
    BY <1>6, <2>1, <2>2 DEF LibraryNext
<1>7. CASE NativeEnds
  BY <1>1, <1>7 DEF NativeEnds, NativeReturns
<1>8. CASE UNCHANGED vars
  BY <1>1, <1>8 DEF vars, loadingVars
<1> QED
  BY <1>5, <1>6, <1>7, <1>8 DEF Next

\* The initial states are the directory's.
LEMMA InitOfDirectory ==
  ASSUME Init
  PROVE  D!DirectoryInit
<1>1. modules = <<>> /\ Len(modules) = 0
  BY EmptySeq DEF Init, LoadingInit
<1>2. Publications = {}
  BY <1>1 DEF Publications
<1>3. Links = {}
  BY <1>1 DEF Links
<1>4. Requests = {} /\ Bindings = {}
  BY <1>3 DEF Requests, Bindings
<1> QED
  BY <1>2, <1>4 DEF D!DirectoryInit

\* Parser, host and linker implement the directory: imports are bound one by
\* one, each for good and to what is exported under the names that it gives, in
\* whatever order modules are set up and resolved (modules.h:266-357).
THEOREM LinkingImplementsDirectory == Spec => LinkingIsDirectory
<1>1. Init => D!DirectoryInit
  BY InitOfDirectory
<1>2. Inv /\ [Next]_vars => [D!Publish \/ D!Want \/ D!Bind]_D!directoryVars
  BY NextOfDirectory
<1> QED
  BY <1>1, <1>2, Invariance, PTL DEF Spec, LinkingIsDirectory, D!DirectorySpec

-----------------------------------------------------------------------------
(***************************************************************************)
(* The linker's answers.                                                   *)
(***************************************************************************)

\* The linker has passed over imports only if they are resolved.
LinkInv ==
  task.call = "link" =>
    \A i \in 1..Len(Current.imports) :
      i < task.import => Current.imports[i].resolvedModule # 0

\* While the linker's loop runs, nothing else does.
LEMMA LinkingAlone ==
  ASSUME Inv, [Next]_vars, task.call = "link"
  PROVE  \/ PassImport \/ ResolveImport \/ RefuseImport \/ LinkEnd
         \/ UNCHANGED vars
<1>1. task # NoTask /\ ~freed /\ Top \in {"host", "native"}
  BY DEF NoTask, Inv, FrameInv
<1>2. ~HostNext
  <2>1. ~HostInControl
    BY <1>1 DEF HostInControl
  <2>2. ~HostSetUp /\ ~HostStep /\ ~HostStop /\ ~HostDestroy
    BY <2>1 DEF HostSetUp, HostUses, HostCalls, HostStep, HostStop, HostDestroy
  <2>3. \A m : ~HostLink(m)
    BY <2>1 DEF HostLink, HostCalls, HostUses
  <2>4. \A m, f : ~RunFunction(m, f) /\ ~CallFunction(m, f)
    BY <2>1 DEF RunFunction, CallFunction, HostCalls, HostUses
  <2> QED
    BY <2>2, <2>3, <2>4 DEF HostNext
<1>3. ~NativeEnds
  BY <1>1 DEF NativeEnds, NativeReturns
<1>4. ~Executing /\ Top # "loop"
  BY <1>1 DEF Executing
<1>5. /\ ~StepAfterOverrun /\ ~StepWithoutBody /\ ~StepCall /\ ~StepPastEnd
      /\ ~StepReturn /\ ~LoopEnd
  BY <1>4 DEF StepAfterOverrun, StepWithoutBody, StepCall, StepPastEnd,
              StepReturn, LoopEnd, AtInstruction
<1>6. ~ParserStep /\ ~ParseEnd
  BY DEF ParserStep, ParseCustom, ParseType, ParseImport, ParseFunction,
         ParseTable, ParseMemory, ParseGlobal, ParseExport, ParseElement,
         ParseCode, ParseData, ParseUnknown, ParseEnd, Parsing, AtItem
<1> QED
  BY <1>2, <1>3, <1>5, <1>6 DEF Next, LibraryNext, LoadingStep, ParserStep

\* The linker's loop begins with the first import.
LEMMA LinkingBegins ==
  ASSUME Inv, [Next]_vars, task.call # "link", task'.call = "link"
  PROVE  task'.import = 1
<1>1. task' # task /\ task' # NoTask
  BY DEF NoTask
<1>2. ASSUME NEW m, HostLink(m)
      PROVE  task'.import = 1
  BY <1>2 DEF HostLink, Link
<1>3. ~SetUp
  <2>1. ~NewModule
    BY <1>1 DEF NewModule
  <2>2. \A m : ~AssignName(m) /\ ~AddNativeFunction(m)
    BY <1>1 DEF AssignName, AddNativeFunction
  <2>3. ASSUME NEW m, Load(m)
        PROVE  task'.call = "parse" \/ task' = task
    <3>1. \/ task' = [call |-> "parse", module |-> m, import |-> 0]
          \/ task' = task
      BY <2>3 DEF Load
    <3> QED
      BY <3>1
  <2> QED
    BY <1>1, <2>1, <2>2, <2>3 DEF SetUp
<1>4. ~HostStep /\ ~HostStop /\ ~HostDestroy
  BY <1>1 DEF HostStep, HostStop, HostDestroy, loadingVars
<1>5. \A m, f : ~RunFunction(m, f) /\ ~CallFunction(m, f)
  BY <1>1 DEF RunFunction, CallFunction
<1>6. ~NativeEnds
  BY <1>1 DEF NativeEnds, NativeReturns
<1>7. /\ ~StepAfterOverrun /\ ~StepWithoutBody /\ ~StepCall /\ ~StepPastEnd
      /\ ~StepReturn /\ ~LoopEnd
  BY <1>1 DEF StepAfterOverrun, StepWithoutBody, StepCall, StepPastEnd,
              StepReturn, LoopEnd, StepUnchanged
<1>8. ~LoadingStep
  <2>1. ~ParserStep
    <3>1. \A x : ~Edits(task.module, x)
      BY <1>1 DEF Edits
    <3> QED
      BY <3>1, ParserEdits DEF Inv
  <2>2. ~ParseEnd
    BY <1>1 DEF ParseEnd
  <2>3. ~PassImport /\ ~ResolveImport /\ ~RefuseImport /\ ~LinkEnd
    BY DEF PassImport, ResolveImport, RefuseImport, LinkEnd, AtImport
  <2> QED
    BY <2>1, <2>2, <2>3 DEF LoadingStep, ParserStep
<1>9. ~UNCHANGED vars
  BY <1>1 DEF vars, loadingVars
<1>10. HostNext
  BY <1>6, <1>7, <1>8, <1>9 DEF Next, LibraryNext
<1> QED
  BY <1>2, <1>3, <1>4, <1>5, <1>10 DEF HostNext, HostSetUp

\* Every step keeps what is so of the imports that the linker has passed.
LEMMA NextLinkInv ==
  ASSUME Inv, LinkInv, [Next]_vars
  PROVE  LinkInv'
<1>1. task \in Task /\ modules \in Seq(Module)
  BY DEF Inv, LoadInv
<1>2. CASE task.call # "link"
  <2>1. ASSUME task'.call = "link"
        PROVE  \A i \in 1..Len(Current'.imports) : ~(i < task'.import)
    BY <1>2, <2>1, LinkingBegins
  <2> QED
    BY <2>1 DEF LinkInv
<1>3. CASE task.call = "link" /\ PassImport
  <2>1. /\ modules' = modules
        /\ task' = [task EXCEPT !.import = task.import + 1]
        /\ Current.imports[task.import].resolvedModule # 0
    BY <1>3 DEF PassImport, IsResolved, ImportRead
  <2>2. /\ task'.import = task.import + 1 /\ task'.module = task.module
        /\ task.import \in Nat
    BY <1>1, <2>1 DEF Task
  <2>3. Current' = Current
    BY <2>1, <2>2 DEF Current
  <2>4. ASSUME NEW i \in 1..Len(Current.imports), i < task.import + 1
        PROVE  i < task.import \/ i = task.import
    BY <2>2, <2>4
  <2>5. ASSUME NEW i \in 1..Len(Current.imports), i < task.import + 1
        PROVE  Current.imports[i].resolvedModule # 0
    BY <1>3, <2>1, <2>4, <2>5 DEF LinkInv
  <2> QED
    BY <2>2, <2>3, <2>5 DEF LinkInv
<1>4. CASE task.call = "link" /\ ResolveImport
  <2> DEFINE is     == Current.imports
             target == First(ModulesNamed(ImportRead.module))
             j      == task.import
  <2>1. PICK x : Resolving(x)
    BY <1>4, ResolvingIs DEF Inv
  <2>2. task.module \in 1..Len(modules)
    BY <1>4 DEF Inv, LoadInv
  <2>3. /\ modules' = [modules EXCEPT ![task.module] = x]
        /\ Len(x.imports) = Len(is)
        /\ j \in 1..Len(is)
        /\ x.imports[j].resolvedModule = target
        /\ \A i \in 1..Len(is) : i # j => x.imports[i] = is[i]
    <3>1. /\ x.imports[j] = [ImportRead EXCEPT
                               !.resolvedModule = target,
                               !.index = ExportIndex(target, ImportRead.name)]
          /\ x.imports[j] \in Import
          /\ modules' = [modules EXCEPT ![task.module] = x]
          /\ Len(x.imports) = Len(is) /\ j \in 1..Len(is)
          /\ \A i \in 1..Len(is) : i # j => x.imports[i] = is[i]
      BY <2>1 DEF Resolving
    <3>2. Current \in Module
      BY <1>4, CurrentType DEF Inv
    <3>3. is \in Seq(Import)
      BY <3>2 DEF Module
    <3>4. ImportRead \in Import
      BY <3>1, <3>3, ElementOfSeq DEF ImportRead
    <3> HIDE DEF target
    <3>5. x.imports[j].resolvedModule = target
      BY <3>1, <3>4 DEF Import
    <3> QED
      BY <3>1, <3>5
  <2>4. target # 0
    <3>1. target \in 1..Len(modules)
      BY <1>4, AvailableIs DEF Inv, ResolveImport
    <3> QED
      BY <3>1
  <2>5. task' = [task EXCEPT !.import = j + 1]
    BY <1>4 DEF ResolveImport
  <2>6. task'.import = j + 1 /\ task'.module = task.module /\ j \in Nat
    BY <1>1, <2>5 DEF Task
  <2>7. Current' = x
    BY <1>1, <2>2, <2>3, <2>6 DEF Current
  <2> HIDE DEF target, j
  <2>8. ASSUME NEW i \in 1..Len(x.imports), i < j + 1
        PROVE  x.imports[i].resolvedModule # 0
    <3>1. CASE i = j
      BY <2>3, <2>4, <3>1
    <3>2. CASE i # j
      <4>1. i < j /\ i \in 1..Len(is)
        BY <2>3, <2>6, <2>8, <3>2
      <4>2. is[i].resolvedModule # 0
        BY <1>4, <4>1 DEF LinkInv, j
      <4> QED
        BY <2>3, <3>2, <4>1, <4>2
    <3> QED
      BY <3>1, <3>2
  <2> QED
    BY <2>6, <2>7, <2>8 DEF LinkInv
<1>5. CASE task.call = "link" /\ (RefuseImport \/ LinkEnd)
  <2>1. task' = NoTask
    BY <1>5 DEF RefuseImport, LinkEnd
  <2> QED
    BY <2>1 DEF LinkInv, NoTask
<1>6. CASE UNCHANGED vars
  BY <1>6 DEF vars, loadingVars, LinkInv, Current
<1> QED
  BY <1>2, <1>3, <1>4, <1>5, <1>6, LinkingAlone

\* The linker's answer tells whether the first import that is not resolved has
\* anything to be resolved to.
LEMMA LinkAnswersRight ==
  ASSUME Inv, LinkInv, [Next]_vars, task.call = "link", task' = NoTask
  PROVE  LET missing == Unresolved(task.module) IN
         IF answer'.ok THEN missing = {}
         ELSE missing # {} /\ ~Available(Current.imports[First(missing)])
<1> DEFINE missing == Unresolved(task.module)
           is      == Current.imports
           j       == task.import
<1>1. task \in Task /\ j \in Nat /\ NoTask.call # "link"
  BY DEF Inv, LoadInv, Task, NoTask
<1>2. missing = {i \in 1..Len(is) : is[i].resolvedModule = 0}
  BY DEF Unresolved, Current
<1>3. Len(is) \in Nat
  <2>1. Current \in Module
    BY CurrentType DEF Inv
  <2> QED
    BY <2>1, LenProperties DEF Module
<1>4. \A i \in 1..Len(is) : i < j => is[i].resolvedModule # 0
  BY DEF LinkInv
<1>5. ~PassImport /\ ~ResolveImport
  <2>1. task' # [task EXCEPT !.import = @ + 1]
    BY <1>1 DEF Task
  <2> QED
    BY <2>1 DEF PassImport, ResolveImport
<1>6. ~UNCHANGED vars
  BY <1>1 DEF vars, loadingVars
<1>7. CASE LinkEnd
  <2>1. answer'.ok = TRUE /\ ~(j <= Len(is))
    BY <1>7 DEF LinkEnd, Told, AtImport
  <2> HIDE DEF missing, is, j
  <2>2. missing = {}
    BY <1>1, <1>2, <1>3, <1>4, <2>1
  <2> QED
    BY <2>1, <2>2 DEF missing
<1>8. CASE RefuseImport
  <2>1. /\ answer'.ok = FALSE /\ j <= Len(is)
        /\ is[j].resolvedModule = 0 /\ ~Available(is[j])
    BY <1>8 DEF RefuseImport, Told, AtImport, IsResolved, ImportRead
  <2>2. j >= 1
    BY DEF Inv, LoadInv
  <2>3. j \in 1..Len(is)
    BY <1>1, <1>3, <2>1, <2>2
  <2> HIDE DEF missing, is, j
  <2>4. j \in missing /\ missing \subseteq Nat
    BY <1>2, <2>1, <2>3
  <2>5. First(missing) \in missing /\ First(missing) <= j
    BY <2>4, FirstIs
  <2>6. ~(First(missing) < j)
    BY <1>2, <1>4, <2>5
  <2>7. First(missing) = j
    <3> DEFINE f == First(missing)
    <3>1. f \in Nat /\ f <= j /\ ~(f < j)
      BY <2>4, <2>5, <2>6
    <3> HIDE DEF f
    <3>2. f = j
      BY <1>1, <3>1
    <3> QED
      BY <3>2 DEF f
  <2>8. missing # {} /\ ~Available(is[First(missing)])
    BY <2>1, <2>4, <2>7
  <2> QED
    BY <2>1, <2>8 DEF missing, is
<1> QED
  BY <1>5, <1>6, <1>7, <1>8, LinkingAlone

\* wasmu_resolveModuleImports returns TRUE only when every import is resolved,
\* and FALSE only because the first of those that are not has nothing to be
\* resolved to (modules.h:303).
THEOREM LinkerAnswers == Spec => LinkAnswers
<1>1. Init => LinkInv
  BY DEF Init, LoadingInit, NoTask, LinkInv
<1>2. Inv /\ LinkInv /\ [Next]_vars => LinkInv'
  BY NextLinkInv
<1>3. Inv /\ LinkInv /\ [Next]_vars =>
        [task.call = "link" /\ task' = NoTask =>
           LET missing == Unresolved(task.module) IN
           IF answer'.ok THEN missing = {}
           ELSE missing # {} /\ ~Available(Current.imports[First(missing)])]_vars
  BY LinkAnswersRight
<1> QED
  BY <1>1, <1>2, <1>3, Invariance, PTL DEF Spec, LinkAnswers

-----------------------------------------------------------------------------
(***************************************************************************)
(* What any step does to a module's tables, functions and bodies.          *)
(***************************************************************************)

\* The parser is at work on module m.
ParserAt(m) == task.call = "parse" /\ task.module = m

\* y imports the same as x, resolved or not.
SameNames(x, y) ==
  /\ Len(y.imports) = Len(x.imports)
  /\ \A i \in 1..Len(x.imports) : /\ y.imports[i].module = x.imports[i].module
                                  /\ y.imports[i].name = x.imports[i].name

\* y has the lists of x, and its parser is where that of x is.
Alike(x, y) ==
  /\ y.tables = x.tables /\ y.functions = x.functions /\ SameNames(x, y)
  /\ y.next = x.next /\ y.nextBody = x.nextBody

\* What becomes of x but by the parser: its name or one of its imports changes,
\* or it gets a binary or a host function.
Renews(x, y) == y.binary = x.binary /\ Alike(x, y)

Loads(x, y) == x.binary = NoBinary /\ Alike(x, y)

AddsNative(x, y) ==
  /\ y.binary = x.binary /\ y.tables = x.tables /\ y.imports = x.imports
  /\ y.next = x.next /\ y.nextBody = x.nextBody
  /\ \E f \in Function : /\ f.import = 0 /\ f.native /\ f.position = 0
                         /\ y.functions = Append(x.functions, f)

\* Module m becomes y, and no parser begins, unless with a binary.
Changes(m, y) ==
  /\ m \in 1..Len(modules) /\ y \in Module
  /\ modules' = [modules EXCEPT ![m] = y]
  /\ \A k \in 1..Len(modules) : k # m => (ParserAt(k)' => ParserAt(k))
  /\ \/ Renews(modules[m], y) /\ (ParserAt(m)' => ParserAt(m))
     \/ Loads(modules[m], y) /\ ~ParserAt(m)
     \/ AddsNative(modules[m], y) /\ ~ParserAt(m)'

\* All steps are of these kinds.
StepsAre ==
  \/ modules' = modules /\ \A k : ParserAt(k)' => ParserAt(k)
  \/ modules' = Append(modules, EmptyModule) /\ task' = task /\ task = NoTask
  \/ \E m, y : Changes(m, y)
  \/ task.call = "parse" /\ \E y : Parses(y)

\* The host's steps that set up are of these kinds.
\* The host's steps that set up are of these kinds.
LEMMA SetUpIs ==
  ASSUME LoadInv, SetUp
  PROVE  StepsAre
<1>1. modules \in Seq(Module)
  BY DEF LoadInv
<1>2. CASE NewModule
  BY <1>2 DEF NewModule, StepsAre
<1>3. ASSUME NEW m \in 1..Len(modules), AssignName(m)
      PROVE  StepsAre
  <2> DEFINE v == plan[m].name
             x == [modules[m] EXCEPT !.name = v]
  <2>1. /\ task = NoTask /\ task' = task
        /\ modules' = [modules EXCEPT ![m] = x]
    BY <1>1, <1>3 DEF AssignName
  <2>2. modules[m] \in Module /\ plan[m] \in Planned
    BY <2>1, IdleType
  <2>3. v \in Names \cup {NoName}
    BY <2>2 DEF Planned
  <2> HIDE DEF v
  <2>4. /\ x \in Module /\ x.binary = modules[m].binary
        /\ x.tables = modules[m].tables /\ x.functions = modules[m].functions
        /\ x.imports = modules[m].imports
        /\ x.next = modules[m].next /\ x.nextBody = modules[m].nextBody
    BY <2>2, <2>3, NameChanged
  <2> HIDE DEF x
  <2>5. \A k : ~ParserAt(k)'
    BY <2>1 DEF ParserAt, NoTask
  <2>6. Changes(m, x)
    BY <2>1, <2>4, <2>5 DEF Changes, Renews, Alike, SameNames
  <2> QED
    BY <2>6 DEF StepsAre
<1>4. ASSUME NEW m \in 1..Len(modules), AddNativeFunction(m)
      PROVE  StepsAre
  <2>1. PICK name \in Names :
          modules' = [modules EXCEPT ![m] = WithNative(modules[m], name)]
    BY <1>4, AddNativeIs
  <2>2. modules[m] \in Module /\ ModuleOK(modules[m])
    BY <1>4, IdleType DEF AddNativeFunction
  <2> DEFINE y == modules[m]
             x == WithNative(y, name)
  <2>3. x = WithNative(y, name) /\ y \in Module /\ ModuleOK(y)
    BY <2>2
  <2>4. modules' = [modules EXCEPT ![m] = x]
    BY <2>1
  <2>5. y = modules[m]
    OBVIOUS
  <2> HIDE DEF x, y
  <2>6. /\ x \in Module /\ x.binary = y.binary /\ x.next = y.next
        /\ x.nextBody = y.nextBody /\ x.tables = y.tables
        /\ x.imports = y.imports
    BY <2>3, WithNativeIs
  <2>10. \E f \in Function : /\ f.import = 0 /\ f.native /\ f.position = 0
                             /\ x.functions = Append(y.functions, f)
    BY <2>3, WithNativeIs
  <2>7. AddsNative(y, x)
    BY <2>6, <2>10 DEF AddsNative
  <2>8. \A k : ~ParserAt(k)'
    BY <1>4 DEF ParserAt, NoTask, AddNativeFunction
  <2>9. Changes(m, x)
    BY <2>4, <2>5, <2>6, <2>7, <2>8 DEF Changes
  <2> QED
    BY <2>9 DEF StepsAre
<1>5. ASSUME NEW m \in 1..Len(modules), Load(m)
      PROVE  StepsAre
  <2> DEFINE v == plan[m].binary
             x == [modules[m] EXCEPT !.binary = v]
  <2>1. /\ task = NoTask /\ modules[m].binary = NoBinary
        /\ modules' = [modules EXCEPT ![m] = x]
        /\ \/ task' = [call |-> "parse", module |-> m, import |-> 0]
           \/ task' = task
    BY <1>1, <1>5 DEF Load
  <2>2. modules[m] \in Module /\ plan[m] \in Planned
    BY <2>1, IdleType
  <2>3. v \in Binary
    BY <2>2 DEF Planned
  <2> HIDE DEF v
  <2>4. /\ x \in Module
        /\ x.tables = modules[m].tables /\ x.functions = modules[m].functions
        /\ x.imports = modules[m].imports
        /\ x.next = modules[m].next /\ x.nextBody = modules[m].nextBody
    BY <2>2, <2>3, BinaryChanged
  <2> HIDE DEF x
  <2>5. ~ParserAt(m)
    BY <2>1 DEF ParserAt, NoTask
  <2>6. \A k : k # m => ~ParserAt(k)'
    BY <2>1 DEF ParserAt, NoTask
  <2>7. Changes(m, x)
    BY <2>1, <2>4, <2>5, <2>6 DEF Changes, Loads, Alike, SameNames
  <2> QED
    BY <2>7 DEF StepsAre
<1> QED
  BY <1>2, <1>3, <1>4, <1>5 DEF SetUp

\* What the linker resolves keeps its names.
LEMMA ResolvedNames ==
  ASSUME LoadInv, ResolveImport, NEW x, Resolving(x)
  PROVE  SameNames(Current, x)
<1> DEFINE is     == Current.imports
           n      == task.import
           target == First(ModulesNamed(ImportRead.module))
           import == [ImportRead EXCEPT
                        !.resolvedModule = target,
                        !.index = ExportIndex(target, ImportRead.name)]
<1>1. /\ n \in 1..Len(is) /\ Len(x.imports) = Len(is)
      /\ x.imports[n] = import
      /\ \A i \in 1..Len(is) : i # n => x.imports[i] = is[i]
  BY DEF Resolving
<1>2. Current \in Module
  BY CurrentType DEF ResolveImport, AtImport
<1>3. ImportRead = is[n] /\ is[n] \in Import
  <2>1. is \in Seq(Import)
    BY <1>2 DEF Module
  <2> QED
    BY <1>1, <2>1, ElementOfSeq DEF ImportRead
<1>4. import.module = is[n].module /\ import.name = is[n].name
  BY <1>3 DEF Import
<1> HIDE DEF import
<1>5. ASSUME NEW i \in 1..Len(is)
      PROVE  x.imports[i].module = is[i].module /\ x.imports[i].name = is[i].name
  BY <1>1, <1>4
<1> QED
  BY <1>1, <1>5 DEF SameNames

\* The linker changes an import and no list.
\* The linker changes an import and no list.
LEMMA ResolveIs ==
  ASSUME LoadInv, ResolveImport
  PROVE  StepsAre
<1>1. PICK x : Resolving(x)
  BY ResolvingIs
<1> DEFINE m == task.module
<1>2. /\ x \in Module /\ x.binary = modules[m].binary
      /\ x.tables = modules[m].tables /\ x.functions = modules[m].functions
      /\ x.next = modules[m].next /\ x.nextBody = modules[m].nextBody
      /\ modules' = [modules EXCEPT ![m] = x]
  BY <1>1 DEF Resolving, Current
<1>8. SameNames(modules[m], x)
  BY <1>1, ResolvedNames DEF Current
<1>3. task.call = "link" /\ task \in Task
  BY DEF ResolveImport, AtImport, LoadInv
<1>4. m \in 1..Len(modules)
  BY <1>3 DEF LoadInv
<1>5. task'.call = "link"
  BY <1>3 DEF ResolveImport, Task
<1>6. \A k : ~ParserAt(k)'
  BY <1>5 DEF ParserAt
<1> HIDE DEF m
<1>7. Changes(m, x)
  BY <1>2, <1>4, <1>6, <1>8 DEF Changes, Renews, Alike
<1> QED
  BY <1>7 DEF StepsAre

\* So are all steps.
\* So are all steps.
LEMMA StepIs ==
  ASSUME Inv, [Next]_vars
  PROVE  StepsAre
<1>0. LoadInv
  BY DEF Inv
<1>1. ASSUME modules' = modules, task' = task \/ task'.call # "parse"
      PROVE  StepsAre
  BY <1>1 DEF StepsAre, ParserAt
<1>2. CASE SetUp
  BY <1>0, <1>2, SetUpIs
<1>3. CASE ParserStep
  <2>1. task.call = "parse"
    BY <1>3 DEF ParserStep, ParseCustom, ParseType, ParseImport, ParseFunction,
         ParseTable, ParseMemory, ParseGlobal, ParseExport, ParseElement,
         ParseCode, ParseData, ParseUnknown, Parsing, AtItem
  <2> QED
    BY <1>0, <1>3, <2>1, ParserParses DEF StepsAre
<1>4. CASE ResolveImport
  BY <1>0, <1>4, ResolveIs
<1>5. CASE HostNext
  <2>1. CASE HostSetUp
    BY <1>2, <2>1 DEF HostSetUp
  <2>2. CASE HostStep \/ HostStop \/ HostDestroy
    <3>1. modules' = modules /\ task' = task
      BY <2>2 DEF HostStep, HostStop, HostDestroy, loadingVars
    <3> QED
      BY <1>1, <3>1
  <2>3. ASSUME NEW m, HostLink(m)
        PROVE  modules' = modules /\ task'.call # "parse"
    BY <2>3 DEF HostLink, Link
  <2>4. ASSUME NEW m, NEW f, RunFunction(m, f) \/ CallFunction(m, f)
        PROVE  modules' = modules /\ task' = task
    BY <2>4 DEF RunFunction, CallFunction
  <2> QED
    BY <1>1, <1>5, <2>1, <2>2, <2>3, <2>4 DEF HostNext
<1>6. CASE LibraryNext
  <2>1. CASE LoadingStep
    <3>1. CASE ParseEnd \/ RefuseImport \/ LinkEnd
      <4>1. modules' = modules /\ task' = NoTask
        BY <3>1 DEF ParseEnd, RefuseImport, LinkEnd
      <4>2. task'.call # "parse"
        BY <4>1 DEF NoTask
      <4> QED
        BY <1>1, <4>1, <4>2
    <3>2. CASE PassImport
      <4>1. task.call = "link" /\ task \in Task
        BY <1>0, <3>2 DEF PassImport, AtImport, LoadInv
      <4>2. task'.call = "link"
        BY <3>2, <4>1 DEF PassImport, Task
      <4> QED
        BY <1>1, <3>2, <4>2 DEF PassImport
    <3> QED
      BY <1>3, <1>4, <2>1, <3>1, <3>2 DEF LoadingStep, ParserStep
  <2>2. CASE \/ StepAfterOverrun \/ StepWithoutBody \/ StepCall \/ StepPastEnd
             \/ StepReturn \/ LoopEnd
    BY <1>1, <2>2
    DEF StepAfterOverrun, StepWithoutBody, StepCall, StepPastEnd, StepReturn,
        LoopEnd, StepUnchanged
  <2> QED
    BY <1>6, <2>1, <2>2 DEF LibraryNext
<1>7. CASE NativeEnds
  BY <1>1, <1>7 DEF NativeEnds, NativeReturns
<1>8. CASE UNCHANGED vars
  BY <1>1, <1>8 DEF vars, loadingVars
<1> QED
  BY <1>5, <1>6, <1>7, <1>8 DEF Next

-----------------------------------------------------------------------------
(***************************************************************************)
(* Tables.                                                                 *)
(***************************************************************************)

\* The items of a section that have been taken for module x
TakenOf(x, section) ==
  {i \in 1..(x.next - 1) : x.binary.items[i].section = section}

\* The entries that the segment which is item i of x is over
SegmentAt(x, i) ==
  (ItemAt(x, i).index + 1)..(ItemAt(x, i).index + Len(ItemAt(x, i).list))

EndAt(x, i) == ItemAt(x, i).index + Len(ItemAt(x, i).list)

CoveringOf(x, k) == {i \in TakenOf(x, "element") : k \in SegmentAt(x, i)}

\* The table t is what the segments of x say.
TableRight(x, t) ==
  /\ Len(t) = 0 \/ \E i \in TakenOf(x, "element") : Len(t) = EndAt(x, i)
  /\ \A i \in TakenOf(x, "element") : EndAt(x, i) <= Len(t)
  /\ \A k \in 1..Len(t) :
       \/ /\ CoveringOf(x, k) = {}
          /\ t[k] = 0
       \/ \E i \in CoveringOf(x, k) :
            /\ \A j \in CoveringOf(x, k) : j <= i
            /\ t[k] = ItemAt(x, i).list[k - ItemAt(x, i).index]

TablesRight(x) ==
  /\ x.tables = <<>> => TakenOf(x, "element") = {}
  /\ x.tables # <<>> => TableRight(x, x.tables[1])

\* That is what it means for tables to be as their segments say.
LEMMA TablesAreRight ==
  ASSUME modules \in Seq(Module),
         \A m \in 1..Len(modules) : TablesRight(modules[m])
  PROVE  TableAsSegments
<1> SUFFICES ASSUME NEW m \in 1..Len(modules), modules[m].tables # <<>>
             PROVE  LET table == modules[m].tables[1]
                        ends  == {0} \cup {ItemAt(modules[m], i).index
                                             + Len(ItemAt(modules[m], i).list) :
                                           i \in Taken(m, "element")}
                    IN /\ Len(table) \in ends
                       /\ \A n \in ends : n <= Len(table)
                       /\ \A k \in 1..Len(table) :
                            IF Covering(m, k) = {} THEN table[k] = 0
                            ELSE \E i \in Covering(m, k) :
                                   LET segment == ItemAt(modules[m], i) IN
                                   /\ \A j \in Covering(m, k) : j <= i
                                   /\ table[k] = segment.list[k - segment.index]
  BY DEF TableAsSegments
<1> DEFINE x == modules[m]
           t == modules[m].tables[1]
<1>1. Len(t) \in Nat
  <2>1. modules[m].tables \in Seq(Seq(Nat))
    <3>1. modules[m] \in Module
      BY ElementOfSeq
    <3> QED
      BY <3>1 DEF Module
  <2>2. t \in Seq(Nat)
    BY <2>1, EmptySeq, ElementOfSeq
  <2> QED
    BY <2>2
<1>2. TableRight(x, t)
  BY DEF TablesRight
<1>3. Taken(m, "element") = TakenOf(x, "element")
  BY DEF Taken, TakenOf
<1>4. \A k : Covering(m, k) = CoveringOf(x, k)
  BY <1>3 DEF Covering, CoveringOf, SegmentAt
<1> QED
  BY <1>1, <1>2, <1>3, <1>4 DEF TableRight, EndAt

\* Tables are as right as before if the segments are the same.
LEMMA SameSegments ==
  ASSUME NEW x, NEW y, NEW t, NEW u, TableRight(x, t), u = t,
         TakenOf(y, "element") = TakenOf(x, "element"),
         \A i \in TakenOf(x, "element") : ItemAt(y, i) = ItemAt(x, i)
  PROVE  TableRight(y, u)
<1>1. \A i \in TakenOf(x, "element") :
        EndAt(y, i) = EndAt(x, i) /\ SegmentAt(y, i) = SegmentAt(x, i)
  BY DEF EndAt, SegmentAt
<1>2. \A k : CoveringOf(y, k) = CoveringOf(x, k)
  BY <1>1 DEF CoveringOf
<1>3. \A k : CoveringOf(x, k) \subseteq TakenOf(x, "element")
  BY DEF CoveringOf
<1>4. \A k \in 1..Len(t) :
        \/ /\ CoveringOf(y, k) = {}
           /\ t[k] = 0
        \/ \E i \in CoveringOf(y, k) :
             /\ \A j \in CoveringOf(y, k) : j <= i
             /\ t[k] = ItemAt(y, i).list[k - ItemAt(y, i).index]
  <2> SUFFICES ASSUME NEW k \in 1..Len(t), CoveringOf(x, k) # {}
               PROVE  \E i \in CoveringOf(x, k) :
                        /\ \A j \in CoveringOf(x, k) : j <= i
                        /\ t[k] = ItemAt(y, i).list[k - ItemAt(y, i).index]
    BY <1>2 DEF TableRight
  <2>1. PICK i \in CoveringOf(x, k) :
               /\ \A j \in CoveringOf(x, k) : j <= i
               /\ t[k] = ItemAt(x, i).list[k - ItemAt(x, i).index]
    BY DEF TableRight
  <2>2. ItemAt(y, i) = ItemAt(x, i)
    BY <1>3
  <2> QED
    BY <2>1, <2>2
<1> QED
  BY <1>1, <1>4 DEF TableRight

\* Tables stay right if the binary and the items taken do.
\* Tables stay right if the binary and the items taken do.
LEMMA SameTables ==
  ASSUME NEW x, NEW y, TablesRight(x), y.tables = x.tables,
         TakenOf(y, "element") = TakenOf(x, "element"),
         \A i \in TakenOf(x, "element") : ItemAt(y, i) = ItemAt(x, i)
  PROVE  TablesRight(y)
BY SameSegments DEF TablesRight

\* Of what section the item was that has been taken
LEMMA TakenMore ==
  ASSUME NEW x \in Module, ModuleOK(x), NEW y, y.binary = x.binary,
         y.next = x.next + 1, NEW section
  PROVE  /\ TakenOf(y, section) =
              IF ItemAt(x, x.next).section = section
                THEN TakenOf(x, section) \cup {x.next}
                ELSE TakenOf(x, section)
         /\ \A i : ItemAt(y, i) = ItemAt(x, i)
<1>1. x.next \in Nat /\ x.next >= 1
  BY DEF Module, ModuleOK
<1>2. 1..(y.next - 1) = 1..(x.next - 1) \cup {x.next}
  BY <1>1
<1>3. ItemAt(x, x.next).section = x.binary.items[x.next].section
  BY DEF ItemAt, Zeros
<1> QED
  BY <1>2, <1>3 DEF TakenOf, ItemAt

\* The items that have been taken are numbered below the next.
LEMMA TakenBelow ==
  ASSUME NEW x \in Module, NEW section
  PROVE  TakenOf(x, section) \subseteq Nat
         /\ \A i \in TakenOf(x, section) : i < x.next
<1>1. x.next \in Nat
  BY DEF Module
<1> QED
  BY <1>1 DEF TakenOf

\* A segment more
LEMMA SegmentTaken ==
  ASSUME NEW x \in Module, ModuleOK(x), NEW y, NEW t \in Seq(Nat),
         y.binary = x.binary, y.next = x.next + 1,
         NEW item \in Item, item = ItemAt(x, x.next), item.section = "element",
         \A i \in TakenOf(x, "element") : ItemAt(x, i) \in Item,
         TableRight(x, t)
  PROVE  TableRight(y, WithElements(t, item.index, item.list))
<1> DEFINE u == WithElements(t, item.index, item.list)
<1>1. PICK start \in Nat, n \in Nat, L \in Nat, next \in Nat :
        /\ start = item.index /\ n = Len(item.list) /\ L = Len(t)
        /\ next = x.next
  <2>1. item.index \in Nat /\ item.list \in Seq(Nat)
    BY DEF Item
  <2>2. x.next \in Nat
    BY DEF Module
  <2>3. Len(item.list) \in Nat /\ Len(t) \in Nat
    BY <2>1
  <2> QED
    BY <2>1, <2>2, <2>3
<1>2. /\ u \in Seq(Nat) /\ Len(u) = Larger(start + n, Larger(start, L))
      /\ \A k \in 1..Len(u) : u[k] = EntryOf(t, start, item.list, k)
  <2>1. start \in Nat /\ item.list \in Seq(Nat)
    BY <1>1 DEF Item
  <2>2. u = WithElements(t, start, item.list)
    BY <1>1
  <2> HIDE DEF u
  <2>3. PICK list \in Seq(Nat) : list = item.list
    BY <2>1
  <2>4. /\ WithElements(t, start, list) \in Seq(Nat)
        /\ Len(WithElements(t, start, list)) =
             Larger(start + Len(list), Larger(start, Len(t)))
        /\ \A k \in 1..Len(WithElements(t, start, list)) :
             WithElements(t, start, list)[k] = EntryOf(t, start, list, k)
    BY WithElementsIs
  <2>5. u = WithElements(t, start, list)
    BY <2>2, <2>3
  <2> QED
    BY <1>1, <2>3, <2>4, <2>5
<1> HIDE DEF u
<1>3. TakenOf(y, "element") = TakenOf(x, "element") \cup {next}
  BY <1>1, TakenMore
<1>4. \A i : ItemAt(y, i) = ItemAt(x, i)
  BY TakenMore
<1>5. /\ EndAt(y, next) = start + n
      /\ SegmentAt(y, next) = (start + 1)..(start + n)
  BY <1>1, <1>4 DEF EndAt, SegmentAt
<1>6. \A i \in TakenOf(x, "element") :
        /\ EndAt(y, i) = EndAt(x, i) /\ SegmentAt(y, i) = SegmentAt(x, i)
        /\ EndAt(x, i) \in Nat /\ EndAt(x, i) <= L
        /\ SegmentAt(x, i) \subseteq 1..L
  <2> SUFFICES ASSUME NEW i \in TakenOf(x, "element")
               PROVE  /\ EndAt(y, i) = EndAt(x, i)
                      /\ SegmentAt(y, i) = SegmentAt(x, i)
                      /\ EndAt(x, i) \in Nat /\ EndAt(x, i) <= L
                      /\ SegmentAt(x, i) \subseteq 1..L
    OBVIOUS
  <2>1. PICK a \in Nat, b \in Nat : /\ a = ItemAt(x, i).index
                                    /\ b = Len(ItemAt(x, i).list)
    <3>1. /\ ItemAt(x, i).index \in Nat
          /\ ItemAt(x, i).list \in Seq(Nat)
      BY DEF Item
    <3>2. Len(ItemAt(x, i).list) \in Nat
      BY <3>1
    <3> QED
      BY <3>1, <3>2
  <2>2. a + b <= L
    BY <1>1, <2>1 DEF TableRight, EndAt
  <2> QED
    BY <1>4, <2>1, <2>2 DEF EndAt, SegmentAt
<1>7. Len(u) = start + n \/ Len(u) = L
  BY <1>2 DEF Larger
<1>8. start + n <= Len(u) /\ L <= Len(u)
  BY <1>2 DEF Larger
<1>9. Len(u) = 0 \/ \E i \in TakenOf(y, "element") : Len(u) = EndAt(y, i)
  <2>1. CASE Len(u) = start + n
    BY <1>3, <1>5, <2>1
  <2>2. CASE Len(u) = L
    BY <1>1, <1>3, <1>6, <2>2 DEF TableRight
  <2> QED
    BY <1>7, <2>1, <2>2
<1>10. \A i \in TakenOf(y, "element") : EndAt(y, i) <= Len(u)
  <2>1. Len(u) \in Nat
    BY <1>2
  <2> QED
    BY <1>3, <1>5, <1>6, <1>8, <2>1
<1>11. ASSUME NEW k \in 1..Len(u)
       PROVE  \/ /\ CoveringOf(y, k) = {}
                 /\ u[k] = 0
              \/ \E i \in CoveringOf(y, k) :
                   /\ \A j \in CoveringOf(y, k) : j <= i
                   /\ u[k] = ItemAt(y, i).list[k - ItemAt(y, i).index]
  <2>0. k \in Nat /\ k >= 1
    BY <1>2
  <2>1. CASE k \in (start + 1)..(start + n)
    <3>1. next \in CoveringOf(y, k)
      BY <1>3, <1>5, <2>1 DEF CoveringOf
    <3>2. \A j \in CoveringOf(y, k) : j <= next
      BY <1>1, <1>3, TakenBelow DEF CoveringOf
    <3>3. u[k] = item.list[k - start]
      BY <1>1, <1>2, <2>1 DEF EntryOf
    <3>4. ItemAt(y, next) = item
      BY <1>1, <1>4
    <3> QED
      BY <1>1, <3>1, <3>2, <3>3, <3>4
  <2>2. CASE k \notin (start + 1)..(start + n) /\ k <= L
    <3>1. u[k] = t[k] /\ k \in 1..Len(t)
      BY <1>1, <1>2, <2>0, <2>2 DEF EntryOf
    <3>2. CoveringOf(y, k) = CoveringOf(x, k)
      BY <1>3, <1>5, <1>6, <2>2 DEF CoveringOf
    <3>3. \/ /\ CoveringOf(x, k) = {}
             /\ t[k] = 0
          \/ \E i \in CoveringOf(x, k) :
               /\ \A j \in CoveringOf(x, k) : j <= i
               /\ t[k] = ItemAt(x, i).list[k - ItemAt(x, i).index]
      BY <3>1 DEF TableRight
    <3> QED
      BY <1>4, <3>1, <3>2, <3>3
  <2>3. CASE k \notin (start + 1)..(start + n) /\ ~(k <= L)
    <3>1. u[k] = 0
      BY <1>1, <1>2, <2>3 DEF EntryOf
    <3>2. CoveringOf(y, k) = {}
      BY <1>3, <1>5, <1>6, <2>3 DEF CoveringOf
    <3> QED
      BY <3>1, <3>2
  <2> QED
    BY <2>1, <2>2, <2>3
<1> QED
  BY <1>9, <1>10, <1>11 DEF TableRight, u

\* What the parser does keeps tables right.
LEMMA ParserKeepsTables ==
  ASSUME LoadInv, task.call = "parse", TablesRight(Current),
         NEW y, Parses(y)
  PROVE  TablesRight(y)
<1>1. Current \in Module /\ ModuleOK(Current)
  BY CurrentType
<1> DEFINE x == Current
<1>2. x \in Module /\ ModuleOK(x) /\ TablesRight(x) /\ y.binary = x.binary
  BY <1>1 DEF Parses
<1>3. x.tables \in Seq(Seq(Nat))
  BY <1>2 DEF Module
<1>4. CASE Leaves(x, y)
  <2>1. TakenOf(y, "element") = TakenOf(x, "element")
    BY <1>2, <1>4 DEF TakenOf, Leaves
  <2>2. \A i : ItemAt(y, i) = ItemAt(x, i)
    BY <1>2 DEF ItemAt
  <2> HIDE DEF x
  <2> QED
    BY <1>2, <1>4, <2>1, <2>2, SameTables DEF SameLists, Leaves
<1>5. CASE AtItem /\ y.next = x.next + 1 /\ Takes(x, y, Read)
  <2>1. PICK item \in Item : item = Read
    BY <1>5, ReadType
  <2>2. item = ItemAt(x, x.next) /\ x.next \in 1..Len(x.binary.items)
    BY <1>5, <2>1, ReadType DEF Read
  <2> HIDE DEF x
  <2>3. \A i : ItemAt(y, i) = ItemAt(x, i)
    BY <1>2, <1>5, TakenMore
  <2>4. item.section # "element" =>
          TakenOf(y, "element") = TakenOf(x, "element")
    BY <1>2, <1>5, <2>2, TakenMore
  <2>5. CASE item.section # "element" /\ y.tables = x.tables
    BY <1>2, <2>3, <2>4, <2>5, SameTables
  <2>6. CASE item.section = "table" /\ y.tables = Append(x.tables, <<>>)
    <3>1. y.tables # <<>>
      <4>1. PICK n \in Nat : n = Len(x.tables)
        BY <1>3
      <4>2. <<>> \in Seq(Nat)
        BY EmptySeq
      <4>3. Len(y.tables) = n + 1
        BY <1>3, <2>6, <4>1, <4>2
      <4> QED
        BY <4>3, EmptySeq
    <3>2. CASE x.tables = <<>>
      <4>1. y.tables[1] = <<>>
        BY <1>3, <2>6, <3>2
      <4>2. TakenOf(y, "element") = {}
        BY <1>2, <2>4, <2>6, <3>2 DEF TablesRight
      <4>3. Len(y.tables[1]) = 0
        BY <4>1
      <4> QED
        BY <3>1, <4>2, <4>3 DEF TablesRight, TableRight
    <3>3. CASE x.tables # <<>>
      <4>1. y.tables[1] = x.tables[1]
        BY <1>3, <2>6, <3>3
      <4>2. TableRight(y, y.tables[1])
        BY <1>2, <2>3, <2>4, <2>6, <3>3, <4>1, SameSegments DEF TablesRight
      <4> QED
        BY <3>1, <4>2 DEF TablesRight
    <3> QED
      BY <3>2, <3>3
  <2>7. CASE /\ item.section = "element" /\ x.tables # <<>>
             /\ y.tables = [x.tables EXCEPT
                      ![1] = WithElements(x.tables[1], item.index, item.list)]
    <3>1. PICK t \in Seq(Nat) : t = x.tables[1]
      BY <1>3, <2>7, EmptySeq, ElementOfSeq
    <3>2. /\ y.tables # <<>>
          /\ y.tables[1] = WithElements(t, item.index, item.list)
      <4>1. Len(x.tables) \in Nat /\ 1 \in 1..Len(x.tables)
        BY <1>3, <2>7, EmptySeq
      <4> DEFINE u == WithElements(t, item.index, item.list)
      <4>2. y.tables = [x.tables EXCEPT ![1] = u]
        BY <2>7, <3>1
      <4> HIDE DEF u
      <4>3. y.tables[1] = u /\ Len(y.tables) = Len(x.tables)
        BY <1>3, <4>1, <4>2
      <4> QED
        BY <4>1, <4>3, EmptySeq DEF u
    <3>3. ASSUME NEW i \in TakenOf(x, "element")
          PROVE  ItemAt(x, i) \in Item
      <4>1. i \in 1..Len(x.binary.items)
        BY <2>2, TakenBelow DEF TakenOf
      <4> QED
        BY <1>2, <4>1, ItemType
    <3>4. TableRight(x, t)
      BY <1>2, <2>7, <3>1 DEF TablesRight
    <3>5. TableRight(y, WithElements(t, item.index, item.list))
      BY <1>2, <1>5, <2>2, <2>7, <3>3, <3>4, SegmentTaken
    <3> QED
      BY <3>2, <3>5 DEF TablesRight
  <2> QED
    BY <1>5, <2>1, <2>5, <2>6, <2>7 DEF Takes, SameLists
<1> QED
  BY <1>4, <1>5 DEF Parses

\* All modules have right tables.
TablesInv == \A m \in 1..Len(modules) : TablesRight(modules[m])

\* Every step keeps the tables right.
\* Every step keeps the tables right.
LEMMA TablesStayRight ==
  ASSUME Inv, TablesInv, [Next]_vars
  PROVE  TablesInv'
<1>0. LoadInv
  BY DEF Inv
<1>1. modules \in Seq(Module) /\ \A m \in 1..Len(modules) : ModuleOK(modules[m])
  BY <1>0 DEF LoadInv
<1>2. ASSUME NEW m \in 1..Len(modules), NEW y, TablesRight(y),
             modules' = [modules EXCEPT ![m] = y]
      PROVE  TablesInv'
  BY <1>1, <1>2 DEF TablesInv
<1>3. CASE modules' = modules
  BY <1>3 DEF TablesInv
<1>4. CASE modules' = Append(modules, EmptyModule)
  <2>1. TablesRight(EmptyModule)
    BY DEF TablesRight, EmptyModule, TakenOf
  <2> QED
    BY <1>1, <1>4, <2>1 DEF TablesInv
<1>5. ASSUME NEW m, NEW y, Changes(m, y)
      PROVE  TablesInv'
  <2> DEFINE x == modules[m]
  <2>1. /\ m \in 1..Len(modules) /\ modules' = [modules EXCEPT ![m] = y]
        /\ x \in Module /\ ModuleOK(x) /\ TablesRight(x)
        /\ y.tables = x.tables /\ y.next = x.next
        /\ y.binary = x.binary \/ x.binary = NoBinary
    BY <1>1, <1>5, ElementOfSeq
    DEF Changes, Renews, Loads, AddsNative, Alike, TablesInv
  <2> HIDE DEF x
  <2>2. /\ TakenOf(y, "element") = TakenOf(x, "element")
        /\ \A i \in TakenOf(x, "element") : ItemAt(y, i) = ItemAt(x, i)
    <3>1. CASE y.binary = x.binary
      BY <2>1, <3>1 DEF TakenOf, ItemAt
    <3>2. CASE x.binary = NoBinary
      <4>1. x.next = 1
        BY <2>1, <3>2 DEF ModuleOK
      <4> QED
        BY <2>1, <4>1 DEF TakenOf
    <3> QED
      BY <2>1, <3>1, <3>2
  <2>3. TablesRight(y)
    BY <2>1, <2>2, SameTables
  <2> QED
    BY <1>2, <2>1, <2>3
<1>6. ASSUME NEW y, Parses(y), task.call = "parse"
      PROVE  TablesInv'
  <2>1. task.module \in 1..Len(modules)
    BY <1>0, <1>6 DEF LoadInv
  <2>2. TablesRight(Current)
    BY <2>1 DEF Current, TablesInv
  <2>3. TablesRight(y)
    BY <1>0, <1>6, <2>2, ParserKeepsTables
  <2> QED
    BY <1>2, <1>6, <2>1, <2>3 DEF Parses
<1> QED
  BY <1>3, <1>4, <1>5, <1>6, StepIs DEF StepsAre

\* Tables are as their segments say, whatever is loaded in whatever order
\* (parser.h:280-327).
THEOREM TablesAreAsSegments == Spec => []TableAsSegments
<1>1. Init => TablesInv
  BY EmptySeq DEF Init, LoadingInit, TablesInv
<1>2. Inv /\ TablesInv /\ [Next]_vars => TablesInv'
  BY TablesStayRight
<1>3. Inv /\ TablesInv => TableAsSegments
  BY TablesAreRight DEF Inv, LoadInv, TablesInv
<1> QED
  BY <1>1, <1>2, <1>3, Invariance, PTL DEF Spec

-----------------------------------------------------------------------------
(***************************************************************************)
(* Ranks in sets of numbers.                                               *)
(***************************************************************************)

\* What is added at the end changes no rank.
LEMMA RankAdded ==
  ASSUME NEW S, S \subseteq Nat, NEW n \in Nat, NEW i \in Nat, i <= n
  PROVE  Rank(i, S \cup {n}) = Rank(i, S)
<1>1. {j \in S \cup {n} : j < i} = {j \in S : j < i}
  OBVIOUS
<1> QED
  BY <1>1 DEF Rank

\* The rank of what comes after all is their number.
LEMMA RankAfter ==
  ASSUME NEW S, NEW n, \A j \in S : j < n
  PROVE  Rank(n, S) = Cardinality(S)
<1>1. {j \in S : j < n} = S
  OBVIOUS
<1> QED
  BY <1>1 DEF Rank

\* Ranks are numbers, they grow, and those in the set are less than its size.
LEMMA RankIs ==
  ASSUME NEW S, S \subseteq Nat, IsFiniteSet(S), NEW i \in Nat
  PROVE  /\ Rank(i, S) \in Nat
         /\ Cardinality(S) \in Nat
         /\ i \in S => Rank(i, S) < Cardinality(S)
         /\ \A k \in Nat : i <= k => Rank(i, S) <= Rank(k, S)
<1> DEFINE B == {j \in S : j < i}
<1>1. B \subseteq S /\ i \notin B /\ Rank(i, S) = Cardinality(B)
  BY DEF Rank
<1> HIDE DEF B
<1>2. IsFiniteSet(B) /\ Cardinality(B) <= Cardinality(S)
      /\ (Cardinality(S) = Cardinality(B) => S = B)
  BY <1>1, FS_Subset
<1>3. Cardinality(B) \in Nat /\ Cardinality(S) \in Nat
  BY <1>2, FS_CardinalityType
<1>4. i \in S => Cardinality(B) < Cardinality(S)
  BY <1>1, <1>2, <1>3
<1>5. ASSUME NEW k \in Nat, i <= k
      PROVE  Rank(i, S) <= Rank(k, S)
  <2> DEFINE C == {j \in S : j < k}
  <2>1. C \subseteq S /\ Rank(k, S) = Cardinality(C)
    BY DEF Rank
  <2>4. \A j \in S : j < i => j < k
    BY <1>5
  <2>5. B \subseteq C
    BY <2>4 DEF B
  <2> HIDE DEF C
  <2>2. IsFiniteSet(C)
    BY <2>1, FS_Subset
  <2>3. Cardinality(B) <= Cardinality(C)
    BY <2>2, <2>5, FS_Subset
  <2> QED
    BY <1>1, <2>1, <2>3
<1> QED
  BY <1>1, <1>3, <1>4, <1>5

\* The next in a set has the rank that was reached, and takes it one further.
LEMMA RankNext ==
  ASSUME NEW S, S \subseteq Nat, IsFiniteSet(S), NEW b \in Nat, NEW f \in S,
         b <= f, \A j \in S : j < b \/ f <= j
  PROVE  /\ Rank(f, S) = Rank(b, S)
         /\ Rank(f + 1, S) = Rank(b, S) + 1
<1> DEFINE B == {j \in S : j < b}
<1>1. f \in Nat
  OBVIOUS
<1>8. ASSUME NEW j \in S
      PROVE  (j < f <=> j < b) /\ (j < f + 1 <=> j < b \/ j = f)
  <2>1. j \in Nat /\ (j < b \/ f <= j)
    OBVIOUS
  <2> QED
    BY <1>1, <2>1
<1>2. {j \in S : j < f} = B
  BY <1>8
<1>3. {j \in S : j < f + 1} = B \cup {f}
  BY <1>8
<1>4. Rank(b, S) = Cardinality(B) /\ Rank(f, S) = Cardinality(B)
      /\ Rank(f + 1, S) = Cardinality(B \cup {f})
  BY <1>2, <1>3 DEF Rank
<1>5. B \subseteq S /\ f \notin B
  BY <1>1
<1> HIDE DEF B
<1>6. IsFiniteSet(B)
  BY <1>5, FS_Subset
<1>7. Cardinality(B \cup {f}) = Cardinality(B) + 1
  BY <1>5, <1>6, FS_AddElement
<1> QED
  BY <1>4, <1>7

-----------------------------------------------------------------------------
(***************************************************************************)
(* Bodies.                                                                 *)
(***************************************************************************)
DeclaredOf(x) ==
  {f \in 1..Len(x.functions) :
     x.functions[f].import = 0 /\ ~x.functions[f].native}

\* The bodies of x are those of the functions it declares, in their order, up
\* to where the search for the next one is to begin.
BodiesPlaced(x) ==
  /\ \A f \in 1..Len(x.functions) : x.functions[f].position # 0 =>
       /\ f \in DeclaredOf(x) /\ f < x.nextBody
       /\ x.functions[f].position \in TakenOf(x, "code")
       /\ Rank(x.functions[f].position, TakenOf(x, "code"))
            = Rank(f, DeclaredOf(x))
  /\ \A f \in DeclaredOf(x) : f < x.nextBody => x.functions[f].position # 0
  /\ Rank(x.nextBody, DeclaredOf(x)) = Cardinality(TakenOf(x, "code"))

\* Before there is a binary the search has not begun, and while the parser is at
\* work it has not gone beyond what there is; that is no host function then.
SearchBegins(x) == x.binary = NoBinary => x.nextBody = 1

SearchesDeclared(x) ==
  NativesOf(x) = {} /\ x.nextBody <= Len(x.functions) + 1

BodiesInv ==
  \A m \in 1..Len(modules) : 1 \notin NativesOf(modules[m]) =>
    /\ BodiesPlaced(modules[m]) /\ SearchBegins(modules[m])
    /\ ParserAt(m) => SearchesDeclared(modules[m])

\* Both sets are finite sets of numbers.
LEMMA SetsOfNumbers ==
  ASSUME NEW x \in Module
  PROVE  /\ Len(x.functions) \in Nat /\ x.next \in Nat /\ x.nextBody \in Nat
         /\ DeclaredOf(x) \subseteq 1..Len(x.functions)
         /\ DeclaredOf(x) \subseteq Nat /\ IsFiniteSet(DeclaredOf(x))
         /\ TakenOf(x, "code") \subseteq 1..(x.next - 1)
         /\ TakenOf(x, "code") \subseteq Nat
         /\ IsFiniteSet(TakenOf(x, "code"))
<1>1. Len(x.functions) \in Nat /\ x.next \in Nat /\ x.nextBody \in Nat
  BY CountsType DEF Module
<1>2. IsFiniteSet(1..Len(x.functions)) /\ IsFiniteSet(1..(x.next - 1))
  <2>1. 1 \in Int /\ Len(x.functions) \in Int /\ x.next - 1 \in Int
    BY <1>1
  <2> QED
    BY <2>1, FS_Interval
<1>3. /\ DeclaredOf(x) \subseteq 1..Len(x.functions)
      /\ TakenOf(x, "code") \subseteq 1..(x.next - 1)
  BY DEF DeclaredOf, TakenOf
<1>4. IsFiniteSet(DeclaredOf(x)) /\ IsFiniteSet(TakenOf(x, "code"))
  BY <1>2, <1>3, FS_Subset
<1> QED
  BY <1>1, <1>3, <1>4

\* That is what it means for bodies to be those of the declared functions.
LEMMA BodiesArePlaced ==
  ASSUME modules \in Seq(Module), BodiesInv
  PROVE  BodiesOfDeclared
<1> SUFFICES ASSUME NEW m \in 1..Len(modules), 1 \notin NativesOf(modules[m]),
                    NEW f \in 1..Len(modules[m].functions)
             PROVE  LET own == {i \in Taken(m, "code") :
                                  /\ f \in Declared(m)
                                  /\ Rank(i, Taken(m, "code"))
                                       = Rank(f, Declared(m))}
                    IN IF own = {} THEN modules[m].functions[f].position = 0
                       ELSE modules[m].functions[f].position \in own
  BY DEF BodiesOfDeclared
<1> DEFINE x == modules[m]
           p == modules[m].functions[f].position
           T == TakenOf(x, "code")
           Own == DeclaredOf(x)
<1>1. x \in Module /\ BodiesPlaced(x) /\ p = x.functions[f].position
  BY ElementOfSeq DEF BodiesInv
<1>2. Taken(m, "code") = T /\ Declared(m) = Own
  BY DEF Taken, TakenOf, Declared, DeclaredOf
<1>3. f \in 1..Len(x.functions)
  OBVIOUS
<1> HIDE DEF x, p
<1>4. p # 0 => f \in Own /\ p \in T /\ Rank(p, T) = Rank(f, Own)
  BY <1>1, <1>3 DEF BodiesPlaced
<1>5. ASSUME NEW i \in T, f \in Own, Rank(i, T) = Rank(f, Own)
      PROVE  p # 0
  <2>1. /\ x.nextBody \in Nat /\ Own \subseteq Nat /\ IsFiniteSet(Own)
        /\ T \subseteq Nat /\ IsFiniteSet(T)
    BY <1>1, SetsOfNumbers
  <2>2. /\ Rank(x.nextBody, Own) = Cardinality(T)
        /\ f < x.nextBody => p # 0
    BY <1>1, <1>5 DEF BodiesPlaced
  <2> HIDE DEF T, Own
  <2>3. i \in Nat /\ f \in Nat
    BY <1>5, <2>1
  <2>4. Rank(i, T) < Cardinality(T) /\ Rank(i, T) \in Nat
        /\ Cardinality(T) \in Nat
    BY <1>5, <2>1, <2>3, RankIs
  <2>5. x.nextBody <= f => Rank(x.nextBody, Own) <= Rank(f, Own)
    BY <2>1, <2>3, RankIs
  <2> QED
    BY <1>5, <2>1, <2>2, <2>3, <2>4, <2>5
<1> HIDE DEF T, Own
<1>6. CASE p = 0
  BY <1>2, <1>5, <1>6 DEF p
<1>7. CASE p # 0
  BY <1>2, <1>4, <1>7 DEF p
<1> QED
  BY <1>6, <1>7

\* Bodies are placed as before if functions and bodies are the same.
LEMMA SameBodies ==
  ASSUME NEW x, NEW y, BodiesPlaced(x), y.functions = x.functions,
         y.nextBody = x.nextBody, TakenOf(y, "code") = TakenOf(x, "code")
  PROVE  BodiesPlaced(y)
<1>1. DeclaredOf(y) = DeclaredOf(x)
  BY DEF DeclaredOf
<1> QED
  BY <1>1 DEF BodiesPlaced

\* No function is left for a body.
LEMMA BodiesLeft ==
  ASSUME NEW x \in Module, NEW y \in Module, BodiesPlaced(x),
         SearchesDeclared(x), Bodiless(x) = {}, y.functions = x.functions,
         y.nextBody > x.nextBody, TakenOf(y, "code") = TakenOf(x, "code")
  PROVE  BodiesPlaced(y)
<1> DEFINE Own == DeclaredOf(x)
<1>1. DeclaredOf(y) = Own
  BY DEF DeclaredOf
<1>2. Own \subseteq Nat /\ x.nextBody \in Nat /\ y.nextBody \in Nat
  BY SetsOfNumbers
<1>3. \A f \in Own : f < x.nextBody
  <2> SUFFICES ASSUME NEW f \in Own, x.nextBody <= f
               PROVE  FALSE
    BY <1>2
  <2>1. f \in x.nextBody..Len(x.functions) /\ x.functions[f].import = 0
    BY <1>2, SetsOfNumbers DEF DeclaredOf
  <2> QED
    BY <2>1 DEF Bodiless
<1> HIDE DEF Own
<1>4. \A f \in Own : f < y.nextBody
  BY <1>2, <1>3
<1>5. Rank(y.nextBody, Own) = Rank(x.nextBody, Own)
  BY <1>3, <1>4, RankAfter
<1>6. /\ \A f \in 1..Len(x.functions) : x.functions[f].position # 0 =>
           /\ f \in Own
           /\ x.functions[f].position \in TakenOf(x, "code")
           /\ Rank(x.functions[f].position, TakenOf(x, "code")) = Rank(f, Own)
      /\ \A f \in Own : x.functions[f].position # 0
      /\ Rank(x.nextBody, Own) = Cardinality(TakenOf(x, "code"))
  BY <1>3 DEF BodiesPlaced, Own
<1> QED
  BY <1>1, <1>4, <1>5, <1>6 DEF BodiesPlaced

\* A function more
LEMMA FunctionAdded ==
  ASSUME NEW x \in Module, NEW y \in Module, NEW f \in Function,
         y.functions = Append(x.functions, f)
  PROVE  /\ Len(y.functions) = Len(x.functions) + 1
         /\ \A g \in 1..Len(x.functions) : y.functions[g] = x.functions[g]
         /\ y.functions[Len(x.functions) + 1] = f
         /\ DeclaredOf(y) = IF f.import = 0 /\ ~f.native
                              THEN DeclaredOf(x) \cup {Len(x.functions) + 1}
                              ELSE DeclaredOf(x)
         /\ NativesOf(y) = IF f.native
                             THEN NativesOf(x) \cup {Len(x.functions) + 1}
                             ELSE NativesOf(x)
<1> DEFINE fs == x.functions
           gs == y.functions
<1>1. fs \in Seq(Function)
  BY DEF Module
<1>2. gs = Append(fs, f)
  OBVIOUS
<1> HIDE DEF fs, gs
<1>3. PICK n \in Nat : n = Len(fs)
  BY <1>1
<1>4. Len(gs) = n + 1 /\ gs[n + 1] = f /\ \A g \in 1..n : gs[g] = fs[g]
  BY <1>1, <1>2, <1>3
<1>5. 1..(n + 1) = 1..n \cup {n + 1}
  BY <1>3
<1>6. {g \in 1..(n + 1) : gs[g].import = 0 /\ ~gs[g].native}
        = IF f.import = 0 /\ ~f.native
            THEN {g \in 1..n : fs[g].import = 0 /\ ~fs[g].native} \cup {n + 1}
            ELSE {g \in 1..n : fs[g].import = 0 /\ ~fs[g].native}
  BY <1>4, <1>5
<1>7. {g \in 1..(n + 1) : gs[g].native}
        = IF f.native THEN {g \in 1..n : fs[g].native} \cup {n + 1}
          ELSE {g \in 1..n : fs[g].native}
  BY <1>4, <1>5
<1> QED
  BY <1>3, <1>4, <1>6, <1>7 DEF DeclaredOf, NativesOf, fs, gs

\* A function that is not declared by the module, or one that is while the
\* parser is at work, has no body yet, and changes no other's.
LEMMA BodiesOfMore ==
  ASSUME NEW x \in Module, NEW y \in Module, NEW f \in Function,
         BodiesPlaced(x), f.position = 0,
         f.import = 0 /\ ~f.native => x.nextBody <= Len(x.functions) + 1,
         y.functions = Append(x.functions, f), y.nextBody = x.nextBody,
         TakenOf(y, "code") = TakenOf(x, "code")
  PROVE  BodiesPlaced(y)
<1> DEFINE Own == DeclaredOf(x)
           E == DeclaredOf(y)
           T == TakenOf(x, "code")
           b == x.nextBody
<1>1. PICK n \in Nat : n = Len(x.functions) + 1
  BY SetsOfNumbers
<1>2. /\ Len(y.functions) = n /\ y.functions[n] = f
      /\ \A g \in 1..Len(x.functions) : y.functions[g] = x.functions[g]
      /\ E = IF f.import = 0 /\ ~f.native THEN Own \cup {n} ELSE Own
  BY <1>1, FunctionAdded
<1>3. /\ Own \subseteq 1..Len(x.functions) /\ Own \subseteq Nat /\ b \in Nat
      /\ Len(x.functions) \in Nat
  BY SetsOfNumbers
<1>4. \A g \in 1..Len(y.functions) : g \in 1..Len(x.functions) \/ g = n
  BY <1>1, <1>2, <1>3
<1>5. /\ \A g \in 1..Len(x.functions) : x.functions[g].position # 0 =>
           /\ g \in Own /\ g < b
           /\ x.functions[g].position \in T
           /\ Rank(x.functions[g].position, T) = Rank(g, Own)
      /\ \A g \in Own : g < b => x.functions[g].position # 0
      /\ Rank(b, Own) = Cardinality(T)
  BY DEF BodiesPlaced
<1>6. y.nextBody = b /\ TakenOf(y, "code") = T /\ DeclaredOf(y) = E
  OBVIOUS
<1>7. f.import = 0 /\ ~f.native => b <= n
  BY <1>1
<1> HIDE DEF Own, E, T, b
<1>8. \A g \in Nat : g <= n => Rank(g, Own \cup {n}) = Rank(g, Own)
  BY <1>3, RankAdded
<1>9. ASSUME NEW g \in 1..Len(y.functions), y.functions[g].position # 0
      PROVE  /\ g \in E /\ g < b /\ y.functions[g].position \in T
             /\ Rank(y.functions[g].position, T) = Rank(g, E)
  <2>1. g \in 1..Len(x.functions) /\ y.functions[g] = x.functions[g]
    BY <1>2, <1>4, <1>9
  <2>2. g \in Nat /\ g <= n
    BY <1>1, <1>3, <2>1
  <2>3. g \in E /\ Rank(g, E) = Rank(g, Own)
    BY <1>2, <1>5, <1>8, <1>9, <2>1, <2>2
  <2> QED
    BY <1>5, <1>9, <2>1, <2>3
<1>10. ASSUME NEW g \in E, g < b
       PROVE  y.functions[g].position # 0
  <2>1. g \in Own
    BY <1>2, <1>3, <1>7, <1>10
  <2> QED
    BY <1>2, <1>3, <1>5, <1>10, <2>1
<1>11. Rank(b, E) = Cardinality(T)
  BY <1>2, <1>3, <1>5, <1>7, <1>8
<1> QED
  BY <1>6, <1>9, <1>10, <1>11 DEF BodiesPlaced

\* A body more
LEMMA BodyTaken ==
  ASSUME NEW x \in Module, ModuleOK(x), NEW y \in Module, BodiesPlaced(x),
         SearchesDeclared(x), Bodiless(x) # {},
         y.functions = [x.functions EXCEPT
                          ![First(Bodiless(x))].position = x.next],
         y.nextBody = First(Bodiless(x)) + 1,
         TakenOf(y, "code") = TakenOf(x, "code") \cup {x.next}
  PROVE  BodiesPlaced(y) /\ SearchesDeclared(y)
<1> DEFINE Own == DeclaredOf(x)
           T == TakenOf(x, "code")
           b == x.nextBody
           fs == x.functions
           gs == y.functions
<1>1. /\ Len(fs) \in Nat /\ x.next \in Nat /\ x.next >= 1 /\ b \in Nat
      /\ Own \subseteq 1..Len(fs) /\ Own \subseteq Nat /\ IsFiniteSet(Own)
      /\ T \subseteq Nat /\ IsFiniteSet(T) /\ fs \in Seq(Function)
  BY SetsOfNumbers DEF ModuleOK, Module
<1>2. \A i \in T : i < x.next
  BY TakenBelow
<1>3. PICK f : f = First(Bodiless(x))
  OBVIOUS
<1>4. f \in Bodiless(x) /\ \A g \in Bodiless(x) : f <= g
  <2>1. Bodiless(x) \subseteq Nat
    BY <1>1 DEF Bodiless
  <2> QED
    BY <1>3, <2>1, FirstIs
<1>5. b >= 1
  BY DEF ModuleOK
<1>6. /\ f \in Nat /\ f \in 1..Len(fs) /\ b <= f
      /\ fs[f].import = 0
  BY <1>1, <1>4, <1>5 DEF Bodiless
<1>7. \A g \in 1..Len(fs) : ~fs[g].native
  BY DEF SearchesDeclared, NativesOf
<1>8. f \in Own
  BY <1>6, <1>7 DEF DeclaredOf
<1>9. \A g \in Own : g < b \/ f <= g
  <2> SUFFICES ASSUME NEW g \in Own, b <= g
               PROVE  f <= g
    BY <1>1
  <2>1. g \in Bodiless(x)
    BY <1>1 DEF Bodiless, DeclaredOf
  <2> QED
    BY <1>4, <2>1
<1>10. /\ Len(gs) = Len(fs)
       /\ \A g \in 1..Len(fs) :
            /\ gs[g].import = fs[g].import /\ gs[g].native = fs[g].native
            /\ g # f => gs[g].position = fs[g].position
       /\ gs[f].position = x.next
  <2>1. gs = [fs EXCEPT ![f] = [fs[f] EXCEPT !.position = x.next]]
    BY <1>1, <1>3
  <2>2. PICK h : h = [fs[f] EXCEPT !.position = x.next]
    OBVIOUS
  <2>3. /\ h.import = fs[f].import /\ h.native = fs[f].native
        /\ h.position = x.next
    <3>1. fs[f] \in Function
      BY <1>1, <1>6, ElementOfSeq
    <3> QED
      BY <2>2, <3>1 DEF Function
  <2>4. gs = [fs EXCEPT ![f] = h]
    BY <2>1, <2>2
  <2> HIDE DEF gs, fs
  <2>5. /\ Len(gs) = Len(fs) /\ gs[f] = h
        /\ \A g \in 1..Len(fs) : g # f => gs[g] = fs[g]
    BY <1>1, <1>6, <2>4
  <2> QED
    BY <2>3, <2>5
<1>11. DeclaredOf(y) = Own /\ NativesOf(y) = {}
  BY <1>7, <1>10 DEF DeclaredOf, NativesOf
<1>12. /\ \A g \in 1..Len(fs) : fs[g].position # 0 =>
            /\ g \in Own /\ g < b
            /\ fs[g].position \in T
            /\ Rank(fs[g].position, T) = Rank(g, Own)
       /\ \A g \in Own : g < b => fs[g].position # 0
       /\ Rank(b, Own) = Cardinality(T)
  BY DEF BodiesPlaced
<1>13. y.nextBody = f + 1 /\ TakenOf(y, "code") = T \cup {x.next}
  BY <1>3
<1> DEFINE U == T \cup {x.next}
           c == f + 1
<1>14. y.nextBody = c /\ TakenOf(y, "code") = U
  BY <1>13
<1>15. c \in Nat /\ b < c /\ f < c
  BY <1>1, <1>6
<1> HIDE DEF Own, T, b, fs, gs
<1>16. Rank(f, Own) = Rank(b, Own) /\ Rank(f + 1, Own) = Rank(b, Own) + 1
  BY <1>1, <1>6, <1>8, <1>9, RankNext
<1>17. /\ \A i \in T : Rank(i, U) = Rank(i, T)
       /\ Rank(x.next, U) = Rank(x.next, T)
  <2>1. \A i \in Nat : i <= x.next => Rank(i, T \cup {x.next}) = Rank(i, T)
    BY <1>1, RankAdded
  <2>2. \A i \in T : i \in Nat /\ i <= x.next
    BY <1>1, <1>2
  <2>3. x.next <= x.next
    BY <1>1
  <2> QED
    BY <1>1, <2>1, <2>2, <2>3
<1>18. Rank(x.next, T) = Cardinality(T)
  BY <1>2, RankAfter
<1>19. Cardinality(U) = Cardinality(T) + 1
  <2>1. x.next \notin T
    BY <1>1, <1>2
  <2> QED
    BY <1>1, <2>1, FS_AddElement
<1>20. Rank(c, Own) = Cardinality(U)
  BY <1>12, <1>16, <1>19
<1>21. T \subseteq U /\ x.next \in U
  OBVIOUS
<1> HIDE DEF U, c
<1>22. ASSUME NEW g \in 1..Len(fs), gs[g].position # 0
       PROVE  /\ g \in Own /\ g < c /\ gs[g].position \in U
              /\ Rank(gs[g].position, U) = Rank(g, Own)
  <2>1. CASE g = f
    BY <1>8, <1>10, <1>12, <1>15, <1>16, <1>17, <1>18, <1>21, <2>1
  <2>2. CASE g # f
    <3>1. gs[g].position = fs[g].position
      BY <1>10, <2>2
    <3>2. /\ g \in Own /\ g < b /\ fs[g].position \in T
          /\ Rank(fs[g].position, T) = Rank(g, Own)
      BY <1>12, <1>22, <3>1
    <3>3. g < c
      BY <1>1, <1>15, <3>2
    <3> QED
      BY <1>17, <1>21, <3>1, <3>2, <3>3
  <2> QED
    BY <2>1, <2>2
<1>23. ASSUME NEW g \in Own, g < c
       PROVE  gs[g].position # 0
  <2>1. CASE g = f
    BY <1>1, <1>10, <2>1
  <2>2. CASE g # f
    <3>1. g < b
      <4>1. g \in Nat /\ ~(f <= g)
        BY <1>1, <1>6, <1>23, <2>2 DEF c
      <4> QED
        BY <1>9, <4>1
    <3> QED
      BY <1>1, <1>10, <1>12, <2>2, <3>1
  <2> QED
    BY <2>1, <2>2
<1>24. BodiesPlaced(y)
  BY <1>10, <1>11, <1>14, <1>20, <1>22, <1>23 DEF BodiesPlaced, fs, gs
<1>25. c <= Len(fs) + 1
  BY <1>1, <1>6 DEF c
<1> QED
  BY <1>10, <1>11, <1>14, <1>24, <1>25 DEF SearchesDeclared, fs, gs

\* What the parser does keeps bodies in their places.
LEMMA ParserPlacesBodies ==
  ASSUME LoadInv, task.call = "parse", BodiesPlaced(Current),
         SearchesDeclared(Current), NEW y, Parses(y)
  PROVE  BodiesPlaced(y) /\ (task' = task => SearchesDeclared(y))
<1> DEFINE x == Current
<1>1. /\ x \in Module /\ ModuleOK(x) /\ y \in Module /\ y.binary = x.binary
      /\ BodiesPlaced(x) /\ SearchesDeclared(x)
  BY CurrentType DEF Parses
<1>2. CASE Leaves(x, y) /\ task' = NoTask
  <2>1. TakenOf(y, "code") = TakenOf(x, "code") /\ y.functions = x.functions
    BY <1>1, <1>2 DEF TakenOf, Leaves, SameLists
  <2>2. task' # task
    BY <1>2 DEF NoTask
  <2> HIDE DEF x
  <2>3. BodiesPlaced(y)
    BY <1>1, <1>2, <2>1, SameBodies, BodiesLeft DEF Leaves
  <2> QED
    BY <2>2, <2>3
<1>3. CASE AtItem /\ y.next = x.next + 1 /\ Takes(x, y, Read)
  <2>1. PICK item \in Item : item = Read
    BY <1>3, ReadType
  <2>2. item = ItemAt(x, x.next)
    BY <2>1 DEF Read
  <2> HIDE DEF x
  <2>3. TakenOf(y, "code") = IF item.section = "code"
                               THEN TakenOf(x, "code") \cup {x.next}
                               ELSE TakenOf(x, "code")
    BY <1>1, <1>3, <2>2, TakenMore
  <2>4. CASE /\ item.section # "code"
             /\ y.functions = x.functions /\ y.nextBody = x.nextBody
    <3>1. BodiesPlaced(y)
      BY <1>1, <2>3, <2>4, SameBodies
    <3>2. SearchesDeclared(y)
      BY <1>1, <2>4 DEF SearchesDeclared, NativesOf
    <3> QED
      BY <3>1, <3>2
  <2>5. CASE /\ item.section # "code"
             /\ \E f \in Function : /\ ~f.native /\ f.position = 0
                                    /\ y.functions = Append(x.functions, f)
             /\ y.nextBody = x.nextBody
    <3>1. PICK f \in Function : /\ ~f.native /\ f.position = 0
                                /\ y.functions = Append(x.functions, f)
      BY <2>5
    <3>2. x.nextBody <= Len(x.functions) + 1 /\ NativesOf(x) = {}
      BY <1>1 DEF SearchesDeclared
    <3>3. BodiesPlaced(y)
      BY <1>1, <2>3, <2>5, <3>1, <3>2, BodiesOfMore
    <3>4. /\ Len(y.functions) = Len(x.functions) + 1
          /\ NativesOf(y) = {}
      BY <1>1, <3>1, <3>2, FunctionAdded
    <3>5. Len(x.functions) \in Nat /\ x.nextBody \in Nat
      BY <1>1, SetsOfNumbers
    <3>6. SearchesDeclared(y)
      BY <2>5, <3>2, <3>4, <3>5 DEF SearchesDeclared
    <3> QED
      BY <3>3, <3>6
  <2>6. CASE /\ item.section = "code" /\ Bodiless(x) # {}
             /\ y.functions = [x.functions EXCEPT
                                 ![First(Bodiless(x))].position = x.next]
             /\ y.nextBody = First(Bodiless(x)) + 1
    BY <1>1, <2>3, <2>6, BodyTaken
  <2> QED
    BY <1>3, <2>1, <2>4, <2>5, <2>6 DEF Takes, SameLists
<1> QED
  BY <1>2, <1>3 DEF Parses

\* Host functions stay host functions while the parser is at work.
LEMMA NativesStay ==
  ASSUME LoadInv, task.call = "parse", NEW y, Parses(y)
  PROVE  NativesOf(Current) \subseteq NativesOf(y)
<1> DEFINE x == Current
<1>1. x \in Module /\ y \in Module
  BY CurrentType DEF Parses
<1>2. \/ y.functions = x.functions
      \/ \E f \in Function : y.functions = Append(x.functions, f)
      \/ \E f, n : y.functions = [x.functions EXCEPT ![f].position = n]
  BY DEF Parses, Leaves, Takes, SameLists
<1> HIDE DEF x
<1>3. ASSUME y.functions = x.functions
      PROVE  NativesOf(x) \subseteq NativesOf(y)
  BY <1>3 DEF NativesOf
<1>4. ASSUME NEW f \in Function, y.functions = Append(x.functions, f)
      PROVE  NativesOf(x) \subseteq NativesOf(y)
  BY <1>1, <1>4, FunctionAdded
<1>5. ASSUME NEW f, NEW n,
             y.functions = [x.functions EXCEPT ![f].position = n]
      PROVE  NativesOf(x) \subseteq NativesOf(y)
  <2>1. x.functions \in Seq(Function) /\ y.functions \in Seq(Function)
    BY <1>1 DEF Module
  <2>2. ASSUME NEW g \in 1..Len(x.functions)
        PROVE  y.functions[g].native = x.functions[g].native
    <3>1. x.functions[g] \in Function
      BY <2>1, ElementOfSeq
    <3>2. \/ y.functions[g] = x.functions[g]
          \/ y.functions[g] = [x.functions[g] EXCEPT !.position = n]
      BY <1>5, <2>1
    <3> QED
      BY <3>1, <3>2 DEF Function
  <2>3. Len(y.functions) = Len(x.functions)
    BY <1>5, <2>1
  <2> QED
    BY <2>2, <2>3 DEF NativesOf
<1>6. NativesOf(x) \subseteq NativesOf(y)
  BY <1>2, <1>3, <1>4, <1>5
<1> QED
  BY <1>6 DEF x

\* Every step keeps bodies in their places.
LEMMA BodiesStayPlaced ==
  ASSUME Inv, BodiesInv, [Next]_vars
  PROVE  BodiesInv'
<1>0. LoadInv
  BY DEF Inv
<1>1. modules \in Seq(Module) /\ \A m \in 1..Len(modules) : ModuleOK(modules[m])
  BY <1>0 DEF LoadInv
<1> DEFINE Right(x, atWork) ==
             1 \notin NativesOf(x) =>
               /\ BodiesPlaced(x) /\ SearchBegins(x)
               /\ atWork => SearchesDeclared(x)
<1>2. ASSUME NEW m \in 1..Len(modules), NEW y,
             Right(y, ParserAt(m)'),
             \A k \in 1..Len(modules) : k # m => (ParserAt(k)' => ParserAt(k)),
             modules' = [modules EXCEPT ![m] = y]
      PROVE  BodiesInv'
  <2>1. /\ Len(modules') = Len(modules) /\ modules'[m] = y
        /\ \A k \in 1..Len(modules) : k # m => modules'[k] = modules[k]
    BY <1>1, <1>2
  <2>2. ASSUME NEW k \in 1..Len(modules)
        PROVE  Right(modules'[k], ParserAt(k)')
    <3>1. CASE k = m
      BY <1>2, <2>1, <3>1
    <3>2. CASE k # m
      <4>1. Right(modules[k], ParserAt(k))
        BY DEF BodiesInv
      <4> QED
        BY <1>2, <2>1, <3>2, <4>1
    <3> QED
      BY <3>1, <3>2
  <2> QED
    BY <2>1, <2>2 DEF BodiesInv
<1>3. CASE modules' = modules /\ \A k : ParserAt(k)' => ParserAt(k)
  BY <1>3 DEF BodiesInv
<1>4. CASE modules' = Append(modules, EmptyModule) /\ task' = task
           /\ task = NoTask
  <2>1. PICK x : x = EmptyModule
    OBVIOUS
  <2>2. /\ Len(x.functions) = 0 /\ x.nextBody = 1 /\ x.next = 1
    BY <2>1, EmptySeq DEF EmptyModule
  <2>3. DeclaredOf(x) = {} /\ TakenOf(x, "code") = {}
    BY <2>2 DEF DeclaredOf, TakenOf
  <2>4. Rank(x.nextBody, DeclaredOf(x)) = Cardinality(TakenOf(x, "code"))
    BY <2>3, RankAfter
  <2>5. BodiesPlaced(x) /\ SearchBegins(x)
    BY <2>2, <2>3, <2>4 DEF BodiesPlaced, SearchBegins
  <2>6. \A k : ~ParserAt(k)'
    BY <1>4 DEF ParserAt, NoTask
  <2>7. PICK n \in Nat : n = Len(modules)
    BY <1>1
  <2>8. /\ Len(modules') = n + 1 /\ modules'[n + 1] = x
        /\ \A m \in 1..n : modules'[m] = modules[m]
    BY <1>1, <1>4, <2>1, <2>7
  <2>9. ASSUME NEW m \in 1..(n + 1)
        PROVE  \/ BodiesPlaced(modules'[m]) /\ SearchBegins(modules'[m])
               \/ 1 \in NativesOf(modules'[m])
    <3>1. CASE m = n + 1
      BY <2>5, <2>8, <3>1
    <3>2. CASE m # n + 1
      <4>1. m \in 1..n
        BY <2>7, <3>2
      <4> QED
        BY <2>7, <2>8, <4>1 DEF BodiesInv
    <3> QED
      BY <3>1, <3>2
  <2> QED
    BY <2>6, <2>8, <2>9 DEF BodiesInv
<1>5. ASSUME NEW m, NEW y, Changes(m, y)
      PROVE  BodiesInv'
  <2> DEFINE x == modules[m]
  <2>1. /\ m \in 1..Len(modules) /\ modules' = [modules EXCEPT ![m] = y]
        /\ x \in Module /\ ModuleOK(x) /\ y \in Module
        /\ Right(x, ParserAt(m))
        /\ \A k \in 1..Len(modules) : k # m => (ParserAt(k)' => ParserAt(k))
        /\ \/ Renews(x, y) /\ (ParserAt(m)' => ParserAt(m))
           \/ Loads(x, y) /\ ~ParserAt(m)
           \/ AddsNative(x, y) /\ ~ParserAt(m)'
    BY <1>1, <1>5, ElementOfSeq DEF Changes, BodiesInv
  <2> HIDE DEF x
  <2>2. CASE Renews(x, y) /\ (ParserAt(m)' => ParserAt(m))
    <3>1. /\ y.functions = x.functions /\ y.nextBody = x.nextBody
          /\ TakenOf(y, "code") = TakenOf(x, "code")
          /\ y.binary = x.binary
      BY <2>2 DEF Renews, Alike, TakenOf
    <3>2. /\ NativesOf(y) = NativesOf(x)
          /\ SearchesDeclared(x) => SearchesDeclared(y)
          /\ SearchBegins(x) => SearchBegins(y)
      BY <3>1 DEF NativesOf, SearchesDeclared, SearchBegins
    <3>3. Right(y, ParserAt(m)')
      BY <2>1, <2>2, <3>1, <3>2, SameBodies
    <3> QED
      BY <1>2, <2>1, <3>3
  <2>3. CASE Loads(x, y)
    <3>1. /\ y.functions = x.functions /\ y.nextBody = x.nextBody
          /\ y.next = x.next /\ x.binary = NoBinary
      BY <2>3 DEF Loads, Alike
    <3>2. x.next = 1 /\ \A f \in 1..Len(x.functions) : x.functions[f].native
      BY <2>1, <3>1 DEF ModuleOK
    <3>3. TakenOf(y, "code") = TakenOf(x, "code")
      BY <3>1, <3>2 DEF TakenOf
    <3>4. SUFFICES ASSUME 1 \notin NativesOf(y)
                   PROVE  Right(y, ParserAt(m)')
      BY <1>2, <2>1
    <3>5. Len(x.functions) \in Nat
      BY <2>1, SetsOfNumbers
    <3>6. Len(x.functions) = 0
      BY <3>1, <3>2, <3>4, <3>5 DEF NativesOf
    <3>7. 1 \notin NativesOf(x) /\ NativesOf(y) = {}
      BY <3>1, <3>6 DEF NativesOf
    <3>8. BodiesPlaced(y)
      BY <2>1, <3>1, <3>3, <3>7, SameBodies
    <3>9. y.nextBody = 1
      BY <2>1, <3>1, <3>7 DEF SearchBegins
    <3> QED
      BY <3>1, <3>6, <3>7, <3>8, <3>9 DEF SearchBegins, SearchesDeclared
  <2>4. CASE AddsNative(x, y) /\ ~ParserAt(m)'
    <3>1. PICK f \in Function : /\ f.import = 0 /\ f.native /\ f.position = 0
                                /\ y.functions = Append(x.functions, f)
      BY <2>4 DEF AddsNative
    <3>2. /\ y.nextBody = x.nextBody /\ y.binary = x.binary
          /\ TakenOf(y, "code") = TakenOf(x, "code")
      BY <2>4 DEF AddsNative, TakenOf
    <3>3. NativesOf(x) \subseteq NativesOf(y)
      BY <2>1, <3>1, FunctionAdded
    <3>4. BodiesPlaced(x) => BodiesPlaced(y)
      BY <2>1, <3>1, <3>2, BodiesOfMore
    <3>5. SearchBegins(x) => SearchBegins(y)
      BY <3>2 DEF SearchBegins
    <3>6. Right(y, ParserAt(m)')
      BY <2>1, <2>4, <3>3, <3>4, <3>5
    <3> QED
      BY <1>2, <2>1, <3>6
  <2> QED
    BY <2>1, <2>2, <2>3, <2>4
<1>6. ASSUME NEW y, Parses(y), task.call = "parse"
      PROVE  BodiesInv'
  <2>1. PICK m : m = task.module
    OBVIOUS
  <2>2. m \in 1..Len(modules) /\ ParserAt(m) /\ Current = modules[m]
    BY <1>0, <1>6, <2>1 DEF LoadInv, ParserAt, Current
  <2>3. Right(Current, TRUE)
    BY <2>2 DEF BodiesInv
  <2>4. Current.binary # NoBinary /\ y.binary = Current.binary
        /\ modules' = [modules EXCEPT ![m] = y]
    BY <1>0, <1>6, <2>1 DEF LoadInv, Parses
  <2>5. task' = task \/ task' = NoTask
    BY <1>6 DEF Parses
  <2>6. \A k : ParserAt(k)' => ParserAt(k) /\ task' = task
    BY <2>5 DEF ParserAt, NoTask
  <2>7. 1 \in NativesOf(Current) => 1 \in NativesOf(y)
    BY <1>0, <1>6, NativesStay
  <2>8. Right(y, ParserAt(m)')
    <3>1. SearchBegins(y)
      BY <2>4 DEF SearchBegins
    <3>2. CASE 1 \notin NativesOf(Current)
      BY <1>0, <1>6, <2>3, <2>6, <3>1, <3>2, ParserPlacesBodies
    <3> QED
      BY <2>7, <3>2
  <2> QED
    BY <1>2, <2>2, <2>4, <2>6, <2>8
<1> QED
  BY <1>3, <1>4, <1>5, <1>6, StepIs DEF StepsAre

\* Bodies are those of the functions a module declares, in their order, if host
\* functions come after (parser.h:336-354).
THEOREM BodiesAreOfDeclared == Spec => []BodiesOfDeclared
<1>1. Init => BodiesInv
  BY EmptySeq DEF Init, LoadingInit, BodiesInv
<1>2. Inv /\ BodiesInv /\ [Next]_vars => BodiesInv'
  BY BodiesStayPlaced
<1>3. Inv /\ BodiesInv => BodiesOfDeclared
  BY BodiesArePlaced DEF Inv, LoadInv
<1> QED
  BY <1>1, <1>2, <1>3, Invariance, PTL DEF Spec

-----------------------------------------------------------------------------
(***************************************************************************)
(* Imports: how the functions, the records and the items of a binary that  *)
(* stand for them are numbered.                                            *)
(***************************************************************************)
ImportsIn(x) ==
  {f \in 1..Len(x.functions) : x.functions[f].import # 0}

\* The nth function that is an import has the nth record, and this the names in
\* the nth item that was taken of an import section.
ImportsRight(x) ==
  /\ Cardinality(ImportsIn(x)) = Len(x.imports)
  /\ Cardinality(TakenOf(x, "import")) = Len(x.imports)
  /\ \A f \in ImportsIn(x) : x.functions[f].import = Rank(f, ImportsIn(x)) + 1
  /\ \A i \in 1..Len(x.imports) : \E j \in TakenOf(x, "import") :
       /\ Rank(j, TakenOf(x, "import")) + 1 = i
       /\ ItemAt(x, j).module = x.imports[i].module
       /\ ItemAt(x, j).name = x.imports[i].name

\* Both sets are finite sets of numbers.
LEMMA ImportSets ==
  ASSUME NEW x \in Module
  PROVE  /\ Len(x.functions) \in Nat /\ x.next \in Nat /\ Len(x.imports) \in Nat
         /\ ImportsIn(x) \subseteq 1..Len(x.functions)
         /\ ImportsIn(x) \subseteq Nat /\ IsFiniteSet(ImportsIn(x))
         /\ TakenOf(x, "import") \subseteq Nat
         /\ IsFiniteSet(TakenOf(x, "import"))
<1>1. Len(x.functions) \in Nat /\ x.next \in Nat /\ Len(x.imports) \in Nat
  BY CountsType DEF Module
<1>2. IsFiniteSet(1..Len(x.functions)) /\ IsFiniteSet(1..(x.next - 1))
  <2>1. 1 \in Int /\ Len(x.functions) \in Int /\ x.next - 1 \in Int
    BY <1>1
  <2> QED
    BY <2>1, FS_Interval
<1>3. /\ ImportsIn(x) \subseteq 1..Len(x.functions)
      /\ TakenOf(x, "import") \subseteq 1..(x.next - 1)
  BY DEF ImportsIn, TakenOf
<1>4. IsFiniteSet(ImportsIn(x)) /\ IsFiniteSet(TakenOf(x, "import"))
  BY <1>2, <1>3, FS_Subset
<1> QED
  BY <1>1, <1>3, <1>4

\* Members of a set that have the same rank are the same.
LEMMA RankOne ==
  ASSUME NEW S, S \subseteq Nat, IsFiniteSet(S), NEW i \in S, NEW k \in S,
         Rank(i, S) = Rank(k, S)
  PROVE  i = k
<1>1. ASSUME NEW m \in S, NEW n \in S, m < n
      PROVE  Rank(m, S) < Rank(n, S)
  <2>1. m \in Nat /\ n \in Nat /\ m + 1 \in Nat /\ m + 1 <= n /\ m <= m
    BY <1>1
  <2>2. \A j \in S : j < m \/ m <= j
    BY <2>1
  <2>3. Rank(m + 1, S) = Rank(m, S) + 1
    BY <2>1, <2>2, RankNext
  <2>4. /\ Rank(m + 1, S) <= Rank(n, S)
        /\ Rank(m, S) \in Nat /\ Rank(n, S) \in Nat
    BY <2>1, RankIs
  <2> QED
    BY <2>3, <2>4
<1>2. Rank(i, S) \in Nat /\ Rank(k, S) \in Nat /\ i \in Nat /\ k \in Nat
  <2>1. i \in Nat /\ k \in Nat
    OBVIOUS
  <2> QED
    BY <2>1, RankIs
<1>3. ~(i < k) /\ ~(k < i)
  BY <1>1, <1>2
<1> QED
  BY <1>2, <1>3

\* Imports stay as they are with functions, items and names.
LEMMA SameImports ==
  ASSUME NEW x, NEW y, ImportsRight(x), SameNames(x, y),
         ImportsIn(y) = ImportsIn(x),
         \A f \in ImportsIn(x) : y.functions[f].import = x.functions[f].import,
         TakenOf(y, "import") = TakenOf(x, "import"),
         \A j \in TakenOf(x, "import") : ItemAt(y, j) = ItemAt(x, j)
  PROVE  ImportsRight(y)
<1> DEFINE I == ImportsIn(x)
           T == TakenOf(x, "import")
<1>1. /\ Cardinality(I) = Len(y.imports) /\ Cardinality(T) = Len(y.imports)
      /\ \A f \in I : y.functions[f].import = Rank(f, I) + 1
  BY DEF ImportsRight, SameNames
<1>2. ASSUME NEW i \in 1..Len(y.imports)
      PROVE  \E j \in T : /\ Rank(j, T) + 1 = i
                          /\ ItemAt(y, j).module = y.imports[i].module
                          /\ ItemAt(y, j).name = y.imports[i].name
  <2>1. /\ i \in 1..Len(x.imports) /\ y.imports[i].module = x.imports[i].module
        /\ y.imports[i].name = x.imports[i].name
    BY DEF SameNames
  <2>2. PICK j \in T : /\ Rank(j, T) + 1 = i
                       /\ ItemAt(x, j).module = x.imports[i].module
                       /\ ItemAt(x, j).name = x.imports[i].name
    BY <2>1 DEF ImportsRight
  <2> QED
    BY <2>1, <2>2
<1>3. ImportsIn(y) = I /\ TakenOf(y, "import") = T
  OBVIOUS
<1> HIDE DEF I, T
<1> QED
  BY <1>1, <1>2, <1>3 DEF ImportsRight

\* One function more
LEMMA ImportsOfMore ==
  ASSUME NEW x \in Module, NEW y \in Module, NEW f \in Function,
         y.functions = Append(x.functions, f)
  PROVE  /\ ImportsIn(y) = IF f.import = 0 THEN ImportsIn(x)
                           ELSE ImportsIn(x) \cup {Len(x.functions) + 1}
         /\ \A g \in ImportsIn(x) : y.functions[g] = x.functions[g]
         /\ y.functions[Len(x.functions) + 1] = f
<1>1. /\ Len(y.functions) = Len(x.functions) + 1
      /\ \A g \in 1..Len(x.functions) : y.functions[g] = x.functions[g]
      /\ y.functions[Len(x.functions) + 1] = f
  BY FunctionAdded
<1>2. PICK n \in Nat : n = Len(x.functions)
  BY ImportSets
<1>3. 1..(n + 1) = 1..n \cup {n + 1}
  BY <1>2
<1>4. {g \in 1..(n + 1) : y.functions[g].import # 0}
        = IF f.import = 0 THEN {g \in 1..n : x.functions[g].import # 0}
          ELSE {g \in 1..n : x.functions[g].import # 0} \cup {n + 1}
  BY <1>1, <1>2, <1>3
<1> QED
  BY <1>1, <1>2, <1>4 DEF ImportsIn

\* One import more: the last function, the last record and the last item have it.
LEMMA ImportTaken ==
  ASSUME NEW x \in Module, ModuleOK(x), NEW y \in Module, ImportsRight(x),
         y.binary = x.binary, y.next = x.next + 1,
         NEW item, item = ItemAt(x, x.next), item.section = "import",
         NEW f \in Function, f.import = Len(x.imports) + 1,
         y.functions = Append(x.functions, f),
         NEW r \in Import, r.module = item.module, r.name = item.name,
         y.imports = Append(x.imports, r)
  PROVE  ImportsRight(y)
<1> DEFINE I == ImportsIn(x)
           T == TakenOf(x, "import")
<1>1. PICK n \in Nat, k \in Nat, next \in Nat :
        n = Len(x.functions) /\ k = Len(x.imports) /\ next = x.next
  BY ImportSets
<1>2. /\ I \subseteq 1..n /\ I \subseteq Nat /\ IsFiniteSet(I)
      /\ T \subseteq Nat /\ IsFiniteSet(T) /\ \A j \in T : j < next
  BY <1>1, ImportSets, TakenBelow
<1>3. /\ Cardinality(I) = k /\ Cardinality(T) = k
      /\ \A g \in I : x.functions[g].import = Rank(g, I) + 1
      /\ \A i \in 1..k : \E j \in T :
           /\ Rank(j, T) + 1 = i
           /\ ItemAt(x, j).module = x.imports[i].module
           /\ ItemAt(x, j).name = x.imports[i].name
  BY <1>1 DEF ImportsRight
<1>4. /\ ImportsIn(y) = I \cup {n + 1}
      /\ \A g \in I : y.functions[g] = x.functions[g]
      /\ y.functions[n + 1] = f
  <2>1. f.import # 0
    BY <1>1
  <2>2. /\ ImportsIn(y) = IF f.import = 0 THEN ImportsIn(x)
                          ELSE ImportsIn(x) \cup {Len(x.functions) + 1}
        /\ \A g \in ImportsIn(x) : y.functions[g] = x.functions[g]
        /\ y.functions[Len(x.functions) + 1] = f
    BY ImportsOfMore
  <2> QED
    BY <1>1, <2>1, <2>2
<1>5. TakenOf(y, "import") = T \cup {next} /\ \A j : ItemAt(y, j) = ItemAt(x, j)
  BY <1>1, TakenMore
<1>6. /\ Len(y.imports) = k + 1 /\ y.imports[k + 1] = r
      /\ \A i \in 1..k : y.imports[i] = x.imports[i]
  <2>1. x.imports \in Seq(Import)
    BY DEF Module
  <2> QED
    BY <1>1, <2>1
<1> HIDE DEF I, T
<1>10. \A j \in I : j < n + 1
  <2>1. ASSUME NEW j \in I PROVE j < n + 1
    <3>1. j \in 1..n
      BY <1>2
    <3> QED
      BY <3>1
  <2> QED
    BY <2>1
<1>7. Cardinality(I \cup {n + 1}) = k + 1 /\ Cardinality(T \cup {next}) = k + 1
  <2>1. n + 1 \notin I
    BY <1>10
  <2>2. next \notin T
    BY <1>2
  <2>3. Cardinality(I \cup {n + 1}) = Cardinality(I) + 1
    BY <1>2, <2>1, FS_AddElement
  <2>4. Cardinality(T \cup {next}) = Cardinality(T) + 1
    BY <1>2, <2>2, FS_AddElement
  <2> QED
    BY <1>3, <2>3, <2>4
<1>8. ASSUME NEW g \in I \cup {n + 1}
      PROVE  y.functions[g].import = Rank(g, I \cup {n + 1}) + 1
  <2>1. g \in Nat /\ g <= n + 1 /\ n + 1 \in Nat
    BY <1>1, <1>2
  <2>2. Rank(g, I \cup {n + 1}) = Rank(g, I)
    BY <1>2, <2>1, RankAdded
  <2>3. CASE g \in I
    BY <1>3, <1>4, <2>2, <2>3
  <2>4. CASE g = n + 1
    <3>2. Rank(n + 1, I) = k
      BY <1>3, <1>10, RankAfter
    <3> QED
      BY <1>1, <1>4, <2>2, <2>4, <3>2
  <2> QED
    BY <2>3, <2>4
<1>9. ASSUME NEW i \in 1..(k + 1)
      PROVE  \E j \in T \cup {next} :
               /\ Rank(j, T \cup {next}) + 1 = i
               /\ ItemAt(y, j).module = y.imports[i].module
               /\ ItemAt(y, j).name = y.imports[i].name
  <2>1. ASSUME NEW j \in T \cup {next}
        PROVE  Rank(j, T \cup {next}) = Rank(j, T)
    <3>1. j \in Nat /\ j <= next
      BY <1>1, <1>2
    <3> QED
      BY <1>2, <3>1, RankAdded
  <2>2. CASE i \in 1..k
    <3>1. PICK j \in T : /\ Rank(j, T) + 1 = i
                         /\ ItemAt(x, j).module = x.imports[i].module
                         /\ ItemAt(x, j).name = x.imports[i].name
      BY <1>3, <2>2
    <3>2. j \in T \cup {next} /\ Rank(j, T \cup {next}) + 1 = i
      BY <2>1, <3>1
    <3> QED
      BY <1>5, <1>6, <2>2, <3>1, <3>2
  <2>3. CASE i = k + 1
    <3>1. Rank(next, T) = k
      BY <1>2, <1>3, RankAfter
    <3>2. next \in T \cup {next} /\ Rank(next, T \cup {next}) + 1 = i
      BY <2>1, <2>3, <3>1
    <3>3. ItemAt(y, next) = item
      BY <1>1, <1>5
    <3> QED
      BY <1>6, <2>3, <3>2, <3>3
  <2>4. i \in 1..k \/ i = k + 1
    OBVIOUS
  <2> QED
    BY <2>2, <2>3, <2>4
<1>11. ImportsIn(y) = I \cup {n + 1} /\ TakenOf(y, "import") = T \cup {next}
  BY <1>4, <1>5
<1>12. /\ Cardinality(ImportsIn(y)) = Len(y.imports)
       /\ Cardinality(TakenOf(y, "import")) = Len(y.imports)
  BY <1>6, <1>7, <1>11
<1>13. \A g \in ImportsIn(y) : y.functions[g].import = Rank(g, ImportsIn(y)) + 1
  BY <1>8, <1>11
<1>14. ASSUME NEW i \in 1..Len(y.imports)
       PROVE  \E j \in TakenOf(y, "import") :
                /\ Rank(j, TakenOf(y, "import")) + 1 = i
                /\ ItemAt(y, j).module = y.imports[i].module
                /\ ItemAt(y, j).name = y.imports[i].name
  <2>1. i \in 1..(k + 1)
    BY <1>6
  <2>2. PICK j \in T \cup {next} :
          /\ Rank(j, T \cup {next}) + 1 = i
          /\ ItemAt(y, j).module = y.imports[i].module
          /\ ItemAt(y, j).name = y.imports[i].name
    BY <1>9, <2>1
  <2> QED
    BY <1>11, <2>2
<1> QED
  BY <1>12, <1>13, <1>14 DEF ImportsRight

\* Whatever the parser takes, it keeps the imports right.
LEMMA ParserKeepsImports ==
  ASSUME LoadInv, task.call = "parse", ImportsRight(Current),
         NEW y, Parses(y)
  PROVE  ImportsRight(y)
<1>1. Current \in Module /\ ModuleOK(Current)
  BY CurrentType
<1> DEFINE x == Current
<1>2. /\ x \in Module /\ ModuleOK(x) /\ ImportsRight(x) /\ y.binary = x.binary
      /\ y \in Module
  BY <1>1 DEF Parses
<1>3. \A j : ItemAt(y, j) = ItemAt(x, j)
  BY <1>2 DEF ItemAt
<1>4. CASE Leaves(x, y)
  <2>1. TakenOf(y, "import") = TakenOf(x, "import")
    BY <1>2, <1>4 DEF TakenOf, Leaves
  <2>2. ImportsIn(y) = ImportsIn(x) /\ SameNames(x, y) /\ y.functions = x.functions
    BY <1>4 DEF Leaves, SameLists, ImportsIn, SameNames
  <2> HIDE DEF x
  <2> QED
    BY <1>2, <1>3, <2>1, <2>2, SameImports
<1>5. CASE AtItem /\ y.next = x.next + 1 /\ Takes(x, y, Read)
  <2>1. PICK item \in Item : item = Read
    BY <1>5, ReadType
  <2>2. item = ItemAt(x, x.next)
    BY <1>5, <2>1, ReadType DEF Read
  <2> HIDE DEF x
  <2>3. item.section # "import" => TakenOf(y, "import") = TakenOf(x, "import")
    BY <1>2, <1>5, <2>2, TakenMore
  <2>4. CASE item.section # "import" /\ y.functions = x.functions
             /\ y.imports = x.imports
    <3>1. ImportsIn(y) = ImportsIn(x) /\ SameNames(x, y)
      BY <2>4 DEF ImportsIn, SameNames
    <3> QED
      BY <1>2, <1>3, <2>3, <2>4, <3>1, SameImports
  <2>5. CASE item.section = "function" /\ y.imports = x.imports
             /\ \E f \in Function : /\ f.import = 0
                                    /\ y.functions = Append(x.functions, f)
    <3>4. PICK f \in Function : f.import = 0 /\ y.functions = Append(x.functions, f)
      BY <2>5
    <3>5. /\ ImportsIn(y) = IF f.import = 0 THEN ImportsIn(x)
                            ELSE ImportsIn(x) \cup {Len(x.functions) + 1}
          /\ \A g \in ImportsIn(x) : y.functions[g] = x.functions[g]
      BY <1>2, <3>4, ImportsOfMore
    <3>1. /\ ImportsIn(y) = ImportsIn(x)
          /\ \A g \in ImportsIn(x) : y.functions[g] = x.functions[g]
      BY <3>4, <3>5
    <3>2. SameNames(x, y)
      BY <2>5 DEF SameNames
    <3> QED
      BY <1>2, <1>3, <2>3, <2>5, <3>1, <3>2, SameImports
  <2>6. CASE item.section = "import"
             /\ \E f \in Function : /\ f.import = Len(x.imports) + 1
                                    /\ y.functions = Append(x.functions, f)
             /\ \E i \in Import : /\ i.module = item.module /\ i.name = item.name
                                  /\ y.imports = Append(x.imports, i)
    <3>1. PICK f \in Function : /\ f.import = Len(x.imports) + 1
                                /\ y.functions = Append(x.functions, f)
      BY <2>6
    <3>2. PICK i \in Import : /\ i.module = item.module /\ i.name = item.name
                              /\ y.imports = Append(x.imports, i)
      BY <2>6
    <3> QED
      BY <1>2, <1>5, <2>2, <2>6, <3>1, <3>2, ImportTaken
  <2>7. CASE item.section = "code" /\ y.imports = x.imports
             /\ y.functions = [x.functions EXCEPT
                                 ![First(Bodiless(x))].position = x.next]
    <3>1. /\ Len(y.functions) = Len(x.functions)
          /\ \A g \in 1..Len(x.functions) :
               y.functions[g].import = x.functions[g].import
      <4>1. x.functions \in Seq(Function)
        BY <1>2 DEF Module
      <4>2. \A g \in 1..Len(x.functions) : x.functions[g] \in Function
        BY <4>1, ElementOfSeq
      <4> QED
        BY <2>7, <4>1, <4>2 DEF Function
    <3>2. ImportsIn(y) = ImportsIn(x) /\ SameNames(x, y)
      BY <2>7, <3>1 DEF ImportsIn, SameNames
    <3>3. \A g \in ImportsIn(x) : y.functions[g].import = x.functions[g].import
      BY <3>1 DEF ImportsIn
    <3> QED
      BY <1>2, <1>3, <2>3, <2>7, <3>2, <3>3, SameImports
  <2> QED
    BY <1>5, <2>1, <2>4, <2>5, <2>6, <2>7 DEF Takes, SameLists
<1> QED
  BY <1>4, <1>5 DEF Parses

ImportsInv == \A m \in 1..Len(modules) : ImportsRight(modules[m])

\* Every step keeps the imports right.
LEMMA ImportsStayRight ==
  ASSUME Inv, ImportsInv, [Next]_vars
  PROVE  ImportsInv'
<1>0. LoadInv
  BY DEF Inv
<1>1. modules \in Seq(Module) /\ \A m \in 1..Len(modules) : ModuleOK(modules[m])
  BY <1>0 DEF LoadInv
<1>2. ASSUME NEW m \in 1..Len(modules), NEW y, ImportsRight(y),
             modules' = [modules EXCEPT ![m] = y]
      PROVE  ImportsInv'
  BY <1>1, <1>2 DEF ImportsInv
<1>3. CASE modules' = modules
  BY <1>3 DEF ImportsInv
<1>4. CASE modules' = Append(modules, EmptyModule)
  <2>1. /\ ImportsIn(EmptyModule) = {} /\ TakenOf(EmptyModule, "import") = {}
        /\ Len(EmptyModule.imports) = 0
    BY DEF ImportsIn, EmptyModule, TakenOf
  <2>2. ImportsRight(EmptyModule)
    BY <2>1, FS_EmptySet DEF ImportsRight
  <2> QED
    BY <1>1, <1>4, <2>2 DEF ImportsInv
<1>5. ASSUME NEW m, NEW y, Changes(m, y)
      PROVE  ImportsInv'
  <2> DEFINE x == modules[m]
  <2>1. /\ m \in 1..Len(modules) /\ modules' = [modules EXCEPT ![m] = y]
        /\ x \in Module /\ ModuleOK(x) /\ ImportsRight(x)
        /\ y.next = x.next /\ y \in Module
        /\ y.binary = x.binary \/ x.binary = NoBinary
    BY <1>1, <1>5, ElementOfSeq
    DEF Changes, Renews, Loads, AddsNative, Alike, ImportsInv
  <2>2. \/ y.functions = x.functions /\ SameNames(x, y)
        \/ /\ y.imports = x.imports
           /\ \E f \in Function : /\ f.import = 0
                                  /\ y.functions = Append(x.functions, f)
    BY <1>5 DEF Changes, Renews, Loads, AddsNative, Alike
  <2> HIDE DEF x
  <2>3. /\ TakenOf(y, "import") = TakenOf(x, "import")
        /\ \A i \in TakenOf(x, "import") : ItemAt(y, i) = ItemAt(x, i)
    <3>1. CASE y.binary = x.binary
      BY <2>1, <3>1 DEF TakenOf, ItemAt
    <3>2. CASE x.binary = NoBinary
      <4>1. x.next = 1
        BY <2>1, <3>2 DEF ModuleOK
      <4> QED
        BY <2>1, <4>1 DEF TakenOf
    <3> QED
      BY <2>1, <3>1, <3>2
  <2>4. /\ SameNames(x, y) /\ ImportsIn(y) = ImportsIn(x)
        /\ \A f \in ImportsIn(x) : y.functions[f] = x.functions[f]
    <3>1. CASE y.functions = x.functions /\ SameNames(x, y)
      BY <3>1 DEF ImportsIn
    <3>2. ASSUME NEW f \in Function, f.import = 0, y.imports = x.imports,
                 y.functions = Append(x.functions, f)
          PROVE  /\ SameNames(x, y) /\ ImportsIn(y) = ImportsIn(x)
                 /\ \A g \in ImportsIn(x) : y.functions[g] = x.functions[g]
      BY <2>1, <3>2, ImportsOfMore DEF SameNames
    <3> QED
      BY <2>2, <3>1, <3>2
  <2>5. ImportsRight(y)
    BY <2>1, <2>3, <2>4, SameImports
  <2> QED
    BY <1>2, <2>1, <2>5
<1>6. ASSUME NEW y, Parses(y), task.call = "parse"
      PROVE  ImportsInv'
  <2>1. task.module \in 1..Len(modules)
    BY <1>0, <1>6 DEF LoadInv
  <2>2. ImportsRight(Current)
    BY <2>1 DEF Current, ImportsInv
  <2>3. ImportsRight(y)
    BY <1>0, <1>6, <2>2, ParserKeepsImports
  <2> QED
    BY <1>2, <1>6, <2>1, <2>3 DEF Parses
<1> QED
  BY <1>3, <1>4, <1>5, <1>6, StepIs DEF StepsAre

-----------------------------------------------------------------------------
(***************************************************************************)
(* Bindings.                                                               *)
(***************************************************************************)

\* What is bound has been published under the names that are asked for.
BindingsInv ==
  \A b \in Bindings :
    \E w \in Requests : w[1] = b[1] /\ <<w[2], w[3], b[2]>> \in Publications

\* It follows from what the directory does.
LEMMA BindingsStay ==
  ASSUME BindingsInv,
         D!Publish \/ D!Want \/ D!Bind \/ UNCHANGED D!directoryVars
  PROVE  BindingsInv'
<1>1. CASE D!Publish
  BY <1>1 DEF D!Publish, BindingsInv
<1>2. CASE D!Want
  BY <1>2 DEF D!Want, BindingsInv
<1>3. CASE D!Bind
  BY <1>3 DEF D!Bind, BindingsInv
<1>4. CASE UNCHANGED D!directoryVars
  BY <1>4 DEF D!directoryVars, BindingsInv
<1> QED
  BY <1>1, <1>2, <1>3, <1>4

\* What a function of a module means in which it is not an import, ...
LEMMA OwnMeans ==
  ASSUME NEW m, NEW f, f \notin ImportsOf(m)
  PROVE  Meant(m, f) = {<<m, f>>}
BY DEF Meant

\* ... and in one in which it is.
LEMMA ImportMeans ==
  ASSUME modules \in Seq(Module), ImportsInv, NEW m \in 1..Len(modules),
         NEW f \in ImportsOf(m), NEW i, i = modules[m].functions[f].import,
         NEW r, r = modules[m].imports[i]
  PROVE  /\ i \in 1..Len(modules[m].imports)
         /\ \A p \in Publications :
              p[1] = r.module /\ p[2] = r.name => p[3] \in Meant(m, f)
<1> DEFINE x == modules[m]
           I == ImportsIn(x)
           T == TakenOf(x, "import")
           c == CHOOSE j \in T : Rank(j, T) = Rank(f, I)
<1>1. /\ x \in Module /\ ImportsRight(x) /\ f \in I
      /\ i = x.functions[f].import /\ r = x.imports[i]
  BY ElementOfSeq DEF ImportsInv, ImportsOf, ImportsIn
<1>2. ImportsOf(m) = I /\ Taken(m, "import") = T
  BY DEF ImportsOf, ImportsIn, Taken, TakenOf
<1>3. Meant(m, f) = {p[3] : p \in {q \in Publications :
                                     /\ q[1] = ItemAt(x, c).module
                                     /\ q[2] = ItemAt(x, c).name}}
  BY <1>1, <1>2 DEF Meant
<1> HIDE DEF x
<1>4. /\ I \subseteq Nat /\ IsFiniteSet(I) /\ T \subseteq Nat /\ IsFiniteSet(T)
      /\ Len(x.imports) \in Nat
  BY <1>1, ImportSets
<1>5. Cardinality(I) = Len(x.imports) /\ i = Rank(f, I) + 1
  BY <1>1 DEF ImportsRight
<1>6. i \in 1..Len(x.imports) /\ Rank(f, I) \in Nat
  <2>1. f \in Nat
    BY <1>1, <1>4
  <2>2. Rank(f, I) \in Nat /\ Rank(f, I) < Cardinality(I)
    BY <1>1, <1>4, <2>1, RankIs
  <2> QED
    BY <1>4, <1>5, <2>2
<1>7. PICK j \in T : /\ Rank(j, T) + 1 = i
                     /\ ItemAt(x, j).module = r.module
                     /\ ItemAt(x, j).name = r.name
  BY <1>1, <1>6 DEF ImportsRight
<1> HIDE DEF I, T
<1>8. Rank(j, T) = Rank(f, I)
  <2>1. Rank(j, T) \in Nat
    <3>1. j \in Nat
      BY <1>4
    <3> QED
      BY <1>4, <3>1, RankIs
  <2> QED
    BY <1>5, <1>6, <1>7, <2>1
<1>9. c \in T /\ Rank(c, T) = Rank(f, I)
  BY <1>8
<1> HIDE DEF c
<1>10. c = j
  BY <1>4, <1>8, <1>9, RankOne
<1>11. ItemAt(x, c).module = r.module /\ ItemAt(x, c).name = r.name
  BY <1>7, <1>10
<1>12. ASSUME NEW p \in Publications, p[1] = r.module, p[2] = r.name
       PROVE  p[3] \in Meant(m, f)
  BY <1>3, <1>11, <1>12
<1> QED
  BY <1>6, <1>12 DEF x

\* What an import is bound to is one of the functions that it means.
LEMMA BoundIsMeant ==
  ASSUME modules \in Seq(Module), ImportsInv, BindingsInv,
         NEW m \in 1..Len(modules), NEW f \in ImportsOf(m),
         NEW r, r = modules[m].imports[modules[m].functions[f].import],
         r.resolvedModule # 0
  PROVE  <<r.resolvedModule, r.index>> \in Meant(m, f)
<1>1. PICK i : i = modules[m].functions[f].import
  OBVIOUS
<1>2. PICK target : target = <<r.resolvedModule, r.index>>
  OBVIOUS
<1>3. r = modules[m].imports[i]
  BY <1>1
<1>4. /\ i \in 1..Len(modules[m].imports)
      /\ \A p \in Publications :
           p[1] = r.module /\ p[2] = r.name => p[3] \in Meant(m, f)
  BY <1>1, <1>3, ImportMeans
<1>5. IsBound(modules, m, i)
  BY <1>4, <1>3 DEF IsBound, IsLink
<1>6. /\ Bindings = BoundOf(modules) /\ Requests = WantedOf(modules)
  <2>1. Links = LinksOf(modules)
    BY DEF Links, LinksOf
  <2> QED
    BY <2>1 DEF Bindings, Requests, LinkAt, BoundOf, WantedOf
<1>7. <<<<m, i>>, target>> \in Bindings
  BY <1>2, <1>3, <1>5, <1>6, BoundAre DEF BindingAt
<1>8. PICK w \in Requests : w[1] = <<m, i>> /\ <<w[2], w[3], target>> \in Publications
  BY <1>7 DEF BindingsInv
<1>9. PICK k, n : IsLink(modules, k, n) /\ w = RequestAt(modules, k, n)
  BY <1>6, <1>8, WantedAre
<1>10. k = m /\ n = i
  BY <1>8, <1>9 DEF RequestAt
<1>11. w[2] = r.module /\ w[3] = r.name
  BY <1>3, <1>9, <1>10 DEF RequestAt
<1>12. <<r.module, r.name, target>> \in Publications
  BY <1>8, <1>11
<1>13. PICK p : p = <<r.module, r.name, target>>
  OBVIOUS
<1>14. p[1] = r.module /\ p[2] = r.name /\ p[3] = target
  BY <1>13
<1>15. target \in Meant(m, f)
  BY <1>4, <1>12, <1>13, <1>14
<1> QED
  BY <1>2, <1>15

\* From an import the linker leads to what it means, if anywhere.
LEMMA HopIsMeant ==
  ASSUME modules \in Seq(Module), ImportsInv, BindingsInv, NEW t,
         Exists(Hop(t))
  PROVE  /\ Exists(t)
         /\ <<Hop(t).module, Hop(t).function>> \in Meant(t.module, t.function)
<1>1. Exists(t)
  BY DEF Hop
<1>2. CASE FunctionAt(t).import = 0
  <2>1. Hop(t) = t
    BY <1>2 DEF Hop
  <2>2. t.function \notin ImportsOf(t.module)
    BY <1>2 DEF ImportsOf, FunctionAt
  <2> QED
    BY <1>1, <2>1, <2>2, OwnMeans
<1>3. CASE FunctionAt(t).import # 0
  <2>1. PICK m : m = t.module
    OBVIOUS
  <2>2. PICK f : f = t.function
    OBVIOUS
  <2>3. PICK r : r = modules[m].imports[modules[m].functions[f].import]
    OBVIOUS
  <2>4. m \in 1..Len(modules) /\ f \in ImportsOf(m)
    BY <1>1, <1>3, <2>1, <2>2 DEF Exists, ImportsOf, FunctionAt
  <2>5. Hop(t) = [module |-> r.resolvedModule, function |-> r.index]
    BY <1>1, <1>3, <2>1, <2>2, <2>3 DEF Hop, FunctionAt
  <2>6. Hop(t).module = r.resolvedModule /\ Hop(t).function = r.index
    BY <2>5
  <2>7. r.resolvedModule # 0
    <3>1. Hop(t).module \in 1..Len(modules)
      BY DEF Exists
    <3>2. PICK n \in Nat : n = Len(modules)
      OBVIOUS
    <3>3. Hop(t).module # 0
      BY <3>1, <3>2
    <3> QED
      BY <2>6, <3>3
  <2>8. <<r.resolvedModule, r.index>> \in Meant(m, f)
    BY <2>3, <2>4, <2>7, BoundIsMeant
  <2> QED
    BY <1>1, <2>1, <2>2, <2>6, <2>8
<1> QED
  BY <1>2, <1>3

\* What is meant is a function of a module.
LEMMA MeantType ==
  ASSUME modules \in Seq(Module), NEW m \in Nat, NEW f \in Nat
  PROVE  Meant(m, f) \subseteq Nat \X Nat
<1>1. ASSUME NEW p \in Publications
      PROVE  p[3] \in Nat \X Nat
  <2>1. Publications = PublishedOf(modules)
    BY DEF Publications, PublishedOf
  <2>2. PICK k, e : IsPublished(modules, k, e) /\ p = PublicationAt(modules, k, e)
    BY <2>1, PublishedAre
  <2>3. k \in 1..Len(modules) /\ e \in 1..Len(modules[k].exports)
    BY <2>2 DEF IsPublished
  <2>4. modules[k].exports[e] \in Export
    <3>1. modules[k] \in Module
      BY <2>3, ElementOfSeq
    <3>2. modules[k].exports \in Seq(Export)
      BY <3>1 DEF Module
    <3> QED
      BY <2>3, <3>2, ElementOfSeq
  <2>5. modules[k].exports[e].index \in Nat /\ k \in Nat
    BY <2>3, <2>4 DEF Export
  <2> QED
    BY <2>2, <2>5 DEF PublicationAt
<1>2. CASE f \notin ImportsOf(m)
  BY <1>2, OwnMeans
<1>3. CASE f \in ImportsOf(m)
  <2>1. \E S \in SUBSET Publications : Meant(m, f) = {p[3] : p \in S}
    BY <1>3 DEF Meant
  <2> QED
    BY <1>1, <2>1
<1> QED
  BY <1>2, <1>3

MeantAfter(m, f) ==
  LET meant[n \in 0..ImportResolutionDepth] ==
        IF n = 0 THEN {<<m, f>>}
        ELSE UNION {Meant(t[1], t[2]) : t \in meant[n - 1]}
  IN meant

\* What is meant after each import
LEMMA MeantAfterIs ==
  ASSUME modules \in Seq(Module), NEW m \in Nat, NEW f \in Nat
  PROVE  /\ ImportResolutionDepth \in Nat
         /\ MeantInTheEnd(m, f) = MeantAfter(m, f)[ImportResolutionDepth]
         /\ MeantAfter(m, f)[0] = {<<m, f>>}
         /\ \A n \in 1..ImportResolutionDepth :
              MeantAfter(m, f)[n]
                = UNION {Meant(t[1], t[2]) : t \in MeantAfter(m, f)[n - 1]}
<1> DEFINE d     == ImportResolutionDepth
           b     == {<<m, f>>}
           S     == SUBSET (Nat \X Nat)
           M     == MeantAfter(m, f)
           Of(s) == UNION {Meant(t[1], t[2]) : t \in s}
           Eq(h) == h = [n \in 0..d |-> IF n = 0 THEN b ELSE Of(h[n - 1])]
           step  == [n \in 1..d |-> [s \in S |-> Of(s)]]
<1>1. d \in Nat /\ b \in S
  BY LifecycleAssumption
<1>2. M = CHOOSE h : Eq(h)
  BY DEF MeantAfter
<1>3. MeantInTheEnd(m, f) = M[d]
  BY DEF MeantInTheEnd, MeantAfter
<1>4. \A s \in S : Of(s) \in S
  <2> SUFFICES ASSUME NEW s \in S, NEW t \in s
               PROVE  Meant(t[1], t[2]) \subseteq Nat \X Nat
    OBVIOUS
  <2>1. t[1] \in Nat /\ t[2] \in Nat
    OBVIOUS
  <2> QED
    BY <2>1, MeantType
<1> HIDE DEF d, b, M, S, Of
<1>5. \E h : Eq(h)
  <2>1. step \in [1..d -> [S -> S]]
    BY <1>4
  <2>2. IsRecursion(S, b, d, step)
    BY <1>1, <2>1 DEF IsRecursion
  <2>3. PICK h \in [0..d -> S] :
          h[0] = b /\ \A n \in 1..d : h[n] = step[n][h[n - 1]]
    <3> HIDE DEF step
    <3> QED
      BY <2>2, RecursionExists
  <2>4. ASSUME NEW n \in 1..d
        PROVE  step[n][h[n - 1]] = Of(h[n - 1])
    <3>1. h[n - 1] \in S
      BY <1>1
    <3> QED
      BY <3>1
  <2> HIDE DEF step
  <2>5. ASSUME NEW n \in 0..d
        PROVE  h[n] = IF n = 0 THEN b ELSE Of(h[n - 1])
    BY <1>1, <2>3, <2>4
  <2>6. Eq(h)
    BY <2>3, <2>5
  <2> QED
    BY <2>6
<1>6. Eq(M)
  BY <1>2, <1>5
<1>7. M[0] = b /\ \A n \in 1..d : M[n] = Of(M[n - 1])
  BY <1>1, <1>6
<1> QED
  BY <1>1, <1>3, <1>7 DEF d, b, M, Of

\* What a function is resolved to, if it exists, is what it means by the names.
LEMMA ResolutionIsMeant ==
  ASSUME LoadInv, ImportsInv, BindingsInv, NEW m \in Nat, NEW f \in Nat,
         Exists(Resolution(m, f))
  PROVE  <<Resolution(m, f).module, Resolution(m, f).function>>
           \in MeantInTheEnd(m, f)
<1> DEFINE d  == ImportResolutionDepth
           H  == Hops(m, f)
           M  == MeantAfter(m, f)
           In(t, s) == Exists(t) => <<t.module, t.function>> \in s
           T  == {n \in Nat : n <= d => In(H[n], M[n])}
<1>1. modules \in Seq(Module)
  BY DEF LoadInv
<1>2. /\ d \in Nat /\ Resolution(m, f) = H[d]
      /\ H[0] = [module |-> m, function |-> f]
      /\ \A n \in 1..d : H[n] = Hop(H[n - 1])
  BY HopsAre
<1>3. /\ MeantInTheEnd(m, f) = M[d] /\ M[0] = {<<m, f>>}
      /\ \A n \in 1..d : M[n] = UNION {Meant(t[1], t[2]) : t \in M[n - 1]}
  BY <1>1, MeantAfterIs
<1> HIDE DEF d, H, M
<1>4. 0 \in T
  <2>1. In(H[0], M[0])
    BY <1>2, <1>3
  <2> QED
    BY <2>1
<1>5. ASSUME NEW n \in Nat, n \in T
      PROVE  n + 1 \in T
  <2>1. SUFFICES ASSUME n + 1 <= d, Exists(H[n + 1])
                 PROVE  <<H[n + 1].module, H[n + 1].function>> \in M[n + 1]
    OBVIOUS
  <2>2. n + 1 \in 1..d /\ (n + 1) - 1 = n /\ In(H[n], M[n])
    BY <1>2, <1>5, <2>1
  <2>3. H[n + 1] = Hop(H[n])
    BY <1>2, <2>2
  <2>4. M[n + 1] = UNION {Meant(t[1], t[2]) : t \in M[n]}
    BY <1>3, <2>2
  <2> HIDE DEF T
  <2>5. /\ Exists(H[n])
        /\ <<H[n + 1].module, H[n + 1].function>>
             \in Meant(H[n].module, H[n].function)
    BY <1>1, <2>1, <2>3, HopIsMeant
  <2>6. <<H[n].module, H[n].function>> \in M[n]
    BY <2>2, <2>5
  <2> QED
    BY <2>4, <2>5, <2>6
<1>6. d \in T
  <2> HIDE DEF T
  <2> QED
    BY <1>2, <1>4, <1>5, Induction
<1> QED
  BY <1>2, <1>3, <1>6
\* At an instruction, calls are made by no action but that of a call.
LEMMA OnlyCallsCall ==
  ASSUME Inv, [Next]_vars, AtInstruction, Here.done < Len(Body.list),
         \/ Len(callStack') > Len(callStack)
         \/ Len(cStack') > Len(cStack)
  PROVE  StepCall
<1>1. /\ Executing /\ error # "memory_oob" /\ Here.item # 0
      /\ Here.done \in Nat
  <2>1. Here \in Place
    BY RunningIs DEF AtInstruction
  <2> QED
    BY <2>1 DEF AtInstruction, Place
<1>2. /\ Top \in {"step", "loop"}
      /\ callStack # <<>> /\ callStack \in Seq(Call) /\ cStack \in Seq(Frame)
  BY <1>1, ExecutingIs DEF CallsOK
<1>3. ~HostInControl
  BY <1>2 DEF HostInControl
<1>4. ~(callStack' = callStack /\ cStack' = cStack)
  <2>1. PICK n \in Nat : n = Len(callStack)
    BY <1>2, LenProperties
  <2>2. PICK k \in Nat : k = Len(cStack)
    BY <1>2, LenProperties
  <2> QED
    BY <2>1, <2>2
<1>5. ~HostNext
  <2>1. ~HostSetUp
    BY <1>4 DEF HostSetUp
  <2>2. ~HostStep /\ ~HostStop /\ ~HostDestroy
    BY <1>3 DEF HostStep, HostStop, HostDestroy, HostUses
  <2>3. ASSUME NEW m PROVE ~HostLink(m)
    BY <1>3 DEF HostLink, HostCalls, HostUses
  <2>4. ASSUME NEW m, NEW f PROVE ~(RunFunction(m, f) \/ CallFunction(m, f))
    BY <1>3 DEF RunFunction, CallFunction, HostCalls, HostUses
  <2> QED
    BY <2>1, <2>2, <2>3, <2>4 DEF HostNext
<1>6. ~(LoadingStep /\ UNCHANGED runVars) /\ ~UNCHANGED vars
  BY <1>4 DEF runVars, vars
<1>7. ~StepAfterOverrun /\ ~StepWithoutBody
  BY <1>1 DEF StepAfterOverrun, StepWithoutBody
<1>8. ~StepPastEnd /\ ~StepReturn
  <2>1. ASSUME Here.done = Len(Body.list) PROVE FALSE
    BY <1>1, <2>1
  <2> QED
    BY <2>1 DEF StepPastEnd, StepReturn
<1>9. ~LoopEnd
  BY <1>2 DEF LoopEnd
<1>10. ~NativeEnds
  BY <1>2 DEF NativeEnds, NativeReturns
<1> QED
  BY <1>5, <1>6, <1>7, <1>8, <1>9, <1>10 DEF Next, LibraryNext

\* A call that is refused adds to neither stack.
LEMMA RefusedAddsNothing ==
  ASSUME Inv, Executing, NEW f, NEW at, CallsOK(callStack, at, modules),
         CallRefused(Running, f, at), StepReturnsFalse(cStack, "invalid_index")
  PROVE  /\ ~(Len(callStack') > Len(callStack))
         /\ ~(Len(cStack') > Len(cStack))
<1>1. /\ callStack # <<>> /\ callStack \in Seq(Call)
      /\ cStack \in Seq(Frame) /\ cStack # <<>>
  BY ExecutingIs DEF CallsOK
<1>2. ~(Len(cStack') > Len(cStack))
  <2>1. cStack' = Front(cStack)
    BY DEF StepReturnsFalse
  <2>2. PICK n \in Nat : n = Len(cStack) /\ Len(Front(cStack)) = n - 1
    BY <1>1, FrontIs
  <2> QED
    BY <2>1, <2>2
<1>3. PICK n \in Nat : n = Len(callStack)
  BY <1>1, LenProperties
<1>4. callStack' = callStack => Len(callStack') = Len(callStack)
  OBVIOUS
<1>5. ASSUME NEW callee, callStack' = Suspended(callStack, at, Running, callee)
      PROVE  Len(callStack') = Len(callStack)
  <2>1. /\ Running \in 1..Len(modules)
        /\ callStack # <<>> => Last(callStack).module = Running
    BY RunningIs DEF Running
  <2> QED
    BY <1>5, <2>1, SuspendedIs DEF Inv
<1>6. ~(Len(callStack') > Len(callStack))
  <2>1. \/ callStack' = callStack
        \/ callStack' = Suspended(callStack, at, Running,
                                  Resolution(Running, f).module)
    BY DEF CallRefused
  <2> QED
    BY <1>3, <1>4, <1>5, <2>1
<1> QED
  BY <1>2, <1>6

\* What is put last is last.
LEMMA LastAppended ==
  ASSUME NEW S, NEW s \in Seq(S), NEW e
  PROVE  Last(Append(s, e)) = e
<1>1. PICK n \in Nat : n = Len(s)
  OBVIOUS
<1>2. Len(Append(s, e)) = n + 1 /\ Append(s, e)[n + 1] = e
  BY <1>1
<1> QED
  BY <1>2 DEF Last

\* What a call instruction enters is what its index is resolved to.
LEMMA EntersResolution ==
  ASSUME Inv, StepCall,
         \/ Len(callStack') > Len(callStack)
         \/ Len(cStack') > Len(cStack),
         NEW f, f = Body.list[Here.done + 1],
         NEW target, target = Resolution(Running, f)
  PROVE  /\ Exists(target)
         /\ Entered(callStack', cStack').module = target.module
         /\ Entered(callStack', cStack').function = target.function
<1> DEFINE p  == [Here EXCEPT !.done = @ + 1]
           at == [places EXCEPT ![Running].done = @ + 1]
<1>1. /\ Executing
      /\ \/ /\ CallRefused(Running, f, at)
            /\ StepReturnsFalse(cStack, "invalid_index")
         \/ CallPushed(Running, f, at) /\ StepReturnsTrue
         \/ /\ CallNative(Running, f, at)
            /\ cStack' = Append(cStack, NativeFrame(Running, f))
  BY DEF StepCall, AtInstruction
<1>2. /\ Running \in 1..Len(modules) /\ Running \in 1..Len(plan)
      /\ Here \in Place /\ Here = places[Running]
      /\ Here.item <= Len(modules[Running].binary.items)
      /\ callStack # <<>> => Last(callStack).module = Running
  BY <1>1, RunningIs DEF Running
<1>3. p \in Place /\ p.item = Here.item
  BY <1>2 DEF Place
<1>4. at = [places EXCEPT ![Running] = p]
  BY <1>2
<1> HIDE DEF p, at
<1>5. CallsOK(callStack, at, modules)
  BY <1>1, <1>2, <1>3, <1>4, ExecutingIs, MovedIs
<1>6. /\ callStack \in Seq(Call) /\ callStack # <<>>
      /\ cStack \in Seq(Frame) /\ cStack # <<>>
  BY <1>1, ExecutingIs DEF CallsOK
<1>7. CASE CallRefused(Running, f, at)
           /\ StepReturnsFalse(cStack, "invalid_index")
  BY <1>1, <1>5, <1>7, RefusedAddsNothing
<1>8. CASE CallPushed(Running, f, at) /\ StepReturnsTrue
  <2>1. Exists(target)
    BY <1>8, RefusalIs DEF CallPushed
  <2>2. ~(Len(cStack') > Len(cStack))
    <3>1. cStack' = cStack \/ cStack' = Front(cStack)
      BY <1>8 DEF StepReturnsTrue
    <3>2. PICK n \in Nat : n = Len(cStack) /\ Len(Front(cStack)) = n - 1
      BY <1>6, FrontIs
    <3> QED
      BY <3>1, <3>2
  <2>3. Entered(callStack', cStack') = Last(callStack')
    BY <2>2 DEF Entered
  <2>4. PICK s, e : /\ s = Suspended(callStack, at, Running, target.module)
                    /\ e.module = target.module /\ e.function = target.function
                    /\ callStack' = Append(s, e)
    BY <1>8 DEF CallPushed
  <2>5. s \in Seq(Call)
    BY <1>2, <1>5, <2>4, SuspendedIs DEF CallsOK, Inv
  <2>6. Last(Append(s, e)) = e
    BY <2>5, LastAppended
  <2> QED
    BY <2>1, <2>3, <2>4, <2>6
<1>9. CASE /\ CallNative(Running, f, at)
           /\ cStack' = Append(cStack, NativeFrame(Running, f))
  <2>1. Exists(target)
    BY <1>9, RefusalIs DEF CallNative
  <2>2. PICK e : e = NativeFrame(Running, f)
    OBVIOUS
  <2>3. e.module = target.module /\ e.function = target.function
    BY <2>2 DEF NativeFrame
  <2>4. Len(cStack') > Len(cStack) /\ Last(cStack') = e
    <3>1. Len(Append(cStack, e)) = Len(cStack) + 1 /\ Len(cStack) \in Nat
      BY <1>6
    <3> QED
      BY <1>6, <1>9, <2>2, <3>1, LastAppended
  <2>5. Entered(callStack', cStack') = Last(cStack')
    BY <2>4 DEF Entered
  <2> QED
    BY <2>1, <2>3, <2>4, <2>5
<1> QED
  BY <1>1, <1>7, <1>8, <1>9

\* A call instruction enters what its index means by the names in the binaries.
LEMMA StepCallsAsNamed ==
  ASSUME Inv, ImportsInv, BindingsInv, [Next]_vars,
         AtInstruction, Here.done < Len(Body.list),
         \/ Len(callStack') > Len(callStack)
         \/ Len(cStack') > Len(cStack)
  PROVE  LET callee == Entered(callStack', cStack') IN
         <<callee.module, callee.function>>
           \in MeantInTheEnd(Running, Body.list[Here.done + 1])
<1>1. PICK f \in Nat : f = Body.list[Here.done + 1]
  BY IndexIs
<1>2. PICK target : target = Resolution(Running, f)
  OBVIOUS
<1>3. StepCall
  BY OnlyCallsCall
<1>4. Running \in Nat
  <2>1. Running \in 1..Len(modules)
    BY RunningIs DEF AtInstruction
  <2> QED
    BY <2>1
<1>5. /\ Exists(target)
      /\ Entered(callStack', cStack').module = target.module
      /\ Entered(callStack', cStack').function = target.function
  BY <1>1, <1>2, <1>3, EntersResolution
<1>6. <<target.module, target.function>> \in MeantInTheEnd(Running, f)
  BY <1>2, <1>4, <1>5, ResolutionIsMeant DEF Inv
<1> QED
  BY <1>1, <1>5, <1>6

\* At first there are no modules.
LEMMA NothingImported ==
  ASSUME Init
  PROVE  ImportsInv /\ BindingsInv
<1>1. Len(modules) = 0
  BY EmptySeq DEF Init, LoadingInit
<1>2. Bindings = {}
  BY InitOfDirectory DEF D!DirectoryInit
<1> QED
  BY <1>1, <1>2 DEF ImportsInv, BindingsInv

\* A call instruction enters the function that its index means by the names in
\* the binaries, through any chain of imports, a host function or not: parser,
\* linker and caller number the functions alike (functions.h:20-72).
THEOREM CallsAreAsNamed == Spec => CallsAsNamed
<1>1. Init => ImportsInv /\ BindingsInv
  BY NothingImported
<1>2. Inv /\ ImportsInv /\ [Next]_vars => ImportsInv'
  BY ImportsStayRight
<1>3. Inv /\ BindingsInv /\ [Next]_vars => BindingsInv'
  BY NextOfDirectory, BindingsStay
<1>4. Inv /\ ImportsInv /\ BindingsInv /\ [Next]_vars
        => [AtInstruction /\ Here.done < Len(Body.list)
              /\ (Len(callStack') > Len(callStack)
                    \/ Len(cStack') > Len(cStack)) =>
            LET callee == Entered(callStack', cStack') IN
            <<callee.module, callee.function>> \in
              MeantInTheEnd(Running, Body.list[Here.done + 1])]_vars
  BY StepCallsAsNamed
<1> QED
  BY <1>1, <1>2, <1>3, <1>4, Invariance, PTL DEF Spec, CallsAsNamed
=============================================================================
