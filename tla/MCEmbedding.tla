---------------------------- MODULE MCEmbedding -----------------------------
(***************************************************************************)
(* Host programs that set up one, two or three modules.                    *)
(***************************************************************************)
EXTENDS EmbeddingProperties

SomeNames == {"", "a", "b", "c", "f", "g", "h"}

It(section) ==
  [section |-> section, there |-> TRUE, known |-> TRUE, module |-> "",
   name |-> "", index |-> 1, list |-> <<>>]

Odd(item) == [item EXCEPT !.known = FALSE]
Cut(item) == [item EXCEPT !.there = FALSE]

Type     == It("type")
Func     == It("function")
Table    == It("table")
Memory   == It("memory")
Global   == It("global")
Data     == It("data")
Imports(module, name) == [It("import") EXCEPT !.module = module, !.name = name]
Exports(name, f)      == [It("export") EXCEPT !.name = name, !.index = f]
Segment(start, list)  == [It("element") EXCEPT !.index = start, !.list = list]
Code(list)            == [It("code") EXCEPT !.list = list]

Bin(items) == [magic |-> "right", items |-> items]

Mod(name, items, natives) ==
  [name |-> name, binary |-> Bin(items), natives |-> natives]

Host(name, natives) ==
  [name |-> name, binary |-> NoBinary, natives |-> natives]

-----------------------------------------------------------------------------
\* A module that calls a function and a host function of another
Linked ==
  <<Mod("a", <<Type, Imports("b", "f"), Imports("b", "h"), Func,
               Exports("g", 3), Code(<<2, 1>>)>>, <<>>),
    Mod("b", <<Type, Func, Exports("f", 1), Code(<<>>)>>, <<"h">>)>>

\* An import that is exported again, twice, and a module that imports itself
Chain ==
  <<Mod("a", <<Type, Imports("b", "f"), Func, Func, Exports("g", 2),
               Exports("f", 3), Code(<<>>), Code(<<1, 1>>)>>, <<>>),
    Mod("b", <<Type, Imports("a", "g"), Exports("f", 1)>>, <<"g">>)>>

Cycle ==
  <<Mod("a", <<Type, Imports("a", "f"), Exports("f", 1), Func, Exports("g", 2),
               Code(<<2>>)>>, <<"f">>)>>

\* A call of a chain of imports that is one longer than the depth allows
LongChain ==
  <<Mod("a", <<Type, Imports("b", "f"), Func, Exports("g", 2), Exports("h", 1),
               Code(<<>>)>>, <<>>),
    Mod("b", <<Type, Imports("a", "g"), Imports("a", "h"), Exports("f", 1),
               Func, Exports("g", 3), Code(<<1, 2>>)>>, <<>>)>>

\* Two modules of one name, of which only one has what the third asks for
SameName ==
  <<Host("b", <<>>), Host("b", <<"g">>),
    Mod("a", <<Type, Imports("b", "g"), Func, Exports("h", 2), Code(<<1>>)>>,
        <<>>)>>

\* Sections in an unusual order, a recursion, and functions without bodies
Orders ==
  <<Mod("a", <<Type, Func, Imports("a", "h"), Code(<<2, 3>>), Func, Func,
               Code(<<1>>), It("custom"), Exports("f", 1), Exports("g", 4),
               Memory, Data, Global>>, <<"h">>)>>

\* Segments that overlap, leave gaps and go beyond the limit
Tables ==
  {<<Mod("a", <<Table, Table, Segment(1, <<1, 2>>), Segment(s[1], s[2]),
                Segment(s[3], s[4])>>, <<>>)>> :
     s \in {0, 2, 4} \X {<<>>, <<4, 5>>} \X {0, 2, 3} \X {<<7, 8>>}}

\* What the parser refuses, after something that it takes
Refusals ==
  {<<Mod("a", <<Type, Func>> \o items, <<"h">>)>> :
     items \in {<<Odd(Type)>>, <<Odd(Imports("b", "f"))>>, <<Odd(Global)>>,
                <<Segment(0, <<1>>)>>, <<Data>>, <<It("unknown")>>,
                <<Code(<<>>), Code(<<>>)>>, <<Odd(Exports("f", 1))>>}}
  \cup {<<Mod("a", <<Type, Code(<<>>)>>, <<"h">>)>>}

Unread ==
  {<<[name |-> "a", binary |-> [magic |-> magic, items |-> <<Type>>],
      natives |-> <<"h">>]>> : magic \in {"wrong", "short"}}

\* Binaries that are cut off: within each kind of section, and within a body
CutOff ==
  {<<Mod("a", <<Type, Func, Exports("f", 1), Table>> \o <<first, Cut(first)>>,
         <<"h">>)>> :
     first \in {Type, Func, Table, Memory, Global, Exports("g", 1),
                Imports("b", "f"), Segment(0, <<1>>), Code(<<1>>)}}
  \cup {<<Mod("a", <<Type, Func, Exports("f", 1), Func,
                     Code(<<2>>), Odd(Code(<<>>))>>, <<"h">>)>>}

SomePlans ==
  {Linked, Chain, LongChain, Cycle, SameName, Orders}
    \cup Tables \cup Refusals \cup Unread \cup CutOff
=============================================================================
