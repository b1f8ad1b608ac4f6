----------------------------- MODULE Directory ------------------------------
(***************************************************************************)
(* What resolving imports promises: a directory of the functions that      *)
(* modules have published under names, and of links, each of which asks    *)
(* for a module's name and a function's, and is bound, once and for all,   *)
(* to what was published under the two.  It does not say when the parser,  *)
(* the host or the linker does any of it.                                  *)
(***************************************************************************)
VARIABLES
  published,  \* triples of a module's name, a function's name and a target
  wanted,     \* triples of a link, a module's name and a function's name
  bound       \* pairs of a link and its target

directoryVars == <<published, wanted, bound>>

DirectoryInit ==
  /\ published = {}
  /\ wanted = {}
  /\ bound = {}

\* What is published is not taken back.
Publish ==
  /\ published \subseteq published'
  /\ UNCHANGED <<wanted, bound>>

\* A new link asks for something, and does so ever after.
Want ==
  \E w \in wanted' :
    /\ \A v \in wanted : v[1] # w[1]
    /\ wanted' = wanted \cup {w}
    /\ UNCHANGED <<published, bound>>

\* A link is bound that was not.
Bind ==
  \E b \in bound' :
    /\ \A c \in bound : c[1] # b[1]
    /\ \E w \in wanted : w[1] = b[1] /\ <<w[2], w[3], b[2]>> \in published
    /\ bound' = bound \cup {b}
    /\ UNCHANGED <<published, wanted>>

DirectorySpec == DirectoryInit /\ [][Publish \/ Want \/ Bind]_directoryVars
=============================================================================
