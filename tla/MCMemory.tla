------------------------------ MODULE MCMemory ------------------------------
(***************************************************************************)
(* A small memory: pages of eight bytes, blocks of four, bytes of two bits *)
(* and counters that wrap around at 64.                                    *)
(***************************************************************************)
EXTENDS MemoryProperties

\* One page and no more, none of two, and two of four
SmallLimits == {<<1, 1>>, <<0, 2>>, <<2, 4>>}

\* Data across two blocks, and data beyond the first two pages
SomeSegments == {<<7, <<1, 2>>>>, <<30, <<1>>>>}

\* Across the ends of the first page and of the second
SomeIndices == {6, 14}
SomeValues == {<<1, 2, 3, 2, 1, 3, 0, 2>>}

\* A page, three, and one less than none
SomeGrowBy == {1, 3, 63}

\* A checker that refuses some size, and one that refuses all
MostSizes == {4, 8, 12, 16, 20, 28, 32}
NoSizes == {}
=============================================================================
