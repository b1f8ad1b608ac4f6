-------------------------- MODULE MemoryProperties --------------------------
(***************************************************************************)
(* What makes the memory correct.                                          *)
(***************************************************************************)
EXTENDS Memory

\* Every variable has its type, and one byte more is allocated for the memory
\* than its size.
TypeOK ==
  /\ memory \in [data : Seq(Byte), size : Nat, pagesCount : Nat,
                 minPages : Nat, maxPages : Nat]
  /\ Len(memory.data) = memory.size + 1
  /\ access \in [kind : {"none", "store", "data"}, index : Nat, bytes : Seq(Byte)]
  /\ (access.bytes = <<>>) <=> (access = NoAccess)
  /\ parsed \in BOOLEAN
  /\ error \in {"none", "memory_oob"}
  /\ loaded \in Seq(Byte \cup {UnknownByte})
  /\ reported \in Nat

-----------------------------------------------------------------------------
(***************************************************************************)
(* The promise to the code.                                                *)
(***************************************************************************)

\* The memory as its code sees it: zeros from its end on.
MappedBytes ==
  [a \in 0..(CountLimit - 1) |->
     IF a < memory.size THEN memory.data[a + 1] ELSE 0]

Map == INSTANCE ByteMap
         WITH Addresses <- 0..(CountLimit - 1), bytes <- MappedBytes

\* Whatever blocks the memory grows by, and whenever it does, code finds a byte
\* at each address, which is zero until it is written: growing neither loses
\* a byte nor shows one that was not cleared, and a store that has to grow the
\* memory writes all of its bytes or sets an error.
BehavesAsByteMap == Map!Spec

-----------------------------------------------------------------------------
(***************************************************************************)
(* The promise to the host, whose memory is small.                         *)
(***************************************************************************)

\* The memory never has more pages than its maximum, if it had not from the
\* start, though memory.grow adds them up in a counter that wraps.
PagesWithinMaximum ==
  memory.pagesCount > memory.maxPages => memory.pagesCount = memory.minPages

\* Code that stores wherever it likes makes the memory grow to the end of the
\* page after its maximum, and no further.
SizeBounded == memory.size <= (memory.maxPages + 1) * PageSize

\* If the checker, or the maximum, rejects the memory that a byte of the initial
\* data needs, that is an error of the context.
RejectionReported ==
  [][ access.kind = "data" /\ access'.bytes # access.bytes
      => \/ access.index < memory'.size
         \/ error' = "memory_oob" ]_memoryVars
=============================================================================
