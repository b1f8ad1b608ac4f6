------------------------------- MODULE Memory -------------------------------
(***************************************************************************)
(* The linear memory of a module (src/memory.h), the instructions that use *)
(* it (src/interpreter.h) and the data section that fills it               *)
(* (src/parser.h).                                                         *)
(*                                                                         *)
(* A memory has no bytes to begin with, however many pages it declares: it *)
(* grows in blocks when something is stored, and a load past its end reads *)
(* zeros.  A store goes byte by byte and may have to grow the memory at    *)
(* any of them; access is the store, or the data segment, under way, and a *)
(* step is one turn of the loop over its bytes.  Nothing happens between   *)
(* those turns.                                                            *)
(***************************************************************************)
EXTENDS Integers, Sequences

CONSTANTS
  PageSize,         \* WASMU_MEMORY_PAGE_SIZE
  BlockSize,        \* WASMU_MEMORY_BLOCK_SIZE
  CountLimit,       \* one more than the greatest wasmu_Count
  ByteLimit,        \* one more than the greatest byte
  UnknownByte,      \* a byte that C leaves undefined
  AuthorisedSizes,  \* the sizes WASMU_MEMORY_SIZE_CHECKER authorises
  Limits,           \* the limits a module may declare: pairs of page counts
  Segments,         \* the data segments: pairs of an address and bytes
  Indices,          \* where the code loads and stores: an offset and a popped
                    \* base, added up in a wasmu_Count
  Values,           \* what the code stores: eight bytes, the lowest first
  GrowBy            \* by how many pages the code grows the memory

Byte == 0..(ByteLimit - 1)

\* The memory section stands for no maximum by -1, the greatest wasmu_Count.
\* Addresses in the last block of the address space are left out: the size of
\* the memory would wrap around there.
ASSUME MemoryAssumption ==
  /\ PageSize \in Nat \ {0} /\ BlockSize \in Nat \ {0}
  /\ CountLimit \in Nat \ {0} /\ ByteLimit \in Nat \ {0, 1}
  /\ UnknownByte \notin Byte
  /\ Limits \subseteq (0..(CountLimit - 1)) \X (0..(CountLimit - 1))
  /\ Indices \subseteq Nat
  /\ \A index \in Indices : index + 8 + BlockSize <= CountLimit
  /\ Segments \subseteq Nat \X Seq(Byte)
  /\ \A s \in Segments : s[1] + Len(s[2]) + BlockSize <= CountLimit
  /\ Values \subseteq [1..8 -> Byte]
  /\ GrowBy \subseteq 0..(CountLimit - 1)

\* Pages are made of whole blocks.
ASSUME BlocksFitPages == \E k \in 1..PageSize : PageSize = k * BlockSize

\* The load instructions, by the bytes they push and read: see
\* wasmu_getDataSizeFromOpcode and wasmu_signExtendValue.
LoadOp ==
  {op \in [size : {4, 8}, dataSize : {1, 2, 4, 8}, signed : BOOLEAN] :
     /\ op.dataSize <= op.size
     /\ op.signed => op.dataSize < op.size}

StoreSize == {1, 2, 4, 8}

VARIABLES
  memory,     \* the wasmu_Memory, with the bytes allocated for it
  access,     \* the store or data segment under way
  parsed,     \* the data section has been parsed, and code may run
  error,      \* errorState
  loaded,     \* the bytes pushed by the last instruction, if it was a load
  reported    \* the pages pushed by the last memory.size or memory.grow

memoryVars == <<memory, access, parsed, error, loaded, reported>>

NoAccess == [kind |-> "none", index |-> 0, bytes |-> <<>>]

\* wasmu_parseMemorySection: one byte is allocated, and the size is zero.
Init ==
  /\ \E limits \in Limits :
       memory = [data |-> <<0>>, size |-> 0, pagesCount |-> limits[1],
                 minPages |-> limits[1], maxPages |-> limits[2]]
  /\ access = NoAccess
  /\ parsed = FALSE
  /\ error = "none"
  /\ loaded = <<>>
  /\ reported = 0

-----------------------------------------------------------------------------
(***************************************************************************)
(* wasmu_memoryStore                                                       *)
(***************************************************************************)

\* WASMU_MEMORY_ALIGN_BLOCK
Aligned(n) ==
  LET up == (n + BlockSize - 1) % CountLimit IN up - (up % BlockSize)

\* Mutant of NewSize: room is made for the bytes below the index only.
NewSizeShort(index) == Aligned(index)

\* The size that a memory needs to have a byte at index.
NewSize(index) == Aligned((index + 1) % CountLimit)

\* Mutant of MayGrow: the maximum is not looked at.
MayGrowUnlimited(index) == NewSize(index) \in AuthorisedSizes

\* Whether the memory may grow so far: the page of the index is compared with
\* a number of pages.
MayGrow(index) ==
  /\ index \div PageSize <= memory.maxPages
  /\ NewSize(index) \in AuthorisedSizes

\* Mutant of GrownFor: no byte is allocated beyond the size.
GrownTight(index) ==
  LET page == index \div PageSize
      size == NewSize(index)
  IN [data |-> [i \in 1..size |-> IF i <= memory.size THEN memory.data[i] ELSE 0],
      size |-> size,
      pagesCount |-> IF page > memory.pagesCount THEN page ELSE memory.pagesCount,
      minPages |-> memory.minPages, maxPages |-> memory.maxPages]

\* The memory grown for an index: the bytes from the old size on are cleared.
GrownFor(index) ==
  LET page == index \div PageSize
      size == NewSize(index)
  IN [data |-> [i \in 1..(size + 1) |-> IF i <= memory.size THEN memory.data[i] ELSE 0],
      size |-> size,
      pagesCount |-> IF page > memory.pagesCount THEN page ELSE memory.pagesCount,
      minPages |-> memory.minPages, maxPages |-> memory.maxPages]

InMemory(index) == index < memory.size

\* The access once the byte at its index is dealt with
Advanced ==
  IF Len(access.bytes) = 1 THEN NoAccess
  ELSE [kind |-> access.kind, index |-> (access.index + 1) % CountLimit,
        bytes |-> Tail(access.bytes)]

WriteByte ==
  LET index == access.index
      room  == IF InMemory(index) THEN memory ELSE GrownFor(index)
  IN /\ access.bytes # <<>>
     /\ InMemory(index) \/ MayGrow(index)
     /\ memory' = [room EXCEPT !.data[index + 1] = Head(access.bytes)]
     /\ access' = Advanced
     /\ UNCHANGED <<parsed, error, loaded, reported>>

\* A store fails where it has got to, what it has written staying written.  The
\* data section takes no notice and goes on with its next byte.
RefuseByte ==
  /\ access.bytes # <<>>
  /\ ~InMemory(access.index) /\ ~MayGrow(access.index)
  /\ IF access.kind = "store"
     THEN access' = NoAccess /\ error' = "memory_oob"
     ELSE access' = Advanced /\ UNCHANGED error
  /\ UNCHANGED <<memory, parsed, loaded, reported>>

-----------------------------------------------------------------------------
(***************************************************************************)
(* The data section: one of its segments, and its end.                     *)
(***************************************************************************)
ParseSegment ==
  /\ ~parsed /\ access = NoAccess
  /\ \E segment \in Segments :
       access' = IF segment[2] = <<>> THEN NoAccess
                 ELSE [kind |-> "data", index |-> segment[1], bytes |-> segment[2]]
  /\ UNCHANGED <<memory, parsed, error, loaded, reported>>

FinishParsing ==
  /\ ~parsed /\ access = NoAccess
  /\ parsed' = TRUE
  /\ UNCHANGED <<memory, access, error, loaded, reported>>

-----------------------------------------------------------------------------
(***************************************************************************)
(* The instructions.  A memory that is full stops the program for good: no *)
(* code is read any more in the error state memory_oob.                    *)
(***************************************************************************)
Executing == parsed /\ access = NoAccess /\ error = "none"

Store ==
  /\ Executing
  /\ \E index \in Indices, size \in StoreSize, value \in Values :
       access' = [kind |-> "store", index |-> index, bytes |-> SubSeq(value, 1, size)]
  /\ loaded' = <<>> /\ reported' = 0
  /\ UNCHANGED <<memory, parsed, error>>

ByteAt(index) == IF InMemory(index) THEN memory.data[index + 1] ELSE 0

Negative(byte) == byte >= ByteLimit \div 2

Padded(bytes, byte) ==
  [k \in 1..8 |-> IF k <= Len(bytes) THEN bytes[k] ELSE byte]

\* wasmu_memoryLoad, the value being eight bytes.  Each byte is shifted as an
\* int: the fourth one brings its sign along, and shifting any further one by
\* the width of an int or more is undefined.
MemoryLoad(index, dataSize) ==
  LET bytes == [k \in 1..dataSize |-> ByteAt(index + k - 1)]
  IN CASE dataSize < 4 -> Padded(bytes, 0)
       [] dataSize = 4 -> Padded(bytes, IF Negative(bytes[4]) THEN ByteLimit - 1 ELSE 0)
       [] OTHER -> IF InMemory(index + 4) THEN Padded(<<>>, UnknownByte)
                   ELSE Padded(SubSeq(bytes, 1, 4),
                               IF Negative(bytes[4]) THEN ByteLimit - 1 ELSE 0)

\* wasmu_signExtendValue
SignExtended(value, op) ==
  [k \in 1..8 |-> IF op.signed /\ k > op.dataSize /\ Negative(value[op.dataSize])
                  THEN ByteLimit - 1 ELSE value[k]]

Load ==
  /\ Executing
  /\ \E index \in Indices, op \in LoadOp :
       loaded' = SubSeq(SignExtended(MemoryLoad(index, op.dataSize), op), 1, op.size)
  /\ reported' = 0
  /\ UNCHANGED <<memory, access, parsed, error>>

Size ==
  /\ Executing
  /\ reported' = memory.pagesCount
  /\ loaded' = <<>>
  /\ UNCHANGED <<memory, access, parsed, error>>

\* Mutant of Grow: the maximum is not looked at.
GrowUnlimited ==
  /\ Executing
  /\ \E pages \in GrowBy :
       memory' = [memory EXCEPT !.pagesCount = (@ + pages) % CountLimit]
  /\ reported' = memory.pagesCount
  /\ loaded' = <<>>
  /\ UNCHANGED <<access, parsed, error>>

\* The sum of pages wraps around, like -1, which is what a failure pushes.
Grow ==
  /\ Executing
  /\ \E pages \in GrowBy :
       LET count == (memory.pagesCount + pages) % CountLimit
       IN IF count > memory.maxPages
          THEN reported' = CountLimit - 1 /\ UNCHANGED memory
          ELSE /\ reported' = memory.pagesCount
               /\ memory' = [memory EXCEPT !.pagesCount = count]
  /\ loaded' = <<>>
  /\ UNCHANGED <<access, parsed, error>>

-----------------------------------------------------------------------------
Next ==
  \/ ParseSegment \/ FinishParsing
  \/ WriteByte \/ RefuseByte
  \/ Store \/ Load \/ Size \/ Grow

Spec == Init /\ [][Next]_memoryVars
=============================================================================
