---------------------------- MODULE MemoryProofs ----------------------------
(***************************************************************************)
(* The memory keeps within its allocation and its limits, and behaves as a *)
(* map of bytes, for all sizes of pages, blocks and counters.              *)
(***************************************************************************)
EXTENDS MemoryProperties, SequenceTheorems, TLAPS

-----------------------------------------------------------------------------
(***************************************************************************)
(* Blocks.                                                                 *)
(***************************************************************************)

\* An access under way writes below the last block of the address space.
InReach ==
  /\ access.kind # "none"
  /\ access.index + Len(access.bytes) + BlockSize <= CountLimit

\* A remainder is less than what is divided by.
LEMMA Remainder ==
  ASSUME NEW n \in Nat, NEW d \in Nat \ {0}
  PROVE  n % d \in 0..(d - 1)
OBVIOUS

\* A size that does not wrap around has room for the byte that it is made for,
\* and less than a block more.
LEMMA NewSizeFits ==
  ASSUME NEW index \in Nat, index + 1 + BlockSize <= CountLimit
  PROVE  /\ NewSize(index) \in Nat
         /\ index < NewSize(index)
         /\ NewSize(index) = (index + BlockSize) - ((index + BlockSize) % BlockSize)
<1>1. BlockSize \in Nat \ {0} /\ CountLimit \in Nat \ {0}
  BY MemoryAssumption
<1>2. (index + 1) % CountLimit = index + 1
  BY <1>1
<1>3. ((index + 1) + BlockSize - 1) % CountLimit = index + BlockSize
  BY <1>1
<1>4. NewSize(index) = (index + BlockSize) - ((index + BlockSize) % BlockSize)
  BY <1>2, <1>3 DEF NewSize, Aligned
<1>5. (index + BlockSize) % BlockSize \in 0..(BlockSize - 1)
  BY <1>1, Remainder
<1> QED
  BY <1>1, <1>4, <1>5

\* Division with a remainder.
LEMMA Division ==
  ASSUME NEW n \in Nat, NEW d \in Nat \ {0}
  PROVE  /\ n \div d \in Nat /\ n % d \in 0..(d - 1)
         /\ n = d * (n \div d) + (n % d)
OBVIOUS

\* A number is its own remainder below the divisor.
\* A number is its own remainder below the divisor.
LEMMA SmallRemainder ==
  ASSUME NEW n \in Nat, NEW d \in Nat, n < d
  PROVE  n % d = n
OBVIOUS

\* Products keep the order of their factors.
LEMMA ProductOrder ==
  ASSUME NEW d \in Nat, NEW a \in Nat, NEW b \in Nat, a <= b
  PROVE  d * a \in Nat /\ d * b \in Nat /\ d * a <= d * b
OBVIOUS

\* Products with the same positive factor are equal if the others are.
\* Products with the same positive factor are equal if the others are.
LEMMA ProductCancels ==
  ASSUME NEW d \in Nat, NEW a \in Nat, NEW b \in Nat, d * a < d * b
  PROVE  a < b
<1>1. ASSUME b <= a PROVE FALSE
  BY <1>1, ProductOrder
<1> QED
  BY <1>1

\* Rounding up to a block does not leave the page: there is no more allocated
\* than the page of the index has.
LEMMA NewSizeInPage ==
  ASSUME NEW index \in Nat, NEW max \in Nat, index \div PageSize <= max,
         index + 1 + BlockSize <= CountLimit
  PROVE  NewSize(index) <= (max + 1) * PageSize
<1> DEFINE P == PageSize
           B == BlockSize
           q == index \div P
           n == index + B
           t == n \div B
<1>1. P \in Nat \ {0} /\ B \in Nat \ {0} /\ n \in Nat
  BY MemoryAssumption
<1>2. PICK k \in Nat : P = k * B
  BY BlocksFitPages, <1>1
<1>3. q \in Nat /\ index % P \in 0..(P - 1) /\ index = P * q + (index % P)
  BY <1>1, Division
<1>4. t \in Nat /\ n % B \in 0..(B - 1) /\ n = B * t + (n % B)
  BY <1>1, Division
<1>5. NewSize(index) = n - (n % B)
  BY NewSizeFits
<1>6. q <= max
  OBVIOUS
<1> HIDE DEF P, B, q, n, t
<1> DEFINE M == k * (max + 1)
<1>7. P * (max + 1) = B * M /\ M \in Nat
  BY <1>1, <1>2
<1>8. index < B * M
  <2>1. index < P * (q + 1) /\ q + 1 \in Nat /\ max + 1 \in Nat
    BY <1>1, <1>3
  <2>2. P * (q + 1) <= P * (max + 1)
    BY <1>1, <1>3, <1>6, <2>1, ProductOrder
  <2>3. P * (q + 1) \in Nat /\ P * (max + 1) \in Nat
    BY <1>1, <2>1
  <2> QED
    BY <1>7, <2>1, <2>2, <2>3
<1> HIDE DEF M
<1>9. t <= M
  <2>1. B * t < B * (M + 1)
    BY <1>1, <1>4, <1>7, <1>8 DEF n
  <2>2. t < M + 1
    BY <1>1, <1>4, <1>7, <2>1, ProductCancels
  <2> QED
    BY <1>4, <1>7, <2>2
<1>10. B * t <= B * M
  BY <1>1, <1>4, <1>7, <1>9, ProductOrder
<1> QED
  BY <1>1, <1>4, <1>5, <1>7, <1>10 DEF P

-----------------------------------------------------------------------------
(***************************************************************************)
(* The inductive invariant: the types, an access that stays in reach, and  *)
(* the two limits.                                                         *)
(***************************************************************************)
MInv ==
  /\ TypeOK
  /\ access.bytes # <<>> => InReach
  /\ ~parsed => loaded = <<>>
  /\ PagesWithinMaximum
  /\ SizeBounded

\* The invariant holds of a memory that was just parsed.
LEMMA InitMInv == Init => MInv
<1> SUFFICES ASSUME Init PROVE MInv
  OBVIOUS
<1> USE DEF Init
<1>1. PICK limits \in Limits :
        memory = [data |-> <<0>>, size |-> 0, pagesCount |-> limits[1],
                  minPages |-> limits[1], maxPages |-> limits[2]]
  OBVIOUS
<1>2. limits[1] \in Nat /\ limits[2] \in Nat
  BY MemoryAssumption
<1>3. <<0>> \in Seq(Byte) /\ Len(<<0>>) = 1
  <2>1. 0 \in Byte
    BY MemoryAssumption DEF Byte
  <2> QED
    BY <2>1
<1>4. access = NoAccess /\ access.bytes = <<>> /\ <<>> \in Seq(Byte)
  BY DEF NoAccess
<1>5. TypeOK
  <2>1. memory \in [data : Seq(Byte), size : Nat, pagesCount : Nat,
                     minPages : Nat, maxPages : Nat]
    BY <1>1, <1>2, <1>3
  <2>2. Len(memory.data) = memory.size + 1
    BY <1>1, <1>3
  <2>3. access \in [kind : {"none", "store", "data"}, index : Nat, bytes : Seq(Byte)]
    BY <1>4 DEF NoAccess
  <2>4. loaded \in Seq(Byte \cup {UnknownByte})
    OBVIOUS
  <2> QED
    BY <1>4, <2>1, <2>2, <2>3, <2>4 DEF TypeOK
<1>6. PagesWithinMaximum
  BY <1>1 DEF PagesWithinMaximum
<1>7. SizeBounded
  <2>1. (limits[2] + 1) * PageSize \in Nat
    BY <1>2, MemoryAssumption
  <2> QED
    BY <1>1, <2>1 DEF SizeBounded
<1> QED
  BY <1>4, <1>5, <1>6, <1>7 DEF MInv

\* What remains of an access after a byte.
LEMMA AdvancedType ==
  ASSUME MInv, access.bytes # <<>>, access' = Advanced
  PROVE  /\ access' \in [kind : {"none", "store", "data"}, index : Nat, bytes : Seq(Byte)]
         /\ (access'.bytes = <<>>) <=> (access' = NoAccess)
         /\ access'.bytes = Tail(access.bytes)
         /\ access'.bytes # <<>> => access'.index = access.index + 1 /\ InReach'
<1>1. /\ access.bytes \in Seq(Byte) /\ access.index \in Nat
      /\ access.kind \in {"none", "store", "data"} \ {"none"}
      /\ access.index + Len(access.bytes) + BlockSize <= CountLimit
  BY DEF MInv, TypeOK, InReach
<1>2. Len(access.bytes) \in Nat \ {0} /\ BlockSize \in Nat \ {0} /\ CountLimit \in Nat \ {0}
  BY <1>1, MemoryAssumption
<1>3. /\ Tail(access.bytes) \in Seq(Byte)
      /\ Len(Tail(access.bytes)) = Len(access.bytes) - 1
  BY <1>1, <1>2
<1>4. CASE Len(access.bytes) = 1
  <2>1. access' = NoAccess
    BY <1>4 DEF Advanced
  <2>2. Tail(access.bytes) = <<>>
    <3> DEFINE rest == Tail(access.bytes)
    <3>1. rest \in Seq(Byte) /\ Len(rest) = 0
      BY <1>3, <1>4
    <3> HIDE DEF rest
    <3>2. rest = <<>>
      BY <3>1, EmptySeq
    <3> QED
      BY <3>2 DEF rest
  <2>3. <<>> \in Seq(Byte)
    OBVIOUS
  <2> QED
    BY <2>1, <2>2, <2>3 DEF NoAccess
<1>5. CASE Len(access.bytes) # 1
  <2>1. (access.index + 1) % CountLimit = access.index + 1
    <3>1. access.index + 1 \in Nat /\ CountLimit \in Nat /\ access.index + 1 < CountLimit
      BY <1>1, <1>2, <1>5
    <3> QED
      BY <3>1, SmallRemainder
  <2>2. access' = [kind |-> access.kind, index |-> access.index + 1,
                   bytes |-> Tail(access.bytes)]
    BY <1>5, <2>1 DEF Advanced
  <2>4. /\ access'.index = access.index + 1 /\ access'.bytes = Tail(access.bytes)
        /\ access'.kind = access.kind
        /\ access' \in [kind : {"none", "store", "data"}, index : Nat, bytes : Seq(Byte)]
    BY <1>1, <1>3, <2>2
  <2>5. access'.bytes # <<>>
    <3>1. Len(access'.bytes) # 0
      BY <1>2, <1>3, <1>5, <2>4
    <3> QED
      BY <3>1
  <2>6. access' # NoAccess
    BY <2>5 DEF NoAccess
  <2>7. InReach'
    <3> DEFINE n == Len(access.bytes)
               m == Len(Tail(access.bytes))
               i == access.index
    <3>1. n \in Nat /\ m = n - 1 /\ i \in Nat /\ i + n + BlockSize <= CountLimit
      BY <1>1, <1>2, <1>3
    <3>2. Len(access'.bytes) = m /\ access'.index = i + 1 /\ access'.kind # "none"
      BY <1>1, <2>4
    <3> HIDE DEF n, m, i
    <3>3. (i + 1) + m + BlockSize <= CountLimit
      BY <1>2, <3>1
    <3> QED
      BY <3>2, <3>3 DEF InReach
  <2> QED
    BY <2>4, <2>5, <2>6, <2>7
<1> QED
  BY <1>4, <1>5

\* Growing for an index that is not in the memory makes room for it.
LEMMA GrownType ==
  ASSUME MInv, access.bytes # <<>>, ~InMemory(access.index), MayGrow(access.index)
  PROVE  LET grown == GrownFor(access.index) IN
         /\ grown \in [data : Seq(Byte), size : Nat, pagesCount : Nat,
                       minPages : Nat, maxPages : Nat]
         /\ Len(grown.data) = grown.size + 1
         /\ access.index < grown.size /\ memory.size <= grown.size
         /\ \A i \in 1..grown.size :
              grown.data[i] = IF i <= memory.size THEN memory.data[i] ELSE 0
         /\ grown.minPages = memory.minPages /\ grown.maxPages = memory.maxPages
         /\ grown.pagesCount > grown.maxPages => grown.pagesCount = grown.minPages
         /\ grown.size <= (grown.maxPages + 1) * PageSize
<1> DEFINE index == access.index
           page  == index \div PageSize
           size  == NewSize(index)
           data  == [i \in 1..(size + 1) |-> IF i <= memory.size THEN memory.data[i] ELSE 0]
           pages == IF page > memory.pagesCount THEN page ELSE memory.pagesCount
           grown == GrownFor(index)
<1>1. /\ memory \in [data : Seq(Byte), size : Nat, pagesCount : Nat,
                      minPages : Nat, maxPages : Nat]
      /\ Len(memory.data) = memory.size + 1
      /\ index \in Nat /\ access.bytes \in Seq(Byte)
  BY DEF MInv, TypeOK
<1>2. PageSize \in Nat \ {0} /\ BlockSize \in Nat \ {0} /\ CountLimit \in Nat
  BY MemoryAssumption
<1>3. index + 1 + BlockSize <= CountLimit
  <2>1. Len(access.bytes) \in Nat \ {0}
    BY <1>1, EmptySeq
  <2>2. index + Len(access.bytes) + BlockSize <= CountLimit
    BY DEF MInv, InReach
  <2> QED
    BY <1>1, <1>2, <2>1, <2>2
<1>4. memory.size <= index /\ page <= memory.maxPages
  BY <1>1 DEF InMemory, MayGrow
<1>5. page \in Nat
  BY <1>1, <1>2, Division
<1>6. size \in Nat /\ index < size
  BY <1>1, <1>3, NewSizeFits
<1>7. size <= (memory.maxPages + 1) * PageSize
  BY <1>1, <1>3, <1>4, NewSizeInPage
<1>8. grown = [data |-> data, size |-> size, pagesCount |-> pages,
               minPages |-> memory.minPages, maxPages |-> memory.maxPages]
  BY <1>1 DEF GrownFor
<1> HIDE DEF index, page, size
<1>9. pages \in Nat /\ (pages > memory.maxPages => pages = memory.minPages)
  BY <1>1, <1>4, <1>5 DEF MInv, PagesWithinMaximum
<1>10. data \in Seq(Byte) /\ Len(data) = size + 1
  <2>1. 0 \in Byte
    BY MemoryAssumption DEF Byte
  <2>2. ASSUME NEW i \in 1..(size + 1), i <= memory.size
        PROVE  memory.data[i] \in Byte
    <3>1. i \in 1..Len(memory.data)
      BY <1>1, <2>2
    <3> QED
      BY <1>1, <3>1, ElementOfSeq
  <2>3. size + 1 \in Nat
    BY <1>6
  <2>4. data \in [1..(size + 1) -> Byte]
    BY <2>1, <2>2
  <2> QED
    BY <2>3, <2>4, IsASeq, LenProperties
<1>11. \A i \in 1..size : data[i] = IF i <= memory.size THEN memory.data[i] ELSE 0
  BY <1>6
<1>12. memory.size <= size
  BY <1>1, <1>4, <1>6 DEF index
<1> HIDE DEF pages, data, grown
<1>13. /\ grown.data = data /\ grown.size = size /\ grown.pagesCount = pages
       /\ grown.minPages = memory.minPages /\ grown.maxPages = memory.maxPages
       /\ grown \in [data : Seq(Byte), size : Nat, pagesCount : Nat,
                      minPages : Nat, maxPages : Nat]
  BY <1>1, <1>6, <1>8, <1>9, <1>10
<1> SUFFICES
      /\ grown \in [data : Seq(Byte), size : Nat, pagesCount : Nat,
                     minPages : Nat, maxPages : Nat]
      /\ Len(grown.data) = grown.size + 1
      /\ index < grown.size /\ memory.size <= grown.size
      /\ \A i \in 1..grown.size :
           grown.data[i] = IF i <= memory.size THEN memory.data[i] ELSE 0
      /\ grown.minPages = memory.minPages /\ grown.maxPages = memory.maxPages
      /\ grown.pagesCount > grown.maxPages => grown.pagesCount = grown.minPages
      /\ grown.size <= (grown.maxPages + 1) * PageSize
  BY DEF grown, index
<1> QED
  BY <1>6, <1>7, <1>9, <1>10, <1>11, <1>12, <1>13

\* A turn of the loop of wasmu_memoryStore writes a byte and clears those that
\* it allocates.
LEMMA Written ==
  ASSUME MInv, WriteByte
  PROVE  /\ memory' \in [data : Seq(Byte), size : Nat, pagesCount : Nat,
                         minPages : Nat, maxPages : Nat]
         /\ Len(memory'.data) = memory'.size + 1
         /\ PagesWithinMaximum' /\ SizeBounded'
         /\ access.index < memory'.size /\ memory.size <= memory'.size
         /\ \A i \in 1..memory'.size :
              memory'.data[i] = IF i = access.index + 1 THEN Head(access.bytes)
                                ELSE IF i <= memory.size THEN memory.data[i] ELSE 0
<1> DEFINE index == access.index
           room  == IF InMemory(index) THEN memory ELSE GrownFor(index)
           byte  == Head(access.bytes)
<1>1. access.bytes # <<>> /\ memory' = [room EXCEPT !.data[index + 1] = byte]
  BY DEF WriteByte
<1>2. access.bytes \in Seq(Byte) /\ index \in Nat
  BY DEF MInv, TypeOK
<1>3. byte \in Byte
  BY <1>1, <1>2
<1>4. /\ room \in [data : Seq(Byte), size : Nat, pagesCount : Nat,
                    minPages : Nat, maxPages : Nat]
      /\ Len(room.data) = room.size + 1
      /\ index < room.size /\ memory.size <= room.size
      /\ \A i \in 1..room.size :
           room.data[i] = IF i <= memory.size THEN memory.data[i] ELSE 0
      /\ room.pagesCount > room.maxPages => room.pagesCount = room.minPages
      /\ room.size <= (room.maxPages + 1) * PageSize
  <2>1. CASE InMemory(index)
    <3>1. room = memory
      BY <2>1
    <3>2. /\ memory \in [data : Seq(Byte), size : Nat, pagesCount : Nat,
                          minPages : Nat, maxPages : Nat]
          /\ Len(memory.data) = memory.size + 1
          /\ memory.pagesCount > memory.maxPages => memory.pagesCount = memory.minPages
          /\ memory.size <= (memory.maxPages + 1) * PageSize
      BY DEF MInv, TypeOK, PagesWithinMaximum, SizeBounded
    <3> QED
      BY <2>1, <3>1, <3>2 DEF InMemory
  <2>2. CASE ~InMemory(index)
    <3>1. room = GrownFor(access.index) /\ MayGrow(access.index)
      BY <2>2 DEF WriteByte
    <3> QED
      BY <1>1, <2>2, <3>1, GrownType
  <2> QED
    BY <2>1, <2>2
<1> HIDE DEF index, room, byte
<1> DEFINE data == [room.data EXCEPT ![index + 1] = byte]
<1>5. /\ memory' = [room EXCEPT !.data = data]
      /\ memory' \in [data : {data}, size : {room.size}, pagesCount : {room.pagesCount},
                       minPages : {room.minPages}, maxPages : {room.maxPages}]
  BY <1>1, <1>4
<1>6. /\ memory'.data = data /\ memory'.size = room.size
      /\ memory'.pagesCount = room.pagesCount
      /\ memory'.minPages = room.minPages /\ memory'.maxPages = room.maxPages
  BY <1>5
<1>7. data \in Seq(Byte) /\ Len(data) = Len(room.data)
  BY <1>2, <1>3, <1>4
<1>8. \A i \in 1..room.size : data[i] = IF i = index + 1 THEN byte ELSE room.data[i]
  BY <1>2, <1>4
<1> HIDE DEF data
<1>9. memory' \in [data : Seq(Byte), size : Nat, pagesCount : Nat,
                   minPages : Nat, maxPages : Nat]
  BY <1>4, <1>5, <1>7
<1>10. PagesWithinMaximum' /\ SizeBounded'
  BY <1>4, <1>6 DEF PagesWithinMaximum, SizeBounded
<1>11. \A i \in 1..memory'.size :
         memory'.data[i] = IF i = index + 1 THEN byte
                           ELSE IF i <= memory.size THEN memory.data[i] ELSE 0
  BY <1>4, <1>6, <1>8
<1> QED
  BY <1>4, <1>6, <1>7, <1>9, <1>10, <1>11 DEF index, byte

\* The loop of wasmu_memoryStore and its failure keep the invariant.
LEMMA AccessSteps == ASSUME MInv, WriteByte \/ RefuseByte PROVE MInv'
<1>1. CASE WriteByte
  <2>1. access' = Advanced /\ access.bytes # <<>> /\ UNCHANGED <<parsed, error, loaded, reported>>
    BY <1>1 DEF WriteByte
  <2> QED
    BY <1>1, <2>1, Written, AdvancedType DEF MInv, TypeOK
<1>2. CASE RefuseByte
  <2>1. access.bytes # <<>> /\ UNCHANGED <<memory, parsed, loaded, reported>>
    BY <1>2 DEF RefuseByte
  <2>2. PagesWithinMaximum' /\ SizeBounded'
    BY <2>1 DEF MInv, PagesWithinMaximum, SizeBounded
  <2>3. CASE access' = NoAccess /\ error' = "memory_oob"
    <3>1. <<>> \in Seq(Byte)
      OBVIOUS
    <3>2. access'.bytes = <<>>
      BY <2>3 DEF NoAccess
    <3> QED
      BY <2>1, <2>2, <2>3, <3>1, <3>2 DEF MInv, TypeOK, NoAccess
  <2>4. CASE access' = Advanced /\ UNCHANGED error
    BY <2>1, <2>2, <2>4, AdvancedType DEF MInv, TypeOK
  <2> QED
    BY <1>2, <2>3, <2>4 DEF RefuseByte
<1> QED
  BY <1>1, <1>2

\* The data section, and the beginning of a store.
LEMMA BeginSteps == ASSUME MInv, ParseSegment \/ FinishParsing \/ Store PROVE MInv'
<1>1. UNCHANGED memory /\ PagesWithinMaximum' /\ SizeBounded'
  BY DEF MInv, PagesWithinMaximum, SizeBounded, ParseSegment, FinishParsing, Store
<1>2. CASE ParseSegment
  <2>1. PICK segment \in Segments :
          access' = IF segment[2] = <<>> THEN NoAccess
                    ELSE [kind |-> "data", index |-> segment[1], bytes |-> segment[2]]
    BY <1>2 DEF ParseSegment
  <2>2. /\ segment[1] \in Nat /\ segment[2] \in Seq(Byte)
        /\ segment[1] + Len(segment[2]) + BlockSize <= CountLimit
    BY MemoryAssumption
  <2>3. CASE segment[2] = <<>>
    <3>1. access' = access
      BY <1>2, <2>1, <2>3 DEF ParseSegment
    <3> QED
      BY <1>1, <1>2, <3>1 DEF MInv, TypeOK, ParseSegment, InReach
  <2>4. CASE segment[2] # <<>>
    <3>1. access' = [kind |-> "data", index |-> segment[1], bytes |-> segment[2]]
      BY <2>1, <2>4
    <3>2. InReach'
      BY <2>2, <3>1 DEF InReach
    <3>3. access' # NoAccess
      BY <3>1, <2>4 DEF NoAccess
    <3> QED
      BY <1>1, <1>2, <2>2, <2>4, <3>1, <3>2, <3>3 DEF MInv, TypeOK, ParseSegment
  <2> QED
    BY <2>3, <2>4
<1>3. CASE FinishParsing
  BY <1>1, <1>3 DEF MInv, TypeOK, FinishParsing, InReach
<1>4. CASE Store
  <2>1. PICK index \in Indices, size \in StoreSize, value \in Values :
          access' = [kind |-> "store", index |-> index, bytes |-> SubSeq(value, 1, size)]
    BY <1>4 DEF Store
  <2> DEFINE bytes == SubSeq(value, 1, size)
  <2>2. /\ index \in Nat /\ index + 8 + BlockSize <= CountLimit /\ size \in 1..8
        /\ value \in [1..8 -> Byte] /\ BlockSize \in Nat /\ CountLimit \in Nat
    BY MemoryAssumption DEF StoreSize
  <2>3. value \in Seq(Byte) /\ Len(value) = 8
    <3> DEFINE n == 8
    <3>1. n \in Nat /\ value \in [1..n -> Byte]
      BY <2>2
    <3> HIDE DEF n
    <3>2. value \in Seq(Byte)
      BY <3>1, SeqDef
    <3>3. DOMAIN value = 1..n /\ DOMAIN value = 1..Len(value) /\ Len(value) \in Nat
      BY <3>1, <3>2, LenProperties
    <3>4. Len(value) = n
      BY <3>1, <3>3
    <3> QED
      BY <3>2, <3>4 DEF n
  <2>4. bytes \in Seq(Byte) /\ Len(bytes) = size
    BY <2>2, <2>3
  <2> HIDE DEF bytes
  <2>5. access' = [kind |-> "store", index |-> index, bytes |-> bytes]
    BY <2>1 DEF bytes
  <2>6. bytes # <<>>
    BY <2>2, <2>4
  <2>7. InReach'
    BY <2>2, <2>4, <2>5 DEF InReach
  <2>8. access' # NoAccess
    BY <2>5, <2>6 DEF NoAccess
  <2>9. <<>> \in Seq(Byte \cup {UnknownByte})
    OBVIOUS
  <2> QED
    BY <1>1, <1>4, <2>2, <2>4, <2>5, <2>6, <2>7, <2>8, <2>9 DEF MInv, TypeOK, Store
<1> QED
  BY <1>2, <1>3, <1>4

-----------------------------------------------------------------------------
(***************************************************************************)
(* Loads.                                                                  *)
(***************************************************************************)
LEMMA LoadOpType ==
  ASSUME NEW op \in LoadOp
  PROVE  /\ op.size \in {4, 8} /\ op.dataSize \in {1, 2, 4, 8} /\ op.signed \in BOOLEAN
         /\ op.dataSize <= op.size
         /\ op.signed => op.dataSize < op.size
BY DEF LoadOp

\* There is a byte at each address, allocated or not.
LEMMA ByteAtType == ASSUME MInv, NEW index \in Nat PROVE ByteAt(index) \in Byte
<1>1. 0 \in Byte
  BY MemoryAssumption DEF Byte
<1>2. CASE InMemory(index)
  <2>1. memory.data \in Seq(Byte) /\ index + 1 \in 1..Len(memory.data)
    BY <1>2 DEF MInv, TypeOK, InMemory
  <2> QED
    BY <1>2, <2>1, ElementOfSeq DEF ByteAt
<1> QED
  BY <1>1, <1>2 DEF ByteAt

\* What a load of less than eight bytes puts above them
Fill(index, dataSize) ==
  IF dataSize = 4 /\ Negative(ByteAt(index + 3)) THEN ByteLimit - 1 ELSE 0

\* A load gives a value of bytes, or of bytes that are not known.
\* A load gives a value of bytes, or of bytes that are not known.
LEMMA MemoryLoadValue ==
  ASSUME NEW index \in Nat, NEW n \in {1, 2, 4}
  PROVE  MemoryLoad(index, n) =
           [k \in 1..8 |-> IF k <= n THEN ByteAt(index + k - 1) ELSE Fill(index, n)]
<1> DEFINE bytes == [k \in 1..n |-> ByteAt(index + k - 1)]
<1>1. Len(bytes) = n /\ \A k \in 1..n : bytes[k] = ByteAt(index + k - 1)
  OBVIOUS
<1>2. n = 4 => bytes[4] = ByteAt(index + 3)
  OBVIOUS
<1>3. MemoryLoad(index, n) = Padded(bytes, Fill(index, n))
  BY <1>2 DEF MemoryLoad, Fill
<1> HIDE DEF bytes
<1> QED
  BY <1>1, <1>3 DEF Padded

\* A load pushes as many bytes as its type has.
LEMMA LoadedType ==
  ASSUME MInv, NEW index \in Nat, NEW op \in LoadOp
  PROVE  LET value == SubSeq(SignExtended(MemoryLoad(index, op.dataSize), op), 1, op.size)
         IN /\ value \in Seq(Byte \cup {UnknownByte})
            /\ Len(value) = op.size
            /\ \A k \in 1..op.size :
                 value[k] = SignExtended(MemoryLoad(index, op.dataSize), op)[k]
<1> DEFINE B == Byte \cup {UnknownByte}
           raw == MemoryLoad(index, op.dataSize)
           extended == SignExtended(raw, op)
           n == 8
<1>1. 0 \in B /\ ByteLimit - 1 \in B
  BY MemoryAssumption DEF Byte
<1>2. raw \in [1..n -> B]
  <2>1. CASE op.dataSize # 8
    <3>1. op.dataSize \in {1, 2, 4}
      BY <2>1, LoadOpType
    <3>2. Fill(index, op.dataSize) \in B
      BY <1>1 DEF Fill
    <3>3. \A k \in 1..n : ByteAt(index + k - 1) \in B
      BY ByteAtType
    <3> QED
      BY <3>1, <3>2, <3>3, MemoryLoadValue
  <2>2. CASE op.dataSize = 8
    <3> DEFINE bytes == [k \in 1..8 |-> ByteAt(index + k - 1)]
               fill == IF Negative(bytes[4]) THEN ByteLimit - 1 ELSE 0
    <3>1. raw = IF InMemory(index + 4) THEN Padded(<<>>, UnknownByte)
                ELSE Padded(SubSeq(bytes, 1, 4), fill)
      BY <2>2 DEF MemoryLoad
    <3>2. Padded(<<>>, UnknownByte) \in [1..n -> B]
      BY DEF Padded
    <3>3. bytes \in Seq(B) /\ Len(bytes) = 8
      BY ByteAtType
    <3>4. fill \in B
      BY <1>1
    <3> HIDE DEF bytes, fill
    <3> DEFINE low == SubSeq(bytes, 1, 4)
    <3>5. low \in Seq(B)
      BY <3>3
    <3> HIDE DEF low
    <3>6. \A k \in 1..Len(low) : low[k] \in B
      BY <3>5, ElementOfSeq
    <3>7. Padded(low, fill) \in [1..n -> B]
      <4>1. Len(low) \in Nat
        BY <3>5
      <4> QED
        BY <3>4, <3>6, <4>1 DEF Padded
    <3> QED
      BY <3>1, <3>2, <3>7 DEF low, fill
  <2> QED
    BY <2>1, <2>2
<1> HIDE DEF raw
<1>3. extended \in [1..n -> B]
  BY <1>1, <1>2 DEF SignExtended
<1> HIDE DEF extended, n, B
<1>4. n \in Nat /\ op.size \in 1..n
  BY LoadOpType DEF n
<1>5. extended \in Seq(B) /\ Len(extended) = n
  <2>1. extended \in Seq(B)
    BY <1>3, <1>4, SeqDef
  <2>2. DOMAIN extended = 1..n /\ DOMAIN extended = 1..Len(extended) /\ Len(extended) \in Nat
    BY <1>3, <2>1, LenProperties
  <2> QED
    BY <1>4, <2>1, <2>2
<1>6. /\ SubSeq(extended, 1, op.size) \in Seq(B)
      /\ Len(SubSeq(extended, 1, op.size)) = op.size
      /\ \A k \in 1..op.size : SubSeq(extended, 1, op.size)[k] = extended[k]
  BY <1>4, <1>5
<1> QED
  BY <1>6 DEF extended, raw, B

\* The instructions that load, and those on the number of pages.
LEMMA PushSteps == ASSUME MInv, Load \/ Size \/ Grow PROVE MInv'
<1>1. <<>> \in Seq(Byte \cup {UnknownByte}) /\ CountLimit \in Nat \ {0}
  BY MemoryAssumption
<1>2. CASE Load
  <2>1. PICK index \in Indices, op \in LoadOp :
          loaded' = SubSeq(SignExtended(MemoryLoad(index, op.dataSize), op), 1, op.size)
    BY <1>2 DEF Load
  <2>2. index \in Nat
    BY MemoryAssumption
  <2>3. loaded' \in Seq(Byte \cup {UnknownByte})
    BY <2>1, <2>2, LoadedType
  <2> QED
    BY <1>2, <2>3 DEF Load, Executing, MInv, TypeOK, InReach, PagesWithinMaximum, SizeBounded
<1>3. CASE Size
  BY <1>1, <1>3 DEF Size, MInv, TypeOK, InReach, PagesWithinMaximum, SizeBounded
<1>4. CASE Grow
  <2>1. PICK pages \in GrowBy :
          LET count == (memory.pagesCount + pages) % CountLimit
          IN IF count > memory.maxPages
             THEN reported' = CountLimit - 1 /\ UNCHANGED memory
             ELSE /\ reported' = memory.pagesCount
                  /\ memory' = [memory EXCEPT !.pagesCount = count]
    BY <1>4 DEF Grow
  <2> DEFINE count == (memory.pagesCount + pages) % CountLimit
  <2>2. memory \in [data : Seq(Byte), size : Nat, pagesCount : Nat,
                     minPages : Nat, maxPages : Nat]
    BY DEF MInv, TypeOK
  <2>3. count \in Nat
    <3>1. memory.pagesCount + pages \in Nat
      BY <2>2, MemoryAssumption
    <3> QED
      BY <1>1, <3>1, Remainder
  <2> HIDE DEF count
  <2>4. /\ reported' \in Nat
        /\ memory' \in [data : Seq(Byte), size : Nat, pagesCount : Nat,
                         minPages : Nat, maxPages : Nat]
        /\ Len(memory'.data) = memory'.size + 1
        /\ PagesWithinMaximum' /\ SizeBounded'
    <3>1. CASE count > memory.maxPages
      <4>1. reported' = CountLimit - 1 /\ UNCHANGED memory
        BY <2>1, <3>1 DEF count
      <4>2. reported' \in Nat
        BY <1>1, <4>1
      <4> QED
        BY <4>1, <4>2 DEF MInv, TypeOK, PagesWithinMaximum, SizeBounded
    <3>2. CASE ~(count > memory.maxPages)
      <4>1. reported' = memory.pagesCount /\ memory' = [memory EXCEPT !.pagesCount = count]
        BY <2>1, <3>2 DEF count
      <4>2. /\ memory'.data = memory.data /\ memory'.size = memory.size
            /\ memory'.pagesCount = count
            /\ memory'.minPages = memory.minPages /\ memory'.maxPages = memory.maxPages
            /\ memory' \in [data : Seq(Byte), size : Nat, pagesCount : Nat,
                             minPages : Nat, maxPages : Nat]
        BY <2>2, <2>3, <4>1
      <4> QED
        BY <2>2, <2>3, <3>2, <4>1, <4>2 DEF MInv, TypeOK, PagesWithinMaximum, SizeBounded
    <3> QED
      BY <3>1, <3>2
  <2> QED
    BY <1>1, <1>4, <2>4 DEF Grow, MInv, TypeOK, InReach
<1> QED
  BY <1>2, <1>3, <1>4

\* Every step keeps the invariant.
LEMMA NextMInv == MInv /\ [Next]_memoryVars => MInv'
<1> SUFFICES ASSUME MInv, [Next]_memoryVars PROVE MInv'
  OBVIOUS
<1>1. CASE Next
  BY <1>1, AccessSteps, BeginSteps, PushSteps DEF Next
<1>2. CASE UNCHANGED memoryVars
  BY <1>2 DEF memoryVars, MInv, TypeOK, InReach, PagesWithinMaximum, SizeBounded
<1> QED
  BY <1>1, <1>2

-----------------------------------------------------------------------------
(***************************************************************************)
(* The theorems on safety.                                                 *)
(***************************************************************************)

\* The invariant holds throughout, of any program on any memory.
THEOREM MemoryInvariance == Spec => []MInv
<1> QED
  BY InitMInv, NextMInv, PTL DEF Spec

\* The memory is well-formed: exactly one byte more than its size is allocated.
THEOREM MemoryTypeCorrect == Spec => []TypeOK
<1>1. MInv => TypeOK
  BY DEF MInv
<1> QED
  BY <1>1, MemoryInvariance, PTL

\* memory.grow and the stores that grow the memory by themselves keep to the
\* declared maximum of pages.
THEOREM PagesBounded == Spec => []PagesWithinMaximum
<1>1. MInv => PagesWithinMaximum
  BY DEF MInv
<1> QED
  BY <1>1, MemoryInvariance, PTL

\* No program makes the host allocate more than a page beyond the maximum, for
\* any size of pages and of blocks that divide them.
THEOREM MemoryBounded == Spec => []SizeBounded
<1>1. MInv => SizeBounded
  BY DEF MInv
<1> QED
  BY <1>1, MemoryInvariance, PTL

-----------------------------------------------------------------------------
(***************************************************************************)
(* The refinement: each step of the memory is one of ByteMap, or none.     *)
(***************************************************************************)

\* Steps that leave the bytes alone leave the map of them alone.
LEMMA MapUnchanged == ASSUME UNCHANGED memory PROVE UNCHANGED MappedBytes
BY DEF MappedBytes

\* A new memory is an empty map.
\* A new memory is an empty map.
LEMMA InitMap == Init => Map!Init
<1> SUFFICES ASSUME Init PROVE Map!Init
  OBVIOUS
<1>1. memory.size = 0
  BY DEF Init
<1>2. MappedBytes = [a \in 0..(CountLimit - 1) |-> 0]
  BY <1>1 DEF MappedBytes
<1>3. access.bytes = <<>> /\ error = "none" /\ loaded = <<>>
  BY DEF Init, NoAccess
<1> QED
  BY <1>2, <1>3 DEF Map!Init, Map!Idle

\* A byte that is written, growing the memory or not, is a byte of the map, and
\* no other byte of it changes.
LEMMA WriteMap == ASSUME MInv, WriteByte PROVE Map!Write
<1> DEFINE index == access.index
           byte  == Head(access.bytes)
           top   == CountLimit - 1
<1>1. access.bytes # <<>> /\ access' = Advanced /\ UNCHANGED <<parsed, error, loaded, reported>>
  BY DEF WriteByte
<1>2. /\ memory.size \in Nat /\ memory'.size \in Nat /\ index \in Nat
      /\ memory.size <= memory'.size /\ index < memory'.size
      /\ \A i \in 1..memory'.size :
           memory'.data[i] = IF i = index + 1 THEN byte
                             ELSE IF i <= memory.size THEN memory.data[i] ELSE 0
  BY Written DEF MInv, TypeOK
<1>3. MappedBytes' = [a \in 0..top |-> IF a < memory'.size THEN memory'.data[a + 1] ELSE 0]
  BY DEF MappedBytes
<1>4. MappedBytes = [a \in 0..top |-> IF a < memory.size THEN memory.data[a + 1] ELSE 0]
  BY DEF MappedBytes
<1> HIDE DEF index, byte, top
<1>5. ASSUME NEW a \in 0..top, top \in Int
      PROVE  (IF a < memory'.size THEN memory'.data[a + 1] ELSE 0)
               = IF a = index THEN byte
                 ELSE IF a < memory.size THEN memory.data[a + 1] ELSE 0
  <2>1. CASE a < memory'.size
    <3>1. a + 1 \in 1..memory'.size
      BY <1>2, <1>5, <2>1
    <3>2. memory'.data[a + 1] =
            IF a + 1 = index + 1 THEN byte
            ELSE IF a + 1 <= memory.size THEN memory.data[a + 1] ELSE 0
      BY <1>2, <3>1
    <3> QED
      BY <1>2, <1>5, <2>1, <3>2
  <2>2. CASE ~(a < memory'.size)
    BY <1>2, <1>5, <2>2
  <2> QED
    BY <2>1, <2>2
<1>6. top \in Int
  BY MemoryAssumption DEF top
<1>7. MappedBytes' = [MappedBytes EXCEPT ![index] = byte]
  BY <1>3, <1>4, <1>5, <1>6
<1> QED
  BY <1>1, <1>7, AdvancedType DEF index, byte, Map!Write, Map!Advance, Map!Idle

\* A byte for which the memory may not grow is an error, or one of the data.
LEMMA RefuseMap == ASSUME MInv, RefuseByte PROVE Map!Refuse \/ Map!Skip
<1>1. access.bytes # <<>> /\ UNCHANGED <<memory, parsed, loaded, reported>>
  BY DEF RefuseByte
<1>2. UNCHANGED MappedBytes
  BY <1>1, MapUnchanged
<1>3. CASE access.kind = "store"
  <2>1. access'.bytes = <<>> /\ error' = "memory_oob"
    BY <1>3 DEF RefuseByte, NoAccess
  <2> QED
    BY <1>1, <1>2, <2>1 DEF Map!Refuse, Map!Idle
<1>4. CASE access.kind # "store"
  <2>1. access' = Advanced /\ UNCHANGED error
    BY <1>4 DEF RefuseByte
  <2>2. access.kind = "data"
    BY <1>1, <1>4 DEF MInv, TypeOK, InReach
  <2> QED
    BY <1>1, <1>2, <2>1, <2>2, AdvancedType DEF Map!Skip, Map!Advance, Map!Idle
<1> QED
  BY <1>3, <1>4

\* Accesses begin, and instructions other than loads push nothing that was read.
LEMMA BeginMap ==
  ASSUME MInv, ParseSegment \/ FinishParsing \/ Store \/ Size \/ Grow
  PROVE  Map!Begin
<1>1. access = NoAccess /\ UNCHANGED error
  BY DEF ParseSegment, FinishParsing, Store, Size, Grow, Executing
<1>2. access.bytes = <<>>
  BY <1>1 DEF NoAccess
<1>3. loaded' = <<>>
  BY DEF MInv, ParseSegment, FinishParsing, Store, Size, Grow
<1>4. memory'.data = memory.data /\ memory'.size = memory.size
  <2>1. CASE Grow
    <3>1. memory \in [data : Seq(Byte), size : Nat, pagesCount : Nat,
                       minPages : Nat, maxPages : Nat]
      BY DEF MInv, TypeOK
    <3> QED
      BY <2>1, <3>1 DEF Grow
  <2> QED
    BY <2>1 DEF ParseSegment, FinishParsing, Store, Size
<1>5. UNCHANGED MappedBytes
  BY <1>4 DEF MappedBytes
<1> QED
  BY <1>1, <1>2, <1>3, <1>5 DEF Map!Begin, Map!Idle

\* What a load of less than eight bytes pushes: the bytes that it reads, and
\* the extension of the last of them.
LEMMA LoadedBytes ==
  ASSUME MInv, NEW index \in Nat, NEW op \in LoadOp, op.dataSize < 8,
         NEW k \in 1..op.size
  PROVE  LET value == SignExtended(MemoryLoad(index, op.dataSize), op)
             top   == ByteAt(index + op.dataSize - 1)
         IN IF k <= op.dataSize THEN value[k] = ByteAt(index + k - 1)
            ELSE value[k] \in Map!Extensions(op, top)
<1> DEFINE m     == op.dataSize
           value == SignExtended(MemoryLoad(index, m), op)
           top   == ByteAt(index + m - 1)
<1>1. m \in {1, 2, 4} /\ op.signed \in BOOLEAN /\ k \in 1..8 /\ m \in 1..8
  BY LoadOpType
<1>2. MemoryLoad(index, m) =
        [j \in 1..8 |-> IF j <= m THEN ByteAt(index + j - 1) ELSE Fill(index, m)]
  BY <1>1, MemoryLoadValue
<1>3. value[k] = IF op.signed /\ k > m /\ Negative(top) THEN ByteLimit - 1
                 ELSE IF k <= m THEN ByteAt(index + k - 1) ELSE Fill(index, m)
  BY <1>1, <1>2 DEF SignExtended
<1>4. Fill(index, m) = IF m = 4 /\ Negative(top) THEN ByteLimit - 1 ELSE 0
  BY <1>1 DEF Fill
<1> HIDE DEF value, top, m
<1>5. ASSUME k > m PROVE value[k] \in Map!Extensions(op, top)
  <2>1. Map!Negative(top) = Negative(top)
    BY DEF Map!Negative, Negative
  <2>2. m # 4 <=> m < 4
    BY <1>1
  <2>3. CASE Negative(top)
    BY <1>1, <1>3, <1>4, <1>5, <2>1, <2>2, <2>3 DEF Map!Extensions, m
  <2>4. CASE ~Negative(top)
    BY <1>1, <1>3, <1>4, <1>5, <2>1, <2>2, <2>4 DEF Map!Extensions, m
  <2> QED
    BY <2>3, <2>4
<1> QED
  BY <1>1, <1>3, <1>5 DEF value, top, m

\* A load reads the bytes of the map, whether they are allocated or not.
LEMMA LoadMap ==
  ASSUME MInv, Load
  PROVE  \E index \in 0..(CountLimit - 1), op \in LoadOp : Map!Load(index, op)
<1>1. PICK index \in Indices, op \in LoadOp :
        loaded' = SubSeq(SignExtended(MemoryLoad(index, op.dataSize), op), 1, op.size)
  BY DEF Load
<1> DEFINE m == op.dataSize
           value == SignExtended(MemoryLoad(index, m), op)
<1>2. /\ index \in Nat /\ CountLimit \in Nat /\ BlockSize \in Nat
      /\ index + 8 + BlockSize <= CountLimit
      /\ m \in 1..8 /\ op.size \in 1..8 /\ m <= op.size
  BY MemoryAssumption, LoadOpType
<1>3. Len(loaded') = op.size /\ \A k \in 1..op.size : loaded'[k] = value[k]
  BY <1>1, <1>2, LoadedType
<1>4. \A a \in 0..(CountLimit - 1) : MappedBytes[a] = ByteAt(a)
  BY DEF MappedBytes, ByteAt, InMemory
<1>5. \A k \in 1..8 : index + k - 1 \in 0..(CountLimit - 1)
  BY <1>2
<1>6. ASSUME m < 8 PROVE
      /\ \A k \in 1..m : loaded'[k] = MappedBytes[index + k - 1]
      /\ \A k \in (m + 1)..op.size :
           loaded'[k] \in Map!Extensions(op, MappedBytes[index + m - 1])
  <2>1. ASSUME NEW k \in 1..m PROVE loaded'[k] = MappedBytes[index + k - 1]
    <3>1. k \in 1..op.size /\ k \in 1..8 /\ k <= m
      BY <1>2, <2>1
    <3>2. value[k] = ByteAt(index + k - 1)
      BY <1>2, <1>6, <3>1, LoadedBytes
    <3> HIDE DEF value, m
    <3> QED
      BY <1>3, <1>4, <1>5, <3>1, <3>2
  <2>2. ASSUME NEW k \in (m + 1)..op.size
        PROVE  loaded'[k] \in Map!Extensions(op, MappedBytes[index + m - 1])
    <3>1. k \in 1..op.size /\ ~(k <= m)
      BY <1>2, <2>2
    <3>2. value[k] \in Map!Extensions(op, ByteAt(index + m - 1))
      BY <1>2, <1>6, <3>1, LoadedBytes
    <3> HIDE DEF value, m
    <3>3. ByteAt(index + m - 1) = MappedBytes[index + m - 1]
      BY <1>2, <1>4, <1>5
    <3> QED
      BY <1>3, <3>1, <3>2, <3>3
  <2> QED
    BY <2>1, <2>2
<1>7. access.bytes = <<>> /\ UNCHANGED <<memory, access, error>>
  BY DEF Load, Executing, NoAccess
<1>8. UNCHANGED MappedBytes
  BY <1>7, MapUnchanged
<1>9. index \in 0..(CountLimit - 1) /\ index + m - 1 \in 0..(CountLimit - 1)
  BY <1>2
<1>10. Map!Load(index, op)
  BY <1>3, <1>6, <1>7, <1>8, <1>9 DEF Map!Load, Map!Idle
<1> QED
  BY <1>9, <1>10

\* Every step of the memory is one of the map.
\* Every step of the memory is one of the map.
LEMMA NextMap == MInv /\ [Next]_memoryVars => [Map!Next]_(Map!mapVars)
<1> SUFFICES ASSUME MInv, [Next]_memoryVars PROVE [Map!Next]_(Map!mapVars)
  OBVIOUS
<1>1. CASE Next
  BY <1>1, WriteMap, RefuseMap, BeginMap, LoadMap DEF Next, Map!Next
<1>2. CASE UNCHANGED memoryVars
  BY <1>2, MapUnchanged DEF memoryVars, Map!mapVars
<1> QED
  BY <1>1, <1>2

\* The memory is a map of bytes to its code, for all sizes of pages, blocks and
\* addresses, and whatever the checker of sizes authorises.
THEOREM MemoryImplementsByteMap == Spec => BehavesAsByteMap
<1> QED
  BY InitMap, NextMap, MemoryInvariance, PTL DEF Spec, BehavesAsByteMap, Map!Spec
=============================================================================
