------------------------------ MODULE ByteMap -------------------------------
(***************************************************************************)
(* What a memory promises to the code that uses it: a byte for each        *)
(* address, zero until it is written.  A store writes its bytes one after  *)
(* the other, and may be refused at any of them.  A load reads the bytes   *)
(* that are there, and extends them.  Pages, blocks and sizes are the      *)
(* concern of Memory, which implements this.                               *)
(***************************************************************************)
EXTENDS Integers, Sequences

CONSTANTS
  Addresses,   \* the addresses of the memory
  ByteLimit,   \* one more than the greatest byte
  LoadOp       \* the load instructions

VARIABLES
  bytes,       \* the byte at each address
  access,      \* the bytes still to be written, and the address of the first
  error,       \* the error state
  loaded       \* the bytes of the value loaded last, the lowest first

mapVars == <<bytes, access, error, loaded>>

Idle == access.bytes = <<>>

Init ==
  /\ bytes = [a \in Addresses |-> 0]
  /\ Idle
  /\ error = "none"
  /\ loaded = <<>>

Begin ==
  /\ Idle
  /\ loaded' = <<>>
  /\ UNCHANGED <<bytes, error>>

\* One byte less to be written
Advance ==
  /\ ~Idle
  /\ access'.bytes = Tail(access.bytes)
  /\ ~Idle' => access'.index = access.index + 1
  /\ UNCHANGED loaded

Write ==
  /\ Advance
  /\ bytes' = [bytes EXCEPT ![access.index] = Head(access.bytes)]
  /\ UNCHANGED error

\* A store of the program is given up with an error.
Refuse ==
  /\ ~Idle /\ Idle'
  /\ error' # "none"
  /\ UNCHANGED <<bytes, loaded>>

\* A byte of the initial data is given up.
Skip ==
  /\ Advance
  /\ access.kind = "data"
  /\ UNCHANGED <<bytes, error>>

Negative(byte) == byte >= ByteLimit \div 2

\* What the bytes above those that were read may be.  A signed load extends
\* them by their sign and an unsigned one by zeros; but of a four-byte load
\* into eight bytes nothing is promised unless it is signed.
Extensions(op, top) ==
  CASE op.signed /\ Negative(top) -> {ByteLimit - 1}
    [] op.signed /\ ~Negative(top) -> {0}
    [] ~op.signed /\ op.dataSize < 4 -> {0}
    [] OTHER -> {0, ByteLimit - 1}

\* A load of eight bytes shifts beyond the width of an int: nothing is promised
\* but the size of the value.
Load(index, op) ==
  /\ Idle
  /\ index + op.dataSize - 1 \in Addresses
  /\ Len(loaded') = op.size
  /\ op.dataSize < 8 =>
       /\ \A k \in 1..op.dataSize : loaded'[k] = bytes[index + k - 1]
       /\ \A k \in (op.dataSize + 1)..op.size :
            loaded'[k] \in Extensions(op, bytes[index + op.dataSize - 1])
  /\ UNCHANGED <<bytes, access, error>>

Next ==
  \/ Begin \/ Write \/ Refuse \/ Skip
  \/ \E index \in Addresses, op \in LoadOp : Load(index, op)

Spec == Init /\ [][Next]_mapVars
=============================================================================
