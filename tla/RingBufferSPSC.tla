--------------------------- MODULE RingBufferSPSC ---------------------------
(***************************************************************************)
(* parallel_core::RingBuffer<unsigned char> shared by one producer and one *)
(* consumer thread ("consumer & producer are single, lock-free queue").    *)
(* _readIndex and _writeIndex are plain size_t, and every operation moves  *)
(* its index in two stores, `+= length` then `%= _capacity`, so the other  *)
(* thread may run, and compute count(), between them with an index that   *)
(* is not yet reduced below _capacity.  Each operation is therefore three  *)
(* steps of its thread:                                                    *)
(*   - its checks and its copy (the checks of one thread read the other's *)
(*     index; between two of them the other thread can only make them     *)
(*     more likely to pass, and the slots it copies are ones the other     *)
(*     thread does not touch until the index store publishes them);       *)
(*   - the `+= length` store;                                              *)
(*   - the `%= _capacity` store.                                           *)
(* The indices are not atomic, so these are data races: an unoptimised   *)
(* build makes the two stores separately, one that fuses them gives a     *)
(* subset of these behaviours.  Refused calls are stuttering steps.       *)
(* The threads keep the class's contract: a read never asks for more than *)
(* count() bytes (module Storage has TestClient's callers, which do not).  *)
(***************************************************************************)
EXTENDS Integers, Sequences

CONSTANTS Cap, Data, Junk, MaxLen, SizeBits

VARIABLES
  buf, readIndex, writeIndex, in, out,   \* as in RingBuffer
  wpc,      \* the producer's place in its current operation
  wdata,    \* the block it is publishing
  rpc,      \* the consumer's place in its current operation
  rlen,     \* the length it is consuming
  rcopy,    \* TRUE for tryRead, FALSE for tryReadShift
  got       \* tryRead's destination array

R == INSTANCE RingBuffer

vars == <<buf, readIndex, writeIndex, in, out, wpc, wdata, rpc, rlen, rcopy, got>>

Lengths == 1..MaxLen

\* Between its two stores an index may stand up to MaxLen past the array.
Index == 0..Cap - 1 + MaxLen

TypeOK ==
  /\ buf \in [R!Slots -> R!Bytes]
  /\ readIndex \in Index /\ writeIndex \in Index
  /\ in \in Seq(R!Bytes) /\ Len(in) <= MaxLen
  /\ out \in Seq(R!Bytes) /\ Len(out) <= MaxLen
  /\ wpc \in {"idle", "add", "mod"} /\ rpc \in {"idle", "add", "mod"}
  /\ wdata \in Seq(R!Bytes) /\ Len(wdata) <= MaxLen
  /\ rlen \in 0..MaxLen /\ rcopy \in BOOLEAN
  /\ got \in Seq(R!Bytes) /\ Len(got) <= MaxLen

Init ==
  /\ R!Init
  /\ wpc = "idle" /\ wdata = << >>
  /\ rpc = "idle" /\ rlen = 0 /\ rcopy = FALSE /\ got = << >>

-----------------------------------------------------------------------------
(* The producer.                                                           *)

\* tryWrite(data, length): full() and the length + count() check, then the
\* copy loop into the slots from _writeIndex on.
TryWrite(d) ==
  /\ wpc = "idle"
  /\ ~R!Full(0) /\ ~(Len(d) + R!Count >= Cap)
  /\ buf' = R!Written(d)
  /\ wpc' = "add" /\ wdata' = d
  /\ UNCHANGED <<readIndex, writeIndex, in, out, rpc, rlen, rcopy, got>>

\* tryWriteShit(length): full(length); the block is the bytes a caller
\* filled in place at the write index.
TryWriteShit(n) ==
  /\ wpc = "idle"
  /\ ~R!Full(n)
  /\ wpc' = "add" /\ wdata' = [i \in 1..n |-> buf[(writeIndex + i - 1) % Cap]]
  /\ UNCHANGED <<buf, readIndex, writeIndex, in, out, rpc, rlen, rcopy, got>>

\* `_writeIndex += length`: the store that publishes the block.
AddWriteIndex ==
  /\ wpc = "add"
  /\ writeIndex' = (writeIndex + Len(wdata)) % R!SizeMod
  /\ in' = wdata
  /\ wpc' = "mod"
  /\ UNCHANGED <<buf, readIndex, out, wdata, rpc, rlen, rcopy, got>>

\* `_writeIndex %= _capacity`.
ModWriteIndex ==
  /\ wpc = "mod"
  /\ writeIndex' = writeIndex % Cap
  /\ wpc' = "idle"
  /\ UNCHANGED <<buf, readIndex, in, out, wdata, rpc, rlen, rcopy, got>>

-----------------------------------------------------------------------------
(* The consumer.                                                           *)

\* tryRead(length, ret): refused only when empty(); the copy loop reads the
\* slots from _readIndex on.
TryRead(n) ==
  /\ rpc = "idle"
  /\ ~R!Empty(0)
  /\ got' = R!ReadBytes(n)
  /\ rpc' = "add" /\ rlen' = n /\ rcopy' = TRUE
  /\ UNCHANGED <<buf, readIndex, writeIndex, in, out, wpc, wdata>>

\* tryReadShift(length): refused when empty(length).
TryReadShift(n) ==
  /\ rpc = "idle"
  /\ ~R!Empty(n)
  /\ rpc' = "add" /\ rlen' = n /\ rcopy' = FALSE
  /\ UNCHANGED <<buf, readIndex, writeIndex, in, out, wpc, wdata, got>>

\* `_readIndex += length`: the store that frees the bytes; tryRead returns
\* with ret filled.
AddReadIndex ==
  /\ rpc = "add"
  /\ readIndex' = (readIndex + rlen) % R!SizeMod
  /\ out' = IF rcopy THEN got ELSE out
  /\ rpc' = "mod"
  /\ UNCHANGED <<buf, writeIndex, in, wpc, wdata, rlen, rcopy, got>>

\* `_readIndex %= _capacity`.
ModReadIndex ==
  /\ rpc = "mod"
  /\ readIndex' = readIndex % Cap
  /\ rpc' = "idle"
  /\ UNCHANGED <<buf, writeIndex, in, out, wpc, wdata, rlen, rcopy, got>>

-----------------------------------------------------------------------------

\* A read asks for at most count() bytes, as the caller checked first.
Next ==
  \/ \E n \in Lengths : \E d \in [1..n -> Data] : TryWrite(d)
  \/ \E n \in Lengths : TryWriteShit(n)
  \/ AddWriteIndex \/ ModWriteIndex
  \/ \E n \in Lengths : n <= R!Count /\ (TryRead(n) \/ TryReadShift(n))
  \/ AddReadIndex \/ ModReadIndex

Spec == Init /\ [][Next]_vars

-----------------------------------------------------------------------------
(* Refinement.                                                             *)

\* How many bytes are published and not yet freed: the distance between
\* the indices once both are reduced, computed without size_t.
StoredCount == ((writeIndex % Cap) - (readIndex % Cap) + Cap) % Cap

\* Those bytes, oldest first.
Stored == [i \in 1..StoredCount |-> buf[(readIndex + i - 1) % Cap]]

Q == INSTANCE ByteQueue WITH queue <- Stored, Bytes <- R!Bytes

\* Under every interleaving of the producer's and the consumer's stores,
\* the shared ring is a FIFO of at most Cap - 1 bytes: a block becomes
\* visible whole at `_writeIndex += length`, a read returns the oldest
\* bytes, and neither thread's count() or copy, run between the other's
\* `+=` and `%=`, loses, invents or overwrites a byte.
RefinesByteQueue == Q!Spec
=============================================================================
