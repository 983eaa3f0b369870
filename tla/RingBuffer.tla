----------------------------- MODULE RingBuffer -----------------------------
(***************************************************************************)
(* parallel_core::RingBuffer<unsigned char> (parallel_core/RingBuffer.h), *)
(* with ALLOW_BLOCK_COPY defined, so tryRead / tryWrite are the copying   *)
(* variants.  buf is the malloc'd array.  in is the block                 *)
(* of the producer's last accepted write, out the destination of the     *)
(* consumer's last successful tryRead.                                    *)
(*                                                                         *)
(* Indices are size_t, so count() and empty(del) are computed % SizeMod. *)
(*                                                                         *)
(* This module is the class's state and its const members.  Its operations *)
(* are steps of RingBufferSPSC (a producer and a consumer thread, each     *)
(* operation split into the stores the code makes) and of Storage (the     *)
(* callers of TestClient).                                                 *)
(***************************************************************************)
EXTENDS Integers, Sequences

CONSTANTS
  Cap,        \* _capacity
  Data,       \* byte values a producer writes
  Junk,       \* the byte value of never written memory
  MaxLen,     \* longest block one call passes
  SizeBits    \* width of size_t in the model

ASSUME Cap >= 2 /\ MaxLen \in 1..Cap /\ 2^SizeBits > 2 * Cap

SizeMod == 2^SizeBits
Bytes == Data \cup {Junk}
Slots == 0..Cap - 1

VARIABLES buf, readIndex, writeIndex, in, out

vars == <<buf, readIndex, writeIndex, in, out>>

TypeOK ==
  /\ buf \in [Slots -> Bytes]
  /\ readIndex \in Slots /\ writeIndex \in Slots
  /\ in \in Seq(Bytes) /\ Len(in) <= MaxLen
  /\ out \in Seq(Bytes) /\ Len(out) <= MaxLen

-----------------------------------------------------------------------------
(* The class's const members.                                              *)

Count == ((writeIndex - readIndex + Cap) % SizeMod) % Cap

Full(add) == Count + add >= Cap

\* count() - del <= 0 on size_t: true only when del equals count().
Empty(del) == (Count - del) % SizeMod <= 0

\* The n bytes from the read index on, read modulo _capacity.
ReadBytes(n) == [i \in 1..n |-> buf[(readIndex + i - 1) % Cap]]

\* buf after copying d in from the write index on.
Written(d) ==
  [j \in Slots |-> IF (j - writeIndex) % Cap < Len(d)
                     THEN d[((j - writeIndex) % Cap) + 1] ELSE buf[j]]

-----------------------------------------------------------------------------

\* RingBuffer(capacity) as LOCK_FREE_BUFFER gets it: a pooled object, then
\* clear(), which sets both indices to 0 and leaves the bytes as they are.
\* clear() has no other caller: it runs before the buffer is shared.  A
\* byte no write of this run put there is Junk, whatever it held.
\* clear(): both indices back to 0; the bytes stay as they are.
Clear == readIndex = 0 /\ writeIndex = 0

Init ==
  /\ buf = [j \in Slots |-> Junk]
  /\ Clear
  /\ in = << >> /\ out = << >>

=============================================================================
