----------------------------- MODULE ByteQueue -----------------------------
(***************************************************************************)
(* What parallel_core::RingBuffer promises its single producer and single *)
(* consumer: a FIFO of bytes holding at most Cap - 1 of them.  A write is  *)
(* appended whole or refused; a read takes bytes from the front, and what *)
(* it returns ("out") is exactly the bytes that were written there ("in"  *)
(* is the block of the producer's last accepted write).                   *)
(* Refusing is a stuttering step, so the queue never promises to accept.  *)
(***************************************************************************)
EXTENDS Sequences, Integers

CONSTANTS Cap, Bytes

VARIABLES queue, in, out

Init == queue = << >> /\ in = << >> /\ out = << >>

\* A write of the bytes d, accepted only while they fit.
Put(d) ==
  /\ Len(queue) + Len(d) <= Cap - 1
  /\ queue' = queue \o d
  /\ in' = d
  /\ UNCHANGED out

\* A read of the first n bytes; Skip discards them without copying.
Take(n) ==
  /\ 1 <= n /\ n <= Len(queue)
  /\ out' = SubSeq(queue, 1, n)
  /\ queue' = SubSeq(queue, n + 1, Len(queue))
  /\ UNCHANGED in

Skip(n) ==
  /\ 1 <= n /\ n <= Len(queue)
  /\ queue' = SubSeq(queue, n + 1, Len(queue))
  /\ UNCHANGED <<in, out>>

Next ==
  \/ \E n \in 1..Cap - 1 : \E d \in [1..n -> Bytes] : Put(d)
  \/ \E n \in 1..Cap : Take(n) \/ Skip(n)

Spec == Init /\ [][Next]_<<queue, in, out>>
=============================================================================
