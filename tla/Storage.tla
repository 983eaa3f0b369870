------------------------------ MODULE Storage ------------------------------
(***************************************************************************)
(* The shared storage of the active game-server client (src/AsioNet/      *)
(* TestClient): the session's strand is the producer, copying each routed *)
(* frame into the ring buffer (active_server_session_logic::               *)
(* try_copy_to_storage); the game thread is the consumer, polling          *)
(* active_server_session_mgr::pick_msg.  Each tryWrite / tryRead is a step *)
(* of its own, so the two threads interleave between them.                 *)
(*                                                                         *)
(* A byte is a token <<m, part, i>>: the i-th byte of the field part of    *)
(* message m.  Message m carries uid m and cmd m; uid 0 is no message's.   *)
(* A field read from misaligned bytes decodes to garbage: uid / cmd 0, a   *)
(* length anywhere in GarbageLens.                                         *)
(*                                                                         *)
(* The inner pair session (inner_session_logic::try_copy_to_storage and    *)
(* inner_pair_session::pick_msg) shares the ring the same way, with the    *)
(* whole 11-byte frame header in front of each payload.  Which pair the    *)
(* storage belongs to is fixed when it is built: pair, drawn from Pairs.   *)
(***************************************************************************)
EXTENDS Integers, Sequences

CONSTANTS
  NMsgs,        \* frames the session copies into storage, in order
  MaxPayload,   \* longest payload of a frame
  Cap,          \* the ring's capacity
  SizeBits,     \* width of size_t in the model
  Junk,         \* a byte never written
  GarbageLens,  \* uint16 values a garbage or uninitialised length may hold
  InitLens,     \* values the uninitialised _already_read_length, or the
                \* len of a pooled head, may hold
  Pairs         \* {"active", "inner"}: the sessions sharing the storage

ASSUME Pairs \subseteq {"active", "inner"}

ASSUME MaxPayload \in 1..4

Msgs == 1..NMsgs

\* PROTO_HEAD_SIZE
HeadSize == 11

PartLen(m, part, L) ==
  CASE part = "uid" -> 4 [] part = "cmd" -> 2 [] part = "len" -> 2
    [] part = "head" -> HeadSize [] OTHER -> L

VARIABLES
  buf, readIndex, writeIndex,  \* the ring buffer
  plen,                        \* payload length of each frame
  ppc, sent,                   \* producer: next field to write; frames stored
  cpc, hdr, got,               \* consumer: step of pick_msg; _already_read_*;
                               \* frames pick_msg returned
  held,                        \* inner: _already_read_head is set
  pair

vars == <<buf, readIndex, writeIndex, plen, ppc, sent, cpc, hdr, got, held, pair>>

Piece(m, part) == [i \in 1..PartLen(m, part, plen[m]) |-> <<m, part, i>>]

Tokens == UNION {{<<m, p, i>> : i \in 1..PartLen(m, p, 4)} :
                  m \in Msgs, p \in {"uid", "cmd", "len", "head", "data"}}

RB == INSTANCE RingBuffer WITH Data <- Tokens, MaxLen <- Cap, in <- << >>, out <- << >>

\* Decoding a header field read from the ring.
DecodeId(bytes, part) == IF \E m \in Msgs : bytes = Piece(m, part)
                           THEN CHOOSE m \in Msgs : bytes = Piece(m, part) ELSE 0
DecodeLens(bytes, part) == IF \E m \in Msgs : bytes = Piece(m, part)
                             THEN {plen[CHOOSE m \in Msgs : bytes = Piece(m, part)]}
                             ELSE GarbageLens

\* tryRead(n, local): the bytes read, or the local array's garbage when the
\* ring is empty (the result is ignored).
ReadOrJunk(n) == IF RB!Empty(0) THEN [i \in 1..n |-> Junk] ELSE RB!ReadBytes(n)
AdvanceRead(n) == IF RB!Empty(0) THEN readIndex ELSE (readIndex + n) % Cap

TypeOK ==
  /\ RB!TypeOK
  /\ plen \in [Msgs -> 1..MaxPayload]
  /\ ppc \in {"idle", "uid", "cmd", "len", "head", "data"}
  /\ sent \in 0..NMsgs
  /\ cpc \in {"idle", "uid", "cmd", "len", "head", "body"}
  /\ held \in BOOLEAN /\ pair \in Pairs
  /\ hdr \in [uid : 0..NMsgs, cmd : 0..NMsgs, len : GarbageLens \cup InitLens \cup 1..MaxPayload]

-----------------------------------------------------------------------------

\* inner_session_logic::unwrap_received_data hands try_copy_to_storage a
\* frame whose mask checks (every frame on the link does) unless its len is
\* 0: a keep-alive never reaches the storage.
UnwrapAccepts(len) == len # 0

\* LOCK_FREE_BUFFER in the manager's constructor; `new T` leaves the
\* _already_read_* members uninitialised.
Init ==
  /\ buf = [j \in RB!Slots |-> Junk] /\ RB!Clear
  /\ plen \in [Msgs -> {l \in 0..MaxPayload : UnwrapAccepts(l)}]
  /\ ppc = "idle" /\ sent = 0
  /\ cpc = "idle" /\ got = << >>
  /\ \E l \in InitLens : hdr = [uid |-> 0, cmd |-> 0, len |-> l]
  /\ held = FALSE /\ pair \in Pairs

\* The bytes a pair stores ahead of each payload.
HeaderSize == IF pair = "active" THEN 8 ELSE HeadSize

\* try_copy_to_storage for the next frame: refused while full(8 + length)
\* (the inner logic: full(PROTO_HEAD_SIZE + length)), after which the
\* session's _timer retries it; otherwise the tryWrite calls follow.
CopyToStorage ==
  /\ ppc = "idle" /\ sent < NMsgs
  /\ ~RB!Full(HeaderSize + plen[sent + 1])
  /\ ppc' = IF pair = "active" THEN "uid" ELSE "head"
  /\ UNCHANGED <<buf, readIndex, writeIndex, plen, sent, cpc, hdr, got, held, pair>>

NextPart == [uid |-> "cmd", cmd |-> "len", len |-> "data", head |-> "data", data |-> "idle"]

\* One tryWrite of try_copy_to_storage: the uid, the cmd, the length, then
\* the payload; for the inner logic the header, then the payload (a
\* refused write is ignored).
WritePart ==
  /\ ppc \in {"uid", "cmd", "len", "head", "data"}
  /\ LET d == Piece(sent + 1, ppc) IN
       IF RB!Full(0) \/ Len(d) + RB!Count >= Cap
         THEN UNCHANGED <<buf, writeIndex>>
         ELSE /\ buf' = RB!Written(d)
              /\ writeIndex' = (writeIndex + Len(d)) % Cap
  /\ ppc' = NextPart[ppc]
  /\ sent' = IF ppc = "data" THEN sent + 1 ELSE sent
  /\ UNCHANGED <<readIndex, plen, cpc, hdr, got, held, pair>>

\* pick_msg's entry: the header is read when _already_read_length != 0
\* (and not empty(8)); otherwise straight to the body.
PickBegin ==
  /\ pair = "active" /\ cpc = "idle"
  /\ cpc' = IF hdr.len # 0 THEN IF RB!Empty(8) THEN "idle" ELSE "uid" ELSE "body"
  /\ UNCHANGED <<buf, readIndex, writeIndex, plen, ppc, sent, hdr, got, held, pair>>

\* One tryRead of the header into uid[4], cmd[2], len[2].
ReadHeaderField ==
  /\ pair = "active" /\ cpc \in {"uid", "cmd", "len"}
  /\ LET bytes == ReadOrJunk(PartLen(0, cpc, 0)) IN
       /\ readIndex' = AdvanceRead(PartLen(0, cpc, 0))
       /\ \/ cpc = "uid" /\ hdr' = [hdr EXCEPT !.uid = DecodeId(bytes, "uid")]
          \/ cpc = "cmd" /\ hdr' = [hdr EXCEPT !.cmd = DecodeId(bytes, "cmd")]
          \/ cpc = "len" /\ \E l \in DecodeLens(bytes, "len") : hdr' = [hdr EXCEPT !.len = l]
  /\ cpc' = IF cpc = "len" THEN "body" ELSE NextPart[cpc]
  /\ UNCHANGED <<buf, writeIndex, plen, ppc, sent, got, held, pair>>

\* The body: return false if empty(_already_read_length); otherwise
\* tryRead it (the result ignored), return the frame and reset _already_*.
PickBody ==
  /\ pair = "active" /\ cpc = "body"
  /\ IF RB!Empty(hdr.len)
       THEN UNCHANGED <<readIndex, hdr, got>>
       ELSE /\ got' = Append(got, [uid |-> hdr.uid, cmd |-> hdr.cmd, len |-> hdr.len,
                              data |-> ReadOrJunk(hdr.len)])
            /\ readIndex' = AdvanceRead(hdr.len)
            /\ hdr' = [uid |-> 0, cmd |-> 0, len |-> 0]
  /\ cpc' = "idle"
  /\ UNCHANGED <<buf, writeIndex, plen, ppc, sent, held, pair>>

\* inner_pair_session::pick_msg's entry: with a head kept from an earlier
\* call, straight to the body; otherwise return false if
\* empty(PROTO_HEAD_SIZE), else read a head.
InnerPickBegin ==
  /\ pair = "inner" /\ cpc = "idle"
  /\ cpc' = IF held THEN "body" ELSE IF RB!Empty(HeadSize) THEN "idle" ELSE "head"
  /\ UNCHANGED <<buf, readIndex, writeIndex, plen, ppc, sent, hdr, got, held, pair>>

\* _already_read_head = HEAD_FROM_POOL, then tryRead(PROTO_HEAD_SIZE) into
\* it.  A pooled head keeps what it held, so a refused read (empty())
\* leaves a stale len in it.
InnerReadHead ==
  /\ pair = "inner" /\ cpc = "head"
  /\ LET bytes == RB!ReadBytes(HeadSize) IN
       IF RB!Empty(0)
         THEN \E l \in InitLens : hdr' = [uid |-> 0, cmd |-> 0, len |-> l]
         ELSE \E l \in DecodeLens(bytes, "head") :
                LET m == DecodeId(bytes, "head") IN hdr' = [uid |-> m, cmd |-> m, len |-> l]
  /\ readIndex' = AdvanceRead(HeadSize)
  /\ held' = TRUE /\ cpc' = "body"
  /\ UNCHANGED <<buf, writeIndex, plen, ppc, sent, got, pair>>

\* tryRead(_already_read_head->len, ret_data): refused only when empty(),
\* keeping the head; otherwise the head is copied out, reset, and pick_msg
\* returns false all the same.
InnerPickBody ==
  /\ pair = "inner" /\ cpc = "body"
  /\ IF RB!Empty(0)
       THEN UNCHANGED <<readIndex, hdr, got, held>>
       ELSE /\ got' = Append(got, [uid |-> hdr.uid, cmd |-> hdr.cmd, len |-> hdr.len,
                              data |-> RB!ReadBytes(hdr.len)])
            /\ readIndex' = AdvanceRead(hdr.len)
            /\ hdr' = [uid |-> 0, cmd |-> 0, len |-> 0]
            /\ held' = FALSE
  /\ cpc' = "idle"
  /\ UNCHANGED <<buf, writeIndex, plen, ppc, sent, pair>>

Next == \/ CopyToStorage \/ WritePart
        \/ PickBegin \/ ReadHeaderField \/ PickBody
        \/ InnerPickBegin \/ InnerReadHead \/ InnerPickBody

Spec == Init /\ [][Next]_vars

-----------------------------------------------------------------------------

\* The frame the k-th successful pick_msg should return.
Frame(m) == [uid |-> m, cmd |-> m, len |-> plen[m], data |-> Piece(m, "data")]

\* pick_msg returns (the inner pair's: copies out) the frames
\* try_copy_to_storage stored, each once, whole and in order: the i-th
\* frame returned is the i-th frame stored.
PickedInOrder ==
  \A i \in 1..Len(got) : i <= sent /\ got[i] = Frame(i)
=============================================================================
