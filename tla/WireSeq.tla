------------------------------ MODULE WireSeq ------------------------------
(***************************************************************************)
(* Sequence numbers on the link from an active game server (TestClient's  *)
(* active_server_session_logic, "A") to the gateway's session for it      *)
(* ("G": default_session_logic, then server_session_logic).                *)
(*                                                                         *)
(* A frames with ++_seq.  async_send runs on the calling thread, so the    *)
(* strand (the AAA request, keep-alives) and the game thread               *)
(* (active_server_session_mgr::send) both read and write _seq without a    *)
(* lock: that unsynchronised ++ is a load and a store, and the write is    *)
(* issued after both, each a step of its own (the data race's outcomes).  *)
(* G counts every frame it reads (++_seq before the                        *)
(* comparison) and drops a mismatch without closing.                       *)
(***************************************************************************)
EXTENDS Integers, Sequences, ProtoMask

CONSTANTS
  GameSends,    \* frames the game thread sends
  KeepAlives,   \* keep-alive frames the strand sends
  Verdicts,     \* outcomes of the manager's duplicate-uid check
  Payloads,     \* bytes the game thread sends after the target uid
  Target,       \* the client uid the game thread addresses
  Announced,    \* A's server_info: [area, server, platform]
  Rc4,          \* G's rc4_info: [subtract, modvt, key]
  StaleBytes,   \* the two bytes past the response that the pooled buffer held
  EC_Success, EC_ServerNotFound  \* TransferError, declared outside the repository

\* rc4_info(): modvt, each of the RC4_KEY_LEN key bytes and subtract are
\* SAFE_RAND % 255 + 1.
Rc4Info(r) ==
  /\ r.modvt \in 1..255 /\ r.subtract \in 1..255
  /\ Len(r.key) = RC4_KEY_LEN /\ \A i \in 1..RC4_KEY_LEN : r.key[i] \in 1..255

ASSUME Rc4Info(Rc4)

Threads == {"strand", "game"}
\* session_logic_interface::AuthenticationState
Auth == {"BEFORE_VERIFY", "VERIFY_SUCC", "VERIFY_FAILED"}

\* active_server_session_mgr::start: the logic's server_info, from
\* _cluster_config, with the link type ACTIVE_GAMESVR.
ServerInfo == [area |-> Announced.area, server |-> Announced.server,
               link |-> ACTIVE_GAMESVR, platform |-> Announced.platform]

VARIABLES
  aState,     \* A's basic_async_session::_state
  aSeq,       \* active_server_session_logic::_seq
  aAuth,      \* active_server_session_logic::_authentication
  cbDone,     \* the connect callback (start_tick, send_verify_authentication) ran
  tpc, held,  \* per thread: step of async_send, the values it loaded
  gameLeft, kaLeft,
  wire,       \* frames A wrote, in the order the writes were issued
  gPos,       \* frames G has read
  gSeq, gLogic, gAuth, gClosed,
  gInfo,      \* G's _server_info, as verify_authentication unpacked it
  verified,   \* history: the kind of frame G's handshake parsed, or "none"
  back,       \* frames G wrote to A (the AAA answer), not yet read by A
  delivered,  \* what G's server logic routed: [target, data, sent]
  dropped     \* frames G read and discarded

vars == <<aState, aSeq, aAuth, cbDone, tpc, held, gameLeft, kaLeft, wire,
          gPos, gSeq, gLogic, gAuth, gClosed, gInfo, verified, back, delivered, dropped>>

\* wrap_to_send_data: the cmd depends on _authentication, the mask is
\* computed over the header with mask 0 and the payload.
Framed(seq, kind, data, auth) ==
  LET cmd == IF auth = "BEFORE_VERIFY" THEN Commands_AuthenticationAAA
                                       ELSE Commands_RoutingTransparent
  IN [bytes |-> GetAHead(FRAME_KEY, Len(data),
                         GetMask(GetAHead(FRAME_KEY, Len(data), 0, cmd, 0, seq), data, 0),
                         cmd, 0, seq) \o data,
      kind |-> kind, late |-> auth # "BEFORE_VERIFY"]

\* The wrap of G's current logic: the header carries _seq as it is (no
\* increment) and the logic's cmd.
GFramed(seq, cmd, data) ==
  [bytes |-> GetAHead(FRAME_KEY, Len(data),
                      GetMask(GetAHead(FRAME_KEY, Len(data), 0, cmd, 0, seq), data, 0),
                      cmd, 0, seq) \o data,
   kind |-> "answer", late |-> FALSE]

\* pick_a_entire_msg: unpack_head over the first PROTO_HEAD_SIZE bytes
\* received, then head->len bytes of payload.  A frame is read whole (TCP
\* reassembly is not modelled), so the payload is what follows the header,
\* cut at the frame's end when a header misread claims more.
FrameHead(f) == UnpackHead(SubSeq(f.bytes, 1, PROTO_HEAD_SIZE))
FrameData(f) ==
  SubSeq(f.bytes, PROTO_HEAD_SIZE + 1,
         IF PROTO_HEAD_SIZE + FrameHead(f).len < Len(f.bytes)
           THEN PROTO_HEAD_SIZE + FrameHead(f).len ELSE Len(f.bytes))

\* The mask check of unwrap_received_data over the received header bytes
\* and payload: zero for an intact frame.
MaskCheck(f) == GetMask(SubSeq(f.bytes, 1, PROTO_HEAD_SIZE), FrameData(f), 0)

Init ==
  /\ aState = "WAIT_CONNECT" /\ aSeq = 0 /\ aAuth = "BEFORE_VERIFY" /\ cbDone = FALSE
  /\ tpc = [t \in Threads |-> "idle"]
  /\ held = [t \in Threads |-> [seq |-> 0, kind |-> "ka", data |-> << >>, auth |-> "BEFORE_VERIFY"]]
  /\ gameLeft = GameSends /\ kaLeft = KeepAlives
  /\ wire = << >> /\ gPos = 0
  /\ gSeq = 0 /\ gLogic = "default" /\ gAuth = "BEFORE_VERIFY" /\ gClosed = FALSE
  /\ gInfo = [area |-> 0, server |-> 0, link |-> 0, platform |-> << >>]
  /\ verified = "none"
  /\ back = << >> /\ delivered = << >> /\ dropped = << >>

\* async_send(buffer) on thread t: nothing unless CONNECTING; then
\* wrap_to_send_data reads _authentication and loads _seq for its ++.
AsyncSend(t, kind, data) ==
  /\ aState = "CONNECTING"
  /\ tpc' = [tpc EXCEPT ![t] = "loaded"]
  /\ held' = [held EXCEPT ![t] = [seq |-> aSeq, kind |-> kind, data |-> data, auth |-> aAuth]]
  /\ UNCHANGED <<aSeq, wire>>

\* The store half of ++_seq: the value loaded, plus one.
StoreSeq(t) ==
  /\ tpc[t] = "loaded"
  /\ aSeq' = held[t].seq + 1
  /\ tpc' = [tpc EXCEPT ![t] = "stored"]
  /\ UNCHANGED <<aState, aAuth, cbDone, held, gameLeft, kaLeft, wire, gPos, gSeq,
                 gLogic, gAuth, gClosed, gInfo, verified, back, delivered, dropped>>

\* The rest of wrap_to_send_data (the header with the incremented value,
\* its mask) and the async_write_some.
IssueWrite(t) ==
  /\ tpc[t] = "stored"
  /\ wire' = Append(wire, Framed(held[t].seq + 1, held[t].kind, held[t].data, held[t].auth))
  /\ tpc' = [tpc EXCEPT ![t] = "idle"]
  /\ UNCHANGED <<aState, aSeq, aAuth, cbDone, held, gameLeft, kaLeft, gPos, gSeq,
                 gLogic, gAuth, gClosed, gInfo, verified, back, delivered, dropped>>

-----------------------------------------------------------------------------
(* A: the active session and the game thread.                              *)

\* async_connect's callback, first half: CONNECTING, options, read loop.
ConnectOk ==
  /\ aState = "WAIT_CONNECT"
  /\ aState' = "CONNECTING"
  /\ UNCHANGED <<aSeq, aAuth, cbDone, tpc, held, gameLeft, kaLeft, wire, gPos, gSeq,
                 gLogic, gAuth, gClosed, gInfo, verified, back, delivered, dropped>>

\* The callback's cb: start_tick, then send_verify_authentication, which
\* packs the AAA request with the link type ACTIVE_GAMESVR.
ConnectCallback ==
  /\ aState = "CONNECTING" /\ ~cbDone /\ tpc["strand"] = "idle"
  /\ cbDone' = TRUE
  /\ AsyncSend("strand", "aaa",
       AAARequestPack(ServerInfo.area, ServerInfo.server, ServerInfo.link, ServerInfo.platform))
  /\ UNCHANGED <<aState, aAuth, gameLeft, kaLeft, gPos, gSeq, gLogic, gAuth, gClosed,
                 gInfo, verified, back, delivered, dropped>>

\* tick_alive on the strand sends an empty frame.
KeepAlive ==
  /\ cbDone /\ kaLeft > 0 /\ tpc["strand"] = "idle"
  /\ kaLeft' = kaLeft - 1
  /\ AsyncSend("strand", "ka", << >>)
  /\ UNCHANGED <<aState, aAuth, cbDone, gameLeft, gPos, gSeq, gLogic, gAuth, gClosed,
                 gInfo, verified, back, delivered, dropped>>

\* (a mutant: the target uid written in the host's little-endian order)
GameSendLE ==
  /\ gameLeft > 0 /\ tpc["game"] = "idle"
  /\ gameLeft' = gameLeft - 1
  /\ \E data \in Payloads :
       IF aState = "CONNECTING" THEN AsyncSend("game", "data", LE32(Target) \o data)
                                ELSE UNCHANGED <<aSeq, tpc, held, wire>>
  /\ UNCHANGED <<aState, aAuth, cbDone, kaLeft, gPos, gSeq, gLogic, gAuth, gClosed,
                 gInfo, verified, back, delivered, dropped>>

\* active_server_session_mgr::send on the game thread: the target uid, then
\* the game's bytes.  Before the session is CONNECTING async_send returns
\* and the frame is lost.
GameSend ==
  /\ gameLeft > 0 /\ tpc["game"] = "idle"
  /\ gameLeft' = gameLeft - 1
  /\ \E data \in Payloads :
       IF aState = "CONNECTING" THEN AsyncSend("game", "data", BE32(Target) \o data)
                                ELSE UNCHANGED <<aSeq, tpc, held, wire>>
  /\ UNCHANGED <<aState, aAuth, cbDone, kaLeft, gPos, gSeq, gLogic, gAuth, gClosed,
                 gInfo, verified, back, delivered, dropped>>

\* A reads G's answer: unwrap_received_data drops it when the mask does not
\* check; while BEFORE_VERIFY it calls check_verify_res, which unpacks ec
\* from the first byte and tests it the wrong way round.
RecvResponse ==
  /\ back # << >> /\ tpc["strand"] = "idle"
  /\ aAuth' = IF aAuth # "BEFORE_VERIFY" \/ MaskCheck(Head(back)) # 0 THEN aAuth
              ELSE IF AAAResponseUnpack(FrameData(Head(back))).ec = EC_Success THEN "VERIFY_FAILED" ELSE "VERIFY_SUCC"
  /\ back' = Tail(back)
  /\ UNCHANGED <<aState, aSeq, cbDone, tpc, held, gameLeft, kaLeft, wire, gPos, gSeq,
                 gLogic, gAuth, gClosed, gInfo, verified, delivered, dropped>>

-----------------------------------------------------------------------------
(* G: the gateway's session for A.                                         *)

\* (a mutant: the server logic starts counting from zero)
InheritSeqReset(seq) == 0

\* server_session_logic::inherit_logic: the new logic takes over _seq.
InheritSeq(seq) == seq

\* (a mutant: _seq++ compared instead of ++_seq)
SeqOkPostIncrement(f) == FrameHead(f).seq = gSeq

\* The sequence check of unwrap_received_data: head->seq != ++_seq fails.
SeqOk(f) == FrameHead(f).seq = gSeq + 1

\* The rest of server_session_logic::unwrap_received_data: a frame past
\* both checks is a keep-alive when empty, else copied out and routed.
ServerAccepts(f) == SeqOk(f) /\ MaskCheck(f) = 0 /\ FrameHead(f).len # 0

\* The link type byte as the handshake reads it: a byte past the payload
\* (256) may hold a server link type or CLIENT_PROXY.
LinkTypeRead(l) == IF l = 256 THEN {CLIENT_PROXY, ACTIVE_GAMESVR} ELSE {l}

\* echo_authentication_res: the response packed with G's rc4_info,
\* _target_uid (0 for a server) and the link type; the length reported is
\* AAAResponseLength, longer than what pack writes: the bytes past it are
\* the stale bytes the pooled buffer held.
Answer(ec, link, stale) ==
  LET packed == AAAResponsePack(ec, Rc4.subtract, Rc4.modvt, Rc4.key, 0, link)
  IN  packed \o SubSeq(stale, 1, AAAResponseLength(RC4_KEY_LEN) - Len(packed))

\* The gateway's _client_sessions.  Only move_client_available inserts into
\* it, after a client's handshake found its server through
\* complex_operation, which never runs its handler (module ProxyManager):
\* the table stays empty.
ClientSessions == << >>

\* proxy_manager::send_to_client: try_get on the client table; a miss is
\* logged and the frame dropped, a hit is the client's async_send.
SendToClient(uid) == uid \in DOMAIN ClientSessions

\* server_session_logic::try_copy_to_storage.  A frames every frame with
\* cmd AuthenticationAAA or RoutingTransparent, never BroadCast, so G takes
\* the unicast branch: the target uid is read_uint32 of the first four
\* payload bytes, and the rest (offset += 4, length -= 4) goes to
\* send_to_client.  Only game frames, which start with the uid, reach it.
Routed(f) ==
  LET uid == ReadBE32(SubSeq(FrameData(f), 1, 4))
  IN [target |-> uid, data |-> SubSeq(FrameData(f), 5, Len(FrameData(f))), sent |-> SendToClient(uid)]

\* One frame through pick_a_entire_msg and the current logic's
\* unwrap_received_data (and try_copy_to_storage when it returns true).
\* The default logic's first valid frame runs verify_authentication: it
\* unpacks the request into _server_info; the manager promotes a server
\* link type (> MULTI_SESSION_BEGIN) unless the uid is a duplicate
\* (Verdicts), and never finds the server a CLIENT_PROXY asks for.  A
\* promotion replaces G's logic by the server logic (inheriting _seq)
\* before the answer is sent, so the server logic frames EC_Success; a
\* failure is framed by the default logic, and its write callback kicks.
GRead ==
  /\ ~gClosed /\ gPos < Len(wire)
  /\ LET f == wire[gPos + 1]
         ok == SeqOk(f) /\ MaskCheck(f) = 0
         req == AAARequestUnpack(FrameData(f))
     IN
     /\ gPos' = gPos + 1
     /\ IF gLogic = "default" /\ ok /\ gAuth = "BEFORE_VERIFY"
          THEN /\ gInfo' = req
               /\ verified' = f.kind
               /\ \E v \in Verdicts, stale \in StaleBytes, link \in LinkTypeRead(req.link) :
                    IF /\ GetCmd(FrameHead(f)) = Commands_AuthenticationAAA
                       /\ link > MULTI_SESSION_BEGIN /\ v = "ok"
                      THEN /\ gAuth' = "VERIFY_SUCC" /\ gLogic' = "server"
                           /\ gSeq' = InheritSeq(gSeq + 1)
                           /\ back' = Append(back, GFramed(InheritSeq(gSeq + 1),
                                   Commands_RoutingTransparent, Answer(EC_Success, link, stale)))
                      ELSE /\ gAuth' = "VERIFY_FAILED" /\ UNCHANGED gLogic
                           /\ gSeq' = gSeq + 1
                           /\ back' = Append(back, GFramed(gSeq + 1,
                                   Commands_AuthenticationAAA, Answer(EC_ServerNotFound, link, stale)))
               /\ UNCHANGED <<delivered, dropped>>
        ELSE /\ gSeq' = gSeq + 1
             /\ IF gLogic = "server" /\ ServerAccepts(f)
                  THEN delivered' = Append(delivered, Routed(f)) /\ UNCHANGED dropped
                  ELSE dropped' = Append(dropped, f) /\ UNCHANGED delivered
             /\ UNCHANGED <<gAuth, gLogic, gInfo, verified, back>>
  /\ UNCHANGED <<aState, aSeq, aAuth, cbDone, tpc, held, gameLeft, kaLeft, wire, gClosed>>

\* The failed answer's write callback: kick(), after which G reads no more.
GKick ==
  /\ gAuth = "VERIFY_FAILED" /\ ~gClosed
  /\ gClosed' = TRUE
  /\ UNCHANGED <<aState, aSeq, aAuth, cbDone, tpc, held, gameLeft, kaLeft, wire, gPos,
                 gSeq, gLogic, gAuth, gInfo, verified, back, delivered, dropped>>

Next ==
  \/ ConnectOk \/ ConnectCallback \/ KeepAlive \/ GameSend \/ RecvResponse
  \/ \E t \in Threads : StoreSeq(t) \/ IssueWrite(t)
  \/ GRead \/ GKick

Spec == Init /\ [][Next]_vars

\* asio completes the connect, reads and writes it has started, and the
\* strand runs its callbacks; a thread inside async_send finishes it.  The
\* game thread and the keep-alive timer are not obliged to send.
FairSpec ==
  /\ Spec
  /\ WF_vars(ConnectOk) /\ WF_vars(ConnectCallback)
  /\ \A t \in Threads : WF_vars(StoreSeq(t)) /\ WF_vars(IssueWrite(t))
  /\ WF_vars(GRead) /\ WF_vars(RecvResponse) /\ WF_vars(GKick)

-----------------------------------------------------------------------------
(* Properties.                                                             *)

\* Frames reached G numbered 1, 2, 3, ... in the order A wrote them.
WireConsecutive == \A i \in 1..Len(wire) : FrameHead(wire[i]).seq = i

\* Both wraps and both checks agree: every frame G has read was framed by
\* A with a mask that G's get_mask over the same header and payload
\* reduces to zero, and so does A's check of every answer G framed.
MaskRoundTrip ==
  /\ \A i \in 1..gPos : MaskCheck(wire[i]) = 0
  /\ \A i \in 1..Len(back) : MaskCheck(back[i]) = 0

\* The platform as a C string (c_str()): the bytes before the first NUL.
CStr(s) ==
  LET nul == {i \in 1..Len(s) : s[i] = 0}
  IN IF nul = {} THEN s ELSE SubSeq(s, 1, (CHOOSE i \in nul : \A j \in nul : i <= j) - 1)

\* When the handshake parsed A's AAA request, the gateway registered the
\* server A announced: the area and server ids, the link type A sends and
\* the platform string survive pack, framing and unpack.
AnnouncedInfoRegistered ==
  verified = "aaa" =>
    /\ gInfo.area = Announced.area /\ gInfo.server = Announced.server
    /\ gInfo.link = ACTIVE_GAMESVR
    /\ CStr(gInfo.platform) = Announced.platform

\* A game frame framed after A had G's answer, and read by a G that
\* authenticated A, is routed on: none is dropped.
LateFramesDelivered ==
  gAuth = "VERIFY_SUCC" =>
    \A i \in 1..Len(dropped) : ~(dropped[i].late /\ dropped[i].kind = "data")

\* The same, once the gateway's handshake parsed A's real AAA request:
\* the race on ++_seq alone, with no game frame taken for the request.
LateFramesDeliveredAfterAAA == verified = "aaa" => LateFramesDelivered

\* As long as A's frames carry consecutive numbers in write order, the
\* default -> server logic handover keeps G's count in step with A's, and
\* no frame sent after the handshake is dropped.
ConsecutiveFramesDelivered == WireConsecutive => LateFramesDelivered

\* Every frame the gateway routes on is addressed to the client uid the
\* game thread passed to active_server_session_mgr::send and carries the
\* game's bytes: A's write_uint32 ahead of the payload and G's read_uint32
\* and offset in try_copy_to_storage agree across framing.
RoutedToTarget ==
  \A i \in 1..Len(delivered) : delivered[i].target = Target /\ delivered[i].data \in Payloads

\* The same, once the gateway's handshake parsed A's AAA request (not a
\* game frame that overtook it).
RoutedToTargetAfterAAA == verified = "aaa" => RoutedToTarget

\* As long as A's frames reach the wire numbered in order, the handshake
\* completes at A: check_verify_res eventually leaves BEFORE_VERIFY.
HandshakeAnswered == []WireConsecutive => <>(aAuth # "BEFORE_VERIFY")
=============================================================================
