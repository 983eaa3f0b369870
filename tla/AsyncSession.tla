---------------------------- MODULE AsyncSession ----------------------------
(***************************************************************************)
(* One basic_async_session (src/AsioNet/AsioNet/basic_async_session.cpp)  *)
(* and the TCP peer at the other end of its socket.                        *)
(*                                                                         *)
(* Every handler of the session runs on the session's strand, so each     *)
(* action below is one whole handler: a read, write or timer completion,  *)
(* or a close job that close() posted to the strand.  The payload is      *)
(* abstracted to whole frames (WireSeq has their bytes and their headers  *)
(* as unpack_head reads them).  The session logic is fixed when the       *)
(* session is built (one of the set Logics) and never changes:             *)
(*   "default"  the gateway's default_session_logic: the first frame runs *)
(*              the AAA handshake, and no logic on the gateway ever       *)
(*              refuses a frame (try_copy_to_storage returns true);       *)
(*   "buffered" inner_session_logic / active_server_session_logic: the    *)
(*              shared ring buffer may be full, and the frame is retried  *)
(*              from the 100 ms _timer.                                   *)
(* Time is counted in ms and advances with the keep-alive tick.           *)
(***************************************************************************)
EXTENDS Integers, Sequences

CONSTANTS
  TickMs,        \* proxy_config::tick_interval_
  TimeoutMs,     \* proxy_config::keep_alive_timeout_
  PrecisionMs,   \* KEEP_ALIVE_PRECISION
  PredictionMs,  \* NET_PREDICTION_DELAY_MS_MAX
  Logics,        \* the session logics a behaviour may start with
  MaxFrames      \* frames the peer sends in one behaviour

\* is_tick_frame_effective computes PrecisionMs / TickMs and takes the tick
\* count modulo it: a tick longer than the precision divides by zero.
ASSUME TickMs \in 1..PrecisionMs
ASSUME Logics \subseteq {"default", "buffered"}

EffectiveEvery == PrecisionMs \div TickMs
\* Ages are capped: past the cap they tell nothing new to any guard.
AgeCap == TimeoutMs + PrecisionMs + TickMs
Capped(ms) == IF ms > AgeCap THEN AgeCap ELSE ms

VARIABLES
  state,         \* _state
  sockOpen,      \* _sock.is_open()
  reads,         \* async_read_some operations not yet completed
  closeQ,        \* close jobs posted to the strand, oldest first; TRUE = elegantly
  writes,        \* async_write_some operations not yet completed; TRUE = its callback kicks
  retryOk,       \* 1 when a live wait is armed on _timer
  retryAborted,  \* cancelled waits on _timer whose handler has not run
  ticking,       \* start_tick was called: _tick_timer re-arms for ever
  kaCount,       \* _keep_alive_frame_count
  recvAge,       \* now - _last_recv_time
  sendAge,       \* now - _last_send_time
  buffered,      \* complete frames kept in _recv_not_entire
  auth,          \* the default logic's _authentication
  sent,          \* frames the peer has sent
  inflight,      \* frames sent by the peer and not yet read
  peerFin,       \* the peer shut down its sending side
  peerRst,       \* the peer reset the connection
  finToPeer,     \* this side shut down its sending side
  logic          \* the session's logic, "default" or "buffered"

vars == <<state, sockOpen, reads, closeQ, writes, retryOk, retryAborted, ticking,
          kaCount, recvAge, sendAge, buffered, auth, sent, inflight, peerFin,
          peerRst, finToPeer, logic>>

States == {"INIT", "WAIT_CONNECT", "CONNECTING", "TO_CLOSE", "CLOSE_DONE"}

TypeOK ==
  /\ state \in States
  /\ sockOpen \in BOOLEAN
  /\ reads \in Nat
  /\ closeQ \in Seq(BOOLEAN)
  /\ writes \in Seq(BOOLEAN)
  /\ retryOk \in 0..1
  /\ retryAborted \in Nat
  /\ ticking \in BOOLEAN
  /\ kaCount \in 0..(EffectiveEvery - 1)
  /\ recvAge \in 0..AgeCap
  /\ sendAge \in 0..AgeCap
  /\ buffered \in 0..MaxFrames
  /\ auth \in {"BEFORE_VERIFY", "VERIFY_SUCC", "VERIFY_FAILED"}
  /\ sent \in 0..MaxFrames
  /\ inflight \in 0..MaxFrames
  /\ {peerFin, peerRst, finToPeer} \subseteq BOOLEAN
  /\ logic \in Logics

-----------------------------------------------------------------------------
(* Helpers, each the effect of one call the handlers make.                 *)

\* update_recv_time / update_send_time: the time is now.
UpdateRecvTime == recvAge' = 0
UpdateSendTime == sendAge' = 0

\* clear_all_timer: _timer.cancel turns an armed wait into an aborted one
\* whose handler still runs; _tick_timer.cancel only runs the tick early
\* (see Tick), so it changes nothing here.
ClearAllTimer ==
  /\ retryOk' = 0
  /\ retryAborted' = retryAborted + retryOk

\* close(elegantly) from any thread: a no-op once CLOSE_DONE, else a job
\* posted to the strand.
PostClose(elegantly) ==
  closeQ' = IF state = "CLOSE_DONE" THEN closeQ ELSE Append(closeQ, elegantly)

\* async_recv_loop: a new read only while CONNECTING.
RecvLoop(n) == IF state = "CONNECTING" THEN n + 1 ELSE n

\* async_send(buf, kickAfter): nothing unless CONNECTING; else the send time
\* is refreshed and a write is started.
Send(st, kickAfter) ==
  IF st = "CONNECTING"
    THEN writes' = Append(writes, kickAfter) /\ UpdateSendTime
    ELSE UNCHANGED <<writes, sendAge>>

\* (a mutant: the idle check reads the send time instead of the receive time)
TickAliveSendAge(st, r, s) ==
  \/ /\ st # "CONNECTING"
     /\ sendAge' = s /\ UNCHANGED <<closeQ, writes>>
  \/ /\ st = "CONNECTING" /\ s > TimeoutMs
     /\ closeQ' = Append(closeQ, TRUE) /\ sendAge' = s /\ UNCHANGED writes
  \/ /\ st = "CONNECTING" /\ s <= TimeoutMs /\ s > TimeoutMs - PredictionMs
     /\ Send(st, FALSE) /\ UNCHANGED closeQ
  \/ /\ st = "CONNECTING" /\ s <= TimeoutMs - PredictionMs
     /\ sendAge' = s /\ UNCHANGED <<closeQ, writes>>

\* (a mutant: the keep-alive margin added to the timeout instead of taken off)
TickAliveLateKeepAlive(st, r, s) ==
  \/ /\ st # "CONNECTING"
     /\ sendAge' = s /\ UNCHANGED <<closeQ, writes>>
  \/ /\ st = "CONNECTING" /\ r > TimeoutMs
     /\ closeQ' = Append(closeQ, TRUE) /\ sendAge' = s /\ UNCHANGED writes
  \/ /\ st = "CONNECTING" /\ r <= TimeoutMs /\ s > TimeoutMs + PredictionMs
     /\ Send(st, FALSE) /\ UNCHANGED closeQ
  \/ /\ st = "CONNECTING" /\ r <= TimeoutMs /\ s <= TimeoutMs + PredictionMs
     /\ sendAge' = s /\ UNCHANGED <<closeQ, writes>>

\* tick_alive with the ages it sees, on a session in state st.  The sendAge
\* it leaves is s unless it sends a keep-alive frame.
TickAlive(st, r, s) ==
  \/ /\ st # "CONNECTING"
     /\ sendAge' = s /\ UNCHANGED <<closeQ, writes>>
  \/ /\ st = "CONNECTING" /\ r > TimeoutMs
     /\ closeQ' = Append(closeQ, TRUE)          \* kick()
     /\ sendAge' = s /\ UNCHANGED writes
  \/ /\ st = "CONNECTING" /\ r <= TimeoutMs /\ s > TimeoutMs - PredictionMs
     /\ Send(st, FALSE) /\ UNCHANGED closeQ      \* empty keep-alive frame
  \/ /\ st = "CONNECTING" /\ r <= TimeoutMs /\ s <= TimeoutMs - PredictionMs
     /\ sendAge' = s /\ UNCHANGED <<closeQ, writes>>

\* start_tick: both times refreshed, then one fixed_tick at once.
StartTick(st) ==
  /\ ticking' = TRUE
  /\ kaCount' = (kaCount + 1) % EffectiveEvery
  /\ UpdateRecvTime
  /\ IF kaCount' = 0 THEN TickAlive(st, 0, 0)
                     ELSE UpdateSendTime /\ UNCHANGED <<closeQ, writes>>

\* pick_entire_msgs with the default logic over n complete frames: each is
\* consumed, since unwrap_received_data never returns true and storage is
\* never asked.  A frame failing the sequence or mask check is dropped; the
\* first one passing them before the handshake runs verify_authentication,
\* whose answer echo_authentication_res sends, with kick() as the write's
\* callback when the answer is a failure.
Handshake(n, failureKicks) ==
  \/ /\ auth = "BEFORE_VERIFY" /\ n > 0
     /\ \E ok \in BOOLEAN :
          /\ auth' = IF ok THEN "VERIFY_SUCC" ELSE "VERIFY_FAILED"
          /\ Send(state, ~ok /\ failureKicks)
  \/ \* no frame passes the checks, or the handshake is already over
     UNCHANGED <<auth, writes, sendAge>>

\* (a mutant: the failure answer written without the kick callback)
PickDefaultNoKick(n) ==
  /\ buffered' = 0
  /\ UNCHANGED <<retryOk, retryAborted>>
  /\ Handshake(n, FALSE)

PickDefault(n) ==
  /\ buffered' = 0
  /\ UNCHANGED <<retryOk, retryAborted>>
  /\ Handshake(n, TRUE)

\* (a mutant: a refused frame re-arms _timer's expiry but issues no async_wait)
PickBufferedNoWait(n, armed) ==
  /\ UNCHANGED <<auth, writes, sendAge>>
  /\ \E k \in 0..n :
       /\ buffered' = n - k
       /\ IF k < n
            THEN retryAborted' = retryAborted + armed /\ retryOk' = 0
            ELSE retryAborted' = retryAborted /\ retryOk' = armed

\* pick_entire_msgs with a buffered logic: frames go to the ring buffer in
\* order until it is full; then _timer.expires_from_now(100 ms), which
\* cancels the wait already armed (armed of them), and the rest stay buffered.
PickBuffered(n, armed) ==
  /\ UNCHANGED <<auth, writes, sendAge>>
  /\ \E k \in 0..n :
       /\ buffered' = n - k
       /\ IF k < n
            THEN retryAborted' = retryAborted + armed /\ retryOk' = 1
            ELSE retryAborted' = retryAborted /\ retryOk' = armed

Pick(n) == IF logic = "default" THEN PickDefault(n) ELSE PickBuffered(n, retryOk)

-----------------------------------------------------------------------------
(* The session's handlers.                                                 *)

Init ==
  /\ state = "INIT"
  /\ sockOpen = FALSE
  /\ reads = 0
  /\ closeQ = <<>>
  /\ writes = <<>>
  /\ retryOk = 0
  /\ retryAborted = 0
  /\ ticking = FALSE
  \* _keep_alive_frame_count is never initialised: any residue may come first.
  /\ kaCount \in 0..(EffectiveEvery - 1)
  /\ recvAge = 0
  /\ sendAge = 0
  /\ buffered = 0
  /\ auth = "BEFORE_VERIFY"
  /\ sent = 0
  /\ inflight = 0
  /\ peerFin = FALSE
  /\ peerRst = FALSE
  /\ finToPeer = FALSE
  /\ logic \in Logics

\* The acceptor's callback: passively_connect_succ then start_tick.
Accept ==
  /\ state = "INIT"
  /\ state' = "CONNECTING"
  /\ sockOpen' = TRUE
  /\ reads' = 1
  /\ StartTick("CONNECTING")
  /\ UNCHANGED <<logic, retryOk, retryAborted, buffered, auth, sent, inflight, peerFin,
                 peerRst, finToPeer>>

\* async_connect of a connector (active or inner session): asio opens the socket.
AsyncConnect ==
  /\ logic = "buffered" /\ state = "INIT"
  /\ state' = "WAIT_CONNECT" /\ sockOpen' = TRUE
  /\ UNCHANGED <<logic, reads, closeQ, writes, retryOk, retryAborted, ticking, kaCount,
                 recvAge, sendAge, buffered, auth, sent, inflight, peerFin, peerRst,
                 finToPeer>>

\* The connect callback on success: CONNECTING, first read, then the
\* manager's callback: start_tick and send_verify_authentication.
ConnectOk ==
  /\ state = "WAIT_CONNECT"
  /\ state' = "CONNECTING"
  /\ reads' = reads + 1
  /\ ticking' = TRUE
  /\ kaCount' = (kaCount + 1) % EffectiveEvery
  /\ UpdateRecvTime
  /\ writes' = Append(writes, FALSE)
  /\ UpdateSendTime
  /\ UNCHANGED <<logic, sockOpen, closeQ, retryOk, retryAborted, buffered, auth, sent,
                 inflight, peerFin, peerRst, finToPeer>>

\* The connect callback with an error: close(false).
ConnectFail ==
  /\ state = "WAIT_CONNECT"
  /\ PostClose(FALSE)
  /\ UNCHANGED <<logic, state, sockOpen, reads, writes, retryOk, retryAborted, ticking,
                 kaCount, recvAge, sendAge, buffered, auth, sent, inflight, peerFin,
                 peerRst, finToPeer>>

\* A read completes with data: update_recv_time, the bytes join the buffer,
\* pick_entire_msgs, and async_recv_loop.
ReadData ==
  /\ reads > 0 /\ sockOpen /\ ~peerRst /\ inflight > 0
  /\ \E k \in 1..inflight :
       /\ inflight' = inflight - k
       /\ Pick(buffered + k)
  /\ reads' = RecvLoop(reads - 1)
  /\ UpdateRecvTime
  /\ UNCHANGED <<logic, state, sockOpen, closeQ, ticking, kaCount, sent, peerFin, peerRst,
                 finToPeer>>

\* (a mutant: the read error is logged but the session not closed)
ReadErrorNoClose ==
  /\ reads > 0
  /\ ~sockOpen \/ peerRst \/ (inflight = 0 /\ peerFin)
  /\ UNCHANGED closeQ
  /\ Pick(buffered)
  /\ reads' = RecvLoop(reads - 1)
  /\ UpdateRecvTime
  /\ UNCHANGED <<logic, state, sockOpen, ticking, kaCount, sent, inflight, peerFin, peerRst,
                 finToPeer>>

\* A read completes with an error (aborted by a local close, EOF, reset): the
\* handler calls close(false) and does not return, so pick_entire_msgs and
\* async_recv_loop still run.
ReadError ==
  /\ reads > 0
  /\ ~sockOpen \/ peerRst \/ (inflight = 0 /\ peerFin)
  /\ PostClose(FALSE)
  /\ Pick(buffered)
  /\ reads' = RecvLoop(reads - 1)
  /\ UpdateRecvTime
  /\ UNCHANGED <<logic, state, sockOpen, ticking, kaCount, sent, inflight, peerFin, peerRst,
                 finToPeer>>

\* The close job on the strand, when there is nothing left to close.
RunCloseNoop ==
  /\ closeQ # <<>>
  /\ state = "CLOSE_DONE" \/ ~sockOpen
  /\ closeQ' = Tail(closeQ)
  /\ UNCHANGED <<logic, state, sockOpen, reads, writes, retryOk, retryAborted, ticking,
                 kaCount, recvAge, sendAge, buffered, auth, sent, inflight, peerFin,
                 peerRst, finToPeer>>

\* The close job: clear_all_timer (a cancelled _timer wait still runs its
\* handler), then shutdown of the sending side or a hard close.
RunClose ==
  /\ closeQ # <<>>
  /\ state # "CLOSE_DONE" /\ sockOpen
  /\ closeQ' = Tail(closeQ)
  /\ ClearAllTimer
  /\ \/ /\ Head(closeQ)
        /\ state' = "TO_CLOSE" /\ finToPeer' = TRUE
        /\ UNCHANGED sockOpen
     \/ /\ ~Head(closeQ)
        /\ state' = "CLOSE_DONE" /\ sockOpen' = FALSE
        /\ UNCHANGED finToPeer
  /\ UNCHANGED <<logic, reads, writes, ticking, kaCount, recvAge, sendAge, buffered, auth,
                 sent, inflight, peerFin, peerRst>>

\* (a mutant: the frame counter of is_tick_frame_effective not wrapped)
TickNoWrap ==
  /\ ticking /\ closeQ = <<>>
  /\ kaCount' = kaCount + 1
  /\ LET r == Capped(recvAge + TickMs)
         s == Capped(sendAge + TickMs)
     IN /\ recvAge' = r
        /\ IF kaCount' % EffectiveEvery = 0 THEN TickAlive(state, r, s)
                                            ELSE sendAge' = s /\ UNCHANGED <<closeQ, writes>>
  /\ UNCHANGED <<logic, state, sockOpen, reads, retryOk, retryAborted, ticking, buffered,
                 auth, sent, inflight, peerFin, peerRst, finToPeer>>

\* fixed_tick, TickMs after the last one.  The tick handler is queued on the
\* strand after any close job posted before it expired.  It is bound
\* without the error code, so cancelling _tick_timer only runs it early and
\* it re-arms for ever.
Tick ==
  /\ ticking /\ closeQ = <<>>
  /\ kaCount' = (kaCount + 1) % EffectiveEvery
  /\ LET r == Capped(recvAge + TickMs)
         s == Capped(sendAge + TickMs)
     IN /\ recvAge' = r
        /\ IF kaCount' = 0 THEN TickAlive(state, r, s)
                           ELSE sendAge' = s /\ UNCHANGED <<closeQ, writes>>
  /\ UNCHANGED <<logic, state, sockOpen, reads, retryOk, retryAborted, ticking, buffered,
                 auth, sent, inflight, peerFin, peerRst, finToPeer>>

\* The 100 ms retry fires: pick_entire_msgs again, then async_recv_loop,
\* although a read may still be outstanding.
RetryFire ==
  /\ retryOk = 1
  /\ PickBuffered(buffered, 0)
  /\ reads' = RecvLoop(reads)
  /\ UNCHANGED <<logic, state, sockOpen, closeQ, ticking, kaCount, recvAge, sent, inflight,
                 peerFin, peerRst, finToPeer>>

\* A cancelled _timer wait runs its handler with an error: close(false).
RetryAbort ==
  /\ retryAborted > 0
  /\ retryAborted' = retryAborted - 1
  /\ PostClose(FALSE)
  /\ UNCHANGED <<logic, state, sockOpen, reads, writes, retryOk, ticking, kaCount, recvAge,
                 sendAge, buffered, auth, sent, inflight, peerFin, peerRst, finToPeer>>

\* A write completes; its callback runs (kick() after a failed AAA answer).
WriteOk ==
  /\ writes # <<>> /\ sockOpen /\ ~peerRst
  /\ writes' = Tail(writes)
  /\ IF Head(writes) THEN PostClose(TRUE) ELSE UNCHANGED closeQ
  /\ UNCHANGED <<logic, state, sockOpen, reads, retryOk, retryAborted, ticking, kaCount,
                 recvAge, sendAge, buffered, auth, sent, inflight, peerFin, peerRst,
                 finToPeer>>

\* A write fails: close(false), and the callback is skipped.
WriteFail ==
  /\ writes # <<>> /\ (~sockOpen \/ peerRst)
  /\ writes' = Tail(writes)
  /\ PostClose(FALSE)
  /\ UNCHANGED <<logic, state, sockOpen, reads, retryOk, retryAborted, ticking, kaCount,
                 recvAge, sendAge, buffered, auth, sent, inflight, peerFin, peerRst,
                 finToPeer>>

-----------------------------------------------------------------------------
(* The peer, once the connection exists.                                   *)

Connected == state \notin {"INIT", "WAIT_CONNECT"}

PeerSend ==
  /\ Connected /\ ~peerFin /\ ~peerRst /\ sent < MaxFrames
  /\ sent' = sent + 1 /\ inflight' = inflight + 1
  /\ UNCHANGED <<logic, state, sockOpen, reads, closeQ, writes, retryOk, retryAborted,
                 ticking, kaCount, recvAge, sendAge, buffered, auth, peerFin, peerRst,
                 finToPeer>>

PeerFin ==
  /\ Connected /\ ~peerFin /\ ~peerRst
  /\ peerFin' = TRUE
  /\ UNCHANGED <<logic, state, sockOpen, reads, closeQ, writes, retryOk, retryAborted,
                 ticking, kaCount, recvAge, sendAge, buffered, auth, sent, inflight,
                 peerRst, finToPeer>>

PeerRst ==
  /\ Connected /\ ~peerRst
  /\ peerRst' = TRUE
  /\ UNCHANGED <<logic, state, sockOpen, reads, closeQ, writes, retryOk, retryAborted,
                 ticking, kaCount, recvAge, sendAge, buffered, auth, sent, inflight,
                 peerFin, finToPeer>>

Next ==
  \/ Accept \/ AsyncConnect \/ ConnectOk \/ ConnectFail
  \/ ReadData \/ ReadError \/ RunCloseNoop \/ RunClose \/ Tick
  \/ RetryFire \/ RetryAbort \/ WriteOk \/ WriteFail
  \/ PeerSend \/ PeerFin \/ PeerRst

\* The strand runs whatever is queued on it; TCP completes reads and writes.
\* The peer is only assumed to answer this side's FIN with its own, as the
\* sessions of this repository do (EOF -> close(false)).
PeerAnswersFin == finToPeer /\ PeerFin

Fairness ==
  /\ WF_vars(ReadData) /\ WF_vars(ReadError)
  /\ WF_vars(RunCloseNoop) /\ WF_vars(RunClose)
  /\ WF_vars(Tick) /\ WF_vars(RetryFire) /\ WF_vars(RetryAbort)
  /\ WF_vars(WriteOk) /\ WF_vars(WriteFail)
  /\ WF_vars(ConnectOk \/ ConnectFail)
  /\ WF_vars(PeerAnswersFin)

Spec == Init /\ [][Next]_vars
FairSpec == Spec /\ Fairness

-----------------------------------------------------------------------------
(* Properties.                                                             *)

\* tick_alive kicks a connection whose peer has been silent longer than the
\* keep-alive timeout: while CONNECTING, the time since the last read never
\* exceeds the timeout by more than one keep-alive period (the ticks between
\* two effective ones).
IdleSessionKicked ==
  state = "CONNECTING" => recvAge <= TimeoutMs + EffectiveEvery * TickMs

\* The keep-alive frame of tick_alive refreshes the peer's receive time soon
\* enough: while CONNECTING, this side never stays silent for a whole
\* keep-alive timeout, so a peer with the same configuration never idles it out.
KeepAliveInTime ==
  state = "CONNECTING" => sendAge <= TimeoutMs

\* A failed AAA handshake (verify_authentication -> echo_authentication_res)
\* always ends the connection: while it is still CONNECTING, either the
\* failure answer whose callback kicks is still being written, or a close
\* job is queued on the strand.
FailedAuthIsClosing ==
  (auth = "VERIFY_FAILED" /\ state = "CONNECTING")
    => (\E i \in 1..Len(writes) : writes[i]) \/ closeQ # <<>>

\* A graceful close (kick -> shutdown of the sending side) completes: once
\* the peer answers with its FIN, the session reaches CLOSE_DONE.
GracefulCloseCompletes == state = "TO_CLOSE" ~> state = "CLOSE_DONE"

\* Frames try_copy_to_storage refused are never stranded: while a buffered
\* session is CONNECTING and holds complete frames in _recv_not_entire, a
\* live 100 ms _timer wait will retry them, or a wait that expires_from_now
\* aborted will run its handler (close), or a close job is queued.  A
\* refused frame whose timer re-arm cancelled the earlier wait must leave
\* a wait of its own behind.
HeldFramesRetried ==
  (logic = "buffered" /\ state = "CONNECTING" /\ buffered > 0)
    => retryOk = 1 \/ retryAborted > 0 \/ closeQ # <<>>

\* A connection the peer resets while CONNECTING always ends: the read that
\* async_recv_loop keeps outstanding completes with an error, its handler
\* posts close(false), and the close job runs however many handlers it
\* still re-arms, so the session reaches CLOSE_DONE.
ResetEndsSession == (peerRst /\ state = "CONNECTING") ~> state = "CLOSE_DONE"

\* At most one async_read_some is outstanding on the socket: two reads on
\* the same buffer would land bytes at stale offsets.
SingleRead == reads <= 1
=============================================================================
