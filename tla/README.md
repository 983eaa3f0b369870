# TLA+ models of AsioNetMiddleware

This directory holds TLA+ models of the TCP gateway in `src/AsioNet`, checked with TLC.
Every action is translated from the C++ source. `PROJECT.json` maps each definition to the
lines it models, and lists the runs, mutants, findings and hazards.

## 1. The system

### Components and their state

| component | source | state it keeps |
|---|---|---|
| connection (`basic_async_session`) | `basic_async_session.{h,cpp}` | `_state` (INIT, WAIT_CONNECT, CONNECTING, TO_CLOSE, CLOSE_DONE); the socket; `_recv_not_entire` (the reassembly buffer); `_timer` (the storage-full retry); `_tick_timer`; `_keep_alive_frame_count`; `_last_recv_time` / `_last_send_time`; `_uuid = clock()`; `_logic` |
| default logic | `default_session_logic.cpp` | `_seq` (receive counter); `_authentication`; server info; rc4 key |
| server logic | `server_session_logic.cpp` | `_seq`; server info |
| client logic | `client_session_logic.cpp` | `_seq`; rc4 state; target server uid |
| manager | `proxy_manager.cpp` | three `SafeHashMap<uid, session>` tables: unmanaged, client and server; the acceptor; the cleanup timer |
| SafeHashMap | `parallel_core/SafeHashMap.hpp` | an `unordered_map` behind a recursive mutex, read by double-checked locking |
| frame header and mask | `protocol.hpp`, `proto_mask.hpp` | none (pure functions): an 11-byte packed header and a one's-complement 16-bit checksum |
| ring buffer | `parallel_core/RingBuffer.h` | the read and write indices of an SPSC byte ring |
| active / inner sessions (TestClient) | `active_server_session_*.cpp`, `inner_*.cpp` | a session that connects out; its logic puts frames into a shared ring buffer, which may be full |
| strand executor | `async_job.{h,cpp}` | a pool of asio strands; a session gets strand `uid % n` |
| object pools and thread caches | `parallel_core/ThreadSafeObjectPool.h`, `ThreadCacheContainer.h`, `ObjectPool.h` | per thread id, an `ObjectPool` (a `std::stack` behind a spinlock) kept in a `ThreadCacheContainer` map; `get_shared` hands out a `shared_ptr` whose deleter returns the object to the pool of the thread that took it |
| threads | `parallel_core/ThreadWrapper.cpp`, `ParallelUtils.h` | a thread registers an exit listener per cache it created; at exit, `beforeDestroyThread` calls each, and the cache deletes that thread's pool |

### Operations and how they interact

**Accepting a connection.** The acceptor creates a session with the default logic. It then:
1. inserts the session into the unmanaged table;
2. starts its read loop (`passively_connect_succ`) and its keep-alive tick (`start_tick`);
3. accepts again.

**Reading frames.** Each read completion does three things:
1. appends the bytes to the reassembly buffer;
2. extracts whole frames (`pick_entire_msgs`), handing each to the logic (`unwrap_received_data`, then `try_copy_to_storage`);
3. starts the next read.

If storage is full, the frame stays buffered and `_timer` retries after 100 ms.

**Authentication handshake.** The default logic runs it on the first frame:
1. `verify_authentication` calls the manager;
2. the manager either fails the handshake or promotes the session, moving it from unmanaged to the server or client table and replacing its logic;
3. the answer goes back with `async_send`. A failed answer's write callback kicks the session.

**Closing.** `close(elegantly)` posts a job to the session's strand. That job cancels both timers and then either:
- shuts down the sending side (state TO_CLOSE), or
- closes the socket (state CLOSE_DONE).

**Keep-alive tick.** `fixed_tick` runs every tick interval. On every (precision/tick)-th tick it calls `tick_alive`:
- a peer silent for longer than the timeout is kicked;
- if this side has been silent for longer than timeout − 2000 ms, an empty frame is sent.

**Routing.** A server logic routes frames to the client table (`send_to_client`). A client logic routes frames to the server table. A unicast frame's first four payload bytes are the target uid, read big-endian (`read_uint32`). The client table is always empty in this code, because `move_client_available` is reachable only through `complex_operation`, which never calls its handler. So `send_to_client`'s `try_get` finds no session, and the frame is dropped.

**Cleanup.** Every 3 s, `clean_up_closed_session` should sweep closed sessions out of the client and server tables.

**Buffers.** Every `RING_BUFFER_POOL`, `TEMP_BUFFER`, `LOCK_FREE_BUFFER` … is `get_shared()` on a pool singleton:
1. `getThreadCache(id)` tests `HAS_KEY` without the lock; a miss creates a pool under `_mut`, registers an exit listener and inserts it (a refused insert deletes the new pool); a hit reads `_threadIdMap[id]`;
2. `ObjectPool::get` tests `_pool.size()` without the spinlock, then allocates or pops under it;
3. the `shared_ptr`'s deleter, on whichever thread drops the last reference, pushes the object into the taker's pool.

The id is the thread id on Windows and `getpid()` on Linux, so on Linux every thread shares one pool.

### The hard behaviours

- Each session's handlers run one at a time on its strand, but different sessions run in parallel.
- The manager's tables are shared by all lanes. A promotion is several separately locked steps.
- Timers race with reads and close jobs. A cancelled wait still runs its handler, with `operation_aborted`.
- The peer can send, shut down its sending side, or reset the connection at any time.
- `async_send` is called from other lanes, outside the target session's strand.
- A pooled buffer is released on whichever thread drops it, into a pool its owner's exit may be deleting.
- TestClient's ring buffer is shared by a session strand (producer) and the game thread (consumer) with no lock and no atomics. Each index moves in two stores.

### What makes each component correct

- **Connection:**
  - an idle peer is kicked within one keep-alive period of the timeout;
  - this side sends a keep-alive before the peer's own timeout;
  - a failed handshake ends the connection;
  - a graceful close completes;
  - one read is outstanding at a time, and frames are processed in order.
- **Manager:**
  - a uid is in exactly one table;
  - only a session that authenticated in a role is in that role's table;
  - every EC_Success answer is routable;
  - closed sessions are swept.
- **Wire protocol:**
  - sequence numbers strictly increase per direction;
  - the mask of a framed header and payload checks to zero.
- **Ring buffer:** reads never pass writes; `full` and `empty` agree with the stored count.
- **Object pool:** an object is handed out to at most one holder and is never both pooled and in use; a thread's exit finds the cache it registered for.

## 2. Modules

| module | models | notes |
|---|---|---|
| `AsyncSession` | one `basic_async_session` and its TCP peer | the payload is whole frames; the session logic, `"default"` (gateway) or `"buffered"` (active/inner sessions with a ring buffer that may be full), is chosen at `Init` from the constant set `Logics` and never changes, as `_logic` is fixed when the session is built |
| `MCAsyncSession` | constants for TLC | tick 500 ms, timeout 3000 ms, precision 1000 ms, prediction 2000 ms, 2 frames from the peer, at most 2 queued close jobs, writes, aborted waits and reads |
| `ProxyManager` | `proxy_manager` and its SafeHashMap tables, the default logic's call into `verify_authentication`, the session executor's strands (`async_job`) and `stop_proxy` | sessions are model values; the session lifecycle is abstracted to none, open or closed; each session runs on one of `Lanes` strands |
| `MCProxyManager` | constants for TLC | 3 sessions, uids 1..3, link types {0, 1, 8, 9}, 2 strands, symmetry over sessions |
| `ByteQueue` | the abstract specification of the ring buffer: a FIFO of at most Cap − 1 bytes | `in` is the last accepted block, `out` the last block read |
| `RingBuffer` | `parallel_core::RingBuffer<unsigned char>` with `ALLOW_BLOCK_COPY`: its state, `count()`, `full()`, `empty()` and `clear()` | used by `RingBufferSPSC` and `Storage` |
| `RingBufferSPSC` | the ring shared by one producer and one consumer thread | each operation is three steps of its thread: checks and copy, `+= length`, `%= _capacity`; checked against `ByteQueue` under the mapping queue ↦ the bytes between the reduced indices |
| `MCRingBuffer` | constants for TLC | capacity 5, bytes {a, b}, blocks of 1..2 bytes, 8-bit size_t |
| `Storage` | TestClient's storage paths: the strand's `try_copy_to_storage` and the game thread's `pick_msg` over a `RingBuffer`, for the active client and for the inner pair (`pair`, fixed at `Init` from `Pairs`) | each `tryWrite` / `tryRead` is a step; a byte is a token naming its frame, field and offset |
| `MCStorage` | constants for TLC | both pairs, 2 frames of 1..2 payload bytes, capacity 16, garbage lengths {0, 1, 3}, initial `_already_read_length` (or pooled head `len`) ∈ {0, 3} |
| `ProtoMask` | `protocol_head::get_a_head` as its 11 packed little-endian bytes, `unpack_head` and `get_cmd` reading them back, `proto_mask::get_mask`, and the AAA request / response `pack` and `unpack` of `protocol.hpp` | operators only; `get_mask`'s word loop is the RECURSIVE `SumFrom`; big-endian fields are `write_uint16` / `write_uint32` |
| `WireSeq` | the link from the active game server (A) to the gateway's session for it (G): A's `_seq`, AAA request and keep-alives, the game thread's `send`; G's default then server logic | a frame on the wire is its header bytes followed by its payload; G reads the header back with `unpack_head` |
| `MCWireSeq` | constants for TLC | 2 game sends, 1 keep-alive, verdicts ok / fail, payloads ⟨255, 255⟩ and ⟨1⟩, a 10-byte rc4 key, stale bytes ⟨0, 0⟩ and ⟨255, 255⟩ |
| `ThreadSafeObjectPool` | `ThreadSafeObjectPool::get_shared` and its deleter, `ThreadCacheContainer`, `ObjectPool`, and a thread's exit through `ThreadWrapper` | `ThreadId` maps each thread to its cache key: the identity (Windows) or one pid (Linux); a `_mut` section is one step up to the `_mapMut` it takes inside, and a thread's exit holds `_mapMut` across its `_mut` sections; each pool's `Spinlock` is its lock word `locked` and its `owner` |
| `MCThreadSafeObjectPool` | constants for TLC | 3 threads, 2 objects, at most 4 pools ever created, symmetry over objects and threads |

### How AsyncSession corresponds to the code

Each action is one whole handler on the strand:

| action | handler |
|---|---|
| `Accept` | the acceptor's callback: `passively_connect_succ` + `start_tick` |
| `AsyncConnect`, `ConnectOk`, `ConnectFail` | `async_connect` and its callback |
| `ReadData`, `ReadError` | the read completion, including `pick_entire_msgs` and the next `async_recv_loop`. On an error the handler posts `close(false)` and does not return. |
| `RunClose`, `RunCloseNoop` | the posted close job |
| `Tick` | `fixed_tick` and `tick_alive` |
| `RetryFire`, `RetryAbort` | the `_timer` wait handler, without and with an error |
| `WriteOk`, `WriteFail` | the write completion |

Modelling choices:
- `closeQ` is the strand's FIFO of posted close jobs.
- A tick only runs when `closeQ` is empty. The strand runs a job posted before the tick expired first, and a tick is 500 ms, while a job runs in microseconds.
- Ages are capped at timeout + precision + tick: past that, no guard tells them apart.
- `UpdateRecvTime`, `UpdateSendTime` and `ClearAllTimer` are the session's helpers, used inside the handlers that call them. `ClearAllTimer` cancels the retry timer, so a pending retry completes with an error (`retryAborted`).
- `_keep_alive_frame_count` is an `int` that is never initialised, and `is_tick_frame_effective` reads and writes it through a `uint64_t*`, together with the four padding bytes after it. The first increment therefore starts from any value, and `Init` starts the counter at any residue.
- `PickBuffered` is the retry path of `pick_a_entire_msg`: a refused frame calls `_timer.expires_from_now`, which aborts the wait already armed (it moves to `retryAborted`), and then issues a wait of its own.
- `ASSUME TickMs <= PrecisionMs` excludes the configuration in which `is_tick_frame_effective` divides by zero.

### How ProxyManager corresponds to the code

- **SafeHashMap operators, as the code behaves:**
  - `Insert` refuses a present key;
  - `Erase` has the inverted guard, so it never removes;
  - `TryGet` is `try_get`, which `move_server_available` uses to find the session;
  - `ComplexOperationFinds` is always FALSE, because `complex_operation` never calls its handler.
- **Actions:**
  - `Accept` is `accept_a_session`'s callback;
  - `VerifyAAA` with `StartsPromotion` is the first AAA frame through `default_session_logic::verify_authentication` into the manager's `verify_authentication`;
  - `MoveServerAvailable` is `move_server_available` followed by the success answer.

  The check (`contains_key`) and the move are separate steps, so handshakes on different strands interleave between them.
- **Strands:** a session's handlers run on `_strands[uuid % n]` of the session executor (`AgentStrand`), where the job agent's uuid is `clock()` plus a counter, so any strand is possible (`Accept` draws it). A strand runs one handler at a time: `VerifyAAA` and `Close` wait while another session on the same strand is inside its handshake (`StrandIdle`).
- **`stop_proxy`:** `AcceptError` is `accept_a_session`'s callback with an error. It stops both executors (`stopped`), after which no handler starts; a promotion already running finishes.
- **Sweep:** `CleanUpClosedSession` changes nothing, because the sweep goes through `complex_operation`. It is a stuttering step and is not part of `Next`.
- **Uids:**
  - `UidsMayCollide = FALSE` models distinct `clock()` readings;
  - `TRUE` lets two sessions built in one tick share a uid.

### How RingBuffer corresponds to the code

- `Count`, `Full` and `Empty` are `count()`, `full()` and `empty()`. `empty(del)` computes `count() - del <= 0` in size_t, which is true only when `del` equals `count()`; `Empty` computes it modulo 2^SizeBits.
- In `RingBufferSPSC`, `TryRead` is refused only when `empty()`; it never compares the length with `count()`. `TryWrite` is refused when `full()` or when the block would leave no free slot. `TryReadShift` is guarded by `empty(length)`, `TryWriteShit` by `full(length)`. Refusals change nothing and are left as stuttering steps.
- Each of these steps takes the operation's checks and its copy loop together. The checks read the other thread's index, and between two checks the other thread can only make them pass more easily. The slots copied are ones the other thread leaves alone until the index store publishes them.
- `AddWriteIndex` / `AddReadIndex` are the `+= length` stores, and `ModWriteIndex` / `ModReadIndex` the `%= _capacity` stores. The indices are plain `size_t`, so these are data races. An unoptimised build makes the two stores separately; a build that fuses them shows a subset of these behaviours.
- The refinement mapping counts the stored bytes from the reduced indices with exact arithmetic. A wrong `count()` therefore shows up only when it leads to a byte overwritten or lost.
- `Init` is the buffer as `LOCK_FREE_BUFFER` hands it out: from the pool, then `clear()` (`Clear`). `clear()` has no other caller, so it is part of `Init` rather than an action; `Storage`'s `Init` uses it too.
- In `RingBufferSPSC`'s `Next` the producer and consumer keep the contract the class expects: a read never asks for more than `count()` bytes. `Storage` drops that assumption and uses the buffer the way TestClient's code does.

### How Storage corresponds to the code

- `CopyToStorage` is the `full(8 + length)` check of `active_server_session_logic::try_copy_to_storage`. `WritePart` is one of its four `tryWrite` calls (uid, cmd, length, payload), each ignoring a refusal.
- `PickBegin`, `ReadHeaderField` and `PickBody` are the three parts of `active_server_session_mgr::pick_msg`:
  - the entry test `_already_read_length != 0` (inverted in the code) and `empty(8)`;
  - the three header `tryRead` calls;
  - `empty(len)`, the body `tryRead`, the return and the reset.
- The manager is built with `new T`, which leaves `_already_read_*` uninitialised, so `Init` picks `_already_read_length` from `InitLens`.
- Only frames `inner_session_logic::unwrap_received_data` accepts reach the storage: a length of 0 is refused (`UnwrapAccepts`), so `Init` draws payload lengths from 1..MaxPayload.
- A field decoded from bytes that are not that field of one frame is garbage. The uid and cmd become 0, and the length is any member of `GarbageLens`.
- **The inner pair.** `inner_session_logic::try_copy_to_storage` checks `full(PROTO_HEAD_SIZE + length)` and writes the 11-byte header, then the payload (`HeaderSize`, the `head` part). `inner_pair_session::pick_msg` is three actions:
  - `InnerPickBegin`: with a head kept from an earlier call, go to the body; otherwise return if `empty(PROTO_HEAD_SIZE)`. With a count of 0, this `empty` wraps in size_t and is false.
  - `InnerReadHead`: `HEAD_FROM_POOL`, then `tryRead` of the header. A refused read (the ring is empty) leaves the pooled head's stale `len`, drawn from `InitLens`.
  - `InnerPickBody`: the body `tryRead`, guarded only by `empty()`; the head is copied out and reset. `pick_msg` returns false either way, and `got` records what it copied out.

### How WireSeq corresponds to the code

- **Sending.** `async_send` on a thread is three steps:
  - `AsyncSend` checks CONNECTING and loads `_seq` and `_authentication`;
  - `StoreSeq` stores the loaded value + 1;
  - `IssueWrite` frames with that value (`get_a_head`, `get_mask`) and issues the write.

  The strand (`ConnectCallback` with the AAA request, `KeepAlive`) and the game thread (`GameSend`, from `active_server_session_mgr::send`) both call it, with no lock. Interleaving the steps gives the outcomes of that data race.
- **Receiving.** `GRead` is one frame through G's current logic:
  - `pick_a_entire_msg` reads the header back from the first 11 bytes (`FrameHead`, `unpack_head`) and takes `len` bytes of payload (`FrameData`);
  - the `++_seq` comparison and the mask check (`MaskCheck`, the gateway's `get_mask` over the received header bytes);
  - the handshake's test of the command is `get_cmd` of the received header (`GetCmd`);
  - in the default logic, the first valid frame runs `verify_authentication`: a success promotes G to the server logic, which inherits `_seq` (`InheritSeq`), and answers EC_Success; a failure answers EC_ServerNotFound;
  - a frame with a bad number or mask is dropped without closing.
- **Routing.** Once G runs the server logic, `GRead` routes each frame as `try_copy_to_storage` does (`Routed`): the target is `read_uint32` of the first four payload bytes (`ReadBE32`), and the rest is the data. `send_to_client` looks the target up in the client table, which is always empty (`ClientSessions`), so `sent` is FALSE. A never frames a BroadCast, so only the unicast branch is modelled.
- **Closing and answers.** `GKick` is the failed answer's write callback. `RecvResponse` is A's `check_verify_res`: `authentication_aaa_response::unpack` (`AAAResponseUnpack`), then the test of `ec`, which is inverted. `unpack` sets `key_len = length - 11`, so it takes one byte fewer than the key G packed; it still reads `link_no` at the right offset.
- **The AAA frames.** `ConnectCallback` sends `authentication_aaa_request::pack` of the announced server (`AAARequestPack` of `ServerInfo`, the manager's `get_server_info` with link type ACTIVE_GAMESVR); `Rc4Info` is the constraint the configured rc4 parameters meet; G's handshake reads it back with `unpack` into `gInfo`. The answer is `authentication_aaa_response::pack` with the rc4 key (`Answer`). That `pack` reports `key_len + 10` bytes but writes `key_len + 8`, so `Answer` sends two stale bytes of the pooled buffer after it (`StaleBytes`); the mask is computed over them too.
- **Game before AAA.** `GameSend` may run as soon as the session is CONNECTING, before `ConnectCallback`. Its frame then takes number 1 and G parses its payload as the AAA request (`verified = "data"`) and refuses it.

### How ThreadSafeObjectPool corresponds to the code

Each thread runs one operation at a time, as a program counter through its steps:

| action | code |
|---|---|
| `StartGet`, `StartRelease` | `get_shared` and its deleter's `getThreadCache(pid)` |
| `HasKey` | the unlocked `HAS_KEY` test of `getThreadCache` |
| `CreateCache` | `lock_guard` on `_mut` (`mut`), a new pool, and the insert |
| `Register` | still under `_mut`: `registerListener` (`RegisterListener`) waits for `_mapMut` (`mapMut`); then a refused insert deletes the new pool and uses the present one; `_mut` is released |
| `ReadCache` | the unlocked `_threadIdMap[threadId]` after a hit; if the entry was erased meanwhile, `operator[]` inserts and returns NULL (fault `null_cache`) |
| `CheckSize` | `ObjectPool::get`: the unlocked size test; `new T` when empty |
| `Lock` | `Spinlock::lock`: the compare-and-swap loop waits for `locked` to be FALSE, then sets it and stores the owner (one step: only the holder stores or unlocks) |
| `Top`, `Pop` | `ObjectPool::get` under the lock: `top()` (an empty stack is `empty_pop`), then `pop()` and `Spinlock::unlock` |
| `Push` | `ObjectPool::release` under the lock: the push, then `Spinlock::unlock` |
| `Unlock` | `Spinlock::unlock`: releases only if the lock is held and the caller is its owner |
| `Exit` | `beforeDestroyThread` locks `_mapMut`; with no listener for the id the thread ends at once |
| `ClearListener` | under `_mapMut`, one registered `onThreadClear` (`OnThreadClear`), which waits for `_mut`: it deletes the pool (`clear` frees the pooled objects; it takes the spinlock, so it waits for a thread inside `get` or `release` of that pool) and erases the entry, or finds none and reaches `assert(false)` (`asserted`); after the last one `_mapMut` is released |

A deleted pool used again is the fault `use_after_free`; a `pop` of an empty stack is `empty_pop`. A faulting thread stops.

The two mutexes are taken in opposite orders (`_mut` then `_mapMut` in `getThreadCache`, `_mapMut` then `_mut` at exit). `NoMutexCycle` says no two threads wait on each other that way. It does not hold: with `INVARIANT NoMutexCycle` in place of the others in `MCThreadSafeObjectPool.cfg`, TLC finds the cycle in 10 steps. t1 creates its cache, t2 starts its first one and holds `_mut`, then t1 ends and takes `_mapMut`. No run states it, because the project is at its run limit; the pool runs do not check deadlock. `SafeSingleton::instance`'s `call_once` is `Init`: one pool object for the process.

### Plan for the next sittings, most important first

1. **Reassembly.** TCP segments through `pick_a_entire_msg`, including partial writes (`async_write_some` lengths ignored). The header decoding is already in `WireSeq`. What is missing is the split of the byte stream into reads, and a run of its own for the loss a partial write causes.
2. **Routing into live sessions.** Unicast routing is in `WireSeq`. What remains is composing it with `ProxyManager`'s tables and `async_send` from foreign lanes. That only matters once a client can be promoted, which this code never does.
3. **Pool faults as runs.** `null_cache`, `use_after_free` and the mutex cycle (`NoMutexCycle`) are reachable in `ThreadSafeObjectPool` but no run states them.
4. **A passing ring check.** With each index moved by one store (an optimising build), `RingBufferSPSC` could be checked to refine `ByteQueue`. That needs a constant for the build and a run slot.

## 3. Runs

| run | cfg | expect | shows |
|---|---|---|---|
| `session` | `MCAsyncSession.cfg` | pass | For a gateway session and for a buffered one (`Logics` holds both), `IdleSessionKicked` (recvAge ≤ timeout + one keep-alive period while CONNECTING), `KeepAliveInTime` (sendAge ≤ timeout while CONNECTING) and `FailedAuthIsClosing` (a failed handshake still CONNECTING has a kicking write or a close job pending) hold. `HeldFramesRetried`: while a buffered session is CONNECTING with complete frames that storage refused, a live retry wait, an aborted wait whose handler will close, or a close job is pending; a re-arm that cancels the earlier wait always leaves a wait of its own (the mutant that re-arms the expiry without `async_wait` breaks it). `ResetEndsSession` (liveness): a peer reset seen while CONNECTING always ends in CLOSE_DONE, although the read handler re-arms a read after the error (a read error that does not close breaks it). This covers every peer behaviour within the bounds, and for the buffered logic the storage-full retries, their cancellation, the double reads and the connect path. Deadlock is not checked: a connector whose connect failed really stops. |
| `graceful_close` | `MCGracefulClose.cfg` | violation | `GracefulCloseCompletes` fails. A peer frame read after `kick()` ends the read loop, so the peer's FIN is never read and TO_CLOSE lasts for ever, even though the peer answers with a FIN. |
| `double_read` | `MCSingleRead.cfg` | violation | `SingleRead` fails. The retry timer starts a second read while one is outstanding. |
| `manager` | `MCProxyManager.cfg` | pass | With distinct uids, `SuccessIsRoutable` holds under handshakes interleaved across two strands, including an accept error that stops the proxy. |
| `uid_collision` | `MCUidCollision.cfg` | violation | `PromotedAuthenticated` fails. Colliding `clock()` uids promote a session that never authenticated. |
| `ring_race` | `MCRingBuffer.cfg` | violation | `RefinesByteQueue` fails in 25 states. The consumer reads 2 bytes straddling the end: `_readIndex += 2` makes it 6 (capacity 5), and it has not yet reduced it. The producer wraps `_writeIndex` to 0. Its `count()` computes 0 − 6 + 5 in size_t, below zero, and the result modulo 5 is 0, although 4 bytes are stored. Its next `tryWrite` of 2 bytes is accepted and overwrites an unread byte. With 64 bits and the real 10 MiB capacity (5·2^21, which does not divide 2^64), `count()` is off in the same way. |
| `storage_pick` | `MCStorage.cfg` | violation | `PickedInOrder` fails for both pairs; TLC reports the shorter active trace (5 states). With `_already_read_length` 0, the active pair's inverted test skips the header, and the first poll after any byte is stored returns a zero-length frame with uid 0 that was never sent. Every later header is then read as payload. The inner pair fails in 6 states. Polling an empty ring passes the wrapped `empty(11)`, keeps a pooled head with a stale length 0, and copies out a zero-length frame once a header is stored. |
| `wire_seq` | `MCWireSeq.cfg` | pass | `MaskRoundTrip`: every frame A framed passes G's mask check. `ConsecutiveFramesDelivered`: whenever A's frames reach the wire numbered 1, 2, 3, … in order, no game frame sent after A had G's answer is dropped by an authenticated G. This is true across the default-to-server logic handover. `AnnouncedInfoRegistered`: when G parsed A's AAA request, it registered the area, server, link type and platform A announced. `RoutedToTargetAfterAAA`: once G parsed the real AAA request, every frame it routed went to the uid the game thread named, with that payload (a mutant framing the uid little-endian breaks it). `HandshakeAnswered` (liveness): as long as A's frames reach the wire in order, A leaves BEFORE_VERIFY. |
| `wire_race` | `MCWireRace.cfg` | violation | `LateFramesDeliveredAfterAAA` fails in 13 states. G has answered A's real AAA request (seq 1). A keep-alive on the strand and a game send then take numbers 2 and 3, but the game's write reaches the socket first. G's `++_seq` comparison drops the game frame, then drops the keep-alive, and does not close. Its count is back in step from frame 4 on. A swapped pair loses both frames; only two sends that store the same number put every later frame off by one. |
| `pool_cache` | `MCThreadSafeObjectPool.cfg` | pass | With Windows thread ids, `ExclusiveHandout` (no object is in two places among the pools, the holders and the pending deleters, and a freed object is nowhere) and `ClearFindsCache` (no `onThreadClear` reaches `assert(false)`) hold, across deleters racing their owner's exit and duplicate cache creation. Deadlock is not checked: every thread may end, and the `_mut`/`_mapMut` cycle is a reachable deadlock. |
| `game_first` | `MCGameFirst.cfg` | violation | `RoutedToTarget` fails. A game send between the connect and its callback takes number 1. G's handshake parses its payload as the AAA request and promotes, and then routes A's real AAA request to client uid `read_uint32(0, 1, 0, 2)` = 65538. |
| `pool_linux` | `MCPoolLinux.cfg` | violation | `GetPopsPooledObject` fails. With `getpid()` as the id all threads share one pool; two gets pass the unlocked size test for one pooled object and the second pops an empty `std::stack`. |

### Bounds

- **Peer frames (AsyncSession).** Two frames let a frame arrive before and after a kick, and let the retry path buffer one frame while another arrives.
- **Ticks per effective tick.** With a 500 ms tick and 1000 ms precision, every second tick is effective, so the late detection that `IdleSessionKicked` allows is reached.
- **Queues.** A queue bound of 2 is the smallest that holds a close job behind another, or a keep-alive behind a handshake answer.
- **Sessions (ProxyManager).** Three sessions give two concurrent handshakes plus a third accepted during them. With two strands, two of the three sessions share one, so both the serialised and the interleaved cases occur.
- **Ring capacity 5, blocks of up to 2 bytes (RingBuffer).** The indices wrap more than once, a block can straddle the end of the array, and a block can be refused with free slots left. An 8-bit size_t is wider than twice the capacity, so `count() - del` wraps exactly as it does with 64 bits. Like 2^64 for the real capacity, 2^8 is not a multiple of 5, so a negative difference in `count()` gives a wrong count, as it does in the program.
- **Capacity 16, 2 frames (Storage).** A frame is 9 or 10 bytes (12 or 13 for the inner pair), so both fit, and the consumer can overtake the producer at every field. Garbage lengths 0, 1 and 3 cover an empty, a short and a long body.
- **2 game sends and 1 keep-alive (WireSeq).** The race needs two sends on different threads after the AAA request. The payload ⟨255, 255⟩ makes the checksum carry; ⟨1⟩ has odd length.

- **3 threads, 2 objects, 4 pools (ThreadSafeObjectPool).** Two threads releasing into a third's cache while it exits need three threads, and two objects for the third to have handed out both. A third object multiplied the states twentyfold with nothing new (5.2 million against 246 thousand). Four pool creations allow a duplicate creation and a re-creation after an exit. Objects and threads are symmetric: nothing but their identity distinguishes them, and on Windows a thread's id is itself.

The `pool_cache` mutant of `ExclusiveHandout` is a `Lock` that does not wait for the lock word: two threads then `top()` the same object. The WireSeq mutants also fail within these bounds: an unpacked header, a server logic that restarts `_seq`, and a uid framed little-endian.

### Fairness

- **AsyncSession:**
  - every completion and every strand job is weakly fair: asio runs what is ready;
  - the ticking timer is weakly fair;
  - the only thing assumed of the peer is that it answers this side's FIN with its own, as this repository's sessions do (EOF leads to `close(false)`).
- **WireSeq:** the connect, the connect callback, each thread's `StoreSeq` and `IssueWrite`, G's reads, A's reading of the answer and G's kick are weakly fair: each is an asio completion or the rest of a call a thread is in. A game thread is not required to send.
- **ThreadSafeObjectPool:** only safety is checked, so no fairness.
- **ProxyManager:**
  - accepts and the second step of a promotion are weakly fair;
  - closing is not assumed, since it is up to peers and timers.

## 4. Not modelled

Out of scope, with reasons:
- **Logging (WLog):** `LOG_CONSOLE` is 1 in `LogUtils.hpp`, so `LOG` and `LOG_NON_SENSITIVE` write to the console and never call `WLog::Trace`. Both mains call `Init` with `bUseWorkThread` false, and the singleton is never destroyed. The work thread, its content lists and `StopWorkThead` are therefore never run.
- **JSON configuration, random:** I/O and data with no protocol state. The thread wrapper, spinlock and singleton appear only as parts of `ThreadSafeObjectPool` (exit listeners, `Lock`/`Unlock`, `Init`).
- **`cal_server_uid`:** it hashes only the first character of the server name, but the lookup that would use it goes through `complex_operation`, which never runs its handler, so no collision is observable.
- **rc4 and gzip:** data transformations. The rc4 fields G packs into its AAA answer (`MCRc4`) are concrete bytes only because `MaskRoundTrip` checks A's `get_mask` over that answer, and bytes up to 255 make its carry folds happen; no cipher is modelled.
- **Object pools, unused parts:** `get`/`release` without `shared_ptr` and `clearCache` have no caller; `clearUnusedThreadCache` runs only in the static destructor; `_count` is never read.
- **Unlocked `HAS_KEY` reads in SafeHashMap:** a memory-level data race below the abstraction of tables as functions.
- **Job agents as pooled objects:** a recycled `job_agent` keeps the `_owner` executor of its previous session, because `get_shared` constructs only when the pool is empty. In the gateway, all session agents share the one session executor, so `ProxyManager` only draws a strand per session.
- **`async_send_multi`'s buffer list:** it assigns braced lists to a `std::initializer_list`, whose backing array dies at the end of the assignment, so the write is handed a dangling array. That is object lifetime, below what any module represents. The gateway reaches it only from the broadcast branch, and nothing in the repository sends a broadcast.
- **Partial writes:** `async_write_some` may write part of a frame, and its callback ignores the length. No module has a byte stream between two sessions (`WireSeq` moves whole frames), and the loss would need a violation run of its own.

Unreachable:
- **Client session logic:** client authentication always fails in this code, because `complex_operation` never calls its handler. `move_client_available`, `send_to_server` and `send_to_server_multi` are reached only from it.
- **`kick_one_client`, `kick_server_peer` and `client_session_logic::kick_peer`:** no caller in the repository reaches them.
- **The gateway's broadcast branch:** `server_session_logic::try_copy_to_storage` reads the target count from the payload and copies `length - (2 + 4 * size)` bytes without checking it against the length. Nothing in the repository frames a `Commands_BroadCast` frame, so a peer of this code never reaches it.
- **`send_confirm_connect`:** the gateway's only call is on client promotion. It sets `len` to `length + 15`, while the mask covers `length + 4` bytes.

Modelled without a run, because nothing in the repository observes them:
- **`check_verify_res` inversion** (`RecvResponse`): the active logic only ever tests BEFORE_VERIFY afterwards.
- **The gateway's wraps send `_seq` without incrementing it:** neither the active nor the inner logic checks `head->seq`.

- **Pool faults `null_cache` and `use_after_free`:** reached by `ThreadSafeObjectPool` (a deleter reading a cache its owner's exit erased, or pushing into the pool that exit deleted), but no run states them; the runs are spent on the exclusive handout and the Linux empty pop.
- **The AAA answer's length:** `key_len + 10` reported, `key_len + 8` written. A's `unpack` then takes `key_len - 1` bytes of key (`AAAResponseUnpack`). A uses only `ec`, so nothing observes the short key.
- **`clear()`'s unlocked window:** `ObjectPool::clear` drops the spinlock around each `delete`, so a deleter could push into the pool between two passes. `DeletePool` is one step, so that window is not explored.
- **The inner pair's acceptor has no storage:** `inner_pair_session`'s acceptor branch never calls `share_storage`, so `_storage` is null and its first `try_copy_to_storage` dereferences it. `Storage` models the connector's side only.
- **The retry timer's re-arm closing a healthy connection:** when `_timer.expires_from_now` cancels an armed wait, that wait's handler runs `close(false)` (`RetryAbort`). spec.md describes the retry as continuing on the same connection. `AsyncSession` reaches this; `HeldFramesRetried` checks only that the refused frames keep a retry behind them.
- **`stop_proxy` on one accept error** (`AcceptError`): it stops every session, not only the acceptor. It is the code's chosen behaviour, so no property states it.
- **SafeHashMap's inverted erase guard, and the sweep that never removes:** `ProxyManager`'s `Erase` models the guard, and `CleanUpClosedSession` is a stuttering step. No run states either: the runs that did were retired when the pool and routing runs were added.

Known divergence without a run:
- **The mask:** `get_mask` folds the header and the payload separately, so a header of odd length pads before the payload. spec.md describes one sum over their concatenation. The header is 11 bytes, so the two differ. Both ends of this repository use the same code.
