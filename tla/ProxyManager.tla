---------------------------- MODULE ProxyManager ----------------------------
(***************************************************************************)
(* The gateway's routing / authentication manager                          *)
(* (src/AsioNet/AsioNet/proxy_manager.cpp) over its three SafeHashMap      *)
(* tables (parallel_core/SafeHashMap.hpp), and the AAA handshake of        *)
(* default_session_logic that calls it.                                    *)
(*                                                                         *)
(* A session is a model value; its lifecycle is abstracted to none / open *)
(* / closed (module AsyncSession has the details).  Its uid is clock() at  *)
(* construction: two sessions built within one clock tick share it, which *)
(* the model allows when UidsMayCollide is TRUE.  Each session runs its   *)
(* handlers on the strand its job_agent picked (async_job.h), one of Lanes *)
(* strands of the session executor; handshakes of sessions on two strands  *)
(* interleave between the manager's separately locked table operations.    *)
(***************************************************************************)
EXTENDS Integers, Functions, TLC

CONSTANTS
  Sess,            \* sessions the acceptor creates
  Uids,            \* values clock() may return
  LinkTypes,       \* link_type values a peer may put in its AAA request
  UidsMayCollide,  \* TRUE: clock() may return the same value twice
  Lanes            \* proxy_config::session_thread_num_: the executor's strands

\* session_logic_interface::SessionType
CLIENT_PROXY == 1
MULTI_SESSION_BEGIN == 8

VARIABLES
  life,       \* none (not yet accepted), open, closed
  uid,        \* basic_async_session::_uuid
  logic,      \* the kind of the session's current session logic
  auth,       \* default_session_logic::_authentication
  link,       \* link_type the session asked for in its AAA request
  pc,         \* "moving": verify_authentication is inside move_server_available
  unmanaged,  \* _un_managed_sessions: a function from uids to sessions
  clients,    \* _client_sessions
  servers,    \* _server_sessions
  lane,       \* the strand of the session's job_agent
  stopped     \* stop_proxy ran: both executors' io_contexts are stopped

vars == <<life, uid, logic, auth, link, pc, unmanaged, clients, servers, lane, stopped>>

NoLink == -1
Tables == {unmanaged, clients, servers}

\* async_job_executor(n) builds n strands (session_thread_num_ of them).
Strands == 0..Lanes - 1

\* strand_to_run: _strands[hash_n(_uuid, n)] for the job_agent's _uuid.
AgentStrand(agentUuid) == agentUuid % Lanes

\* A strand runs one handler at a time: no session on s's strand is inside
\* a handshake.
StrandIdle(s) == \A t \in Sess : lane[t] = lane[s] => pc[t] = "idle"

TypeOK ==
  /\ life \in [Sess -> {"none", "open", "closed"}]
  /\ uid \in [Sess -> Uids]
  /\ logic \in [Sess -> {"default", "server", "client"}]
  /\ auth \in [Sess -> {"BEFORE_VERIFY", "VERIFY_SUCC", "VERIFY_FAILED"}]
  /\ link \in [Sess -> LinkTypes \cup {NoLink}]
  /\ pc \in [Sess -> {"idle", "moving"}]
  /\ lane \in [Sess -> Strands]
  /\ stopped \in BOOLEAN
  /\ \A t \in Tables : DOMAIN t \subseteq Uids /\ \A u \in DOMAIN t : t[u] \in Sess

-----------------------------------------------------------------------------
(* SafeHashMap, as written.                                                *)

HasKey(m, k) == k \in DOMAIN m

\* insert: refused, map unchanged, when the key is already present.
Insert(m, k, v) == IF HasKey(m, k) THEN m ELSE m @@ (k :> v)

\* erase: the double-checked guard is inverted (if (!HAS_KEY(...))), so the
\* key is removed only when it is absent, which removes nothing.
Erase(m, k) == IF ~HasKey(m, k) THEN Restrict(m, DOMAIN m \ {k}) ELSE m

\* try_get(k, v): the unlocked HAS_KEY, then find() under the lock, which
\* finds what HAS_KEY saw (a table is one value here).
TryGet(m, k) == HasKey(m, k)

\* complex_operation: `container_handler(_container);` declares a local
\* variable of the handler type; the handler passed in, here a search of m
\* for a session in wanted, is never called.
ComplexOperationFinds(m, wanted) == FALSE

-----------------------------------------------------------------------------

\* (a mutant: the uid read one past the clock value)
FreshUidsOffByOne ==
  {u + 1 : u \in IF UidsMayCollide THEN Uids
                 ELSE Uids \ {uid[s] : s \in {t \in Sess : life[t] # "none"}}}

\* Uids the next session may draw: with distinct clock() readings, none that
\* an accepted session holds.
FreshUids ==
  IF UidsMayCollide THEN Uids
  ELSE Uids \ {uid[s] : s \in {t \in Sess : life[t] # "none"}}

Init ==
  /\ life = [s \in Sess |-> "none"]
  /\ uid = [s \in Sess |-> CHOOSE u \in Uids : TRUE]  \* drawn again on accept
  /\ logic = [s \in Sess |-> "default"]
  /\ auth = [s \in Sess |-> "BEFORE_VERIFY"]
  /\ link = [s \in Sess |-> NoLink]
  /\ pc = [s \in Sess |-> "idle"]
  /\ unmanaged = << >>
  /\ clients = << >>
  /\ servers = << >>
  /\ lane = [s \in Sess |-> 0]    \* drawn on accept
  /\ stopped = FALSE

\* accept_a_session's callback: the session (built with its clock() uid and
\* a default logic) goes into the unmanaged table, a refused insert ignored;
\* then passively_connect_succ and start_tick.
\* The session's job_agent (JOB_AGENT, job_agent::reset) has _uuid clock()
\* plus a counter: any residue modulo the strand count may come out.
Accept(s) ==
  /\ life[s] = "none" /\ ~stopped
  /\ \E u \in FreshUids :
       /\ uid' = [uid EXCEPT ![s] = u]
       /\ unmanaged' = Insert(unmanaged, u, s)
  /\ \E j \in 0..Lanes - 1 : lane' = [lane EXCEPT ![s] = AgentStrand(j)]
  /\ life' = [life EXCEPT ![s] = "open"]
  /\ UNCHANGED <<logic, auth, link, pc, clients, servers, stopped>>

\* accept_a_session's callback with an error: stop_proxy stops the acceptor
\* and the session executors.  The new session is dropped; no handler is
\* started after this, and only a handler already running finishes.
AcceptError(s) ==
  /\ life[s] = "none" /\ ~stopped
  /\ stopped' = TRUE
  /\ UNCHANGED <<life, uid, logic, auth, link, pc, unmanaged, clients, servers, lane>>

\* The first AAA frame of an open session with the default logic reaches
\* verify_authentication (default_session_logic), which calls the
\* manager's verify_authentication with the requested link type:
\*   CLIENT_PROXY: the server search runs through complex_operation, finds
\*                 nothing, and the handshake fails;
\*   > MULTI_SESSION_BEGIN: refused if the uid is in the server table, else
\*                 the promotion starts;
\*   anything else fails.
\* A failure sets VERIFY_FAILED and answers EC_ServerNotFound.
StartsPromotion(s, l) ==
  IF l = CLIENT_PROXY
    THEN ComplexOperationFinds(servers, {t \in Sess : link[t] > MULTI_SESSION_BEGIN})
    ELSE l > MULTI_SESSION_BEGIN /\ ~HasKey(servers, uid[s])

VerifyAAA(s) ==
  /\ life[s] = "open" /\ logic[s] = "default" /\ auth[s] = "BEFORE_VERIFY"
  /\ StrandIdle(s) /\ ~stopped
  /\ \E l \in LinkTypes :
       /\ link' = [link EXCEPT ![s] = l]
       /\ IF StartsPromotion(s, l)
            THEN pc' = [pc EXCEPT ![s] = "moving"] /\ UNCHANGED auth
            ELSE auth' = [auth EXCEPT ![s] = "VERIFY_FAILED"] /\ UNCHANGED pc
  /\ UNCHANGED <<life, uid, logic, unmanaged, clients, servers, lane, stopped>>

\* (a mutant: the promotion gives up when erase reports no removal)
MoveServerStopsOnErase(s) ==
  /\ pc[s] = "moving"
  /\ LET u == uid[s] IN
     IF HasKey(unmanaged, u) /\ ~HasKey(Erase(unmanaged, u), u)
       THEN LET t == unmanaged[u] IN
            /\ unmanaged' = Erase(unmanaged, u)
            /\ logic' = IF logic[t] = "default"
                          THEN [logic EXCEPT ![t] = "server"] ELSE logic
            /\ servers' = IF logic[t] = "default"
                            THEN Insert(servers, u, t) ELSE servers
       ELSE UNCHANGED <<unmanaged, logic, servers>>
  /\ pc' = [pc EXCEPT ![s] = "idle"]
  /\ auth' = [auth EXCEPT ![s] = "VERIFY_SUCC"]
  /\ UNCHANGED <<life, uid, link, clients, lane, stopped>>

\* move_server_available(uid) for the session s verifying, then
\* verify_authentication returns true: VERIFY_SUCC and EC_Success.  The
\* session promoted is whichever one the unmanaged table holds under s's uid.
MoveServerAvailable(s) ==
  /\ pc[s] = "moving"
  /\ LET u == uid[s] IN
     IF TryGet(unmanaged, u)
       THEN LET t == unmanaged[u] IN
            /\ unmanaged' = Erase(unmanaged, u)
            \* a session whose logic is no longer the default is left alone
            /\ logic' = IF logic[t] = "default"
                          THEN [logic EXCEPT ![t] = "server"] ELSE logic
            /\ servers' = IF logic[t] = "default"
                            THEN Insert(servers, u, t) ELSE servers
       ELSE UNCHANGED <<unmanaged, logic, servers>>
  /\ pc' = [pc EXCEPT ![s] = "idle"]
  /\ auth' = [auth EXCEPT ![s] = "VERIFY_SUCC"]
  /\ UNCHANGED <<life, uid, link, clients, lane, stopped>>

\* The session closes (kicked after a failed handshake, idle timeout, peer
\* close).  The strand is not inside a handshake step.
Close(s) ==
  /\ life[s] = "open" /\ StrandIdle(s) /\ ~stopped
  /\ life' = [life EXCEPT ![s] = "closed"]
  /\ UNCHANGED <<uid, logic, auth, link, pc, unmanaged, clients, servers, lane, stopped>>

\* clean_up_closed_session: the sweep over the client and server tables
\* goes through complex_operation, so it removes nothing (a stuttering step,
\* hence not part of Next).
CleanUpClosedSession ==
  /\ clients' = clients
  /\ servers' = servers
  /\ UNCHANGED <<life, uid, logic, auth, link, pc, unmanaged, lane, stopped>>

Next ==
  \E s \in Sess :
    Accept(s) \/ AcceptError(s) \/ VerifyAAA(s) \/ MoveServerAvailable(s) \/ Close(s)

Spec == Init /\ [][Next]_vars

\* Strands run queued handlers; the acceptor keeps accepting.  Closing is
\* up to the peer and the timers, so Close is not assumed to happen.
FairSpec ==
  Spec /\ \A s \in Sess : WF_vars(Accept(s)) /\ WF_vars(MoveServerAvailable(s))

-----------------------------------------------------------------------------
(* Properties.                                                             *)

\* A session answered EC_Success can be reached by the peers it was
\* promoted for: its uid is registered, to it, in the server table.
SuccessIsRoutable ==
  \A s \in Sess :
    auth[s] = "VERIFY_SUCC" => HasKey(servers, uid[s]) /\ servers[uid[s]] = s

\* Only a session whose own AAA request asked for a server link type and was
\* answered EC_Success is ever in the server table, under its own uid.
PromotedAuthenticated ==
  \A u \in DOMAIN servers :
    LET t == servers[u] IN
    /\ uid[t] = u
    /\ auth[t] = "VERIFY_SUCC"
    /\ link[t] > MULTI_SESSION_BEGIN
=============================================================================
