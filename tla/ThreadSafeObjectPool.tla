------------------------- MODULE ThreadSafeObjectPool -------------------------
(***************************************************************************)
(* parallel_core::ThreadSafeObjectPool<T> (ThreadSafeObjectPool.h): a     *)
(* ThreadCacheContiner of ObjectPool<T>, one pool per GET_CURRENT_THREAD_ID *)
(* (getpid() on Linux, GetCurrentThreadId() on Windows; the constant        *)
(* ThreadId).  get_shared takes an object from the pool of the calling     *)
(* thread's id, and the deleter it installs returns the object to the pool *)
(* of that id, on whichever thread drops the last shared_ptr.  Worker      *)
(* threads are made by ThreadWrapper::createThread; when one ends,         *)
(* beforeDestroyThread calls onThreadClear once per listener registered    *)
(* for its id.                                                             *)
(*                                                                         *)
(* Each thread below runs one call at a time, split where the code reads   *)
(* shared state without a lock and where it takes a second mutex while    *)
(* holding one: getThreadCache takes ThreadWrapper::_mapMut (in            *)
(* registerListener) inside ThreadCacheContiner::_mut, and a thread's exit *)
(* takes _mut (in onThreadClear) inside _mapMut.  The unlocked readers see *)
(* a locked section before or after.  Each ObjectPool's                    *)
(* Spinlock is modelled as its two atomics (locked, owner), so the get and *)
(* release sections it guards are steps of their own.  An access           *)
(* the C++ leaves undefined (a pool deleted meanwhile, a NULL cache, the   *)
(* top of an empty std::stack) ends the thread with that fault.            *)
(***************************************************************************)
EXTENDS Integers, Sequences, FiniteSets
LOCAL INSTANCE Functions

CONSTANTS
  Threads,    \* the executor's worker threads
  ThreadId,   \* GET_CURRENT_THREAD_ID on each thread
  Objs,       \* the addresses `new T` may return
  MaxPools    \* the ObjectPool objects getThreadCache may create

Ids == {ThreadId[t] : t \in Threads}
PoolIds == 1..MaxPools
Absent == 0   \* no entry for an id in _threadIdMap
Null == -1    \* the NULL pointer operator[] inserts for a missing id
Faults == {"none", "use_after_free", "null_cache", "empty_pop"}
NoOwner == "none"  \* owner before any lock() stored it (never read then)
NoHolder == "none" \* a free std::recursive_mutex

\* Spinlock(): lock_variable.store(false); owner is left as it is.
NewSpinlock == FALSE

VARIABLES
  idMap,      \* ThreadCacheContiner::_threadIdMap: id -> pool
  nPools,     \* ObjectPools created so far
  poolState,  \* each ObjectPool: "unborn", "live" or "deleted"
  stack,      \* each ObjectPool's _pool, top last
  listeners,  \* ThreadWrapper::_pidListenerMap: listeners per id
  allocated,  \* addresses `new T` has returned
  freed,      \* objects a pool's clear() deleted
  shared,     \* live shared_ptrs: the object and the pid its deleter captured
  locked,     \* each ObjectPool's Spinlock::lock_variable
  owner,      \* each ObjectPool's Spinlock::owner
  pc, op, key, cache, item,  \* per thread: step, call, id, pool, object
  fault,      \* per thread: the undefined access it ran into
  asserted,   \* onThreadClear reached assert(false)
  mut,        \* the thread holding ThreadCacheContiner::_mut
  mapMut      \* the thread holding ThreadWrapper::_mapMut

vars == <<idMap, nPools, poolState, stack, listeners, allocated, freed, shared,
          locked, owner, pc, op, key, cache, item, fault, asserted, mut, mapMut>>

\* The spinlocks, and the two std::recursive_mutexes.
lockVars == <<locked, owner, mut, mapMut>>

TypeOK ==
  /\ idMap \in [Ids -> PoolIds \cup {Absent, Null}]
  /\ nPools \in 0..MaxPools
  /\ poolState \in [PoolIds -> {"unborn", "live", "deleted"}]
  /\ stack \in [PoolIds -> Seq(Objs)]
  /\ listeners \in [Ids -> Nat]
  /\ allocated \subseteq Objs /\ freed \subseteq allocated
  /\ shared \subseteq [obj : Objs, pid : Ids]
  /\ locked \in [PoolIds -> BOOLEAN] /\ owner \in [PoolIds -> Threads \cup {NoOwner}]
  /\ pc \in [Threads -> {"idle", "lookup", "create", "register", "read", "size", "lock",
                         "top", "pop", "push", "clearing", "exited", "fault"}]
  /\ fault \in [Threads -> Faults]
  /\ asserted \in BOOLEAN
  /\ mut \in Threads \cup {NoHolder} /\ mapMut \in Threads \cup {NoHolder}

Init ==
  /\ idMap = [i \in Ids |-> Absent]
  /\ nPools = 0
  /\ poolState = [p \in PoolIds |-> "unborn"]
  /\ stack = [p \in PoolIds |-> << >>]
  /\ listeners = [i \in Ids |-> 0]
  /\ allocated = {} /\ freed = {} /\ shared = {}
  /\ locked = [p \in PoolIds |-> NewSpinlock] /\ owner = [p \in PoolIds |-> NoOwner]
  /\ pc = [t \in Threads |-> "idle"]
  /\ op = [t \in Threads |-> "get"]
  /\ key = [t \in Threads |-> ThreadId[t]]
  /\ cache = [t \in Threads |-> Absent]
  /\ item = [t \in Threads |-> CHOOSE o \in Objs : TRUE]
  /\ fault = [t \in Threads |-> "none"]
  /\ asserted = FALSE
  /\ mut = NoHolder /\ mapMut = NoHolder

Goto(t, l) == pc' = [pc EXCEPT ![t] = l]
Fail(t, f) == pc' = [pc EXCEPT ![t] = "fault"] /\ fault' = [fault EXCEPT ![t] = f]

-----------------------------------------------------------------------------
(* ThreadSafeObjectPool::get_shared and the deleter it installs.           *)

\* get_shared on thread t: getThreadCache() for its own id.
StartGet(t) ==
  /\ pc[t] = "idle"
  /\ Goto(t, "lookup")
  /\ op' = [op EXCEPT ![t] = "get"] /\ key' = [key EXCEPT ![t] = ThreadId[t]]
  /\ UNCHANGED <<idMap, nPools, poolState, stack, listeners, allocated, freed, shared,
                 cache, item, fault, asserted>>
  /\ UNCHANGED lockVars

\* Thread t drops the last shared_ptr s: the deleter runs
\* getThreadCache(pid)->release(p) with the pid get_shared captured.
StartRelease(t, s) ==
  /\ pc[t] = "idle"
  /\ shared' = shared \ {s}
  /\ Goto(t, "lookup")
  /\ op' = [op EXCEPT ![t] = "release"] /\ key' = [key EXCEPT ![t] = s.pid]
  /\ item' = [item EXCEPT ![t] = s.obj]
  /\ UNCHANGED <<idMap, nPools, poolState, stack, listeners, allocated, freed, cache,
                 fault, asserted>>
  /\ UNCHANGED lockVars

-----------------------------------------------------------------------------
(* ThreadCacheContiner::getThreadCache(pid).                               *)

\* The pool found, used by the call that asked for it: ObjectPool::get or
\* ObjectPool::release.  A NULL entry is dereferenced.
UseCache(t, v) ==
  IF v = Null THEN Fail(t, "null_cache") /\ UNCHANGED cache
  ELSE /\ cache' = [cache EXCEPT ![t] = v]
       /\ Goto(t, IF op[t] = "get" THEN "size" ELSE "lock")
       /\ UNCHANGED fault

\* (a mutant: the HAS_KEY test dropped, a cache created on every call)
HasKeyAlwaysCreate(t) ==
  /\ pc[t] = "lookup"
  /\ Goto(t, "create")
  /\ UNCHANGED <<idMap, nPools, poolState, stack, listeners, allocated, freed, shared,
                 op, key, cache, item, fault, asserted>>
  /\ UNCHANGED lockVars

\* The unlocked HAS_KEY(_threadIdMap, threadId).
HasKey(t) ==
  /\ pc[t] = "lookup"
  /\ Goto(t, IF idMap[key[t]] # Absent THEN "read" ELSE "create")
  /\ UNCHANGED <<idMap, nPools, poolState, stack, listeners, allocated, freed, shared,
                 op, key, cache, item, fault, asserted>>
  /\ UNCHANGED lockVars

\* ThreadWrapper::registerListener(pid, listener): under _mapMut, the
\* listener is appended to the id's list, which the first one creates.
RegisterListener(id) == [listeners EXCEPT ![id] = @ + 1]

\* lock_guard on _mut, new T, and the insert, which is refused when the id
\* has an entry by now.  The new pool is kept in cache[t] until the insert
\* result is tested.
CreateCache(t) ==
  /\ pc[t] = "create" /\ nPools < MaxPools /\ mut = NoHolder
  /\ LET id == key[t]
         p == nPools + 1
     IN /\ nPools' = p
        /\ poolState' = [poolState EXCEPT ![p] = "live"]
        /\ idMap' = IF idMap[id] = Absent THEN [idMap EXCEPT ![id] = p] ELSE idMap
        /\ cache' = [cache EXCEPT ![t] = p]
  /\ mut' = t
  /\ Goto(t, "register")
  /\ UNCHANGED <<stack, listeners, allocated, freed, shared, op, key, item, fault,
                 asserted, locked, owner, mapMut>>

\* Still under _mut: registerListener locks _mapMut for its append, whether
\* or not the insert took; then a refused insert SAFE_DELETEs the new pool
\* and returns the entry already there.  _mut is released on return.
Register(t) ==
  /\ pc[t] = "register" /\ mapMut = NoHolder
  /\ LET id == key[t]
         p == cache[t]
     IN /\ listeners' = RegisterListener(id)
        /\ IF idMap[id] = p
             THEN Goto(t, "read") /\ UNCHANGED <<poolState, cache, fault>>
             ELSE /\ poolState' = [poolState EXCEPT ![p] = "deleted"]
                  /\ UseCache(t, idMap[id])
  /\ mut' = NoHolder
  /\ UNCHANGED <<idMap, nPools, stack, allocated, freed, shared, op, key, item,
                 asserted, locked, owner, mapMut>>

\* The unlocked obj = _threadIdMap[threadId]: operator[] inserts a NULL
\* entry when the id has gone since HAS_KEY.
ReadCache(t) ==
  /\ pc[t] = "read"
  /\ LET id == key[t] IN
       IF idMap[id] = Absent
         THEN idMap' = [idMap EXCEPT ![id] = Null] /\ Fail(t, "null_cache")
              /\ UNCHANGED cache
         ELSE UseCache(t, idMap[id]) /\ UNCHANGED idMap
  /\ UNCHANGED <<nPools, poolState, stack, listeners, allocated, freed, shared, op,
                 key, item, asserted>>
  /\ UNCHANGED lockVars

-----------------------------------------------------------------------------
(* ObjectPool<T>::get and ObjectPool<T>::release.                          *)

\* get: the unlocked _pool.size() == 0 test; an empty pool counts the
\* object and returns a new one, whose deleter captures the caller's pid.
CheckSize(t) ==
  /\ pc[t] = "size"
  /\ LET p == cache[t] IN
       IF poolState[p] = "deleted"
         THEN Fail(t, "use_after_free") /\ UNCHANGED <<allocated, shared>>
         ELSE IF stack[p] = << >>
           THEN \E o \in Objs \ allocated :
                  /\ allocated' = allocated \cup {o}
                  /\ shared' = shared \cup {[obj |-> o, pid |-> ThreadId[t]]}
                  /\ Goto(t, "idle") /\ UNCHANGED fault
           ELSE Goto(t, "lock") /\ UNCHANGED <<allocated, shared, fault>>
  /\ UNCHANGED <<idMap, nPools, poolState, stack, listeners, freed, op, key, cache,
                 item, asserted>>
  /\ UNCHANGED lockVars

\* Spinlock::unlock(), as the SpinlockHolder's destructor calls it: the
\* lock is released only when it is held and owner is the caller.
Unlock(p, t) ==
  locked' = IF locked[p] /\ owner[p] = t THEN [locked EXCEPT ![p] = FALSE] ELSE locked

\* (a mutant: lock() that takes the lock without waiting for it)
LockNoWait(t) ==
  /\ pc[t] = "lock"
  /\ LET p == cache[t] IN
       IF poolState[p] = "deleted"
         THEN Fail(t, "use_after_free") /\ UNCHANGED lockVars
         ELSE /\ locked' = [locked EXCEPT ![p] = TRUE] /\ owner' = [owner EXCEPT ![p] = t]
              /\ Goto(t, IF op[t] = "get" THEN "top" ELSE "push") /\ UNCHANGED fault
  /\ UNCHANGED <<idMap, nPools, poolState, stack, listeners, allocated, freed, shared, op,
                 key, cache, item, asserted, mut, mapMut>>

\* SpinlockHolder(&_lock) in get and release: Spinlock::lock() retries
\* compare_exchange_strong(false, true) until it succeeds (a failed
\* exchange changes nothing: the thread waits), then stores owner.  Only
\* the holder calls unlock(), so nothing reads owner between the exchange
\* and the store, and they are one step.
Lock(t) ==
  /\ pc[t] = "lock"
  /\ LET p == cache[t] IN
       IF poolState[p] = "deleted"
         THEN Fail(t, "use_after_free") /\ UNCHANGED lockVars
         ELSE /\ ~locked[p]
              /\ locked' = [locked EXCEPT ![p] = TRUE] /\ owner' = [owner EXCEPT ![p] = t]
              /\ Goto(t, IF op[t] = "get" THEN "top" ELSE "push") /\ UNCHANGED fault
  /\ UNCHANGED <<idMap, nPools, poolState, stack, listeners, allocated, freed, shared, op,
                 key, cache, item, asserted, mut, mapMut>>

\* get, under the spinlock: _pool.top().  The size test was made without
\* the lock, so the stack may be empty by now.
Top(t) ==
  /\ pc[t] = "top"
  /\ LET p == cache[t] IN
       IF stack[p] = << >>
         THEN Fail(t, "empty_pop") /\ UNCHANGED item
         ELSE item' = [item EXCEPT ![t] = stack[p][Len(stack[p])]] /\ Goto(t, "pop")
              /\ UNCHANGED fault
  /\ UNCHANGED <<idMap, nPools, poolState, stack, listeners, allocated, freed, shared,
                 locked, owner, op, key, cache, asserted, mut, mapMut>>

\* get: _pool.pop(), return the top read, and the holder unlocks.  The
\* object goes out behind a shared_ptr whose deleter captured the
\* caller's pid.
Pop(t) ==
  /\ pc[t] = "pop"
  /\ LET p == cache[t] IN
       /\ shared' = shared \cup {[obj |-> item[t], pid |-> ThreadId[t]]}
       /\ stack' = [stack EXCEPT ![p] = SubSeq(@, 1, Len(@) - 1)]
       /\ Unlock(p, t)
  /\ Goto(t, "idle")
  /\ UNCHANGED <<idMap, nPools, poolState, listeners, allocated, freed, owner, op, key,
                 cache, item, fault, asserted, mut, mapMut>>

\* release, under the spinlock: push, and the holder unlocks.
Push(t) ==
  /\ pc[t] = "push"
  /\ LET p == cache[t] IN
       /\ stack' = [stack EXCEPT ![p] = Append(@, item[t])]
       /\ Unlock(p, t)
  /\ Goto(t, "idle")
  /\ UNCHANGED <<idMap, nPools, poolState, listeners, allocated, freed, shared, owner, op,
                 key, cache, item, fault, asserted, mut, mapMut>>

-----------------------------------------------------------------------------
(* The end of a createThread thread.                                       *)

\* ~ObjectPool -> clear(): every pooled object deleted.  clear() takes
\* the spinlock for each pass (so it waits for a get or release inside
\* it) and leaves it free; it drops the lock around each delete, and a
\* push landing there is deleted by the next pass.  (clear() also takes
\* one from _count per pass; nothing reads _count.)
DeletePool(p) ==
  /\ poolState' = [poolState EXCEPT ![p] = "deleted"]
  /\ freed' = freed \cup Range(stack[p])
  /\ stack' = [stack EXCEPT ![p] = << >>]

\* onThreadClear(id), one listener's call, under _mut: the pool is deleted
\* (SAFE_DELETE of a NULL entry does nothing) and the entry erased; a call
\* that finds no entry reaches assert(false).
OnThreadClear(id) ==
  /\ asserted' = (asserted \/ idMap[id] = Absent)
  /\ idMap[id] \in PoolIds => ~locked[idMap[id]]
  /\ IF idMap[id] \in PoolIds THEN DeletePool(idMap[id])
                             ELSE UNCHANGED <<poolState, freed, stack>>
  /\ idMap' = [idMap EXCEPT ![id] = Absent]

\* The thread's function returns: beforeDestroyThread(id) locks _mapMut
\* and, if listeners are registered for the id, calls them one by one.
Exit(t) ==
  /\ pc[t] = "idle" /\ mapMut = NoHolder
  /\ IF listeners[ThreadId[t]] = 0
       THEN Goto(t, "exited") /\ UNCHANGED mapMut
       ELSE Goto(t, "clearing") /\ mapMut' = t
  /\ UNCHANGED <<idMap, nPools, poolState, stack, listeners, allocated, freed, shared,
                 op, key, cache, item, fault, asserted, locked, owner, mut>>

\* Still under _mapMut: the next listener's onThreadClear, which locks
\* _mut.  After the last one the id's listeners are erased and _mapMut
\* released.
ClearListener(t) ==
  /\ pc[t] = "clearing" /\ mut = NoHolder
  /\ OnThreadClear(ThreadId[t])
  /\ listeners' = [listeners EXCEPT ![ThreadId[t]] = @ - 1]
  /\ IF listeners[ThreadId[t]] = 1
       THEN Goto(t, "exited") /\ mapMut' = NoHolder
       ELSE UNCHANGED <<pc, mapMut>>
  /\ UNCHANGED <<nPools, allocated, shared, op, key, cache, item, fault, locked, owner,
                 mut>>

Next ==
  \E t \in Threads :
    \/ StartGet(t)
    \/ \E s \in shared : StartRelease(t, s)
    \/ HasKey(t) \/ CreateCache(t) \/ Register(t) \/ ReadCache(t)
    \/ CheckSize(t) \/ Lock(t) \/ Top(t) \/ Pop(t) \/ Push(t)
    \/ Exit(t) \/ ClearListener(t)

Spec == Init /\ [][Next]_vars

-----------------------------------------------------------------------------
(* Properties.                                                             *)

\* Where object o is: on a pool's stack, behind a live shared_ptr, or in
\* the hands of a deleter that has not pushed it yet.
Places(o) ==
  LET onStacks == {pi \in UNION {{<<p, i>> : i \in DOMAIN stack[p]} : p \in PoolIds} :
                     stack[pi[1]][pi[2]] = o}
      owners == {s \in shared : s.obj = o}
      pushing == {t \in Threads : op[t] = "release" /\ item[t] = o
                                  /\ pc[t] \in {"lookup", "create", "register", "read",
                                                "lock", "push"}}
  IN Cardinality(onStacks) + Cardinality(owners) + Cardinality(pushing)

\* Every object get_shared hands out is borrowed by one owner at a time and
\* returned once: across the per-id pools, the live shared_ptrs and the
\* deleters at work, an object is in at most one place, and an object a
\* pool's clear() deleted is in none.
ExclusiveHandout ==
  \A o \in allocated : Places(o) <= 1 /\ (o \in freed => Places(o) = 0)

\* onThreadClear finds the cache of the exiting thread's id every time a
\* listener calls it: getThreadCache never registers a second listener for
\* an id whose cache the thread's exit will clear.
ClearFindsCache == ~asserted

\* ObjectPool::get pops only an object the pool holds: the unlocked
\* _pool.size() test is still true when the spinlock is taken.
GetPopsPooledObject == \A t \in Threads : fault[t] # "empty_pop"
\* No two threads wait for ever on each other's mutex: a getThreadCache
\* holding _mut never waits in registerListener for the _mapMut of a
\* thread exit that waits in onThreadClear for that _mut.
NoMutexCycle ==
  ~\E t, u \in Threads :
     /\ pc[t] = "register" /\ mut = t
     /\ pc[u] = "clearing" /\ mapMut = u
=============================================================================
