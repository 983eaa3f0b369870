----------------------- MODULE MCThreadSafeObjectPool -----------------------
(* Three worker threads and two objects.  On Windows every thread has an   *)
(* id of its own; on Linux getpid() gives all of them the same one.  Three *)
(* threads are needed for two deleters to meet at the cache of an exited   *)
(* thread, and two objects for that thread to have handed out both; a     *)
(* third object only adds interleavings of the same kinds.                *)
EXTENDS ThreadSafeObjectPool, TLC

CONSTANTS t1, t2, t3, o1, o2

MCThreads == {t1, t2, t3}
MCObjs == {o1, o2}
MCWindowsId == [t \in MCThreads |-> t]
MCLinuxId == [t \in MCThreads |-> "pid"]
MCMaxPools == 4

MCSymmetry == {po @@ pt : po \in Permutations(MCObjs), pt \in Permutations(MCThreads)}
=============================================================================
