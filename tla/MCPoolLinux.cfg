SPECIFICATION Spec
CONSTANTS
  t1 = t1
  t2 = t2
  t3 = t3
  o1 = o1
  o2 = o2
  Threads <- MCThreads
  Objs <- MCObjs
  ThreadId <- MCLinuxId
  MaxPools <- MCMaxPools
SYMMETRY MCSymmetry
INVARIANT GetPopsPooledObject
\* Every worker thread may end, and the pools then have nothing left to do;
\* a thread exit and a first getThreadCache may also wait on each other's
\* mutex for ever (NoMutexCycle).  Neither is an error of this check.
CHECK_DEADLOCK FALSE
