CONSTANTS
  c1 = c1
  c2 = c2
  stopper = stopper
  t1 = t1
  t2 = t2
  t3 = t3
  Poison = Poison
  Task <- MCTask
  Caller <- MCCaller
  Stopper = stopper
  MaxInterrupts = 2
SPECIFICATION FairSpec
INVARIANTS TypeOK MutualExclusion NoLostWakeup FifoOrder StopDrains
PROPERTIES TaskEventuallyRuns StopTerminates ImplementsSerialExecutor
CHECK_DEADLOCK FALSE
