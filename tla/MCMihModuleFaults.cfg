CONSTANTS
  Poison = Poison
  Datagram <- MCDatagramKinds
  LinkEvent <- MCLinkEvent
  Faults <- MCFaults
SPECIFICATION Spec
INVARIANTS HeapAccounting StopsLiveThreads IInv
PROPERTY UsesTaskQueues
CHECK_DEADLOCK FALSE
