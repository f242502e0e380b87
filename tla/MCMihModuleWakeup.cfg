CONSTANTS
  Poison = Poison
  Datagram <- MCDatagramKinds
  LinkEvent <- MCLinkEvent
  Faults = {"wakeup_socket"}
SPECIFICATION Spec
INVARIANT UnloadStopsThreads
CHECK_DEADLOCK FALSE
