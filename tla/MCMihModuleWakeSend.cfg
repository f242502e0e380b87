CONSTANTS
  Poison = Poison
  Datagram <- MCDatagramKinds
  LinkEvent <- MCLinkEvent
  Faults = {"wakeup_send"}
SPECIFICATION FairSpec
PROPERTY UnloadTerminates
CHECK_DEADLOCK FALSE
