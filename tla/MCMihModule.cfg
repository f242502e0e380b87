CONSTANTS
  Poison = Poison
  Datagram <- MCDatagram
  LinkEvent <- MCLinkEvent
  Faults = {}
SPECIFICATION FairSpec
INVARIANTS TypeOK AckExactlyOnce HeapAccounting PipelineDrained UnloadStopsThreads
PROPERTIES AckEventuallySent UnloadTerminates
CHECK_DEADLOCK FALSE
