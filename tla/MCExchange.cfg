SPECIFICATION Spec
CONSTANTS
  BUFFER_SIZE = 4096
  n1 = n1
  n2 = n2
  Fresh = Fresh
  Node <- MCNode
  Request <- MCRequest
  MaxSends = 2
  MaxDups = 2
INVARIANTS TypeOK AckIdentifiesRequest NoAckStorm RequestsTaken
CHECK_DEADLOCK FALSE
