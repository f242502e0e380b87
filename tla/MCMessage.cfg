SPECIFICATION Spec
CONSTANTS
  BUFFER_SIZE = 4096
  IdOctet = 97
  Header <- MCHeader
  IdLength <- MCIdLength
INVARIANTS TypeOK AcceptedIsSent ShortIdsAccepted InStep
PROPERTY UnpackProgress
CHECK_DEADLOCK FALSE
