SPECIFICATION Spec
CONSTANTS
  BUFFER_SIZE = 4096
  IdOctet = 97
  Header <- MCOneHeader
  IdLength = {1, 127, 128, 129, 253}
INVARIANT MaximumIdAccepted
CHECK_DEADLOCK FALSE
