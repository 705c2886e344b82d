SPECIFICATION Spec
CONSTANTS
  TCP_CHANNEL_CAPACITY = 1
  TCP_SOCKET_BUFFER_SIZE = 2
  MaxChunk = 2
  MaxOut = 2
  MaxIn = 1
INVARIANTS
  PushedImmediately
CHECK_DEADLOCK FALSE
