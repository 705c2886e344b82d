SPECIFICATION FairSpec
CONSTANTS
  TCP_CHANNEL_CAPACITY = 1
  TCP_SOCKET_BUFFER_SIZE = 2
  MaxChunk = 2
  MaxOut = 1
  MaxIn = 1
PROPERTIES
  EofAfterFin
CHECK_DEADLOCK FALSE
