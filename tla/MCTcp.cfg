SPECIFICATION FairSpec
CONSTANTS
  TCP_CHANNEL_CAPACITY = 1
  TCP_SOCKET_BUFFER_SIZE = 2
  MaxChunk = 2
  MaxOut = 3
  MaxIn = 2
INVARIANTS
  TypeOK
  NothingLostWhileOpen
PROPERTIES
  BothByteStreams
  FinAfterData
  WrittenArrives
  SentArrives
  DroppedCloses
CHECK_DEADLOCK FALSE
