SPECIFICATION FairSpec
CONSTANTS
  UDP_CHANNEL_CAPACITY = 1
  UDP_PACKET_METADATA_SLOTS = 2
  UDP_PACKET_BUFFER_SIZE = 3
  UDP_READ_BUF_SIZE = 1
  Sizes = {1, 2}
  MaxOut = 3
  MaxIn = 2
  MaxFull = 1
INVARIANTS TypeOK TxAccounted RxKept
PROPERTIES BothQueues SentLeaves ArrivedReturned DroppedUnbinds
CHECK_DEADLOCK FALSE
