SPECIFICATION Spec
CONSTANTS
  Handle = {0, 1, 2}
  Port = {0, 80}
  Backlog = {1}
  Req = {r1, r2, r3}
  Calls = {"TcpListen", "TcpAccept"}
  COMMAND_CHANNEL_CAPACITY = 1
  INGRESS_BATCH_SIZE = 2
INVARIANT
  GoneMeansGone
