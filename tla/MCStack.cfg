SPECIFICATION FairSpec
CONSTANTS
  Handle = {0, 1}
  Port = {0, 80}
  Backlog = {1}
  Req = {r1, r2}
  Calls = {"TcpConnect", "TcpListen", "TcpAccept", "UdpBind"}
  COMMAND_CHANNEL_CAPACITY = 1
  INGRESS_BATCH_SIZE = 1
INVARIANTS
  TypeOK
  HandlesResolve
  HandedOutOnce
  CloseHitsOwnSocket
  PortsUnique
  NoLostWakeup
PROPERTIES
  BacklogKept
  CallsAnswered
