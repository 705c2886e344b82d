SPECIFICATION FairSpec
CONSTANTS
  c1 = c1
  c2 = c2
  Caller = {c1}
  Kind = {"AddRoute"}
  CONTROL_CAPACITY = 1
  RESPONSE_CAPACITY = 1
  FRAME_CAPACITY = 1
  SOCKET_CAPACITY = 1
  CallKinds <- MCCallKinds
  MaxFrames = 0
  MaxFailing = 1
PROPERTIES
  LostResponseReported
CHECK_DEADLOCK FALSE
