SPECIFICATION FairSpec
CONSTANTS
  c1 = c1
  c2 = c2
  Caller = {c1, c2}
  Kind = {"AddRoute", "GetIfaceStats"}
  CONTROL_CAPACITY = 1
  RESPONSE_CAPACITY = 1
  FRAME_CAPACITY = 1
  SOCKET_CAPACITY = 1
  CallKinds <- MCCallKinds
  MaxFrames = 3
  MaxFailing = 2
INVARIANTS
  TypeOK
  AnswersTrue
  BrokenNotExecuted
  OneInFlight
  FramesInOrder
PROPERTIES
  Answered
  EndsTogether
CHECK_DEADLOCK FALSE
