SPECIFICATION FairSpec
CONSTANTS
  None = None
  BackChannels = {r1, r2}
  Payloads = {}
  Unmarshalable = {}
  DataChannelCapacity = 1
  MaxBytes = 1
  ArrayLimit = 1
  GcChanCapacity = 1
  MaxSessions = 2
  MaxRequests = 3
CHECK_DEADLOCK FALSE
INVARIANTS
  TypeOK
  UnknownIsClosed
  NobodyForgotten
PROPERTIES
  SessionsEnd
  RequestsAnswered
  ImplementsSessions
