SPECIFICATION FairSpec
CONSTANTS
  MaxRetries = 3
  MaxArrays = 3
CHECK_DEADLOCK FALSE
INVARIANTS
  TypeOK
  FlushKeepsStreaming
  NoDataHeldBack
  BackChannelKept
  DeadTimerHasRequest
  ClosedIsQuiet
PROPERTIES
  BackChannelReturns
  ImplementsSession
