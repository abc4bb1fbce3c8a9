SPECIFICATION FairSpec
CONSTANTS
  None = None
  BackChannels = {b1}
  Payloads = {data}
  Unmarshalable = {}
  Creators = {"POST"}
  DataChannelCapacity = 1
  MaxBytes = 2
  ArrayLimit = 2
  MapCapacity = 2
  MapChanCapacity = 1
  GcChanCapacity = 1
  Prompt = TRUE
  MaxArrays = 2
  MaxMaps = 2
  MaxTerminates = 0
  MaxCloses = 0
  MaxRuns = 1
CHECK_DEADLOCK FALSE
INVARIANTS
  StopFindsRoom
  MapsInOrder
PROPERTIES
  SessionEnds
  CallsReturn
