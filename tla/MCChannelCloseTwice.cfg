SPECIFICATION Spec
CONSTANTS
  None = None
  BackChannels = {b1}
  Payloads = {}
  Unmarshalable = {}
  Creators = {"POST"}
  DataChannelCapacity = 1
  MaxBytes = 2
  ArrayLimit = 2
  MapCapacity = 2
  MapChanCapacity = 1
  GcChanCapacity = 1
  Prompt = FALSE
  MaxArrays = 1
  MaxMaps = 0
  MaxTerminates = 0
  MaxCloses = 1
  MaxRuns = 1
CHECK_DEADLOCK FALSE
PROPERTIES
  ShutdownIsPermanent
