SPECIFICATION Spec
CONSTANTS
  None = None
  BackChannels = {b1, b2}
  Payloads = {func}
  Unmarshalable = {func}
  Creators = {"POST"}
  DataChannelCapacity = 1
  MaxBytes = 2
  ArrayLimit = 2
  MapCapacity = 2
  MapChanCapacity = 1
  GcChanCapacity = 1
  Prompt = FALSE
  MaxArrays = 3
  MaxMaps = 0
  MaxTerminates = 0
  MaxCloses = 0
  MaxRuns = 1
SYMMETRY Symmetry
CHECK_DEADLOCK FALSE
INVARIANTS
  ReceivedInOrder
