SPECIFICATION Spec
CONSTANTS
  None = None
  BackChannels = {b1, b2}
  Payloads = {}
  Unmarshalable = {}
  Creators = {"POST"}
  DataChannelCapacity = 1
  MaxBytes = 3
  ArrayLimit = 1
  MapCapacity = 2
  MapChanCapacity = 1
  GcChanCapacity = 1
  Prompt = FALSE
  MaxArrays = 3
  MaxMaps = 0
  MaxTerminates = 0
  MaxCloses = 0
  MaxRuns = 1
SYMMETRY Symmetry
CHECK_DEADLOCK FALSE
INVARIANTS
  OutgoingWindow
  NothingStranded
  BufferLimit
PROPERTIES
  ImplementsArrayStream
  LastSentNeverDecreases
