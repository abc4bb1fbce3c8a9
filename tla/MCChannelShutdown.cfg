SPECIFICATION Spec
CONSTANTS
  None = None
  BackChannels = {b1, b2}
  Payloads = {}
  Unmarshalable = {}
  Creators = {"POST", "TERMINATE"}
  DataChannelCapacity = 1
  MaxBytes = 2
  ArrayLimit = 2
  MapCapacity = 2
  MapChanCapacity = 1
  GcChanCapacity = 1
  Prompt = FALSE
  MaxArrays = 2
  MaxMaps = 0
  MaxTerminates = 1
  MaxCloses = 1
  MaxRuns = 1
SYMMETRY Symmetry
CHECK_DEADLOCK FALSE
INVARIANTS
  TypeOK
  TimerDiscipline
  MapChanLifecycle
  OneOpenBackChannel
PROPERTIES
  OnlyClosePanics
  ImplementsSession
