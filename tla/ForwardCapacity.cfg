SPECIFICATION Spec
CONSTANTS
  MapCapacity = 1
  MaxMapsPerRequest = 2
  MaxRetries = 1
  Pages = {"careful"}
  MaxMaps = 2
CHECK_DEADLOCK FALSE
PROPERTIES
  RejectedOnlyForGap
