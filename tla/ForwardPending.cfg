SPECIFICATION Spec
CONSTANTS
  MapCapacity = 2
  MaxMapsPerRequest = 2
  MaxRetries = 1
  Pages = {"pending"}
  MaxMaps = 3
CHECK_DEADLOCK FALSE
INVARIANTS
  DeliveredMaps
