SPECIFICATION FairSpec
CONSTANTS
  MapCapacity = 2
  MaxMapsPerRequest = 3
  MaxRetries = 1
  Pages = {"careful", "any"}
  MaxMaps = 4
CHECK_DEADLOCK FALSE
INVARIANTS
  TypeOK
  CarefulDelivered
  UndeliveredMaps
  NoStaleMaps
  CarefulHasNoGap
PROPERTIES
  ImplementsMapStream
  CarefulRejections
  MapsArrive
