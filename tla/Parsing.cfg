SPECIFICATION Spec
CONSTANTS
  Names = {"type", "x", "a_b"}
  Underscored = {"a_b"}
  Values = {"v", "_badmap"}
  FirstMapId = 5
  MaxCount = 2
  MaxEntries = 3
CHECK_DEADLOCK FALSE
INVARIANTS
  TypeOK
  ClientMapsParsed
  AcceptedWhole
