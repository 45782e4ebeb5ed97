SPECIFICATION LiveSpec
CONSTANTS
  Consumer = {"loop", "put"}
  Tool = {"ping", "rest", "unknown"}
  Arguments = {"valid", "empty", "broken", "null", "lacking"}
  MaxLines = 2
INVARIANTS
  TypeOK
  OutputIsComplete
  FailureIsExplained
PROPERTIES
  HasALife
  CallEnds
