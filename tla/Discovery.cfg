SPECIFICATION LiveSpec
CONSTANTS
  n1 = n1
  n2 = n2
  d1 = d1
  d2 = d2
  Node <- TwoNodes
  Discovery <- TwoDiscoveries
  Faulty = {"invalid", "poison"}
  MaxChanges = 2
INVARIANTS
  TypeOK
  OfferedToolsStay
  RestIsSettled
PROPERTIES
  PublishesWhatWasThere
  SettlesOnceConnected
