SPECIFICATION Spec
CONSTANTS
  u1 = u1
  u2 = u2
  l1 = l1
  l2 = l2
  c1 = c1
  c2 = c2
  w1 = w1
  w2 = w2
  UserTurn <- TwoTurns
  LoopTurn <- OneLoop
  Call <- OneCall
  Client <- TwoClients
  Flaky <- OneClient
  Polite = FALSE
  Slots = 1
SYMMETRY AllSymmetry
VIEW FaultsView
INVARIANTS
  LoopIsOwned
  BusyIsShown
  RestIsShown
  MessageIsScheduled
PROPERTIES
  StopSticks
  TakesTurns
