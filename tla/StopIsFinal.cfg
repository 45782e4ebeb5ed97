SPECIFICATION Spec
CONSTANTS
  u1 = u1
  u2 = u2
  l1 = l1
  l2 = l2
  c1 = c1
  c2 = c2
  w1 = w1
  w2 = w2
  UserTurn <- OneTurn
  LoopTurn <- OneLoop
  Call <- OneCall
  Client <- OneClient
  Flaky <- NoClient
  Polite = TRUE
  Slots = 2
PROPERTY
  StopIsFinal
