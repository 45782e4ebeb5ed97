SPECIFICATION Spec
CONSTANTS
  c1 = c1
  c2 = c2
  e1 = e1
  e2 = e2
  Exchange <- TwoExchanges
  Holds <- FirstHoldsAll
  Client <- TwoClients
  MaxContent = 1
INVARIANTS
  TypeOK
  SettledIsSeen
PROPERTY
  NeverFallsBack
SYMMETRY SymmetricClients
