SPECIFICATION LiveSpec
CONSTANTS
  p1 = p1
  p2 = p2
  m1 = m1
  c1 = c1
  c2 = c2
  Provider <- TwoProviders
  Model <- OneModel
  Client <- TwoClients
  OpenAI <- OneProvider
  Slots = 1
  MaxChanges = 1
INVARIANTS
  TypeOK
  OffersWhatWasServed
  OfferedIsAvailable
  LineIsSound
PROPERTIES
  MountingEnds
  WaitingEnds
