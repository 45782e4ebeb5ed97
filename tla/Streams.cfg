SPECIFICATION SpecBounded
CONSTANTS
  s1 = s1
  s2 = s2
  s3 = s3
  Stream <- ThreeStreams
  MaxBlocks = 2
  ChatBlocks = 3
  MaxDeltas = 1
  Overlap = 2
  Interleaved = FALSE
  Misfires = FALSE
  MaxExchanges = 2
  MaxItems = 4
SYMMETRY StreamSymmetry
INVARIANT
  TellsTheStory
PROPERTIES
  MessagesMirror
  ChatMirrors
  ResponseMirrors
CHECK_DEADLOCK FALSE
