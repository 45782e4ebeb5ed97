SPECIFICATION SpecRequests
CONSTANTS
  s1 = s1
  s2 = s2
  s3 = s3
  Stream <- TwoStreams
  MaxBlocks = 2
  ChatBlocks = 3
  MaxDeltas = 1
  Overlap = 1
  Interleaved = FALSE
  Misfires = FALSE
  MaxExchanges = 2
  MaxItems = 3
INVARIANT
  NextMessageIsServed
CHECK_DEADLOCK FALSE
