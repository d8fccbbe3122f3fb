CONSTANTS
  Calls = {"async", "packet"}
  MayThrow = {}
  MaxPackets = 1
  MaxSeq = 3
CHECK_DEADLOCK FALSE
SPECIFICATION FairSpec
PROPERTIES
  AsyncCommitted
