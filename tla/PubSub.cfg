SPECIFICATION Spec
CONSTANTS
  MaxSeq = 2
  MaxRounds = 2
  MaxFaults = 2
  producer = producer
  producerPackets = producerPackets
  prefix = prefix
  prefixPackets = prefixPackets
  namesOnly = namesOnly
  Sub <- MCSub
  ProducerSub <- MCProducerSub
  PacketSub <- MCPacketSub
  NameOnlySub <- MCNameOnlySub
  matching <- MCmatching
  StartingSubs <- MCStartingSubs
  LateSub <- MCLateSub
  Segmented = {2}
  SegmentCount = 2
  Extends = {}
  Blocks <- MCBlocks
  Windows <- MCWindows
  Retries = 1
  ChunkSize = 2
  CacheLimit = 1
  DeliveredLimit = 1
  HasInnerValidator = TRUE
  MayFail <- MCMayFail
  None = None
  NoAssembly = NoAssembly
CHECK_DEADLOCK FALSE
INVARIANTS TypeOK NoLeak ProducerAtMostOnce NotLost ContentRight
PROPERTIES SilentAfterDestruction
