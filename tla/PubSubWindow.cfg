SPECIFICATION FairSpec
CONSTANTS
  MaxSeq = 2
  MaxRounds = 1
  MaxFaults = 0
  producer = producer
  producerPackets = producerPackets
  prefix = prefix
  prefixPackets = prefixPackets
  namesOnly = namesOnly
  Sub <- MCSub
  ProducerSub <- MCProducerSub
  PacketSub <- MCPacketSub
  NameOnlySub <- MCNameOnlySub
  matching <- MCmatching
  StartingSubs <- MCStartingSubs
  LateSub <- MCLateSub
  Segmented = {2}
  SegmentCount = 2
  Extends = {}
  Blocks <- MCBlocks
  Windows = {1}
  Retries = 1
  ChunkSize = 2
  CacheLimit = 1
  DeliveredLimit = 1
  HasInnerValidator = TRUE
  MayFail <- MCMayFail
  None = None
  NoAssembly = NoAssembly
CHECK_DEADLOCK FALSE
PROPERTY EveryFetchEnds
