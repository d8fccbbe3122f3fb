CONSTANTS
  Calls = {"async"}
  MayThrow = {"sign", "insert", "mapping", "queue", "hook"}
  MaxPackets = 2
  MaxSeq = 4
CHECK_DEADLOCK FALSE
SPECIFICATION FairSpec
INVARIANTS
  TypeOK
  AdvertisedIsServable
  NoOrphans
  PipelineComplete
PROPERTIES
  OwnSeqMonotone
  EventuallyCommitted
