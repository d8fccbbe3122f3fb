CONSTANTS
  self = self
  peer = peer
  w1 = w1
  w2 = w2
  Stream = {self, peer}
  Self = self
  Worker = {w1}
  MaxQueueSize = 1
  HasValidator = FALSE
  ExtraInWorker = FALSE
  MayMalform = TRUE
  MaySendFail = TRUE
  MayReEnable = FALSE
  MayEnable = {"production", "batching"}
  MayDisable = {"production", "batching", "core"}
  MaxSeq = 1
  MaxOwnSeq = 2
  MaxValidating = 0
  MaxPosted = 1
  MaxToken = 1
  NoVector = NoVector
  Undecodable = Undecodable
  Idle = Idle
CHECK_DEADLOCK FALSE
SPECIFICATION FairSpec
PROPERTIES
  FencedAfterDestruction
  EventuallyAdvertised
  SuppressionEnds
  JoinReturns
