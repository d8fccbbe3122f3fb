CONSTANTS
  self = self
  peer = peer
  w1 = w1
  w2 = w2
  Stream = {self, peer}
  Self = self
  Worker = {w1}
  MaxQueueSize = 1
  HasValidator = FALSE
  ExtraInWorker = FALSE
  MayMalform = FALSE
  MaySendFail = FALSE
  MayReEnable = FALSE
  MayEnable = {"production"}
  MayDisable = {}
  MaxSeq = 1
  MaxOwnSeq = 2
  MaxValidating = 0
  MaxPosted = 1
  MaxToken = 1
  NoVector = NoVector
  Undecodable = Undecodable
  Idle = Idle
SPECIFICATION Spec
INVARIANT PublicationAdvertised
