CONSTANTS
  self = self
  peer = peer
  w1 = w1
  w2 = w2
  Stream = {self, peer}
  Self = self
  Worker = {w1, w2}
  MaxQueueSize = 1
  HasValidator = TRUE
  ExtraInWorker = FALSE
  MayMalform = FALSE
  MaySendFail = FALSE
  MayReEnable = FALSE
  MayEnable = {"processing"}
  MayDisable = {"core"}
  MaxSeq = 1
  MaxOwnSeq = 1
  MaxValidating = 1
  MaxPosted = 1
  MaxToken = 1
  NoVector = NoVector
  Undecodable = Undecodable
  Idle = Idle
SYMMETRY WorkerSymmetry
CHECK_DEADLOCK FALSE
SPECIFICATION Spec
INVARIANTS
  SnapshotFresh
  RecordedBelowLocal
  ReportedExactlyOnce
  NothingHeardIsLost
  IInv
  PublicationAdvertised
PROPERTIES
  StateMonotone
  FencedAfterDestruction
  ReplicaSpec
