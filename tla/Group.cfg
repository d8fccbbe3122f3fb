CONSTANTS
  a = a
  b = b
  c = c
  Node = {a, b, c}
  Boot = {0, 1, 2, 3}
  Stream <- Streams
  Reject = Reject
  NoVector = NoVector
  Groups <- MCGroups
  MaxSeq = 1
  MaxRestarts = 1
  SameEpoch = FALSE
  TooFar = {3}
SPECIFICATION FairSpec
INVARIANTS
  NothingInvented
  OwnerLeads
  VersionsApart
PROPERTIES
  Converges
