SPECIFICATION Spec
CONSTANTS
  MaxPub = 2
  Small = {1}
  Remote = {1}
  NodeSize = 10
  EntrySize = 100
  PacketSize = 140
  RequestSize = 60
  Limit = 364
  RepeatCount = 2
  MissLimit = 2
  RepairRepeatCount = 2
  Requests <- MCRequests
  MaxRequests = 1
  MaxQueueSize = 1
  MaxJobs = 1
  MaxFailures = 1
  Modes <- MCModes
  NoInterest = NoInterest
INVARIANTS TypeOK NamesReachTheNetwork NamesAreAdvertised
