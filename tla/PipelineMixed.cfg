CONSTANTS
  Calls = {"async", "bytes", "name", "packet"}
  MayThrow = {"sign", "insert", "mapping", "queue", "hook"}
  MaxPackets = 2
  MaxSeq = 4
CHECK_DEADLOCK FALSE
SPECIFICATION Spec
INVARIANTS
  NumbersUnique
  
