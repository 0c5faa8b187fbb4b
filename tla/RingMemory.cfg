SPECIFICATION Spec
CONSTANTS
  CPUs = {c1, c2}
  IPs = {1}
  Words = 16
  BusyBit = 8
  MaxRecords = 4
INVARIANTS TypeOK DeliveredAsWritten SleeperIsWoken
PROPERTIES MemoryIsRing NoRecordStranded
CHECK_DEADLOCK FALSE
