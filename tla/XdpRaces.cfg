SPECIFICATION RacesSpec
CONSTANTS
  c1 = c1
  c2 = c2
  c3 = c3
  CPUs = {c1, c2, c3}
  IPs = {0, 1, 2}
  AddrBits = 2
  Keys <- MCKeys
  Pps = {1, 2}
  NsPerSec = 1
  MaxEntries = 2
  None = None
  RingSize = 3
  Steer <- OneSteered
  NotIPv4 = NotIPv4
  TimeMod = 16
  MaxTime = 0
  MaxPackets = 4
  MaxUpdates = 2
INVARIANTS SlotAccounting SlotOwnership NeverOvercounted ExactWhenSteered
PROPERTY RingIsFifo
CHECK_DEADLOCK FALSE
