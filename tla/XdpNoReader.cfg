SPECIFICATION SpecNoReader
CONSTANTS
  c1 = c1
  c2 = c2
  c3 = c3
  CPUs = {c1}
  IPs = {0}
  AddrBits = 1
  Keys <- MCKeys
  Pps = {}
  NsPerSec = 1
  MaxEntries = 2
  None = None
  RingSize = 2
  Steer <- AnyCPU
  NotIPv4 = NotIPv4
  TimeMod = 16
  MaxTime = 0
  MaxPackets = 3
  MaxUpdates = 2
INVARIANT RejectedIsDropped
CHECK_DEADLOCK FALSE
