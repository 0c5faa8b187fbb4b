SPECIFICATION Spec
CONSTANTS
  c1 = c1
  c2 = c2
  c3 = c3
  CPUs = {c1, c2}
  IPs = {0}
  AddrBits = 1
  Keys <- NoKeys
  Pps = {}
  NsPerSec = 1
  MaxEntries = 1
  None = None
  RingSize = 2
  Steer <- AnyCPU
  NotIPv4 = NotIPv4
  TimeMod = 16
  MaxTime = 0
  MaxPackets = 2
  MaxUpdates = 0
INVARIANT NumberOfPackets
CHECK_DEADLOCK FALSE
