SPECIFICATION Spec
CONSTANTS
  c1 = c1
  c2 = c2
  c3 = c3
  CPUs = {c1, c2}
  IPs = {0}
  AddrBits = 1
  Keys <- NoKeys
  Pps = {2}
  NsPerSec = 6
  MaxEntries = 1
  None = None
  RingSize = 2
  Steer <- AnyCPU
  NotIPv4 = NotIPv4
  TimeMod = 64
  MaxTime = 1
  MaxPackets = 2
  MaxUpdates = 2
INVARIANT MinimumInterval
CHECK_DEADLOCK FALSE
