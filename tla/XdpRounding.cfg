SPECIFICATION Spec
CONSTANTS
  c1 = c1
  c2 = c2
  c3 = c3
  CPUs = {c1}
  IPs = {0}
  AddrBits = 1
  Keys <- NoKeys
  Pps = {2}
  NsPerSec = 3
  MaxEntries = 1
  None = None
  RingSize = 1
  Steer <- AnyCPU
  NotIPv4 = NotIPv4
  TimeMod = 64
  MaxTime = 2
  MaxPackets = 3
  MaxUpdates = 2
INVARIANT MaximumPerSecond
CHECK_DEADLOCK FALSE
