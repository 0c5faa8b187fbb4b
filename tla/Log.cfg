SPECIFICATION Spec
CONSTANTS
  CPUs = {c1, c2}
  IPs = {0}
  AddrBits = 1
  RingSize = 2
  BufferSize = 2
  QueueSize = 1
  PollMax = 2
INVARIANTS TypeOK NothingHeldBack
PROPERTIES LogIsFifo StopTerminates BufferFlushed RingRelieved
