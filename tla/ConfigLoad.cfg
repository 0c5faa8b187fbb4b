SPECIFICATION Spec
CONSTANTS
  IPs = {0, 1}
  AddrBits = 1
  Keys <- MCKeys
  Pps <- MCPps
  NsPerSec = 6
  MaxEntries = 2
  None = None
  NoFile = NoFile
  WordMod = 8
  Files <- LoadFiles
  Messages <- NoMessages
INVARIANTS TypeOK 
PROPERTIES LoadMonotone MapsSpec
CHECK_DEADLOCK FALSE
