SPECIFICATION ReconfigureSpec
CONSTANTS
  MaxMessages = 3
  MaxErrors = 1
  IPs = {0, 512}
  AddrBits = 10
  Keys <- MCKeys
  Pps <- MCPps
  NsPerSec = 60
  MaxEntries = 4
  None = None
  NoFile = NoFile
  WordMod = 16
  Files <- MCFiles
  Messages <- MCMessages
  Written <- MCWritten
  Torn <- MCTorn
CONSTRAINT Scripted
INVARIANTS ReconfigureTypeOK NoLostWakeup EffectiveAtRest
PROPERTIES LastMessageEffective StopTerminates RepeatIsNoop
