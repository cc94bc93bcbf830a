SPECIFICATION Spec
CONSTANTS
  SoftAddr = 3517
  Packet <- MCPacket
  MaxLen = 12
  Noise <- MCNoise
  MaxSend = 3
  MaxFault = 2
INVARIANTS TypeOK Genuine Recovered
PROPERTY NothingElse
CHECK_DEADLOCK FALSE
