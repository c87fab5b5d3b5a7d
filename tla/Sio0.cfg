SPECIFICATION Spec
CONSTANTS
  none = none
  NoBay = none
  NumSectors = 2
  SectorBytes = 1
  TapSlots = 2
  AckDelay = 1
  FifoCap = 1
  MaxCards = 1
  Ports <- MCPorts
  Uses <- MCUses
INVARIANTS TypeOK EveryAckRings AckTimerKeepsContract
PROPERTY RefinesSessions
