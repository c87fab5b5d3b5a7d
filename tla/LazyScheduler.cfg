SPECIFICATION FairSpec
CONSTANTS
  DevState <- MCDevState
  InitDev <- MCInitDev
  Advance <- MCAdvance
  Raised <- MCRaised
  NextEvent <- MCNextEvent
  Ops <- MCOps
  Apply <- MCApply
  Value <- MCValue
  Sets <- MCSets
  Pokes <- MCPokes
  Poke <- MCPoke
  IrqWrites <- MCIrqWrites
  Lines <- MCLines
  Never = Never
  None = None
  VBlank = 0
  MaxExtra = 1
  FrameCycles = 2
  Horizon = 4
  SavePoints = {1}
  Period = 2
  Shot = 2
INVARIANTS TypeOK DevicesFollow NoMissedEvent FrameOverrunBounded
PROPERTIES RefinesReference FrameTerminates
CHECK_DEADLOCK FALSE
