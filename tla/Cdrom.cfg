SPECIFICATION Spec
CONSTANTS
  FirstDelay = 2
  SecondDelay = 2
  SinglePeriod = 3
  DoublePeriod = 2
  LeadOut = 3
  XaSectors <- MCXa
  TrackStarts <- MCTracks
  Commands <- AllCommands
  EnableWrites <- AllBits
  MaxCommands = 3
  MaxPending = 3
INVARIANTS ReportsBelongToTheirRun BusyOwesAnAnswer IdleIsStill NoEarlyInterrupt BufferHoldsTheAnnounced
PROPERTIES SecondAfterDelay
