SPECIFICATION FairSpec
CONSTANTS
  FirstDelay = 2
  SecondDelay = 2
  SinglePeriod = 3
  DoublePeriod = 2
  LeadOut = 3
  XaSectors <- MCXa
  TrackStarts <- MCTracks
  Commands <- FewCommands
  EnableWrites <- AllOn
  MaxCommands = 2
  MaxPending = 3
PROPERTIES EveryCommandIsAnswered
