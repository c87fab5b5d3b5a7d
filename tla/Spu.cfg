SPECIFICATION FairSound
CONSTANTS
  FirstDelay = 1
  SecondDelay = 1
  SinglePeriod = 4
  DoublePeriod = 2
  LeadOut = 3
  XaSectors <- MCXa
  TrackStarts <- MCTracks
  Units = 6
  Halves = 2
  BlockSamples = 4
  PitchOne = 4
  Voices = {v1}
  CyclesPerSample = 2
  MaxQueued = 4
  CdQueueMax = 3
  Count = 3
  Silence = Silence
  FramesPerSector = 2
  XaFrames = 3
  XaChannel <- MCChannels
  CdAudioCap = 8
  MaxExtra = 1
  Setups <- MCSetups
  SoundCommands <- MCCommands
  SpuWrites <- MCWrites
  DmaWords <- MCWords
  MaxCommands = 2
  MaxPending = 2
  MaxWrites = 3
  Muted = Muted
INVARIANTS KeepsContract StreamIsWhole
PROPERTIES PlaybackIsGapless ReleasedFallsSilent
