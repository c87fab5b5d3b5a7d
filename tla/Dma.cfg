SPECIFICATION Spec
CONSTANTS
  zero = zero
  NoTransfer = NoTransfer
  VramWidth = 16
  VramHeight = 4
  FillUnit = 2
  Black <- MCBlack
  Side = 2
  TableWords = 1
  ScaleWords = 1
  Filler <- MCFiller
  RamWords = 40
  LinkSpace = 128
  ListCap = 8
  OtcMax = 4
  SpuWords = 2
  Uses <- MCUses
  MaxRestarts = 1
INVARIANTS CommandsAreTheStream MovieIsShown CompletionsReachTheHandler
PROPERTY PaintersOrder
CHECK_DEADLOCK FALSE
