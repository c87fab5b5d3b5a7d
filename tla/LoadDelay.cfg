SPECIFICATION MCSpec
CONSTANTS
  Byte = {0, 1, 2, 3, 4, 5, 6, 7, 9}
  Regs = {1, 2}
  Kept = 1
  Aligned = {0, 4}
  Start <- MCStart
  NoLoad = NoLoad
  None = None
  MaxProgram = 3
  MaxTraps = 1
INVARIANTS UnalignedLoadsCompose
PROPERTY RefinesLoadOrder
CHECK_DEADLOCK FALSE
