SPECIFICATION Spec
CONSTANTS
  Wrap = 4
  Divs <- MCDivs
  Indices = {2}
  DivOf <- MCDivOf
  ModeWrites <- AllModes
  TargetWrites <- AllValues
  ValueWrites <- AllValues
  MaxBatch = 13
INVARIANTS TypeOK NoEarlyIrq BatchedTickIsPerCycle OneShotRingsOnce
