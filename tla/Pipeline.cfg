SPECIFICATION Spec
CONSTANTS
  Program <- LoopAstray
  Entry = 0
  Misaligned = {30}
  Handler = 100
  None = None
INVARIANTS EnabledOutsideHandler
PROPERTIES RefinesProgramOrder PreciseResumption
