SPECIFICATION FairSpec
CONSTANTS
  Images = {"new"}
  Blank = Blank
  Torn = Torn
  Absent = Absent
  Off = Off
  Games = {"ours", "other"}
  Buttons = {"cross"}
  Slots = {1}
  Sessions <- MCSessions
  Earlier <- MCEarlier
INVARIANTS UnsavedIsDirty FrontendKnowsTheMachine
PROPERTY SavesReachTheFile
