CONSTANTS
  Depth = 4
  MaxWindows = 2
  StampLimit = 5
  NoSample = NoSample
  MaxDecim = 1
SPECIFICATION MCSpec
INVARIANTS
  SequencerFireInFlight
  ForceStaysInWindow
  EarlyTriggerNeedsNoHistory
PROPERTIES
  WindowProgresses
  ForceTakesEffect
