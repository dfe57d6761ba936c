CONSTANTS
  Depth = 4
  MaxWindows = 3
  StampLimit = 6
  NoSample = NoSample
  Commands <- MCCommands
  MaxCommands = 3
  MaxPolls = 1
  Spf = 2
  MaxLost = 2
  MaxLate = 1
SPECIFICATION MCSpec
INVARIANTS
  CaptureFaithful
  DoneOfThisRun
  ConfigReportTruthful
  BacklogBounded
PROPERTY CommandsEnd
