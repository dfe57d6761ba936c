\* config --pretrig, then arm --wait without it.
CONSTANTS
  Depth = 4
  MaxWindows = 3
  StampLimit = 6
  NoSample = NoSample
  Commands <- MCCommands
  MaxCommands = 2
  MaxPolls = 1
  Spf = 2
  MaxLost = 0
  MaxLate = 0
SPECIFICATION MCReadmeSpec
INVARIANT SamplesTimeOrdered
