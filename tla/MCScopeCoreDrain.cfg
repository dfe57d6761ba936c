\* As MCScopeCore.cfg.
CONSTANTS
  Depth = 4
  MaxWindows = 3
  StampLimit = 7
  NoSample = NoSample
SPECIFICATION MCSpec
INVARIANT DrainedInTimeOrder
