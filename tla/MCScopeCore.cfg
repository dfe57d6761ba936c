\* Four samples deep: one slice of four or two slices of two.  WINDOWS writes 0
\* (clamped), 1, 2 and 3 (rejected).  Sample numbers modulo seven, longer than
\* the buffer, so a leftover of an earlier lap is never mistaken for history.
CONSTANTS
  Depth = 4
  MaxWindows = 3
  StampLimit = 7
  NoSample = NoSample
SPECIFICATION MCSpec
INVARIANTS
  IInv
  TriggerSampleKept
PROPERTIES
  Refines
  RunCompletes
