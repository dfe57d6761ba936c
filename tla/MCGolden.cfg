\* Capture: depth 8, so one slice of eight, two of four, four of two; every
\* PRETRIG; up to four windows (three of four slices included); each schedule
\* of triggers within twenty samples, where a behaviour stops.  Sequencer: a
\* probe of two bits, two comparators, three stages.
CONSTANTS
  Depth = 8
  DepthLog2 = 3
  MaxWindows = 5
  StampLimit = 21
  NoSample = NoSample
  Bits = {0, 1}
  Units = {0, 1}
  Stages = 3
SPECIFICATION MCSpec
CHECK_DEADLOCK FALSE
INVARIANTS
  CaptureModelExact
  WindowsModelExact
  SequencerIsModel
  TriggerSampleSatisfies
