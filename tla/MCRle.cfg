\* Seven samples of two values, runs of up to twice the greatest count and one
\* more (the encoder on its own: six); a core of four words.  The settings
\* end with their samples, so a behaviour may stop.
CONSTANTS
  Depth = 4
  MaxWindows = 1
  StampLimit = 10
  NoSample = NoSample
  Values = {v1, v2}
  ProbeW = 2
  MaxRun = 3
  MaxSamples = 7
SYMMETRY ValueSymmetry
SPECIFICATION MCSpec
CHECK_DEADLOCK FALSE
INVARIANTS
  SkidNeverOverflows
  Lossless
  BenchAgrees
  CaptureDecodes
  TriggerNeverLost
