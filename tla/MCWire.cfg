\* any: every line of nine bytes over an alphabet of four, of which two are the
\* sync bytes, so all first frames of up to three payload bytes and all
\* beginnings.  retry: up to five bytes of noise, then a request repeated to
\* byte 26.  traffic: two frames with noise around them.  The line parts end
\* with the line.  fifo: four words deep.
CONSTANTS
  Base = 4
  MaxPayload = 2
  MaxLine = 26
  Lengths <- MCLengths
  Frames <- MCFrames
  Settings <- MCSettings
  Depth = 4
  Values = {v1, v2}
SPECIFICATION MCSpec
CHECK_DEADLOCK FALSE
INVARIANTS
  BytesArrive
  SameHunt
  WholeFramesOnly
  ResyncByThirdRequest
  TrafficArrives
PROPERTIES
  SyncIsFifo
  AnswerIsStable
