\* A buffer of four words of three lanes; the FIFO of DEPTH_LOG2 2 as in the
\* crossing, five words with the output stage; over JTAG requests of three
\* bytes, answers of five, reads in batches of two, three requests.
CONSTANTS
  Depth = 4
  Lanes = 3
  Spacing = 1
  Capacity = 5
  DepthLog2 = 2
  Values = {v1, v2}
  Request = 3
  Answer = 5
  ReadBatch = 2
  MaxSent = 9
SPECIFICATION MCSpec
INVARIANTS
  DownloadInOrder
  ReadDataInOrder
  BytesCarried
PROPERTIES
  AsyncIsFifo
  AccessesAnswered
  CallsReturn
