\* 512 probe bits and the is_count bit of RLE.
CONSTANTS
  WordBytes = {65}
  Length = 4
  Spf = 2
  Zero = Zero
  Unknown = Unknown
SPECIFICATION LanesSpec
INVARIANT WordsArrive
CHECK_DEADLOCK FALSE
