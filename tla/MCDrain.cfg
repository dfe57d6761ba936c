\* header: two windows of two samples, or one of four; a stamp has two halves.
\* lanes: every width up to 512 bits in bytes; two frames of two words, so that
\* a lane or a number left over from the one before would show.  exports: four
\* samples.  The last two parts end, so a behaviour may stop.
CONSTANTS
  Depth = 4
  MaxWindows = 2
  StampLimit = 5
  NoSample = NoSample
  Low = 2
  Pause = 1
  WordBytes <- MCWidths
  Length = 4
  Spf = 2
  Zero = Zero
  Unknown = Unknown
  ProbeW = 5
  Palette <- MCPalette
  Mappings <- MCMappings
  MaxSamples = 4
  IdentBase = 2
  ByteW = 2
  NoTrigger = NoTrigger
SPECIFICATION MCSpec
CHECK_DEADLOCK FALSE
INVARIANTS
  RecordsOfWindowsDone
  ParkedHeaderIsWhole
  WordsArrive
  ExportsReplay
