CONSTANTS
  FifoLen = 16
  MaxLenEE = 512
  MaxLen <- MaxLens
  Size = 4
  Image <- TheImage
  Frame = 1
  ExtRd = 2
  ExtWr = 3
  Attempts = 4
  Old <- OldBytes
  MaxPresses = 2
  MaxFaults = 2
SPECIFICATION FairSpec
INVARIANTS MemoryIsRight CleanUpdateSucceeds
PROPERTIES Finishes UnlockOnlyProtected
