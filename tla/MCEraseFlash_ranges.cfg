CONSTANTS
  SectorSize = 2
  BlockSectors = 4
  FlashSectors = 12
  MaxPages = 3
  LastWp = 5
  WrpChoices <- Protections
  Requests <- NoBlocks
  OptionBase = 32
  OptionSize = 4
SPECIFICATION Spec
INVARIANTS FrameFits OnlyAsked AllErased
