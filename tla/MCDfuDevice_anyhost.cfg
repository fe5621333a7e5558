CONSTANTS
  MaxAddr = 7
  BufLen = 8
  LenMod = 16
  SectorSize = 4
  WRPR = {1}
  Reqs <- AnyReqs
  MaxWrites = 2
  VerifyHost = FALSE
SPECIFICATION FairSpec
PROPERTIES ResetWhenQuiet 
