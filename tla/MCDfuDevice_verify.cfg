CONSTANTS
  MaxAddr = 11
  BufLen = 8
  LenMod = 16
  SectorSize = 4
  WRPR = {2}
  Reqs <- OrdinaryReqs
  MaxWrites = 2
  VerifyHost = TRUE
SPECIFICATION Spec
INVARIANTS ReceiveBufferFree AckedIsStored FastPgOff
PROPERTIES ServesMemory
