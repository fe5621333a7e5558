CONSTANTS
  WrpBytes = 2
  WrpBits = 2
  Requests <- SectorSets
  MaxCmds = 4
  MaxFails = 2
SPECIFICATION Spec
INVARIANTS ProtectionHonoured
PROPERTIES BlankFirst
