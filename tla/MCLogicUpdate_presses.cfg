CONSTANTS
  SectorCells = 2
  BlockSectors = 4
  FlashSectors = 12
  PlainSectors = 5
  PackedSectors = 3
  LogicOffset = 1
  Cells <- TheCells
  Packed = {"config"}
  Starts <- Devices
  MaxPresses = 3
  MaxFaults = 2
SPECIFICATION Spec
INVARIANTS ReportedIsStored CleanPressSucceeds ProgramSurvives
