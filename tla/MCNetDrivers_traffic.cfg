CONSTANTS
  Drivers <- AllDrivers
  LwipRx = 3
  UsbRx = 2
  TxNum = 2
  Loads <- AllLoads
SPECIFICATION FairSpec
INVARIANTS FramesInOrder SentAsGiven
PROPERTIES NothingStays
