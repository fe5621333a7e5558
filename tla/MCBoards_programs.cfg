SPECIFICATION BoardSpec
CONSTANTS
  Builds <- AllBuilds
  MaxEvents = 3
  DevicePrograms = {"cdc_msc", "otg"}
  DeviceFifo = 3
  DeviceBufSize = 3
  Interval <- Intervals
  MaxLate = 4
  Strings <- Lengths
  MaxChars = 4
  DeviceLoads <- EchoAndBus
  DISK_BLOCK_NUM = 3
  Behind = 2
  Contents = {"image", "a", "b"}
  Image <- ImageBlocks
  MaxLength = 3
  HidPrograms = {"host", "otg"}
  Instances = {1, 2}
  Plain = {"f1"}
  KeySlots = 2
  HidLoads <- KeysAndDevices
  HostBufSize = 2
  HostFifo = 3
  Sticks = {"s1", "s2"}
  HostLoads <- ConsoleAndSticks
  Ports = {"usb", "i2c"}
  BootFifo = 4
  Packet = 2
  Noise = 2
  Scripts <- Exchanges
  Rate <- Rates
  SofCount = 3
  SofMin = 147
  SofMax = 156
  SofJitter = 1
  Strange <- LeftOut
  MaxStrange = 2
  Bits <- BitLengths
  Gaps <- InitGaps
  EdgeJitter = 1
  MaxInits = 4
  Resting <- Quiet
INVARIANTS AppUntouched LoaderWorks ButtonFirst AskedForLoader DeviceServes HostServes LoaderExchanges
PROPERTIES KeepsTime EverythingGoesOn
