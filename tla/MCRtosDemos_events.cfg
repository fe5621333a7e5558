SPECIFICATION RtosFairSpec
CONSTANTS
  Kernels <- AllKernels
  QueuePeriod = 2
  SemPeriod = 5
  TimerPeriod = 10
  GpPeriod = 3
  MaxLate = 2
INVARIANTS EventsArrive
PROPERTIES EveryTaskWorks
