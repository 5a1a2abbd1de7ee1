\* A sample of each sensor and a flush compete for one place in each list and
\* in the pipe, with every kind of sleep in both threads.
SPECIFICATION FairSpec
CONSTANTS
  MaxSamples = 1
  MaxFlushes = 1
  ListCap = 1
  PipeCap = 1
  PollCount = 1
  SecTicks = 1
  AllocFails = FALSE
  Stamp <- Crossing
INVARIANTS NothingStranded
PROPERTIES EveryFlushAnswered EverySampleSettles DevicesDrained
