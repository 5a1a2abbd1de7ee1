\* malloc and calloc may fail anywhere on the way of two samples per sensor
\* (the accelerometer's first is discarded) and of the answer to a flush.
SPECIFICATION Spec
CONSTANTS
  MaxSamples = 2
  MaxFlushes = 1
  ListCap = 2
  PipeCap = 2
  PollCount = 1
  SecTicks = 2
  AllocFails = TRUE
  Stamp <- SameRate
INVARIANTS NothingStranded
PROPERTIES ImplementsChannel
