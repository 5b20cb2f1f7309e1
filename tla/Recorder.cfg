CONSTANTS
  FlushAt = 6
  SizeMod = 24
  MaxSeconds = 3
  MaxTicks = 7
  MaxFaults = 2
SPECIFICATION Spec
INVARIANTS TypeOK HeaderHonest BufferBounded
PROPERTY TapeSpec
CHECK_DEADLOCK FALSE
