\* Every pair of knobs with the target within the cap.
CONSTANTS
  TargetMax = 2  CapMax = 3
  TargetDefault = 2  CapDefault = 3
  PlcMax = 2
  Wrap = 4
  MaxTunes = 2  MaxRejoins = 2
  KnobsOrdered = TRUE
SPECIFICATION FairSpec
INVARIANTS TypeOK QueueIsNewest LatencyBounded RepeatBounded
PROPERTY StreamHeard
