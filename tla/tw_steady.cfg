\* Two timers that start and stop each other, once or repeated; OnExpired ends.
SPECIFICATION Spec
CONSTANTS
  BucketNum <- EightTicks
  TickUnits = 2
  Expires <- OneToFour
  CallTimes <- OnceOrAlways
  Steps <- SteadySteps
  IntLimit = 64
  MaxTimers = 2
  MaxClock = 8
INVARIANTS NoneOverdue
PROPERTIES RepeatsOnTime DrainEnds
CHECK_DEADLOCK FALSE
