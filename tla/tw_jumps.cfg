\* A clock that is set back or jumps by more than undo_nsec_ can hold.
SPECIFICATION Spec
CONSTANTS
  BucketNum <- FourTicks
  TickUnits = 2
  Expires <- OneThree
  CallTimes <- Twice
  Steps <- JumpSteps
  IntLimit = 4
  MaxTimers = 2
  MaxClock = 5
INVARIANTS Placement
PROPERTIES ServiceSpec
CHECK_DEADLOCK FALSE
