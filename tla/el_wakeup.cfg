\* Callbacks pushed by two other threads and by callbacks, until one of them quits the loop.
SPECIFICATION TickingSpec
CONSTANTS
  Channels = {timer}
  Timer = timer
  Wakeup = wakeup
  Threads = {loop, t1, t2}
  Loop = loop
  Quitters = {loop, t1}
  BuildCallbacks <- NoBuilds
  MaxAttach = 1
  MaxPush = 4
CHECK_DEADLOCK FALSE
INVARIANTS NoLostWakeup
PROPERTIES WakeupSpec QuitEnds
