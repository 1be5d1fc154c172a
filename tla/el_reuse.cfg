\* The event of a removed channel is delivered to the one built in its memory.
SPECIFICATION SafeSpec
CONSTANTS
  Channels = {timer, c1, c2}
  Timer = timer
  Wakeup = wakeup
  Threads = {loop}
  Loop = loop
  Quitters <- NoQuitters
  BuildCallbacks <- SocketCallbacks
  MaxAttach = 4
  MaxPush = 0
CHECK_DEADLOCK FALSE
INVARIANTS RemovedNotUsed
