\* Two channels besides the timer's, attached, detached, destroyed and rebuilt by
\* callbacks while a batch is handled.
SPECIFICATION SafeSpec
CONSTANTS
  Channels = {timer, c1, c2}
  Timer = timer
  Wakeup = wakeup
  Threads = {loop}
  Loop = loop
  Quitters <- NoQuitters
  BuildCallbacks <- SocketCallbacks
  MaxAttach = 4
  MaxPush = 0
SYMMETRY Alike
CHECK_DEADLOCK FALSE
INVARIANTS TypeOK LiveNotSilenced Registrations
PROPERTIES DetachedIsSilent
