\* One descriptor beside the listener, opened three times; two buffers; three messages.
SPECIFICATION NetSpec
CONSTANTS
  Fds = {l, a}
  Listener = l
  Timers = {t1, t2}
  Room = 1
  MaxOpen = 3
  Buffers = {b1, b2}
  Bytes = {x, y}
  Zero = zero
  MaxReadable = 3
  MaxChunk = 2
  SizeRange = 65536
  MaxVector = 1000
  Mark = y
  MaxMemory = 7
  MaxMessages = 3
  MaxPayload = 2
  SendBuffer = 1
CHECK_DEADLOCK FALSE
INVARIANTS NothingLeaks TimersMatch BuffersKept FramesKept ConversionsKept
PROPERTIES AttemptsAnswered
