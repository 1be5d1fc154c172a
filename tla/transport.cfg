\* Two network loops, one descriptor, used twice.
SPECIFICATION FairSpec
CONSTANTS
  Agents = {n1, n2}
  ListenAgent = n1
  Fds = {a}
  MaxOpen = 2
  MaxData = 1
CHECK_DEADLOCK FALSE
INVARIANTS ConnectedFirst AnsweredOnce
PROPERTIES AttemptsAnswered
