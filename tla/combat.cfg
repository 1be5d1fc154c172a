\* Two players on two connections, two combats or one and an action; the gateway restarts once.
SPECIFICATION CombatSpec
CONSTANTS
  MaxSessions = 2
  Names = {a, b}
  Watched = a
  None = None
  MaxRequests = 2
  Roles = {r1, r2, r3, r4}
  NoField = None
CHECK_DEADLOCK FALSE
INVARIANTS PointersKept InStep
PROPERTIES Answered
