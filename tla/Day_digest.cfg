SPECIFICATION DaySpec

CONSTANTS
  LastMinute = 5
  WorkStart = 1
  WorkEnd = 4
  MaxEvents = 3

INVARIANTS
  OverlapsAreExact
  FreeIsUncovered

CHECK_DEADLOCK FALSE
