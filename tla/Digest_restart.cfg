SPECIFICATION Spec

CONSTANTS
  ana = ana
  sofia = sofia
  luis = luis
  eva = eva
  i1 = i1
  i2 = i2
  i3 = i3
  Users = {ana}
  Items = {i1}
  Rank <- MCRank
  Owner <- MCOwner
  Offset <- MCOffset
  CreatedAt <- MCCreatedAt
  BadRows = {}
  Unreachable = {}
  DarkCalendars = {}
  BrokenReads = {}
  Leavers = {}
  Faults = {"restart"}
  TicksPerDay = 3
  SendTick = 1
  MaxTick = 6
  MaxSends = 3
  MaxHappenings = 2

INVARIANTS
  OnePerDay

CHECK_DEADLOCK FALSE
