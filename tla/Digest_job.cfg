SPECIFICATION FairSpec

CONSTANTS
  ana = ana
  sofia = sofia
  luis = luis
  eva = eva
  i1 = i1
  i2 = i2
  i3 = i3
  Users = {ana, sofia, luis, eva}
  Items = {i2, i3}
  Rank <- MCRank
  Owner <- MCOwner
  Offset <- MCOffset
  CreatedAt <- MCCreatedAt
  BadRows = {luis}
  Unreachable = {ana}
  DarkCalendars = {sofia}
  BrokenReads = {eva}
  Leavers = {sofia}
  Faults = {"restart", "lostAnswer", "commit", "slow"}
  TicksPerDay = 3
  SendTick = 1
  MaxTick = 6
  MaxSends = 4
  MaxHappenings = 3

INVARIANTS
  NudgesAreExact
  StampHasDigest
  OnePerDayOnceRecorded
  EarlyOnlyPastMidnight

PROPERTIES
  EveryoneIsServed

CHECK_DEADLOCK FALSE
