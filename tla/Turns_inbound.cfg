SPECIFICATION FairSpec

CONSTANTS
  ana = ana
  m1 = m1
  m2 = m2
  p1 = p1
  p2 = p2
  p12 = p12
  r1 = r1
  r2 = r2
  Users = {ana}
  Messages = {m1, m2}
  Payloads = {p1, p2, p12}
  Leavers = {ana}
  Requests = {r1, r2}
  HistoryLimit = 3
  SerialDelivery = TRUE
  MaxDeliveries = 1
  MaxTurns = 2
  MaxCrashes = 1
  From <- MCFrom
  Kind <- MCKind
  Carries <- MCCarries

INVARIANTS
  TypeOK
  MutualExclusion
  BurstHasTimer
  AtMostOnce
  LoggedWasDelivered
  SeesThePast
  FailureIsVisible

PROPERTIES
  ImplementsInbox
  EveryMessageSettles

CHECK_DEADLOCK FALSE
