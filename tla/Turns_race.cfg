SPECIFICATION Spec

CONSTANTS
  ana = ana
  m1 = m1
  m2 = m2
  p1 = p1
  p2 = p2
  p12 = p12
  r1 = r1
  r2 = r2
  Users = {ana}
  Messages = {m1}
  Payloads = {p1}
  Leavers = {}
  Requests = {r1, r2}
  HistoryLimit = 3
  SerialDelivery = FALSE
  MaxDeliveries = 2
  MaxTurns = 2
  MaxCrashes = 0
  From <- MCFrom
  Kind <- MCKind
  Carries <- MCCarries

INVARIANTS
  AtMostOnce

CHECK_DEADLOCK FALSE
