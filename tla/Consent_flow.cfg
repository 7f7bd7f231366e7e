SPECIFICATION Spec

CONSTANTS
  ana = ana
  w1 = w1
  w2 = w2
  s1 = s1
  s2 = s2
  b1 = b1
  b2 = b2
  Users = {ana}
  Addresses = {w1, w2}
  Accounts <- MCAccounts
  States = {s1, s2}
  Callbacks = {b1, b2}
  TTL = 1
  Wait = 1
  MaxLinks = 2
  MaxTick = 4

SYMMETRY ConsentSymmetry

INVARIANTS
  GrantIsTheUsersOwn
  StateIsSingleUse

PROPERTIES
  ConsentIsRecent

CHECK_DEADLOCK FALSE
