SPECIFICATION Spec

CONSTANTS
  d1 = d1
  k1 = k1
  Leads = {d1}
  Commitments = {k1}
  Requests <- MCRequests
  e1 = e1
  e2 = e2
  l1 = l1
  l2 = l2
  a1 = a1
  a2 = a2
  c1 = c1
  c2 = c2
  Events = {e1, e2}
  Lists = {l1, l2}
  Approvals = {a1, a2}
  Confirmers = {c1, c2}
  Faults = {"lostAnswer", "crash", "grantRevoked"}
  MaxSends = 2

INVARIANTS
  SendsAreAccounted

SYMMETRY InviteSymmetry

PROPERTIES
  InvitesAreApproved
  LinksAgree
  MadeIsTold

CHECK_DEADLOCK FALSE
