SPECIFICATION Spec

CONSTANTS
  c1 = c1
  c2 = c2
  c3 = c3
  f1 = f1
  f2 = f2
  f3 = f3
  m1 = m1
  m2 = m2
  Contacts = {c1, c2, c3}
  Private = {c3}
  Meetings = {f1, f2}
  Leads = {f3}
  Confided = {f1}
  Reclassified = {f2}
  Hers = {f1, m1}
  Merges = {m1, m2}
  MaxFiled = 2

INVARIANTS
  PersonSurvives
  InConfidence

PROPERTIES
  
  ConfidenceKept

SYMMETRY RowSymmetry

CHECK_DEADLOCK FALSE
