SPECIFICATION Spec

CONSTANTS
  MaxGrants = 2
  MaxRuns = 2
  MaxCrashes = 0
  LostAnswers = FALSE

INVARIANT
  ReconnectStartsClean

CHECK_DEADLOCK FALSE
