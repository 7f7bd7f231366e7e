SPECIFICATION FairSpec

CONSTANTS
  MaxGrants = 3
  MaxRuns = 2
  MaxCrashes = 1
  LostAnswers = TRUE

INVARIANTS
  RevokedIsDead
  StampIsOfThisGrant
  AnnouncedOnce

PROPERTIES
  LapseIsAnnounced

CHECK_DEADLOCK FALSE
