SPECIFICATION ServiceSpec

CONSTANTS
  t1 = t1
  t2 = t2
  t3 = t3
  app = app
  old = old
  Turns = {t1, t2, t3}
  Notes <- MCNotes
  Rounds = 1
  Size = 2
  App = app
  Starters = {app, old}
  Ships <- MCShips
  MaxFailures = 2

INVARIANTS
  OnlyVoiceNotesJam
  TurnsFindTheirSchema

PROPERTIES
  EveryTurnEnds
  WholeReleases

CHECK_DEADLOCK FALSE
