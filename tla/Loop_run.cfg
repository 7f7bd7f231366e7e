SPECIFICATION FairSpec

CONSTANTS
  Names = {"save_meeting", "create_lead", "restricted_tool", "no_such_tool"}
  Registered = {"save_meeting", "create_lead", "restricted_tool"}
  Visible = {"save_meeting", "create_lead"}
  MaxIterations = 2
  MaxCalls = 2

INVARIANTS
  ResultsArePaired
  ToldIsDone

PROPERTIES
  EveryRunEnds

CHECK_DEADLOCK FALSE
