SPECIFICATION FairDrainSpec
CONSTANTS
  RequestIDs = {"i1", "i2"}
  Selections = {"s1"}
  Callers = {"c1"}
  Tickets = {"t1", "t2"}
  Plans = {"p1"}
  None = None
  MaxActiveRuns = 2
  MaxLaunchRequests = 2
  MaxRevision = 9
INVARIANTS
  ConfirmedRosterComplete
PROPERTIES
  PlansEnd
  ServeReturns
  LaunchesEnd
