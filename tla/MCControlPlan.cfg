SPECIFICATION ControlledSpec
CONSTANTS
  RequestIDs = {"i1"}
  Selections = {"s1"}
  Callers = {}
  Tickets = {"t1"}
  Plans = {"p1"}
  ControlIDs = {"k1"}
  None = None
  MaxActiveRuns = 2
  MaxLaunchRequests = 2
  MaxRevision = 13
  MaxControlCoordinators = 2
  MaxControlReceipts = 2
  ReservedLifecycleReceipts = 1
INVARIANTS
  PlanExcludesControls
PROPERTIES
  OnlyStopAfterCommit
CHECK_DEADLOCK FALSE
