SPECIFICATION LifecycleSpec
CONSTANTS
  RequestIDs = {i1}
  Selections = {s1}
  Callers = {c1}
  Tickets = {t1}
  Plans = {p1}
  None = None
  MaxActiveRuns = 1
  MaxLaunchRequests = 2
  MaxRevision = 14
PROPERTIES
  NoCleanAfterUncertainCommit
