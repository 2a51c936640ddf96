SPECIFICATION LifecycleSpec
CONSTANTS
  RequestIDs = {i1}
  Selections = {s1}
  Callers = {c1}
  Tickets = {t1, t2}
  Plans = {p1, p2}
  None = None
  MaxActiveRuns = 2
  MaxLaunchRequests = 2
  MaxRevision = 14
SYMMETRY MCSymmetry
INVARIANTS
  LifecycleInv
  DrainingClosedEverything
  RejectedPlanHasNoEffect
  CleanMeansReconciled
PROPERTIES
  SpawnsInsideEpoch
