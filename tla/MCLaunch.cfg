SPECIFICATION Spec
CONSTANTS
  RequestIDs = {i1, i2}
  Selections = {s1, s2}
  Callers = {c1, c2}
  Tickets = {t1, t2, t3}
  None = None
  MaxActiveRuns = 1
  MaxLaunchRequests = 2
  MaxRevision = 8
SYMMETRY MCSymmetry
INVARIANTS
  LaunchInv
  AtMostOneSpawnPerRequest
  IdleMeansReconciled
  DurableOutcomes
PROPERTIES
  CommitOnlyWhileWanted
  UncertaintyLatched
