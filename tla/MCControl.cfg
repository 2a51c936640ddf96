SPECIFICATION FairControlledSpec
CONSTANTS
  RequestIDs = {"i1"}
  Selections = {"s1"}
  Callers = {}
  Tickets = {"t1"}
  Plans = {}
  ControlIDs = {"k1", "k2"}
  None = None
  MaxActiveRuns = 2
  MaxLaunchRequests = 2
  MaxRevision = 13
  MaxControlCoordinators = 2
  MaxControlReceipts = 2
  ReservedLifecycleReceipts = 1
INVARIANTS
  ControlInv
  AtMostOneEffect
  ReceiptsTruthful
PROPERTIES
  ReceiptsImmutable
  ControlsEnd
CHECK_DEADLOCK FALSE
