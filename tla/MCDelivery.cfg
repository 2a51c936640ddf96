SPECIFICATION DeliverySpec
CONSTANTS
  Writers = {p, q}
  Which = {"prompt", "transcript", "start", "one_shot", "end", "finish"}
  Calls <- MCCalls
  MaxEvents = 3
  MaxAttempts = 2
  BatchSize = 1
  None = None
SYMMETRY MCSymmetry
INVARIANTS
  DeliveryInv
  ChainAttestsEvents
  OneStartOneEnd
  ToldTheTruth
  PublishedHistory
PROPERTIES
  RecordsOnce
CHECK_DEADLOCK FALSE
