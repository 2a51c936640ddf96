SPECIFICATION SpoolSpec
CONSTANTS
  Deliveries = {d1,d2}
  Processes = {p1,p2,p3}
  Bases = {1,2,3}
  Tags = {1,2}
  None = None
  RetryLimit = 2
  BatchLimit = 1
  MaxFaults = 1
  Respawn = FALSE
SYMMETRY MCSymmetry
INVARIANTS
  SpoolInv
  EventOnce
CHECK_DEADLOCK FALSE
