SPECIFICATION FairSpoolSpec
CONSTANTS
  Deliveries = {d1,d2}
  Processes = {p1}
  Bases = {1,2}
  Tags = {1}
  None = None
  RetryLimit = 2
  BatchLimit = 1
  MaxFaults = 1
  Respawn = TRUE
PROPERTIES
  Settles
