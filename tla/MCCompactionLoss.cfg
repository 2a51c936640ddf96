CONSTANTS
  hook = hook
  operator = operator
  dead = dead
  none = none
  r1 = r1
  r2 = r2
  e1 = e1
  Procs <- MCProcs
  Yielding <- MCYielding
  DeadPid = dead
  None = none
  RunIDs <- MCRunIDs
  Records <- MCRecords
  Operators <- MCOperators
  Commands = {"compact", "rollback"}
  MaxInode = 2
  MaxVersion = 2
  MaxExits = 1
  MaxPowerLoss = 0

SPECIFICATION CompactionSpec
INVARIANT NoAcknowledgedLoss
