CONSTANTS
  hook = hook
  operator = operator
  dead = dead
  none = none
  r1 = r1
  r2 = r2
  e1 = e1
  Procs <- MCProcs
  Yielding <- MCYielding
  DeadPid = dead
  None = none
  RunIDs <- MCRunIDs
  Records <- MCRecords
  Operators <- MCOperators
  Commands = {"compact", "rollback", "doctor"}
  MaxInode = 3
  MaxVersion = 2
  MaxExits = 0
  MaxPowerLoss = 2

SPECIFICATION CompactionSpec
INVARIANTS
  CompactionInv
  LeaseExclusion
  StoreAlwaysWhole
  OnlyRollbackWindowLoses
  JournalNotAhead
  OriginalKept
  CrashLeavesResumable
