CONSTANTS
  NR_CPUS = 3
  Ctx <- FlatCtx
  k0 = k0
  k1 = k1
  Locks = {k0}
  Users <- FlatUsers
  LockLevel <- FlatLevel
  NULL = NULL
SPECIFICATION FairSpec
INVARIANT WaitersVisible
PROPERTY QueueIsFifo LockAcquired
