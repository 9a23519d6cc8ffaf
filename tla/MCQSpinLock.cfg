CONSTANTS
  NR_CPUS = 2
  Ctx <- NestedCtx
  k0 = k0
  k1 = k1
  Locks = {k0, k1}
  Users <- NestedUsers
  LockLevel <- NestedLevel
  NULL = NULL
SPECIFICATION FairSpec
INVARIANT TypeOK NodesPrivate
PROPERTY ImplementsSpinLock LockAcquired
