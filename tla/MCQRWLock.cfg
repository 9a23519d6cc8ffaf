CONSTANTS
  Ctx <- NestedCtx
  NoCtx = NoCtx
SPECIFICATION FairSpec
INVARIANT TypeOK CountExact
PROPERTY ImplementsRWLock InterruptReaderServed TasksServed
