SPECIFICATION FairSpec
CONSTANTS
  t1 = t1
  t2 = t2
  q = q
  None = None
  Transaction = {t1, t2}
  Query = {q}
  Connection = {c1, c2}
  Caller <- Nested
  Length = 2
  Concurrent = FALSE
  Shared = FALSE
  MaxFaults = 1
  MaxDrops = 1
INVARIANTS Isolated PoolClean Atomic ResolvedIsCommitted RejectedIsUndone
PROPERTIES StoreImplemented EveryCallSettles
