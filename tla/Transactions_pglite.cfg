SPECIFICATION Spec
CONSTANTS
  t1 = t1
  t2 = t2
  q = q
  None = None
  Transaction = {t1, t2}
  Query = {q}
  Connection = {c1}
  Caller <- Flat
  Length = 2
  Concurrent = FALSE
  Shared = TRUE
  MaxFaults = 1
  MaxDrops = 0
INVARIANT Atomic
