\* Two threads, three keys that share a bucket.
CONSTANTS
  t1 = t1
  t2 = t2
  b1 = b1
  Threads = {t1, t2}
  Main = t1
  Keys <- AllKeys
  Buckets = {b1}
  Hash <- OneBucket
  InitialLength = 1
  StealMax = 1
  BitBlock = 1
  Warm <- WarmCalls
  MaxSlots = 5
  MaxCalls = 4
  MaxTicks = 3
  MaxPairs = 2
SPECIFICATION Spec
INVARIANTS
  TypeOK
  SlotsHaveMemory
  SlotsAccounted
  PersistentUsageExact
PROPERTY
  ImplementsKeyMap
