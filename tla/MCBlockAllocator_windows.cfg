\* The 256B allocator with the Windows definition of AtomicStoreRel32.
CONSTANTS
  t1 = t1
  t2 = t2
  Threads = {t1, t2}
  MaxCount = 4
  LocalMax = 4
  LocalLow = 2
  GenMod = 8
  Store32 = TRUE
  MaxAllocs = 5
SPECIFICATION Spec
INVARIANTS
  LocalStackLinked
