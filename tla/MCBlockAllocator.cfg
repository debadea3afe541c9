\* Two threads, four blocks and local stacks of three: a thread returns two
\* blocks at once while another allocates, and blocks come back several times.
CONSTANTS
  t1 = t1
  t2 = t2
  Threads = {t1, t2}
  MaxCount = 4
  LocalMax = 4
  LocalLow = 2
  GenMod = 8
  Store32 = FALSE
  MaxAllocs = 5
SPECIFICATION Spec
SYMMETRY ThreadSymmetry
INVARIANTS
  TypeOK
  EveryBlockOnce
  ExchangeIsFresh
  GenerationZeroIsFresh
  LocalStackLinked
