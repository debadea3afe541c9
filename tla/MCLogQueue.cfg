\* Two slots and three threads; with the message of the shutdown four tickets
\* are issued, so that they run out and both counters wrap.  Any thread may
\* call FatalCleanupAndExit while the others are anywhere.
CONSTANTS
  main = main
  t1 = t1
  t2 = t2
  Loggers = {main, t1, t2}
  Main = main
  MaxMessages = 2
  CounterMod = 4
  Budget <- MCBudget
SPECIFICATION FairSpec
INVARIANTS
  TypeOK
  SlotOwnership
  FileInTicketOrder
  TicketsBounded
  OrderlyExitWritesAll
PROPERTY ShutdownReturns
