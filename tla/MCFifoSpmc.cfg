\* Three threads pop from a queue of two entries while one of them pushes six
\* tasks: the array wraps three times and the ticket counter once.
CONSTANTS
  w1 = w1
  w2 = w2
  main = main
  Workers = {w1, w2}
  Master = main
  N = 2
  CounterMod = 4
  MaxPush = 6
SPECIFICATION FairSpec
INVARIANTS
  TypeOK
  OneOwnerPerEntry
  TicketNamesTask
PROPERTIES
  NeverReturnedTwice
  Implements
  EveryTaskReturned
