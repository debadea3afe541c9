CONSTANTS
  main = main
  t1 = t1
  t2 = t2
  Loggers = {main, t1, t2}
  Main = main
  MaxMessages = 2
  CounterMod = 4
  Budget <- MCBudget
SPECIFICATION Spec
INVARIANT AllWrittenAtClose
