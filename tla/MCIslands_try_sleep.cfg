\* A dynamic body that rests on a static one.
CONSTANTS
  Dynamic = {1}
  Static = {2}
  InitialSize = 2
  Threshold = 1
  MaxTouching = 2
  MaxEdits = 4
SPECIFICATION Spec
INVARIANT SleepUninterrupted
