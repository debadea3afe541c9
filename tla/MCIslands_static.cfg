\* Two static bodies and one dynamic one: the static bodies may touch.
CONSTANTS
  Dynamic = {1}
  Static = {2, 3}
  InitialSize = 2
  Threshold = 1
  MaxTouching = 2
  MaxEdits = 4
SPECIFICATION Spec
INVARIANT AssertionsHold
