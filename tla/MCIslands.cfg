\* Three dynamic bodies and a static one, which is enough for an island to be
\* split in two and merged with a third; the pool and the bit vectors grow
\* twice.
CONSTANTS
  Dynamic = {1, 2, 3}
  Static = {4}
  InitialSize = 2
  Threshold = 1
  MaxTouching = 2
  MaxEdits = 4
SPECIFICATION Spec
INVARIANTS
  TypeOK
  AssertionsHold
  IslandsAreComponents
  ContactsAccounted
  SleepCoherent
  ProxiesFresh
PROPERTY WokenWhenUnsupported
