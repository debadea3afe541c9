\* Two workers and the main thread, a queue of two entries, four tasks in at
\* most two frames: the queue fills, a thread runs several tasks of a batch,
\* and batches of every kind follow one another.
CONSTANTS
  w1 = w1
  w2 = w2
  main = main
  Workers = {w1, w2}
  Master = main
  Capacity = 2
  MaxTasks = 4
  MaxFrames = 2
  BundleSizes = {2, 3}
SPECIFICATION FairSpec
INVARIANTS
  TypeOK
  BatchComplete
  ResultsPresent
  FreshFrameMemory
  NoUseAfterReuse
  MeetingReachesAll
  QuietShutdown
PROPERTY Terminates
