SPECIFICATION FairSpec
CONSTANTS
  Tasks = {t1, t2, t3}
  WorkerCount = 1
  Depth = 2
  NoTask = NoTask
INVARIANT QueuedOnlyWhenFull
PROPERTIES EveryCallSettles ThreadsEnd ImplementsParseOnce
CHECK_DEADLOCK FALSE
