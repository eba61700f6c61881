CONSTANTS
  MarkThreads = {g1, g2}
  Master = m
  Objects = {"a", "b", "c", "d"}
  Roots = {"a"}
  FinRoots = {"d"}
  Refs <- SomeRefs
  MaxCollections = 2
  Nobody = nobody
  Nothing = nothing
  Thieves = {s1, s2}
  Owner = o1
  InitialCapacity = 2
  MaxItems = 3
  HeapObjects = {"a", "b", "w"}
  WeakRefs = {"w"}
  Finalized = {"b"}
  Big = {"b"}
  PageOf <- OnePage
  nthreads = 2
  FinObjects = {"a"}
  MaxEntries = 2
  MaxEvents = 2
  ExitWhileRunning = FALSE
SPECIFICATION HeapSpec
INVARIANTS
  ZeroMeansDone
  NothingLost
  NoDangling
  FullCollects
  OnceInOnePlace
  PendingIsDue
PROPERTIES
  MarkingEnds
  TakenOnce
