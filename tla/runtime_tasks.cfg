CONSTANTS
  nthreads = 2
  Tasks = {"r0", "r1", "u"}
  Root <- RootTasks
  MaxOps = 3
  MaxMisses = 1
  NoTask = "none"
SPECIFICATION FairSpec
INVARIANTS OneThreadPerTask AsleepMeansSleeping
PROPERTIES TaskRuns IoServed RegionHandsBack
