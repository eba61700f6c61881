CONSTANTS
  nthreads = 2
  Objects = {"a"}
  MaxEntries = 2
  MaxEvents = 0
  ExitWhileRunning = TRUE
SPECIFICATION Spec
INVARIANT OnceInOnePlace
