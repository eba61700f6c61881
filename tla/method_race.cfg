CONSTANTS
  a = a
  b = b
  c = c
  g = g
  h = h
  k = k
  None = None
  ml_matches <- MlMatches
  Nothing = Nothing
  Signatures <- SomeSignatures
  Wide <- CompiledWide
  Callers = {g, h, k}
  Site <- SomeSites
  Callees <- SomeCallees
  Vague = {h}
  MaxMethods = 1
  MaxDeletes = 0
  MaxEntries = 1
  MaxCode = 2
  Lag = 1
  Overlap = TRUE
  TableSize = 1
SPECIFICATION MCSpec
INVARIANTS
  CodeIsCurrent
CHECK_DEADLOCK FALSE
