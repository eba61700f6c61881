CONSTANTS
  a = a
  b = b
  c = c
  g = g
  h = h
  k = k
  None = None
  ml_matches <- MlMatches
  Nothing = Nothing
  Signatures <- SomeSignatures
  Wide <- CompiledWide
  Callers = {g, h, k}
  Site <- SomeSites
  Callees <- SomeCallees
  Vague = {h}
  MaxMethods = 3
  MaxDeletes = 1
  MaxEntries = 1
  MaxCode = 2
  Lag = 1
  Overlap = FALSE
  TableSize = 4
SPECIFICATION MCSpec
INVARIANTS
  MatchesRight
  CachesAgree
  CodeIsCurrent
CHECK_DEADLOCK FALSE
