CONSTANTS
  m1 = m1
  m2 = m2
  o1 = o1
  o2 = o2
  Clients = {m1, m2}
  Agents = {o1, o2}
  MintsFor <- OwnMints
  Jobs = {"j1"}
  Receipts = {"h1"}
  InProcess = {m2}
  DopaminePerSynapse = 10
  EpochCap = 15
  RepeatLimit = 3
  Amounts = {2, 3}
  MaxTicks = 5
  Callers = {c1, c2, c3}
  MeterJobs = {j1}
  Utilizations <- SomeUtilizations
  MaxSessions = 2
  MaxTime = 3
  None = None
  Runners = {k1, k2}
  UcxAgents = {a1, a2}
  LockIds = {l1, l2, l3}
  Estimates = {2, 3}
  Actuals = {0, 3}
  InitialBalance = 4
  Contribution = 3
  TicksPerSynapse = 2
  MaxContributions = 5
  Dids = {d1, d2}
  Units <- SomeUnits
  Burns <- SomeBurns
  TitheNum = 1
  TitheDen = 4
  DecayNum = 1
  DecayDen = 2
  GpuPerSynapse = 2
  MaxRecords = 3
  MaxNegativeBurns = 2
  MaxDay = 3
SPECIFICATION UcxSpec
SYMMETRY Symmetric
INVARIANTS
  OverReserveBounded
  BilledWithinWallTime
  GpuTimeConserved
  IssuedWithinContribution
PROPERTIES
  ReadingFinal
  IssuanceSpec
