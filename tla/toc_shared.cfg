CONSTANTS
  Clients = {c1, c2}
  InProcess = {c2}
  Agents = {a1}
  Jobs = {"j1", "j2"}
  Receipts = {"h1"}
  MintsFor <- SharedMints
  TicksPerSynapse = 2
  DopaminePerSynapse = 10
  EpochCap = 15
  RepeatLimit = 2
  Amounts = {2, 3}
  MaxTicks = 7
  None = None
SPECIFICATION Spec
INVARIANTS
  WatermarkBacked
  RepeatOvershootBounded
  TallyOvershootBounded
  LedgersAgree
