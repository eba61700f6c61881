CONSTANTS
  ProposalIds = {b1}
  ElectionIds = {b1}
  ReferendumIds = {b1}
  Voters = {v1, v2, v3}
  Choices = {"yes", "no"}
  Officials = {o1}
  LawIds = {l1}
  CouncilSize = 3
  None = None
  Wallets = {w1, w2}
  Shrines = {s1, s2, s3}
  BadgeHolders = {s1, s2}
  Council = {m1, m2, m3}
  ApprovalsNeeded = 2
  SevenYears = 2
  StartTime = 1
  MaxTime = 4
  MaxOfferings = 2
  NoShrine = none
  Addresses = {a1, a2}
  InitialBalance = 10
  Amounts <- SomeAmounts
  BirthFee = 10
  MaxNegatives = 1
  Nobody = nobody
  BlockAmounts <- SomeBlockAmounts
  AgentBirthFee = 5
  MaxAgentsPerDay = 1
  MaxDay = 2
  MaxBlocks = 2
  MaxInstructions = 2
SPECIFICATION VmSpec
SYMMETRY Symmetric
INVARIANTS
  LawsCarried
  AwardedByCouncil
  AseAccounted
PROPERTIES
  ExecutedWithQuorum
  LossIsReceipted
  SabbathRests
