CONSTANTS
  alice = alice
  bob = bob
  carol = carol
  Addresses = {alice, bob, carol}
  Genesis <- TwoAccounts
  Blocks <- BlocksOfTwo
  MaxHeight = 2
  MaxNonce = 2
  Voting = {c1, c2, c3}
  Names = {v1, w}
  Validators = {v1, v2}
  VotingPower <- UnitPower
  Threshold = 2
  Free = free
  MaxRound = 2
SPECIFICATION ChainSpec
CHECK_DEADLOCK FALSE
SYMMETRY Symmetric
INVARIANTS
  AseConserved
  NeverHalfway
  CommitOfTheRound
