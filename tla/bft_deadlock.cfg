CONSTANTS
  Callers = {c1, c2}
  Names = {v1, v2}
  Validators = {v1, v2}
  VotingPower <- UnitPower
  Threshold = 2
  Free = free
  MaxRound = 1
SPECIFICATION Spec
CHECK_DEADLOCK FALSE
PROPERTIES
  VotesRecorded
