CONSTANTS
  Native = {m, n1}
  Foreign = {f1}
  Master = m
  Nobody = nobody
  MaxSigints = 1
  MaxCollects = 2
SPECIFICATION FairSpec
INVARIANTS WorldStopped DisabledMeansNoCollection PagesAgree
PROPERTIES WaitersResume SigintDelivered
