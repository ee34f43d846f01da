SPECIFICATION StaleCommitSpec
CONSTANTS
  s1 = s1
  s2 = s2
  s3 = s3
  s4 = s4
  s5 = s5
  v1 = v1
  v2 = v2
  Nobody = Nobody
  Blocked = Blocked
  Server = {s1, s2, s3, s4, s5}
  Value = {v1}
  PayloadLimits = {1, 2}
  Windows = {"send"}
  MaxTerm = 2
  MaxLogSize = 3
  MaxElections = 2
  MaxLateVotes = 0
  MaxFaults = 0
  MaxAppReqs = 1
CHECK_DEADLOCK FALSE
INVARIANT StateMachineSafety
