SPECIFICATION Spec
CONSTANTS
  s1 = s1
  s2 = s2
  s3 = s3
  v1 = v1
  Nobody = Nobody
  Blocked = Blocked
  Server = {s1, s2, s3}
  Value = {v1}
  PayloadLimits = {1}
  Windows = {"prevote"}
  MaxTerm = 2
  MaxLogSize = 3
  MaxElections = 2
  MaxLateVotes = 0
  MaxFaults = 0
  MaxAppReqs = 1
SYMMETRY Symmetry
CHECK_DEADLOCK FALSE
INVARIANTS
  
  StateMachineSafety
  TrackersSound
  
