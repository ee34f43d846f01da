SPECIFICATION Spec
CONSTANTS
  s1 = s1
  s2 = s2
  s3 = s3
  v1 = v1
  Nobody = Nobody
  Blocked = Blocked
  Server = {s1, s2, s3}
  Value = {}
  PayloadLimits = {1}
  Windows = {"write", "send"}
  MaxTerm = 2
  MaxLogSize = 3
  MaxElections = 2
  MaxLateVotes = 0
  MaxFaults = 1
  MaxAppReqs = 1
SYMMETRY Symmetry
CHECK_DEADLOCK FALSE
INVARIANTS
  TypeOK
  ElectionSafety
  DurableVote
  NoStrayCandidate
PROPERTIES
  CommittedStays
  VoteNeverChanges
