SPECIFICATION Spec
CONSTANTS
  s1 = s1
  s2 = s2
  s3 = s3
  s4 = s4
  Nobody = Nobody
  Server = {s1, s2, s3, s4}
  Scenarios <- Overlapping
  MaxTerm = 3
  KeepAtLeast = 2
  Step = 1
  MaxLag = 1
SYMMETRY AnyOrder
CHECK_DEADLOCK FALSE
INVARIANT CommittedAgree
