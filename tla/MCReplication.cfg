SPECIFICATION Spec
CONSTANTS
  t1 = t1
  t2 = t2
  t3 = t3
  t4 = t4
  Leader = Leader
  Target = {t1, t2, t3, t4}
  Scenarios <- AllScenarios
  StreamAt = 2
  StreamLimit = 2
  MaxInFlight = 2
  Lease = 1
CHECK_DEADLOCK FALSE
 
INVARIANT LeaseHonest
PROPERTY CommitsOnlyChosen
PROPERTY DeposedStops
