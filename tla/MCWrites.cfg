SPECIFICATION FairSpec
CONSTANTS
  c1 = c1
  c2 = c2
  Nobody = Nobody
  Handler = Handler
  Conn = {c1, c2}
  StaleReaders = {c2}
  Leaving = {c1}
  MaxTerm = 3
  MaxForeign = 3
  MaxRequests <- TwoAndOne
CHECK_DEADLOCK FALSE
INVARIANTS
  QueuesConsistent
  WritesExecuted
  AnswersInOrder
  ReadsMonotonic

  
