SPECIFICATION FairSpec
CONSTANTS
  w1 = w1
  w2 = w2
  Worker = {w1, w2}
  Cores = 2
  MaxAttempts = 2
  MaxSize = 8
  Batch = 3
  MaxTerm = 2
  KeepAtLeast = 1
  Step = 3
  Budgets <- AllBudgets
CHECK_DEADLOCK FALSE
 
INVARIANT NoUseAfterDetach
PROPERTY TargetCatchesUp
