SPECIFICATION BulkSpec
CONSTANTS
    Key = {1, 2, 3}
    Field = {1, 2, 3}
    Hint = {1, 2}
    Holder = {1, 2}
    Workload <- All
    Unguarded = {}
    MaxVersion = 2
    MaxDrift = 3
    MaxDuration = 2
INVARIANTS
    
    
    LeasesMatch
    
    ScanComplete
PROPERTIES
    
    LeaseChangesHands
CHECK_DEADLOCK FALSE
