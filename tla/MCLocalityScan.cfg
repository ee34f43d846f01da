SPECIFICATION BulkSpec
CONSTANTS
    Key = {1, 2, 3}
    Field = {1, 2, 3}
    Hint = {1, 2, 3}
    Holder = {1, 2}
    Workload <- LocalityScanner
    Unguarded = {"matchloc"}
    MaxVersion = 2
    MaxDrift = 3
    MaxDuration = 2
INVARIANT ScanComplete
CHECK_DEADLOCK FALSE
