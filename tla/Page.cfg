SPECIFICATION Spec
CONSTANTS
    MaxJobs = 3
    MaxChanges = 1
INVARIANT TypeOK
INVARIANT OwnWritesRead
PROPERTY EveryPanel
PROPERTY RequestsEnd
PROPERTY SearchesEnd
CHECK_DEADLOCK FALSE
