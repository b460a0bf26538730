SPECIFICATION FairSpec
CONSTANTS
    MaxFiles = 2
    MaxChunks = 4
    Concurrency = 2
INVARIANTS TypeOK CompleteWhole EachPartOnce
PROPERTIES UploadEnds
CHECK_DEADLOCK FALSE
