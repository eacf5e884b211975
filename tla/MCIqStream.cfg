SPECIFICATION FairSpec

CONSTANTS
    PoolBlocks = 2
    MaxArrived = 3
    MaxStale = 1
    MaxRecorded = 1

INVARIANTS
    NothingIsLost
    StreamIsWhole

PROPERTIES
    SinkFollows
    ContractKept
