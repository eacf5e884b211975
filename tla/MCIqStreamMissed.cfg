SPECIFICATION Spec

CONSTANTS
    PoolBlocks = 2
    MaxArrived = 4
    MaxStale = 1
    MaxRecorded = 1

INVARIANTS
    AttachedRecordingSeesAll
