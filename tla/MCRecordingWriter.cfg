SPECIFICATION FairSpec

CONSTANTS
    PoolBlocks = 3
    ChannelBlocks = 1
    Settings = {s1, s2}
    Modulus = 16
    MaxOffered = 3
    MaxPatches = 1

INVARIANTS
    Accounted
    PoolSuffices
    CapturesOrdered
    QueuedTracksChannel

PROPERTIES
    ContractKept
    NobodyWaitsForever
