SPECIFICATION FairSpec

CONSTANTS
    Capacity = 5
    Prime = 4
    StepNum = 3
    StepDen = 2
    Packet = 2
    RingCapacity = 2
    PendingLimit = 1
    SocketLimit = 1
    MaxPackets = 4
    MaxRebuilds = 1
    MaxRenders = 2
    MaxRuns = 1

INVARIANTS
    TypeOK
    SoundIsWhole

PROPERTIES
    PlaysAtRate
    WindowReopens

CHECK_DEADLOCK FALSE
