SPECIFICATION FairSpec

CONSTANTS
    QuietFrames = 2
    RingEvents = 2
    QueueCapacity = 1
    Limit = 3
    MaxFrames = 10
    MaxFailures = 1

INVARIANTS
    TrackerFindsEvents
    NoEventLost

PROPERTIES
    DetectionsComplete
    ShutdownEnds
