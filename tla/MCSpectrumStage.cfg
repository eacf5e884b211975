SPECIFICATION FairSpec

CONSTANTS
    Lengths = {2, 3}
    Block = 2
    MaxRequests = 4
    MaxErrors = 1
    Clients = {c1}
    Sizes = {1, 2}
    Ring = 1
    Retained = 2
    MaxFrames = 3

INVARIANTS
    TypeOK
    DeliveryIsAccounted
    AnalysisNotBehind

PROPERTIES
    ReceiversAreSilenced
    FrameIsTrue
    ClientCatchesUp
