SPECIFICATION ServerSpec

CONSTANTS
    Configs = {d1}
    Default = d1
    MaxRequests = 3
    MaxStreams = 2
    MaxFiles = 1
    MaxRecordings = 1

INVARIANTS
    TypeOK
    NoMockUnderHardware


    
    
