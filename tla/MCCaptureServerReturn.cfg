SPECIFICATION Spec

CONSTANTS
    Configs = {d1}
    Default = d1
    MaxRequests = 4
    MaxStreams = 2
    MaxFiles = 0
    MaxRecordings = 0

INVARIANTS
    StartReturnsToMock
