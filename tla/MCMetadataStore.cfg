SPECIFICATION MetadataSpec

CONSTANTS
    Captures = {c1, c2}
    Others = {x}
    NoCapture = NoCapture
    Tables = 2
    MaxNotes = 2
    MaxStops = 2

INVARIANTS
    ServingMeansMigrated
    StartedIsIndexed

CHECK_DEADLOCK FALSE
