SPECIFICATION ChannelSpec

CONSTANTS
    CaptureRates = {1, 3, 10}
    WantedRates = {2}
    AudioRate = 2
    StageTaps = 3
    ChannelTaps = 4
    DetectorTaps = 5
    AudioTaps = 3
    Levels = {0, 1, 2}
    Thresholds = {1}
    Hold = 3
    Ramp = 2
    BlockSizes = {1, 3}
    MaxInput = 20

INVARIANTS
    FiltersSeeLatest
    NeverDrifts

PROPERTY
    SquelchHolds
