SPECIFICATION FairSpec

CONSTANTS
    Clients = {c1, c2}
    Configs = {d1, d2}
    Default = d1
    QueueCapacity = 1
    MaxCalls = 5

INVARIANTS
    CallbackStorageRetained
    SettingsAreTrue

PROPERTIES
    EveryCallReturns
    DeathIsNoticed
