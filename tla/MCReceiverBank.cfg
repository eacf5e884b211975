\* Without a source, and with the requests of the behavior made, nothing is left to do.
SPECIFICATION FairSpec

CONSTANTS
    Frequencies = {1, 2}
    Bandwidths = {1, 2}
    Centers = {1}
    Rates = {2, 4}
    WorkBudget = 8
    MaxReceivers = 2
    MaxEdits = 3
    MaxRetunes = 1
    MaxProcessed = 1

INVARIANTS
    EditsStick
    BudgetIsShared

PROPERTIES
    SuspensionSettles

CHECK_DEADLOCK FALSE
