CONSTANTS
    Callers = {c1, c2}
    Keys = {k1, k2}
    Rate = 2
    Burst = 2
    Unit = 3
    CleanupInterval = 2
    MaxEntries = 1
    MaxClock = 3
    NoEntry = NoEntry
SPECIFICATION Spec
SYMMETRY Symmetry
INVARIANTS
    RateConforms
PROPERTIES
    DeniesOnlyWhenDry
