CONSTANTS
    Workers = {w1, w2}
    PoolSize = 2
    MaxRetries = 2
SPECIFICATION FairSpec
INVARIANTS ConnSingleOwner
PROPERTIES
    EveryCallEnds
