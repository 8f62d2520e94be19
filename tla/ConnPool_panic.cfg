CONSTANTS
    Workers = {w1, w2}
    PoolSize = 1
    MaxRetries = 1
SPECIFICATION Spec
INVARIANTS
    NoCrash
