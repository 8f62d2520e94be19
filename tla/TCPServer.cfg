SPECIFICATION FairSpec
CONSTANTS
    Conns = {1, 2, 3}
    IP <- OneAddress
    Listeners = {l1, l2}
    MaxPerIP = 2
    MaxQueries = 1
    NoConn = NoConn
INVARIANT LimitPerIP
INVARIANT DrainedMeansIdle
PROPERTY EveryConnectionEnds
PROPERTY ShutdownCompletes
