SPECIFICATION FairSpec
CONSTANTS
    Domains = {"ads"}
    Spellings = {"ads", "ADS"}
    Normal <- LowerCase
    Enabled = {1}
    Whitelisted = {}
    Blacklisted = {"ads", "ADS"}
    Lists <- TwoLists
    Queries = {q1}
    Calls = {c1, c2}
    Requests <- TwoRequests
    c1 = c1
    c2 = c2
    RefreshInterval = 1
    Tries = {1, 2, 3, 4, 5, 6}
    Main = 1
    MaxFaults = 1
    None = None
\* Once the engine is closed and the calls are made, nothing is left to do.
CHECK_DEADLOCK FALSE
INVARIANT WhitelistWins
INVARIANT TablesInForce
PROPERTY ListsEventuallyBlocked
