CONSTANTS
    Queries = {p1, p2}
    Questions = {q1, q2}
    NumUpstreams = 3
    None = None
    Failure = Failure
SPECIFICATION FairSpec
INVARIANTS OneLeaderPerKey AnswersOwnQuestion SharedOutcome FailoverCoversAll
PROPERTIES CacheNeverRegresses
    EveryQueryReturns
