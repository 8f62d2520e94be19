SPECIFICATION Spec
CONSTANTS
  None = None
  Word = 8
  MaxTTL = 2
  MaxNegativeTTL = 1
  ServfailTTL = 1
  NegativeTTL = 3
  Callers = {c1, c2}
  Keys = {k1, k2, k3}
  Responses <- MixedResponses
  MaxEntries = 2
  Second = 2
  MaxClock = 4
SYMMETRY Symmetry
INVARIANT ListMatchesMap
INVARIANT ServedWithinTTL
INVARIANT AnswerTTLsCountDown
PROPERTY EvictsLeastRecentlyUsed
