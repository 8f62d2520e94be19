SPECIFICATION FairSpec
CONSTANTS
  DnsEdits = {d1, d2}
  FilterEdits = {f1}
  LocalEdits = {l1}
  Syncers = {ticker, api}
  Ticker = ticker
  Settings <- AllSettings
  ImportRows = {2}
  Faults = {"fetch", "version", "import", "setversion", "reload", "persist", "crash", "restart"}
  MaxEvents = 2
INVARIANT SameVersionSameConfig
PROPERTY KeepsPersistedEdits
PROPERTY ConvergesWhenTied
PROPERTY ImportReachesResolvers
PROPERTY PromotedKeepsItsData
PROPERTY PromotionAnswers
\* A node that has left the cluster has nothing more to do.
CHECK_DEADLOCK FALSE
