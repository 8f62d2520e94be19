SPECIFICATION FairSpec
CONSTANTS
  DnsEdits = {}
  FilterEdits = {f1}
  LocalEdits = {}
  Syncers = {ticker}
  Ticker = ticker
  Settings = {}
  ImportRows = {2}
  Faults = {"restart"}
  MaxEvents = 2
PROPERTY Converges
