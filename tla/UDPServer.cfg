SPECIFICATION UDPFairSpec
CONSTANTS
  MaxLabel = 63
  MaxName = 8
  maxCompressionDepth = 2
  MaxIncomingDNSMessageSize = 60
  MaxRRPerSection = 1
  MaxTotalRR = 1
  DefaultUDPPayloadSize = 24
  EDNSMaxUDPPayloadSize = 48
  None = None
  Garbage = Garbage
  Error = Error
  p1 = p1
  p2 = p2
  Packets = {p1, p2}
  Payloads <- MCPayloads
  Parses <- parses
  FormErrs <- formErrs
  ServFails <- servFails
  Workers = {w1, w2}
  Buffers = {b1, b2}
  QueueSize = 1
INVARIANTS NamesDecode ErrorRepliesMatch QueriesKeepMeaning RepliesFit
INVARIANTS BufferSingleOwner AnswersOwnPacket
PROPERTY EveryPacketHandled
PROPERTY UDPShutdownCompletes
