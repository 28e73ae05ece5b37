\* Two calls of a Writer reuse an id that a peer uses too, and the peer may have
\* both slots.
SPECIFICATION WriterSpec
CONSTANTS
  x = x
  y = y
  c1 = c1
  p = p
  q = q
  k1 = k1
  k2 = k2
  Connections = {c1, c2}
  Peers = {c2}
  Ids = {p, q}
  Pieces = {x, y}
  PieceBytes <- MCPieceBytes
  Parts = 2
  DecodedBytes = 2
  Transactions = 2
  MaxOpen = 2
  MaxGeneration = 2
  Padded = Padded
  None = None
  Calls = {k1, k2}
  CallConnection <- MCCallConnection
  CallId <- MCCallId
  CallContent <- MCCallContent
  PeerFrames <- MCPeerFrames
INVARIANTS
  SlotsAreExact
  OnlyCompleteCandidates
  PublishIsHonest
