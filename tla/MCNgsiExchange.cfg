CONSTANTS
  ClientRequests <- MCClientRequests
  PeerRequests <- MCPeerRequests
  Answers <- MCAnswers
  Connections <- MCConnections
SPECIFICATION Spec
INVARIANTS
  DocumentWellFormed
  PeerAccepted
