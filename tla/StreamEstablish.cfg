CONSTANTS
  MaxAttempts = 2
  MaxRequests = 3
  MaxPeers = 3
  Backlog = 2
SPECIFICATION EstFairSpec
INVARIANTS NullOrPeer SteadyState PeersConserved AcceptReported
PROPERTIES SyncConnectReturns ImplementsOrderedCompletions ConnectionIsAccepted
\* The system stops when attempts, requests and peers are used up.
CHECK_DEADLOCK FALSE
