CONSTANTS
  c1 = c1
  c2 = c2
  Channels = {c1, c2}
  LocalFunding <- MCLocalFunding
  RemoteFunding <- MCRemoteFunding
  Nonces = {k1, k2, k3}
  Deltas = {0, 1}
  U64Max = 3
  MaxRequests = 3
  NoNonce = NoNonce
SPECIFICATION Spec
SYMMETRY NonceSymmetry
INVARIANTS
  SignedBalancesApplied
  AcceptedUpdateCommits
  RevocationChain
PROPERTIES
  DurableHistoryAppendOnly
  ImplementsLog
