CONSTANTS
  c1 = c1
  ka = ka
  kb = kb
  None = None
  ZeroId = ZeroId
  Malformed = Malformed
  NoValue = NoValue
  Asset = Asset
  Channels = {c1}
  LocalFunding <- MCLocalFunding
  RemoteFunding <- MCRemoteFunding
  Nonces = {n1, n2}
  Deltas = {0, 1}
  U64Max = 3
  MaxRequests = 2
  NoNonce = NoNonce
  CloseKeys <- MCCloseKeys
  Moves <- MCMoves
  MaxArtifacts = 2
  TakenStages = {"Settled"}
  U32Max = 5
  Snapshots <- MCSnapshots
  Watched = {"FinalSweep", "FailedSweep"}
  MaxObservations = 2
SPECIFICATION LifecycleSpec
SYMMETRY NonceSymmetry
INVARIANTS
  CloseNeverStuck
  ClosePaysCommitted
  CloseClaimable
  ObsoleteProofRefused
  SafeCheckpointRecovers
  LifecycleReportsBuild
  ObservedCounts
  CallbacksCoverObservations
CHECK_DEADLOCK FALSE
