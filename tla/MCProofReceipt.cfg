CONSTANTS
  A = A
  B = B
  here = here
  there = there
  Records <- MCRecords
  Anchors = {here, there}
  U64Max = 4
  p = p
  q = q
  Peers <- MCPeers
  Clean <- MCClean
  Levels = 3
  MaxSum = 3
  Assets <- MCAssets
  KeyOf <- MCKeyOf
  TreeLeaves <- MCTreeLeaves
  MaxLeaves = 3
  MaxAssets = 3
  TopAssets <- MCTopAssets
  VmInputs <- MCVmInputs
  VmWitnesses <- MCVmWitnesses
  VmSplits <- MCVmSplits
  MaxVmItems = 2
SPECIFICATION ReceiptSpec
INVARIANTS
  OutputIsAnnounced
  TreeProofsExact
  OutputsBindAssets
  AcceptedTransitionsConserve
  ExplainedIffUnspent
  LinearHistoryConserves
  AncestryAccepted
PROPERTY
  EventuallyComplete
CHECK_DEADLOCK FALSE
