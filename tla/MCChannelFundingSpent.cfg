CONSTANTS
  None = None
  ZeroId = ZeroId
  Malformed = Malformed
  A = A
  T = T
  k = k
  x = x
  Wallets = {w1, w2}
  Assets = {A}
  Keys = {k}
  Issues = {0, 2}
  Amounts = {0, 1}
  States = {"Reorged"}
  Watched <- MCWatched
  TapdImports <- MCTapdImports
  Rewritten <- MCRewritten
  MaxMade = 3
  U64Max = 4
  Outpoints = {o}
  FundingKeys = {f}
  MaxInputs = 1
  MaxChannels = 2
SYMMETRY Interchangeable
SPECIFICATION FlowSpec
INVARIANT
  SpentNeverSpendable
CHECK_DEADLOCK FALSE
