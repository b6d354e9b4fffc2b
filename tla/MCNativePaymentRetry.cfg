CONSTANTS
  c1 = c1
  a = a
  b = b
  Channels = {c1}
  LocalFunding <- MCLocalFunding
  RemoteFunding <- MCRemoteFunding
  AssetOf <- MCAssetOf
  Deals <- MCDeals
  Domains = {d1, d2}
  Times = {1}
  Scids = {1, 2}
  SeedOf <- MCSeedOf
  MaxProbes = 2
  Hashes = {h1, h2}
  Nonces = {k1, k2}
  U64Max = 4
  NoNonce = NoNonce
  NoQuote = NoQuote
  NoHash = NoHash
  Orders = {FALSE}
  MaxCalls = 2
SPECIFICATION Spec
PROPERTY FailedCallNeverAdvances
