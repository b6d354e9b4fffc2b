CONSTANTS
  peer = peer
  usd = usd
  context = context
  Btc = Btc
  Absent = Absent
  MsatPerBtc = 4
  U64Max = 10
  Deals <- MCDeals
  Domains = {d1, d2}
  Times = {1, 3, 4}
  Expiries = {3}
  InvoiceEnds = {2, 3}
  Scids = {1}
  SeedOf <- MCSeedOf
  MaxProbes = 2
  Fixtures <- MCFixtures
  MaxOutputs = 2
  MaxHtlcs = 1
  Hashes = {h}
  MaxQuotes = 2
  MaxPayments = 1
SPECIFICATION LLSpec
SYMMETRY DomainSymmetry
INVARIANTS
  IndexesExact
  LiveAliasNeverReal
  HandshakeWithinQuote
  RequestNamesDeal
PROPERTIES
  UsedIsFinal
  NoQuoteBurnt
