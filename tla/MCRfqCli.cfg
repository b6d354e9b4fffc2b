CONSTANTS
  Deals = {usd}
  Domains = {d1, d2}
  Times = {1, 2, 3}
  Expiries = {2}
  Scids = {1, 2}
  SeedOf <- MCSeedOf
  MaxProbes = 2
  Procs = {p1}
  NoInode = NoInode
  Torn = Torn
  ReinitAllowed = FALSE
  MaxGrants = 2
SPECIFICATION CliSpec
INVARIANTS
  AuthorizedOnce
  AnswersDurable
