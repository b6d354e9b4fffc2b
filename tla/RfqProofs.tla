------------------------------ MODULE RfqProofs ------------------------------
(***************************************************************************)
(* Proofs about the three users of a quote store, for every set of deals,  *)
(* domains, times and SCIDs, every seed function and any number of alias   *)
(* probes.                                                                 *)
(*                                                                         *)
(* RfqQuoteStore is one process with a store in memory and in a file.      *)
(* RfqQuotesProofs shows that every operation keeps a store good; the      *)
(* invariant IInv also needs that memory never forgets a domain the file   *)
(* lists as used (so that a save cannot reopen one).                       *)
(*                                                                         *)
(* LightningLabsPayment uses up the quotes of such a store.  A payment     *)
(* authorizes its quote, one of the store's own operations, so IInv holds  *)
(* there too, and that live quotes are in no used domain is what makes     *)
(* every bound invoice payable until its quote expires.                    *)
(*                                                                         *)
(* RfqCli runs commands that load and save the file; the proofs are for    *)
(* commands that run one at a time and an operator who does not run        *)
(* rfq-store-init on a store in use.  Without either hypothesis two        *)
(* authorizations can be printed for one quote.  A command may be killed   *)
(* at any point.  The invariant CliInv follows the one command through its *)
(* save: the file is whole whatever inode is being written, since the      *)
(* temporary path never names the file's inode; the command's copy forgets *)
(* no domain the file has used; and the quote it is about to grant has     *)
(* never been granted, because every grant is in the file's                *)
(* used_replay_domains and authorize_asset_htlc refuses those.             *)
(***************************************************************************)
EXTENDS RfqCli, LightningLabsPayment, RfqQuotesProofs, FiniteSums

(* The quote store *)

IInv == GoodStore(mem) /\ GoodStore(disk) /\ UsedContinues(disk, mem)

------------------------------------------------------------------------------
(* The inductive invariant *)

(* A store starts empty. *)
LEMMA InitIInv == Init => IInv
BY EmptyIsGood DEF Init, IInv, UsedContinues, EmptyStore

(* What an operation on memory needs to show. *)
LEMMA MemoryStep ==
  ASSUME IInv, GoodStore(mem'), UsedContinues(mem, mem'), UNCHANGED disk
  PROVE  IInv'
BY DEF IInv, UsedContinues

(* Every step keeps both stores good and forgets no used domain. *)
LEMMA NextIInv == IInv /\ [Next]_vars => IInv'
<1> SUFFICES ASSUME IInv, [Next]_vars PROVE IInv'
  OBVIOUS
<1>a. GoodStore(mem) /\ GoodStore(disk) /\ UsedContinues(disk, mem)
  BY DEF IInv
<1>1. ASSUME NEW scid \in Scids, RegisterRealLocalScid(scid) PROVE IInv'
  BY <1>1, <1>a, RegisteredIsGood, MemoryStep DEF RegisterRealLocalScid
<1>2. ASSUME NEW deal \in Deals, NEW expiry \in Expiries, NEW domain \in Domains,
             NEW now \in Times, RequestQuote(deal, expiry, domain, now)
      PROVE  IInv'
  BY <1>2, <1>a, RequestedIsGood, MemoryStep DEF RequestQuote
<1>3. ASSUME NEW q \in DOMAIN mem.quotes, NEW now \in Times, AcceptQuote(q, now)
      PROVE  IInv'
  BY <1>3, <1>a, AcceptedIsGood, MemoryStep DEF AcceptQuote
<1>4. ASSUME NEW q \in DOMAIN mem.quotes, RejectQuote(q) PROVE IInv'
  BY <1>4, <1>a, TerminatedIsGood, MemoryStep DEF RejectQuote, RejectAllowed, LiveQuotes
<1>5. ASSUME NEW q \in DOMAIN mem.quotes, NEW now \in Times, ExpireQuote(q, now)
      PROVE  IInv'
  BY <1>5, <1>a, TerminatedIsGood, MemoryStep DEF ExpireQuote, ExpireAllowed, LiveQuotes
<1>6. ASSUME NEW q \in DOMAIN mem.quotes, NEW now \in Times, AuthorizeAssetHtlc(q, now)
      PROVE  IInv'
  BY <1>6, <1>a, AuthorizedIsGood, MemoryStep DEF AuthorizeAssetHtlc
<1>7. CASE Save
  BY <1>7, <1>a DEF Save, IInv, UsedContinues
<1>8. CASE Restart
  BY <1>8, <1>a DEF Restart, IInv, UsedContinues
<1>9. CASE UNCHANGED vars
  BY <1>9, <1>a DEF vars, IInv
<1> QED BY <1>1, <1>2, <1>3, <1>4, <1>5, <1>6, <1>7, <1>8, <1>9 DEF Next

------------------------------------------------------------------------------
(* Theorems *)

(* The inductive invariant holds in every reachable state. *)
LEMMA Invariant == Spec => []IInv
BY InitIInv, NextIInv, PTL DEF Spec

(* Both stores are well-formed after any sequence of calls, saves and      *)
(* restarts.                                                               *)
THEOREM QuoteStoreTypeCorrect == Spec => []TypeOK
<1>1. IInv => TypeOK
  BY DEF IInv, GoodStore, TypeOK
<1> QED BY Invariant, <1>1, PTL

(* live_aliases and used_replay_domains agree with the quotes' statuses,   *)
(* without any help from the validation at the end of an operation.        *)
THEOREM IndexesStayExact == Spec => []IndexesExact
<1>1. IInv => IndexesExact
  BY DEF IInv, GoodStore, IndexesExact
<1> QED BY Invariant, <1>1, PTL

(* request_quote never hands out a real channel's SCID and                 *)
(* register_real_local_scid never takes a live alias.                      *)
THEOREM LiveAliasStaysDistinct == Spec => []LiveAliasNeverReal
<1>1. IInv => LiveAliasNeverReal
  BY DEF IInv, GoodStore, LiveAliasNeverReal
<1> QED BY Invariant, <1>1, PTL

(* A step of the store keeps the used domains of the file closed. *)
LEMMA UsedStep ==
  ASSUME IInv, [Next]_vars, disk' # disk, NEW d \in DOMAIN disk.used
  PROVE  /\ d \in DOMAIN disk'.used /\ disk'.used[d] = disk.used[d]
         /\ \A q \in LiveQuotes(disk') : q.domain # d
<1>1. Save
  BY DEF vars, Next, RegisterRealLocalScid, RequestQuote, AcceptQuote, RejectQuote,
         ExpireQuote, AuthorizeAssetHtlc, Restart
<1>2. disk' = mem
  BY <1>1 DEF Save
<1> QED BY <1>2 DEF IInv, UsedContinues, GoodStore, LiveDomainsOpen

(* A replay domain the file lists as used stays used by the same quote and *)
(* no quote of it is ever live again, across saves and restarts.           *)
THEOREM UsedStaysFinal == Spec => UsedIsFinal
<1> DEFINE Final == \A d \in DOMAIN disk.used :
                      /\ d \in DOMAIN disk'.used /\ disk'.used[d] = disk.used[d]
                      /\ \A q \in LiveQuotes(disk') : q.domain # d
<1>1. IInv /\ [Next]_vars => [Final]_disk
  BY UsedStep
<1> QED BY Invariant, <1>1, PTL DEF Spec, UsedIsFinal

------------------------------------------------------------------------------
(* Payments with a Lightning Labs counterparty *)

(* A step of a payment is one of the store's own operations. *)
LEMMA SettleKeeps ==
  ASSUME IInv, NEW r, NEW inv, NEW dir, NEW now, Settle(r, inv, dir, now)
  PROVE  IInv' /\ UNCHANGED disk
<1> DEFINE q == inv.quote
<1>1. /\ q \in DOMAIN mem.quotes /\ AuthorizeAllowed(mem, q, now)
      /\ mem' = Authorized(mem, q) /\ UNCHANGED disk
  BY DEF Settle, Payable, Bindable
<1>2. GoodStore(mem)
  BY DEF IInv
<1> HIDE DEF q
<1>3. GoodStore(mem') /\ UsedContinues(mem, mem')
  BY <1>1, <1>2, AuthorizedIsGood
<1> QED
  BY <1>1, <1>3, MemoryStep

LEMMA LLStoreStep == IInv /\ [LLNext]_allVars => IInv' /\ ([Next]_vars \/ UNCHANGED disk)
<1> SUFFICES ASSUME IInv, [LLNext]_allVars PROVE IInv' /\ ([Next]_vars \/ UNCHANGED disk)
  OBVIOUS
<1>1. CASE Next
  BY <1>1, NextIInv
<1>2. CASE UNCHANGED allVars
  <2>1. UNCHANGED vars
    BY <1>2 DEF allVars, vars
  <2> QED
    BY <2>1, NextIInv
<1>3. ASSUME NEW r, NEW inv, NEW now, SettleOutgoing(r, inv, now) \/ SettleIncoming(r, inv, now)
      PROVE  IInv' /\ UNCHANGED disk
  BY <1>3, SettleKeeps DEF SettleOutgoing, SettleIncoming
<1> QED
  BY <1>1, <1>2, <1>3 DEF LLNext

(* The store's invariant holds in every reachable state of the payments. *)
LEMMA LLStoreInvariance == LLSpec => []IInv
<1>1. LLInit => IInv
  BY InitIInv DEF LLInit
<1>2. IInv /\ [LLNext]_allVars => IInv'
  BY LLStoreStep
<1> QED
  BY <1>1, <1>2, PTL DEF LLSpec

(* The payments of a Lightning Labs counterparty, which use up quotes of   *)
(* the store whether or not they are recorded, leave its indexes exact, a  *)
(* live alias distinct from real channels' SCIDs and a used replay domain  *)
(* closed for good.                                                        *)
THEOREM PaymentsKeepStore ==
  LLSpec => []IndexesExact /\ []LiveAliasNeverReal /\ UsedIsFinal
<1> DEFINE Final == \A d \in DOMAIN disk.used :
                      /\ d \in DOMAIN disk'.used /\ disk'.used[d] = disk.used[d]
                      /\ \A q \in LiveQuotes(disk') : q.domain # d
<1>1. IInv => IndexesExact /\ LiveAliasNeverReal
  BY DEF IInv, GoodStore, IndexesExact, LiveAliasNeverReal
<1>2. IInv /\ [LLNext]_allVars => [Final]_disk
  BY LLStoreStep, UsedStep
<1> QED BY LLStoreInvariance, <1>1, <1>2, PTL DEF LLSpec, UsedIsFinal

(* What asset_units_per_btc_rate returns multiplies back to the amount. *)
LEMMA ExactDivision ==
  ASSUME NEW n \in Nat, NEW m \in Nat \ {0}, n >= m, n % m = 0
  PROVE  n \div m \in Nat \ {0} /\ (n \div m) * m = n
OBVIOUS

(* The terms of an invoice that handling it relies on. *)
InvoiceTerms(inv) ==
  /\ inv.amount \in Nat \ {0} /\ inv.msat \in Nat \ {0}
  /\ inv.asset # Absent /\ inv.context # Absent
  /\ inv.expiry \in Nat /\ inv.quoteExpiry \in Nat
  /\ inv.expiry <= inv.quoteExpiry

LEMMA RateMultiplies ==
  ASSUME NEW inv, InvoiceTerms(inv), RateExact(inv)
  PROVE  Rate(inv) \in Nat \ {0} /\ Rate(inv) * inv.msat = inv.amount * MsatPerBtc
<1>1. inv.amount * MsatPerBtc \in Nat
  BY LightningLabsAssumption DEF InvoiceTerms
<1>2. /\ inv.msat \in Nat \ {0} /\ inv.amount * MsatPerBtc >= inv.msat
      /\ (inv.amount * MsatPerBtc) % inv.msat = 0
  BY DEF InvoiceTerms, RateExact
<1> QED
  BY <1>1, <1>2, ExactDivision DEF Rate

(* The bound invoices have those terms; their quotes are in no domain that *)
(* is used, so paying one is a matter of time alone.                       *)
LEMMA BoundInvoiceTerms ==
  ASSUME IInv, DealTerms, NEW inv \in BoundInvoices
  PROVE  /\ InvoiceTerms(inv)
         /\ RfqIdOf(inv) \in Domains
         /\ inv.quote.deal \in Deals
         /\ inv = Invoice(inv.quote, inv.hash, inv.expiry)
         /\ \A now : Payable(mem, inv, now) <=> now <= inv.quoteExpiry
<1>1. PICK q \in {p \in DOMAIN mem.quotes : mem.quotes[p] = "Accepted"},
           hash \in Hashes, expiry \in InvoiceEnds : inv = Invoice(q, hash, expiry)
  BY DEF BoundInvoices, Invoices
<1>2. /\ inv.quote = q /\ inv.hash = hash /\ inv.expiry = expiry /\ inv.quoteExpiry = q.expiry
      /\ inv.amount = q.deal.amount /\ inv.msat = q.deal.msat
      /\ inv.asset = q.deal.asset /\ inv.context = q.deal.context
  BY <1>1 DEF Invoice
<1>3. q \in QuoteId /\ q \in LiveQuotes(mem) /\ q \in DOMAIN mem.quotes /\ mem.quotes[q] = "Accepted"
  BY <1>1 DEF IInv, GoodStore, IsQuoteStore, LiveQuotes, Live
<1>4. q.deal \in Deals /\ q.expiry \in Nat /\ q.domain \in Domains /\ expiry \in Nat
  BY <1>3, QuoteAssumption, PaymentAssumption DEF QuoteId
<1>5. q.domain \notin DOMAIN mem.used
  BY <1>3 DEF IInv, GoodStore, LiveDomainsOpen
<1>6. expiry <= q.expiry
  BY <1>2 DEF BoundInvoices, Bindable
<1>7. InvoiceTerms(inv)
  BY <1>2, <1>4, <1>6 DEF InvoiceTerms, DealTerms
<1>8. \A now : Payable(mem, inv, now) <=> now <= inv.quoteExpiry
  BY <1>2, <1>3, <1>5, <1>6 DEF Payable, Bindable, AuthorizeAllowed, NotExpired
<1> QED
  BY <1>1, <1>2, <1>4, <1>7, <1>8 DEF RfqIdOf

(* What is encoded with all its required fields is read back as it was: an *)
(* optional field that is absent has no record, and no record is absent.   *)
LEMMA RequestIsRead ==
  ASSUME NEW m, DOMAIN m = RequestRequired \cup RequestOptional,
         m = [f \in DOMAIN m |-> m[f]], \A f \in RequestRequired : m[f] # Absent
  PROVE  RequestRequired \subseteq DOMAIN Encode(m) /\ ReadRequest(Encode(m)) = m
<1> DEFINE e == Encode(m)
<1>1. DOMAIN e = {f \in DOMAIN m : m[f] # Absent} /\ \A f \in DOMAIN e : e[f] = m[f]
  BY DEF Encode
<1> HIDE DEF e
<1>2. RequestRequired \subseteq DOMAIN e
  BY <1>1
<1>3. ReadRequest(e) = [f \in DOMAIN m |-> IF f \in DOMAIN e THEN e[f] ELSE Absent]
  BY DEF ReadRequest
<1>4. \A f \in DOMAIN m : (IF f \in DOMAIN e THEN e[f] ELSE Absent) = m[f]
  BY <1>1
<1>5. ReadRequest(e) = m
  BY <1>3, <1>4
<1> QED
  BY <1>2, <1>5 DEF e

(* The fields of a request for an invoice. *)
LEMMA RequestFields ==
  ASSUME NEW inv, NEW id, NEW dir
  PROVE  LET m == RequestFor(inv, id, dir)
         IN  /\ DOMAIN m = RequestRequired \cup RequestOptional
             /\ m = [f \in DOMAIN m |-> m[f]]
<1> DEFINE m == RequestFor(inv, id, dir)
<1>1. DOMAIN m = {"version", "id", "type", "expiry", "inAsset", "inGroup", "outAsset",
                  "outGroup", "maxIn", "inRate", "outRate", "minIn", "minOut",
                  "metadata", "limit", "policy"}
  BY DEF RequestFor
<1>2. m = [f \in DOMAIN m |-> m[f]]
  BY DEF RequestFor
<1> HIDE DEF m
<1>3. DOMAIN m = RequestRequired \cup RequestOptional
  BY <1>1 DEF RequestRequired, RequestOptional
<1> QED
  BY <1>2, <1>3 DEF m

(* The exchange about a bound invoice, at any time: it succeeds exactly    *)
(* for an asset that is not bitcoin, at a rate that is a whole number,     *)
(* before the quote expires, for an invoice that lasts as long.            *)
LEMMA HandshakeExact ==
  ASSUME AbsentIsNoValue, NEW inv, InvoiceTerms(inv), NEW id \in Domains,
         NEW dir \in Directions, NEW now \in Nat
  PROVE  Handshake(inv, inv.peer, id, dir, now) <=>
           /\ RateExact(inv) /\ inv.asset # Btc
           /\ now < inv.quoteExpiry /\ inv.expiry = inv.quoteExpiry
<1> DEFINE m == RequestFor(inv, id, dir)
           a == AcceptFor(inv, id, dir)
           out == dir = "outgoing"
<1> SUFFICES ASSUME RateExact(inv)
             PROVE  Handshake(inv, inv.peer, id, dir, now) <=>
                      /\ inv.asset # Btc
                      /\ now < inv.quoteExpiry /\ inv.expiry = inv.quoteExpiry
  BY DEF Handshake
<1>1. /\ inv.amount \in Nat \ {0} /\ inv.msat \in Nat \ {0}
      /\ inv.expiry \in Nat /\ inv.quoteExpiry \in Nat /\ inv.expiry <= inv.quoteExpiry
      /\ inv.asset # Absent /\ inv.context # Absent
      /\ Rate(inv) \in Nat \ {0} /\ MsatPerBtc \in Nat \ {0}
  BY RateMultiplies, LightningLabsAssumption DEF InvoiceTerms
<1>2. Absent \notin Int /\ Absent # id /\ Absent # Btc
      /\ TransferType(dir) # Absent
  BY DEF AbsentIsNoValue, TransferType
<1>3. Earlier(inv.expiry, inv.quoteExpiry) = inv.expiry
  BY <1>1 DEF Earlier
<1>4. /\ m.version = 1 /\ m.id = id /\ m.type = TransferType(dir)
      /\ m.expiry = inv.expiry
      /\ m.inAsset = (IF out THEN Btc ELSE inv.asset) /\ m.inGroup = Absent
      /\ m.outAsset = (IF out THEN inv.asset ELSE Btc) /\ m.outGroup = Absent
      /\ m.maxIn = (IF out THEN inv.msat ELSE inv.amount)
      /\ m.inRate = (IF out THEN Absent ELSE Rate(inv))
      /\ m.outRate = (IF out THEN Rate(inv) ELSE Absent)
      /\ m.minIn = (IF out THEN Absent ELSE inv.amount)
      /\ m.minOut = (IF out THEN inv.msat ELSE Absent)
      /\ m.metadata = inv.context /\ m.limit = Rate(inv)
  BY <1>3 DEF RequestFor
<1>5. RequestRequired \subseteq DOMAIN Encode(m) /\ ReadRequest(Encode(m)) = m
  <2>1. \A f \in RequestRequired : m[f] # Absent
    <3>1. m.version # Absent /\ m.id # Absent /\ m.type # Absent /\ m.expiry # Absent
      BY <1>1, <1>2, <1>4
    <3>2. m.maxIn # Absent
      BY <1>1, <1>2, <1>4
    <3> QED
      BY <3>1, <3>2 DEF RequestRequired
  <2>2. DOMAIN m = RequestRequired \cup RequestOptional /\ m = [f \in DOMAIN m |-> m[f]]
    BY RequestFields
  <2> HIDE DEF m
  <2> QED
    BY <2>1, <2>2, RequestIsRead
<1>6. /\ a.version = 1 /\ a.id = id /\ a.expiry = inv.quoteExpiry /\ a.signature = 64
      /\ a.inRate = (IF out THEN MsatPerBtc ELSE Rate(inv))
      /\ a.outRate = (IF out THEN Rate(inv) ELSE MsatPerBtc)
      /\ a.maxIn = (IF out THEN inv.msat ELSE inv.amount)
      /\ DOMAIN a = AcceptRequired \cup {"maxIn"}
  BY DEF AcceptFor, AcceptRequired
<1> HIDE DEF m
<1>7. AcceptRequired \subseteq DOMAIN Encode(a) /\ ReadAccept(Encode(a)) = a
  <2>1. a = [f \in AcceptRequired \cup {"maxIn"} |-> a[f]]
    BY <1>6 DEF AcceptFor
  <2> HIDE DEF a
  <2>2. a.maxIn \in Nat \ {0} /\ a.inRate \in Nat /\ a.outRate \in Nat
    BY <1>1, <1>6
  <2>3. \A f \in DOMAIN a : a[f] # Absent
    BY <1>1, <1>2, <1>6, <2>2 DEF AcceptRequired
  <2> DEFINE e == Encode(a)
  <2>4. DOMAIN e = DOMAIN a /\ \A f \in DOMAIN e : e[f] = a[f]
    BY <2>3 DEF Encode
  <2> HIDE DEF e
  <2>5. ReadAccept(e) = [f \in AcceptRequired \cup {"maxIn"} |->
                           IF f \notin DOMAIN e \/ (f = "maxIn" /\ e[f] = 0) THEN Absent
                           ELSE e[f]]
    BY DEF ReadAccept
  <2>6. \A f \in AcceptRequired \cup {"maxIn"} :
          (IF f \notin DOMAIN e \/ (f = "maxIn" /\ e[f] = 0) THEN Absent ELSE e[f]) = a[f]
    BY <1>6, <2>2, <2>4
  <2>7. ReadAccept(e) = a
    BY <2>1, <2>5, <2>6
  <2> QED
    BY <1>6, <2>4, <2>7 DEF e
<1> HIDE DEF a
<1>8. AcceptShape(a)
  BY <1>1, <1>6 DEF AcceptShape
<1>9. RequestShape(m) <=> inv.asset # Btc
  BY <1>1, <1>2, <1>4 DEF RequestShape, OneSpecifier
<1>10. ValidAgainst(m, inv.peer, inv, dir, now) <=> inv.asset # Btc /\ inv.expiry > now
  BY <1>1, <1>2, <1>4, <1>9 DEF ValidAgainst, ValidAt
<1>11. AcceptValidFor(a, m, now) <=> inv.quoteExpiry > now /\ inv.quoteExpiry <= inv.expiry
  BY <1>1, <1>4, <1>6, <1>8 DEF AcceptValidFor
<1>12. Handshake(inv, inv.peer, id, dir, now) <=>
         /\ RequestShape(m) /\ ValidAgainst(m, inv.peer, inv, dir, now)
         /\ AcceptValidFor(a, m, now)
  BY <1>5, <1>7, <1>8 DEF Handshake, RequestDecodes, AcceptDecodes, m, a
<1> QED
  BY <1>1, <1>9, <1>10, <1>11, <1>12

LEMMA BoundHandshake ==
  ASSUME IInv, AbsentIsNoValue, DealTerms, WholeRates, NoBitcoinDeals,
         NEW inv \in BoundInvoices, NEW dir \in Directions, NEW now \in Times
  PROVE  Handshake(inv, inv.peer, RfqIdOf(inv), dir, now) <=>
           now < inv.quoteExpiry /\ inv.expiry = inv.quoteExpiry
<1>1. /\ InvoiceTerms(inv) /\ RfqIdOf(inv) \in Domains /\ inv.quote.deal \in Deals
      /\ inv = Invoice(inv.quote, inv.hash, inv.expiry)
  BY BoundInvoiceTerms
<1>2. now \in Nat
  BY QuoteAssumption
<1>3. /\ inv.amount = inv.quote.deal.amount /\ inv.msat = inv.quote.deal.msat
      /\ inv.asset = inv.quote.deal.asset
  BY <1>1 DEF Invoice
<1>4. RateExact(inv) /\ inv.asset # Btc
  BY <1>1, <1>3 DEF WholeRates, NoBitcoinDeals, RateExact
<1> QED
  BY <1>1, <1>2, <1>4, HandshakeExact

(* The exchange about a bound invoice whose deal has a whole rate succeeds *)
(* exactly until the expiry of the quote is reached, for an invoice that   *)
(* lasts as long as the quote, while the store still takes the quote in    *)
(* the second it expires.                                                  *)
THEOREM ExchangeWithinQuote ==
  ASSUME AbsentIsNoValue, DealTerms, WholeRates, NoBitcoinDeals
  PROVE  LLSpec => []HandshakeWithinQuote
<1>1. ASSUME IInv PROVE HandshakeWithinQuote
  BY <1>1, BoundHandshake, BoundInvoiceTerms DEF HandshakeWithinQuote
<1> QED
  BY <1>1, LLStoreInvariance, PTL

LEMMA Cancel ==
  ASSUME NEW a \in Nat, NEW b \in Nat, NEW c \in Nat \ {0}, a * c = b * c
  PROVE  a = b
<1>1. (a - b) * c = 0
  OBVIOUS
<1>2. \A x \in Int, y \in Nat \ {0} : x * y = 0 => x = 0
  OBVIOUS
<1>3. a - b = 0
  BY <1>1, <1>2
<1> QED
  BY <1>3

(* A rate and either amount determine the other amount. *)
LEMMA RateNamesAmounts ==
  ASSUME NEW inv, InvoiceTerms(inv), RateExact(inv),
         NEW other, InvoiceTerms(other), RateExact(other),
         Rate(inv) = Rate(other), inv.msat = other.msat \/ inv.amount = other.amount
  PROVE  inv.msat = other.msat /\ inv.amount = other.amount
<1> DEFINE r == Rate(inv)
<1>1. /\ inv.amount \in Nat \ {0} /\ inv.msat \in Nat \ {0}
      /\ other.amount \in Nat \ {0} /\ other.msat \in Nat \ {0}
      /\ MsatPerBtc \in Nat \ {0}
  BY LightningLabsAssumption DEF InvoiceTerms
<1>2. /\ r \in Nat \ {0} /\ r * inv.msat = inv.amount * MsatPerBtc
      /\ r * other.msat = other.amount * MsatPerBtc
  BY RateMultiplies
<1> HIDE DEF r
<1>3. CASE inv.msat = other.msat
  <2>1. inv.amount * MsatPerBtc = other.amount * MsatPerBtc
    BY <1>2, <1>3
  <2> QED
    BY <1>1, <1>3, <2>1, Cancel
<1>4. CASE inv.amount = other.amount
  <2>1. inv.msat * r = other.msat * r
    BY <1>1, <1>2, <1>4
  <2> QED
    BY <1>1, <1>2, <1>4, <2>1, Cancel
<1> QED
  BY <1>3, <1>4

(* What is read from a request of which a record may be missing is what    *)
(* was written, or absent.                                                 *)
LEMMA StrippedIsRead ==
  ASSUME NEW m, DOMAIN m = RequestRequired \cup RequestOptional,
         NEW stream \in Stripped(Encode(m)), RequestDecodes(stream)
  PROVE  /\ \A f \in RequestRequired : ReadRequest(stream)[f] = m[f]
         /\ \A f \in RequestOptional : ReadRequest(stream)[f] \in {m[f], Absent}
<1>1. DOMAIN Encode(m) \subseteq DOMAIN m /\ \A f \in DOMAIN Encode(m) : Encode(m)[f] = m[f]
  BY DEF Encode
<1>2. \A f \in DOMAIN stream : stream[f] = m[f]
  BY <1>1 DEF Stripped
<1>3. RequestRequired \subseteq DOMAIN stream
  BY DEF RequestDecodes
<1> QED
  BY <1>2, <1>3 DEF ReadRequest

(* A request whose missing record does not make it undecodable is only     *)
(* accepted for an invoice of the same deal.                               *)
LEMMA StrippedNamesDeal ==
  ASSUME IInv, AbsentIsNoValue, DealTerms, DealFields, WholeRates,
         NEW inv \in BoundInvoices, NEW dir \in Directions,
         NEW stream \in Stripped(Encode(RequestFor(inv, RfqIdOf(inv), dir))),
         RequestDecodes(stream),
         NEW other \in BoundInvoices, NEW otherDir \in Directions, NEW now \in Times,
         ValidAgainst(ReadRequest(stream), inv.peer, other, otherDir, now)
  PROVE  dir = otherDir /\ inv.quote.deal = other.quote.deal
<1> DEFINE m == RequestFor(inv, RfqIdOf(inv), dir)
           r == ReadRequest(stream)
           out == dir = "outgoing"
<1>1. /\ InvoiceTerms(inv) /\ inv.quote.deal \in Deals
      /\ inv = Invoice(inv.quote, inv.hash, inv.expiry)
      /\ InvoiceTerms(other) /\ other.quote.deal \in Deals
      /\ other = Invoice(other.quote, other.hash, other.expiry)
  BY BoundInvoiceTerms
<1>2. /\ inv.peer = inv.quote.deal.peer /\ inv.asset = inv.quote.deal.asset
      /\ inv.amount = inv.quote.deal.amount /\ inv.msat = inv.quote.deal.msat
      /\ inv.context = inv.quote.deal.context
      /\ other.peer = other.quote.deal.peer /\ other.asset = other.quote.deal.asset
      /\ other.amount = other.quote.deal.amount /\ other.msat = other.quote.deal.msat
      /\ other.context = other.quote.deal.context
  BY <1>1 DEF Invoice
<1>3. RateExact(inv) /\ RateExact(other)
  BY <1>1, <1>2 DEF WholeRates, RateExact
<1>4. /\ \A f \in RequestRequired : r[f] = m[f]
      /\ \A f \in RequestOptional : r[f] \in {m[f], Absent}
  <2>1. DOMAIN m = RequestRequired \cup RequestOptional
    BY RequestFields
  <2> HIDE DEF m
  <2>2. stream \in Stripped(Encode(m))
    BY DEF m
  <2> QED
    BY <2>1, <2>2, StrippedIsRead
<1>5. /\ m.type = TransferType(dir)
      /\ m.inAsset = (IF out THEN Btc ELSE inv.asset)
      /\ m.outAsset = (IF out THEN inv.asset ELSE Btc)
      /\ m.maxIn = (IF out THEN inv.msat ELSE inv.amount)
      /\ m.inRate = (IF out THEN Absent ELSE Rate(inv))
      /\ m.outRate = (IF out THEN Rate(inv) ELSE Absent)
      /\ m.metadata = inv.context
  BY DEF RequestFor
<1> HIDE DEF m, r
<1>6. /\ r.type = m.type /\ r.maxIn = m.maxIn
      /\ r.inAsset \in {m.inAsset, Absent} /\ r.outAsset \in {m.outAsset, Absent}
      /\ r.inRate \in {m.inRate, Absent} /\ r.outRate \in {m.outRate, Absent}
      /\ r.metadata \in {m.metadata, Absent}
  BY <1>4 DEF RequestRequired, RequestOptional
<1>7. /\ inv.peer = other.peer /\ r.type = TransferType(otherDir)
      /\ r.inAsset = (IF otherDir = "outgoing" THEN Btc ELSE other.asset)
      /\ r.outAsset = (IF otherDir = "outgoing" THEN other.asset ELSE Btc)
      /\ r.maxIn = (IF otherDir = "outgoing" THEN other.msat ELSE other.amount)
      /\ r.metadata = other.context
      /\ (IF otherDir = "outgoing" THEN r.outRate ELSE r.inRate) = Rate(other)
  BY DEF ValidAgainst, r
<1>8. dir = otherDir
  BY <1>5, <1>6, <1>7 DEF TransferType, Directions
<1>9. Rate(other) \in Nat /\ Absent \notin Int
      /\ other.asset # Absent /\ other.context # Absent
  BY <1>1, <1>3, RateMultiplies DEF AbsentIsNoValue, InvoiceTerms
<1>10. inv.context = other.context /\ inv.asset = other.asset
  BY <1>5, <1>6, <1>7, <1>8, <1>9
<1>11. Rate(inv) = Rate(other)
  BY <1>5, <1>6, <1>7, <1>8, <1>9
<1>12. inv.msat = other.msat \/ inv.amount = other.amount
  BY <1>5, <1>6, <1>7, <1>8
<1>13. inv.msat = other.msat /\ inv.amount = other.amount
  BY <1>1, <1>3, <1>11, <1>12, RateNamesAmounts
<1>14. inv.quote.deal = other.quote.deal
  BY <1>1, <1>2, <1>7, <1>10, <1>13 DEF DealFields
<1> QED
  BY <1>8, <1>14

(* A request names its deal: whichever record a peer leaves out of the     *)
(* request made for one invoice, what can still be decoded and passes the  *)
(* checks for another invoice was made for the same deal and direction.    *)
(* The maximum and the rate together stand for both amounts.               *)
THEOREM RequestBindsDeal ==
  ASSUME AbsentIsNoValue, DealTerms, DealFields, WholeRates
  PROVE  LLSpec => []RequestNamesDeal
<1>1. ASSUME IInv PROVE RequestNamesDeal
  BY <1>1, StrippedNamesDeal DEF RequestNamesDeal
<1> QED
  BY <1>1, LLStoreInvariance, PTL

(* Both payment stores pass their validation in every state, and only what *)
(* keeps one valid is inserted.                                            *)
StoresValid ==
  DOMAIN payments = Directions /\ \A dir \in Directions : PaymentStoreValid(payments[dir])

LEMMA StoresStep ==
  ASSUME StoresValid, [LLNext]_allVars
  PROVE  StoresValid'
<1>1. CASE UNCHANGED payments
  BY <1>1 DEF StoresValid
<1>2. ASSUME NEW r, NEW inv, NEW dir \in Directions, NEW now, Settle(r, inv, dir, now),
             payments' # payments
      PROVE  StoresValid'
  <2> DEFINE id == PaymentId(r, inv)
             p == PaymentState(r, inv, dir)
  <2>1. /\ payments' = [payments EXCEPT ![dir] = Put(@, id, p)]
        /\ Insertable(payments[dir], p)
    BY <1>2 DEF Settle
  <2>2. p.report = r /\ p.invoice = inv
    BY DEF PaymentState
  <2>3. PaymentStoreValid(Put(payments[dir], id, p))
    BY <2>1, <2>2 DEF Insertable
  <2> HIDE DEF p, id
  <2> QED
    BY <2>1, <2>3 DEF StoresValid
<1> QED
  BY <1>1, <1>2 DEF LLNext, allVars, SettleOutgoing, SettleIncoming, Directions

(* A report's balances fit the largest amount together, so that no payment *)
(* from one to the other overflows.                                        *)
LEMMA ReportBalances ==
  ASSUME BlobAmounts, NEW r \in Reports
  PROVE  r.local \in Nat /\ r.remote \in Nat /\ r.local + r.remote <= U64Max
<1>1. PICK x \in {y \in Fixtures : FundingAccepted(y.funding, y.commitment)} :
             r = FundingReport(x.funding, x.commitment)
  BY DEF Reports
<1> DEFINE c == x.commitment
<1>2. r.local = TotalAmount(c.local) /\ r.remote = TotalAmount(c.remote)
  BY <1>1 DEF FundingReport, FundingState
<1>3. TotalAmount(c.local) + TotalAmount(c.remote) <= U64Max
  BY <1>1 DEF FundingAccepted, FundingStateValid, FundingState
<1>4. ASSUME NEW outputs \in {c.local, c.remote} PROVE TotalAmount(outputs) \in Nat
  <2> DEFINE f == [i \in DOMAIN outputs |-> outputs[i].amount]
  <2>1. IsFiniteSet(DOMAIN f) /\ \A i \in DOMAIN f : f[i] \in Nat
    BY <1>1 DEF BlobAmounts
  <2> HIDE DEF f
  <2>2. SumFunctionOnSet(f, DOMAIN f) \in Nat
    BY <2>1, SumNat
  <2> QED
    BY <2>2 DEF TotalAmount, SumFunction, f
<1> QED
  BY <1>2, <1>3, <1>4

(* A payment in time is recorded with the use of its quote. *)
LEMMA SettledIsRecorded ==
  ASSUME IInv, StoresValid, AbsentIsNoValue, DealTerms, WholeRates, NoBitcoinDeals,
         BlobAmounts,
         NEW r \in Reports, NEW inv \in BoundInvoices, NEW dir \in Directions,
         NEW now \in Times,
         now < inv.quoteExpiry, inv.expiry = inv.quoteExpiry,
         PaymentId(r, inv) \notin DOMAIN payments[dir],
         Settle(r, inv, dir, now)
  PROVE  PaymentId(r, inv) \in DOMAIN payments'[dir]
<1> DEFINE id == PaymentId(r, inv)
           p == PaymentState(r, inv, dir)
<1>1. Handshake(inv, inv.peer, RfqIdOf(inv), dir, now)
  BY BoundHandshake
<1>2. InvoiceTerms(inv) /\ now \in Nat
  BY BoundInvoiceTerms, QuoteAssumption
<1>3. FinalHopInTime(inv, now)
  BY <1>2 DEF FinalHopInTime, InvoiceTerms
<1>4. /\ p.report = r /\ p.invoice = inv /\ p.observed = Absent
      /\ p.payerBefore = Payer(r, dir) /\ p.payeeBefore = Payee(r, dir)
      /\ p.payerAfter = Payer(r, dir) - inv.amount /\ p.payeeAfter = Payee(r, dir) + inv.amount
  BY DEF PaymentState
<1>5. /\ Payer(r, dir) \in Nat /\ Payee(r, dir) \in Nat
      /\ Payer(r, dir) + Payee(r, dir) <= U64Max
  BY ReportBalances DEF Payer, Payee
<1>6. inv.amount <= Payer(r, dir)
  BY DEF Settle
<1> HIDE DEF p
<1>7. PaymentValid(p)
  BY <1>2, <1>4, <1>5, <1>6, LightningLabsAssumption DEF PaymentValid, InvoiceTerms
<1>8. PaymentStoreValid(payments[dir])
  BY DEF StoresValid
<1>9. id = PaymentId(p.report, p.invoice)
  BY <1>4
<1> HIDE DEF id
<1>10. PaymentStoreValid(Put(payments[dir], id, p))
  BY <1>7, <1>8, <1>9 DEF PaymentStoreValid, Put
<1>11. Insertable(payments[dir], p)
  BY <1>9, <1>10 DEF Insertable, id
<1>12. payments' = [payments EXCEPT ![dir] = Put(@, id, p)]
  BY <1>1, <1>3, <1>11 DEF Settle, p, id
<1>13. id \in DOMAIN payments'[dir]
  BY <1>12 DEF StoresValid, Put
<1> QED
  BY <1>13 DEF id

(* No quote is burnt in time: a payment made before its quote expires, for *)
(* an invoice that lasts as long and was not paid before, is recorded in   *)
(* the step that uses the quote: no check that follows authorize_asset_    *)
(* htlc in build_outgoing_payment_state or its twin can refuse it.         *)
THEOREM PaymentsInTimeAreRecorded ==
  ASSUME AbsentIsNoValue, DealTerms, WholeRates, NoBitcoinDeals, BlobAmounts
  PROVE  LLSpec => NoQuoteBurnt
<1> DEFINE Recorded ==
      \A r \in Reports, inv \in BoundInvoices, dir \in Directions, now \in Times :
        /\ now < inv.quoteExpiry /\ inv.expiry = inv.quoteExpiry
        /\ PaymentId(r, inv) \notin DOMAIN payments[dir]
        /\ Settle(r, inv, dir, now)
        => PaymentId(r, inv) \in DOMAIN payments'[dir]
<1>1. LLInit => StoresValid
  BY DEF LLInit, StoresValid, PaymentStoreValid
<1>2. StoresValid /\ [LLNext]_allVars => StoresValid'
  BY StoresStep
<1>3. IInv /\ StoresValid /\ [LLNext]_allVars => [Recorded]_allVars
  BY SettledIsRecorded
<1> QED
  BY <1>1, <1>2, <1>3, LLStoreInvariance, PTL DEF LLSpec, NoQuoteBurnt

------------------------------------------------------------------------------
(* The commands of the CLI *)

OneAtATime == \A p, q \in Procs : p = q

(* Contents that are not one whole store are no store. *)
TornIsNoStore == \A s : HasFields(s) => s # Torn

Whole(i) == i \in Inodes /\ GoodStore(data[i]) /\ Valid(data[i])

(* What is on disk when no command runs: a whole store that has every use  *)
(* that was granted, and maybe a temporary file a killed command left.     *)
DiskInv ==
  /\ DOMAIN data = Inodes
  /\ file = NoInode \/ Whole(file)
  /\ temp = NoInode \/ (temp \in Inodes /\ temp # file)
  /\ \A q \in DOMAIN granted :
       granted[q] = 1 /\ file # NoInode /\ Kept(q, data[file])

(* Where a command is, and what it has in memory and in the files. *)
CommandInv(p) ==
  /\ pc[p] \in {"idle", "loaded", "changed", "writing", "written", "saved"}
  /\ pc[p] = "idle" => copy[p] = EmptyStore
  /\ pc[p] \in {"idle", "loaded"} => answer[p] = {}
  /\ pc[p] = "loaded" =>
       copy[p] = IF file = NoInode THEN EmptyStore ELSE data[file]
  /\ pc[p] \in {"changed", "writing", "written"} =>
       /\ GoodStore(copy[p]) /\ Valid(copy[p])
       /\ file # NoInode => UsedContinues(data[file], copy[p])
  /\ pc[p] \in {"writing", "written"} => handle[p] = temp /\ temp # NoInode
  /\ pc[p] = "writing" => data[temp] = Torn
  /\ pc[p] = "written" => data[temp] = copy[p]
  /\ pc[p] = "saved" => file # NoInode /\ data[file] = copy[p]
  /\ \A q \in answer[p] : q \notin DOMAIN granted /\ Kept(q, copy[p])

CliInv ==
  /\ DOMAIN pc = Procs /\ DOMAIN copy = Procs
  /\ DOMAIN answer = Procs /\ DOMAIN handle = Procs
  /\ DiskInv
  /\ \A p \in Procs : CommandInv(p)

(* The fields of another process than the one that steps do not matter:    *)
(* there is none.                                                          *)
OnlyProcess(p) == p \in Procs /\ \A q \in Procs : q = p

------------------------------------------------------------------------------
(* Lemmas *)

(* While no temporary file exists and one command runs, an inode is free   *)
(* that is neither the file's nor open.                                    *)
LEMMA FreshInodeIsFree ==
  ASSUME NEW p, OnlyProcess(p), temp = NoInode
  PROVE  FreshInode \in Inodes /\ FreshInode # file
<1>1. Procs = {p}
  BY DEF OnlyProcess
<1>2. Cardinality(Procs) = 1
  BY <1>1, FS_Singleton
<1>3. Inodes = 1 .. 3
  BY <1>2 DEF Inodes
<1>4. {handle[q] : q \in Procs} = {handle[p]}
  BY <1>1
<1>5. \E i \in Inodes : i \notin {file, temp} \cup {handle[q] : q \in Procs}
  <2>1. 1 \in Inodes /\ 2 \in Inodes /\ 3 \in Inodes
    BY <1>3
  <2>2. temp \notin Inodes
    BY InodeAssumption
  <2>3. \E i \in Inodes : i # file /\ i # handle[p]
    BY <2>1
  <2> QED
    BY <1>4, <2>2, <2>3
<1> QED
  BY <1>5 DEF FreshInode

(* A step that leaves the files and the grants alone needs to show what it *)
(* does to its own command.                                                *)
LEMMA CommandStep ==
  ASSUME CliInv, NEW p, OnlyProcess(p), UNCHANGED <<data, file, temp, granted>>,
         DOMAIN pc' = Procs, DOMAIN copy' = Procs,
         DOMAIN answer' = Procs, DOMAIN handle' = Procs,
         CommandInv(p)'
  PROVE  CliInv'
<1>1. DiskInv'
  BY DEF CliInv, DiskInv, Whole, Kept
<1> QED
  BY <1>1 DEF CliInv, OnlyProcess

(* An operation that returns Ok leaves a good and valid copy that forgets  *)
(* nothing.                                                                *)
LEMMA ChangeKeeps ==
  ASSUME CliInv, NEW p, OnlyProcess(p), NEW s, NEW authorized,
         GoodStore(s), UsedContinues(copy[p], s),
         \A q \in authorized : q \notin DOMAIN granted /\ Kept(q, s),
         Change(p, s, authorized)
  PROVE  CliInv'
<1>1. /\ pc' = [pc EXCEPT ![p] = "changed"]
      /\ copy' = [copy EXCEPT ![p] = s]
      /\ answer' = [answer EXCEPT ![p] = authorized]
      /\ handle' = handle /\ data' = data /\ file' = file /\ temp' = temp
      /\ granted' = granted
      /\ Valid(s) /\ pc[p] = "loaded"
  BY DEF Change, Goto
<1>2. /\ DOMAIN pc' = Procs /\ DOMAIN copy' = Procs
      /\ DOMAIN answer' = Procs /\ DOMAIN handle' = Procs
  BY <1>1 DEF CliInv
<1>3. pc'[p] = "changed" /\ copy'[p] = s /\ answer'[p] = authorized
  BY <1>1 DEF CliInv, OnlyProcess
<1>4. file # NoInode => UsedContinues(data[file], s)
  BY <1>1 DEF CliInv, CommandInv, OnlyProcess
<1>5. CommandInv(p)'
  BY <1>1, <1>3, <1>4 DEF CommandInv, Kept
<1> QED
  BY <1>1, <1>2, <1>5, CommandStep

(* What a loaded command works on: the good store of the file, or an empty *)
(* one.                                                                    *)
LEMMA LoadedIsGood ==
  ASSUME CliInv, NEW p \in Procs, pc[p] = "loaded"
  PROVE  GoodStore(copy[p])
BY EmptyIsGood DEF CliInv, CommandInv, DiskInv, Whole

(* No operation of a command grants a quote that was granted before.       *)
LEMMA OperationKeeps ==
  ASSUME CliInv, NEW p, OnlyProcess(p), RunOperation(p)
  PROVE  CliInv'
<1>1. p \in Procs /\ pc[p] = "loaded" /\ GoodStore(copy[p])
  <2>1. pc[p] = "loaded" /\ p \in Procs
    BY DEF OnlyProcess, RunOperation, CommandRegister, CommandRequest, CommandAccept,
           CommandReject, CommandExpire, CommandAuthorize, Change
  <2> QED
    BY <2>1, LoadedIsGood
<1>2. ASSUME NEW scid \in Scids, CommandRegister(p, scid) PROVE CliInv'
  BY <1>1, <1>2, RegisteredIsGood, ChangeKeeps DEF CommandRegister
<1>3. ASSUME NEW deal \in Deals, NEW expiry \in Expiries, NEW domain \in Domains,
             NEW now \in Times, CommandRequest(p, deal, expiry, domain, now)
      PROVE  CliInv'
  <2>1. /\ GoodStore(Requested(copy[p], deal, expiry, domain))
        /\ UsedContinues(copy[p], Requested(copy[p], deal, expiry, domain))
    BY <1>1, <1>3, RequestedIsGood DEF CommandRequest
  <2> QED
    BY <1>3, <2>1, ChangeKeeps DEF CommandRequest
<1>4. ASSUME NEW q \in DOMAIN copy[p].quotes, NEW now \in Times, CommandAccept(p, q, now)
      PROVE  CliInv'
  BY <1>1, <1>4, AcceptedIsGood, ChangeKeeps DEF CommandAccept
<1>5. ASSUME NEW q \in DOMAIN copy[p].quotes, CommandReject(p, q) PROVE CliInv'
  <2>1. /\ GoodStore(Terminated(copy[p], q, "Rejected"))
        /\ UsedContinues(copy[p], Terminated(copy[p], q, "Rejected"))
    BY <1>1, <1>5, TerminatedIsGood DEF CommandReject, RejectAllowed, LiveQuotes
  <2> QED
    BY <1>5, <2>1, ChangeKeeps DEF CommandReject
<1>6. ASSUME NEW q \in DOMAIN copy[p].quotes, NEW now \in Times, CommandExpire(p, q, now)
      PROVE  CliInv'
  <2>1. /\ GoodStore(Terminated(copy[p], q, "Expired"))
        /\ UsedContinues(copy[p], Terminated(copy[p], q, "Expired"))
    BY <1>1, <1>6, TerminatedIsGood DEF CommandExpire, ExpireAllowed, LiveQuotes
  <2> QED
    BY <1>6, <2>1, ChangeKeeps DEF CommandExpire
<1>7. ASSUME NEW q \in DOMAIN copy[p].quotes, NEW now \in Times,
             CommandAuthorize(p, q, now)
      PROVE  CliInv'
  <2> DEFINE t == Authorized(copy[p], q)
  <2>1. AuthorizeAllowed(copy[p], q, now) /\ Change(p, t, {q})
    BY <1>7 DEF CommandAuthorize
  <2>2. GoodStore(t) /\ UsedContinues(copy[p], t)
    BY <1>1, <2>1, AuthorizedIsGood
  <2>3. q \notin DOMAIN granted
    <3>1. q.domain \notin DOMAIN copy[p].used
      BY <2>1 DEF AuthorizeAllowed
    <3>2. SUFFICES ASSUME q \in DOMAIN granted PROVE FALSE
      OBVIOUS
    <3>3. file # NoInode /\ q.domain \in DOMAIN data[file].used
      BY <3>2 DEF CliInv, DiskInv, Kept
    <3>4. copy[p] = data[file]
      BY <1>1, <3>3 DEF CliInv, CommandInv
    <3> QED
      BY <3>1, <3>3, <3>4
  <2>4. Kept(q, t)
    BY <1>1, <2>1, AuthorizedIsKept
  <2> HIDE DEF t
  <2> QED
    BY <2>1, <2>2, <2>3, <2>4, ChangeKeeps
<1> QED
  BY <1>2, <1>3, <1>4, <1>5, <1>6, <1>7 DEF RunOperation

(* A command that ends takes its memory with it.                           *)
LEMMA LeaveKeeps ==
  ASSUME CliInv, NEW p, OnlyProcess(p), Leave(p)
  PROVE  /\ DOMAIN pc' = Procs /\ DOMAIN copy' = Procs
         /\ DOMAIN answer' = Procs /\ DOMAIN handle' = Procs
         /\ CommandInv(p)'
<1>1. /\ pc' = [pc EXCEPT ![p] = "idle"]
      /\ copy' = [copy EXCEPT ![p] = EmptyStore]
      /\ answer' = [answer EXCEPT ![p] = {}]
      /\ handle' = [handle EXCEPT ![p] = NoInode]
  BY DEF Leave, Goto
<1>2. pc'[p] = "idle" /\ copy'[p] = EmptyStore /\ answer'[p] = {}
  BY <1>1 DEF CliInv, OnlyProcess
<1> QED
  BY <1>1, <1>2 DEF CommandInv, CliInv

(* The commands keep the invariant while the operator does not re-create   *)
(* a store in use.                                                         *)
LEMMA NextCliInv ==
  ASSUME OneAtATime, TornIsNoStore, ~ReinitAllowed, CliInv, [CliNext]_cliVars
  PROVE  CliInv'
<1>1. CASE UNCHANGED cliVars
  BY <1>1 DEF cliVars, CliInv, DiskInv, CommandInv, Whole, Kept
<1>2. ASSUME NEW p \in Procs,
             \/ CommandInit(p) \/ Load(p) \/ RunOperation(p)
             \/ SaveOpen(p) \/ SaveWrite(p) \/ SaveRename(p)
             \/ Answer(p) \/ Exit(p)
      PROVE  CliInv'
  <2>1. OnlyProcess(p)
    BY DEF OneAtATime, OnlyProcess
  <2>2. CASE CommandInit(p)
    <3>1. /\ pc' = [pc EXCEPT ![p] = "changed"] /\ pc[p] = "idle" /\ file = NoInode
          /\ UNCHANGED <<copy, answer, handle, data, file, temp, granted>>
      BY <2>2 DEF CommandInit, Goto
    <3>2. pc'[p] = "changed" /\ copy'[p] = EmptyStore /\ answer'[p] = {}
      BY <3>1 DEF CliInv, CommandInv
    <3>3. CommandInv(p)'
      BY <3>1, <3>2, EmptyIsGood DEF CommandInv
    <3> QED
      BY <2>1, <3>1, <3>3, CommandStep DEF CliInv
  <2>3. CASE Load(p)
    <3> DEFINE s == IF file = NoInode THEN EmptyStore ELSE data[file]
    <3>1. /\ pc' = [pc EXCEPT ![p] = "loaded"] /\ pc[p] = "idle"
          /\ copy' = [copy EXCEPT ![p] = s]
          /\ UNCHANGED <<answer, handle, data, file, temp, granted>>
      BY <2>3 DEF Load, Goto
    <3> HIDE DEF s
    <3>2. pc'[p] = "loaded" /\ copy'[p] = s /\ answer'[p] = {}
      BY <3>1 DEF CliInv, CommandInv
    <3>3. s = IF file' = NoInode THEN EmptyStore ELSE data'[file']
      BY <3>1 DEF s
    <3>4. CommandInv(p)'
      BY <3>2, <3>3 DEF CommandInv
    <3>5. DOMAIN pc' = Procs /\ DOMAIN copy' = Procs
      BY <3>1 DEF CliInv
    <3> QED
      BY <2>1, <3>1, <3>4, <3>5, CommandStep DEF CliInv
  <2>4. CASE RunOperation(p)
    BY <2>1, <2>4, OperationKeeps
  <2>5. CASE SaveOpen(p)
    <3> DEFINE i == IF temp = NoInode THEN FreshInode ELSE temp
    <3>1. /\ pc' = [pc EXCEPT ![p] = "writing"] /\ pc[p] = "changed"
          /\ handle' = [handle EXCEPT ![p] = i] /\ temp' = i
          /\ data' = [data EXCEPT ![i] = Torn]
          /\ UNCHANGED <<copy, answer, file, granted>>
      BY <2>5 DEF SaveOpen, Goto
    <3>2. i \in Inodes /\ i # file
      BY <2>1, FreshInodeIsFree DEF CliInv, DiskInv
    <3> HIDE DEF i
    <3>3. /\ DOMAIN data' = Inodes /\ data'[i] = Torn
          /\ file # NoInode => data'[file] = data[file]
      BY <3>1, <3>2 DEF CliInv, DiskInv, Whole
    <3>4. DiskInv'
      BY <3>1, <3>2, <3>3 DEF CliInv, DiskInv, Whole, Kept
    <3>5. pc'[p] = "writing" /\ handle'[p] = i /\ i # NoInode
      BY <3>1, <3>2, InodeAssumption DEF CliInv
    <3>6. CommandInv(p)'
      BY <3>1, <3>3, <3>5 DEF CliInv, CommandInv, Kept
    <3> QED
      BY <2>1, <3>1, <3>4, <3>6 DEF CliInv, OnlyProcess
  <2>6. CASE SaveWrite(p)
    <3>1. /\ pc[p] = "writing" /\ handle[p] = temp /\ temp # NoInode
          /\ data[temp] = Torn
      BY <2>6 DEF SaveWrite, CliInv, CommandInv
    <3>2. /\ pc' = [pc EXCEPT ![p] = "written"]
          /\ data' = [data EXCEPT ![temp] = copy[p]]
          /\ UNCHANGED <<copy, answer, handle, file, temp, granted>>
      BY <2>6, <3>1 DEF SaveWrite, Goto
    <3>3. temp \in Inodes /\ temp # file
      BY <3>1 DEF CliInv, DiskInv
    <3>4. /\ DOMAIN data' = Inodes /\ data'[temp] = copy[p]
          /\ file # NoInode => data'[file] = data[file]
      BY <3>2, <3>3 DEF CliInv, DiskInv, Whole
    <3>5. DiskInv'
      BY <3>2, <3>3, <3>4 DEF CliInv, DiskInv, Whole, Kept
    <3>6. pc'[p] = "written"
      BY <3>2 DEF CliInv
    <3>7. CommandInv(p)'
      BY <3>1, <3>2, <3>4, <3>6 DEF CliInv, CommandInv, Kept
    <3> QED
      BY <2>1, <3>2, <3>5, <3>7 DEF CliInv, OnlyProcess
  <2>7. CASE SaveRename(p)
    <3>1. /\ pc[p] = "written" /\ temp # NoInode
          /\ pc' = [pc EXCEPT ![p] = "saved"]
          /\ file' = temp /\ temp' = NoInode
          /\ UNCHANGED <<copy, answer, handle, data, granted>>
      BY <2>7 DEF SaveRename, Goto
    <3>2. /\ data[temp] = copy[p] /\ GoodStore(copy[p]) /\ Valid(copy[p])
          /\ file # NoInode => UsedContinues(data[file], copy[p])
          /\ temp \in Inodes
      BY <3>1 DEF CliInv, CommandInv, DiskInv
    <3>3. \A q \in DOMAIN granted : granted[q] = 1 /\ Kept(q, copy[p])
      BY <3>2, KeptContinues DEF CliInv, DiskInv
    <3>4. DiskInv'
      BY <3>1, <3>2, <3>3 DEF CliInv, DiskInv, Whole, Kept
    <3>5. pc'[p] = "saved"
      BY <3>1 DEF CliInv
    <3>6. CommandInv(p)'
      BY <3>1, <3>2, <3>5 DEF CliInv, CommandInv, Kept
    <3> QED
      BY <2>1, <3>1, <3>4, <3>6 DEF CliInv, OnlyProcess
  <2>8. CASE Answer(p)
    <3>1. /\ pc[p] = "saved" /\ Leave(p)
          /\ granted' = [q \in DOMAIN granted \cup answer[p] |->
                           Grants(q) + (IF q \in answer[p] THEN 1 ELSE 0)]
          /\ UNCHANGED <<data, file, temp>>
      BY <2>8 DEF Answer, Answerable
    <3>2. /\ file # NoInode /\ data[file] = copy[p]
          /\ \A q \in answer[p] : q \notin DOMAIN granted /\ Kept(q, copy[p])
      BY <3>1 DEF CliInv, CommandInv
    <3>3. ASSUME NEW q \in DOMAIN granted'
          PROVE  granted'[q] = 1 /\ Kept(q, data[file])
      <4>1. CASE q \in answer[p]
        <5>1. Grants(q) = 0
          BY <3>2, <4>1 DEF Grants
        <5>2. granted'[q] = Grants(q) + 1
          BY <3>1, <4>1
        <5> QED
          BY <3>2, <4>1, <5>1, <5>2
      <4>2. CASE q \notin answer[p]
        <5>1. q \in DOMAIN granted
          BY <3>1, <4>2
        <5>2. granted'[q] = granted[q] + 0
          BY <3>1, <4>2, <5>1 DEF Grants
        <5> QED
          BY <5>1, <5>2 DEF CliInv, DiskInv
      <4> QED
        BY <4>1, <4>2
    <3>4. DiskInv'
      BY <3>1, <3>2, <3>3 DEF CliInv, DiskInv, Whole, Kept
    <3> QED
      BY <2>1, <3>1, <3>4, LeaveKeeps DEF CliInv, OnlyProcess
  <2>9. CASE Exit(p)
    BY <2>1, <2>9, LeaveKeeps, CommandStep DEF Exit
  <2> QED
    BY <1>2, <2>2, <2>3, <2>4, <2>5, <2>6, <2>7, <2>8, <2>9
<1> QED
  BY <1>1, <1>2 DEF CliNext

(* Every reachable state of commands that run one at a time satisfies the  *)
(* invariant.                                                              *)
LEMMA CliInvariance ==
  ASSUME OneAtATime, TornIsNoStore, ~ReinitAllowed
  PROVE  CliSpec => []CliInv
<1>1. CliInit => CliInv
  BY DEF CliInit, CliInv, DiskInv, CommandInv
<1>2. CliInv /\ [CliNext]_cliVars => CliInv'
  BY NextCliInv
<1> QED
  BY <1>1, <1>2, PTL DEF CliSpec

------------------------------------------------------------------------------
(* Theorems *)

(* A quote-derived HTLC authorization is consumed once: however commands   *)
(* that run one at a time are killed and retried, authorize-htlc prints at *)
(* most one answer for a quote.                                            *)
THEOREM QuoteAuthorizedOnce ==
  ASSUME OneAtATime, TornIsNoStore, ~ReinitAllowed
  PROVE  CliSpec => []AuthorizedOnce
<1>1. CliInv => AuthorizedOnce
  BY DEF CliInv, DiskInv, AuthorizedOnce
<1> QED
  BY <1>1, CliInvariance, PTL

(* The store file always loads again once an authorization was printed,    *)
(* and lists its quote and replay domain as used, whatever command was     *)
(* killed while it wrote.                                                  *)
THEOREM GrantsAreDurable ==
  ASSUME OneAtATime, TornIsNoStore, ~ReinitAllowed
  PROVE  CliSpec => []AnswersDurable
<1>1. CliInv => AnswersDurable
  BY DEF CliInv, DiskInv, Whole, Kept, GoodStore, TornIsNoStore, Loadable, AnswersDurable
<1> QED
  BY <1>1, CliInvariance, PTL

==============================================================================
