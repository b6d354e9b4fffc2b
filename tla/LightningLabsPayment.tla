------------------------ MODULE LightningLabsPayment ------------------------
(***************************************************************************)
(* Payments with a Lightning Labs counterparty: invoices bound to quotes   *)
(* of the quote store (src/crates/tap-ldk-core/src/rfq_invoice.rs), the    *)
(* RFQ exchange about them, the channel read from the counterparty's blobs *)
(* and the payment stores of src/crates/tap-ldk-core/src/                  *)
(* lightning_labs_payment.rs.  A quote is used up before the exchange is   *)
(* checked, so a payment that fails in between has burnt it.               *)
(***************************************************************************)
EXTENDS RfqQuoteStore, LightningLabsFunding

CONSTANTS
  Fixtures,      \* pairs of a funding and a commitment blob
  Hashes,        \* payment hashes
  InvoiceEnds,   \* unix seconds an invoice may expire after
  MaxQuotes,     \* bound on the quotes the store has ever held
  MaxPayments    \* bound on the payments recorded

ASSUME PaymentAssumption ==
  InvoiceEnds \subseteq Nat /\ MaxQuotes \in Nat /\ MaxPayments \in Nat

VARIABLE payments   \* direction -> payment id -> payment state

allVars == <<vars, payments>>

------------------------------------------------------------------------------
(* Invoices *)

(* QuoteBoundInvoice *)
Invoice(q, hash, expiry) ==
  [quote |-> q, hash |-> hash, peer |-> q.deal.peer, asset |-> q.deal.asset,
   amount |-> q.deal.amount, msat |-> q.deal.msat, context |-> q.deal.context,
   quoteExpiry |-> q.expiry, expiry |-> expiry]

(* bind_quote_to_invoice, for a request with the terms of the quote: it    *)
(* changes nothing, the invoice is the caller's.                           *)
Bindable(s, q, expiry, now) ==
  /\ q \in DOMAIN s.quotes
  /\ s.quotes[q] = "Accepted"
  /\ now <= q.expiry
  /\ expiry <= q.expiry

(* The invoices that can be bound to the quotes accepted so far, at some   *)
(* time up to the expiry of the quote.                                     *)
Invoices ==
  {Invoice(q, hash, expiry) :
     q \in {p \in DOMAIN mem.quotes : mem.quotes[p] = "Accepted"},
     hash \in Hashes, expiry \in InvoiceEnds}
BoundInvoices ==
  {inv \in Invoices : \E now \in Times : Bindable(mem, inv.quote, inv.expiry, now)}

(* pay_quote_bound_invoice binds again, with the invoice's own terms; the  *)
(* expiry of the invoice is held against the quote's, not against now.     *)
Payable(s, inv, now) ==
  Bindable(s, inv.quote, inv.expiry, now) /\ AuthorizeAllowed(s, inv.quote, now)

(* validate_final_hop of the records made from the authorization itself:   *)
(* only the time can refuse them.                                          *)
FinalHopInTime(inv, now) == now <= inv.expiry /\ now <= inv.quoteExpiry

------------------------------------------------------------------------------
(* Payments *)

(* The replay domain of a quote is its RFQ id. *)
RfqIdOf(inv) == inv.quote.domain

(* The reports on the channels whose blobs are accepted. *)
Reports == {FundingReport(x.funding, x.commitment) :
              x \in {y \in Fixtures : FundingAccepted(y.funding, y.commitment)}}

(* derive_payment_id *)
PaymentId(r, inv) ==
  <<r.channel, RfqIdOf(inv), inv.quote, inv.hash, inv.asset, inv.amount>>

Payer(r, dir) == IF dir = "outgoing" THEN r.local ELSE r.remote
Payee(r, dir) == IF dir = "outgoing" THEN r.remote ELSE r.local

(* LightningLabsOutgoingPaymentState and its incoming twin, as the builders *)
(* fill them in: the balances before are always those of the report.       *)
PaymentState(r, inv, dir) ==
  [report |-> r, invoice |-> inv,
   payerBefore |-> Payer(r, dir), payeeBefore |-> Payee(r, dir),
   payerAfter |-> Payer(r, dir) - inv.amount, payeeAfter |-> Payee(r, dir) + inv.amount,
   observed |-> Absent]

(* LightningLabsOutgoingPaymentState::validate and its incoming twin *)
PaymentValid(p) ==
  /\ p.invoice.amount # 0 /\ p.invoice.msat # 0
  /\ p.payerBefore >= p.invoice.amount
  /\ p.payerAfter = p.payerBefore - p.invoice.amount
  /\ p.payeeAfter = p.payeeBefore + p.invoice.amount
  /\ p.payeeAfter <= U64Max
  /\ p.observed = Absent

(* The two stores' validate *)
PaymentStoreValid(store) ==
  \A i \in DOMAIN store :
    PaymentValid(store[i]) /\ i = PaymentId(store[i].report, store[i].invoice)

(* insert_payment *)
Insertable(store, p) ==
  /\ PaymentId(p.report, p.invoice) \notin DOMAIN store
  /\ PaymentStoreValid(Put(store, PaymentId(p.report, p.invoice), p))

------------------------------------------------------------------------------
(* Actions *)

LLInit ==
  /\ Init
  /\ payments = [dir \in Directions |-> [i \in {} |-> i]]

(* build_outgoing_payment_state, build_incoming_payment_state and the      *)
(* insertion of what they return: the quote is used first, and stays used  *)
(* when a later check refuses the payment.                                 *)
Settle(r, inv, dir, now) ==
  LET p == PaymentState(r, inv, dir)
  IN  /\ inv.asset = r.asset /\ inv.amount <= Payer(r, dir)
      /\ Payable(mem, inv, now)
      /\ mem' = Authorized(mem, inv.quote)
      /\ payments' =
           IF /\ FinalHopInTime(inv, now)
              /\ Handshake(inv, inv.peer, RfqIdOf(inv), dir, now)
              /\ Insertable(payments[dir], p)
           THEN [payments EXCEPT ![dir] = Put(@, PaymentId(r, inv), p)]
           ELSE payments
      /\ UNCHANGED disk

SettleOutgoing(r, inv, now) == Settle(r, inv, "outgoing", now)
SettleIncoming(r, inv, now) == Settle(r, inv, "incoming", now)

LLNext ==
  \/ /\ Next
     /\ Cardinality(DOMAIN mem'.quotes) <= MaxQuotes
     /\ UNCHANGED payments
  \/ \E r \in Reports, inv \in BoundInvoices, now \in Times :
       /\ SettleOutgoing(r, inv, now) \/ SettleIncoming(r, inv, now)
       /\ Cardinality(UNION {DOMAIN payments'[d] : d \in Directions}) <= MaxPayments

LLSpec == LLInit /\ [][LLNext]_allVars

------------------------------------------------------------------------------
(* What the proofs assume of the constants *)

(* What validate_request, the price oracle and the types of a deal's       *)
(* fields give: the amounts are not zero and no field is missing.          *)
DealTerms ==
  \A deal \in Deals :
    /\ deal.amount \in Nat \ {0} /\ deal.msat \in Nat \ {0}
    /\ deal.asset # Absent /\ deal.context # Absent

(* None is no amount, rate, time, id, transfer type or asset. *)
AbsentIsNoValue ==
  Absent \notin Int \cup Domains \cup {"PayInvoice", "ReceivePayment", Btc}

(* Deals are records of the terms a quote request carries. *)
DealFields ==
  \A deal \in Deals :
    deal = [peer |-> deal.peer, asset |-> deal.asset, amount |-> deal.amount,
            msat |-> deal.msat, context |-> deal.context]

(* At the oracle's price one bitcoin buys a whole number of units. *)
WholeRates == \A deal \in Deals : RateExact(deal)

(* No deal is about the asset id that stands for bitcoin. *)
NoBitcoinDeals == \A deal \in Deals : deal.asset # Btc

(* The amounts in blobs that are accepted are u64s, in lists that end. *)
BlobAmounts ==
  \A x \in {y \in Fixtures : FundingAccepted(y.funding, y.commitment)} :
    \A outputs \in {x.commitment.local, x.commitment.remote} :
      IsFiniteSet(DOMAIN outputs) /\ \A i \in DOMAIN outputs : outputs[i].amount \in Nat

------------------------------------------------------------------------------
(* Properties *)

(* The two clocks agree but for one second: the exchange about a bound     *)
(* invoice succeeds exactly until the expiry of the quote is reached, when *)
(* the invoice lasts as long as the quote, while the store still takes the *)
(* quote in the second it expires.                                         *)
HandshakeWithinQuote ==
  \A inv \in BoundInvoices, dir \in Directions, now \in Times :
    /\ Handshake(inv, inv.peer, RfqIdOf(inv), dir, now) <=>
         now < inv.quoteExpiry /\ inv.expiry = inv.quoteExpiry
    /\ Payable(mem, inv, now) <=> now <= inv.quoteExpiry

(* The records a peer may leave out of a request. *)
Stripped(stream) ==
  {stream} \cup {[g \in DOMAIN stream \ {f} |-> stream[g]] : f \in DOMAIN stream}

(* A request names its deal: whichever record a peer leaves out of the     *)
(* request made for one invoice, what can be decoded and passes the checks *)
(* for another invoice, in either direction, was made for the same peer,   *)
(* asset, amounts and context and the same direction.                      *)
RequestNamesDeal ==
  \A inv \in BoundInvoices, dir \in Directions :
    \A stream \in {t \in Stripped(Encode(RequestFor(inv, RfqIdOf(inv), dir))) : RequestDecodes(t)} :
      \A other \in BoundInvoices, otherDir \in Directions, now \in Times :
        ValidAgainst(ReadRequest(stream), inv.peer, other, otherDir, now)
          => dir = otherDir /\ inv.quote.deal = other.quote.deal

(* No quote is burnt in time: a payment made before the expiry of its      *)
(* quote, for an invoice that lasts as long, and not recorded before, is   *)
(* recorded in the step that uses the quote.                               *)
NoQuoteBurnt ==
  [][\A r \in Reports, inv \in BoundInvoices, dir \in Directions, now \in Times :
       /\ now < inv.quoteExpiry /\ inv.expiry = inv.quoteExpiry
       /\ PaymentId(r, inv) \notin DOMAIN payments[dir]
       /\ Settle(r, inv, dir, now)
       => PaymentId(r, inv) \in DOMAIN payments'[dir]]_allVars

==============================================================================
