---------------------------- MODULE NativePayment ----------------------------
(***************************************************************************)
(* A native asset payment (src/crates/tap-ldk-core/src/asset_payment.rs):  *)
(* one call takes a quote from the RFQ store (rfq_invoice.rs), checks the  *)
(* HTLC it authorizes, moves the balance in the commitment store, adds and *)
(* settles the HTLC (asset_htlc.rs) and records the payment.  The call may *)
(* fail after any of these steps; what it has changed by then stays.       *)
(*                                                                         *)
(* Each of the four stores has its own file, written by its own            *)
(* save_atomic; the order of the saves is the caller's.  A process may     *)
(* stop at any point and start again from the four files.                  *)
(*                                                                         *)
(* No real SCIDs are registered here.                                      *)
(***************************************************************************)
EXTENDS Integers, Sequences, FiniteSets

CONSTANTS
  Channels, LocalFunding, RemoteFunding, Nonces, U64Max, NoNonce,
  AssetOf,       \* [Channels -> asset]
  Deals,         \* [asset, amount] asked for, by whom and in what context
  Domains,       \* rfq_ids; each is its quote's replay domain
  Times,         \* now_unix_seconds of a call
  Scids, SeedOf, MaxProbes,
  Hashes,        \* payment hashes
  NoQuote,       \* an id no quote has
  NoHash,        \* a payment hash no invoice has
  Orders,        \* kinds of callers: one that saves quotes, commitments, HTLCs
                 \* and payments in this order and makes no call between
                 \* (TRUE), one that saves each at any time (FALSE)
  MaxCalls       \* bound: calls made

ASSUME PaymentAssumption ==
  /\ Orders \subseteq BOOLEAN /\ MaxCalls \in Nat
  /\ \A d \in Deals : d.amount \in 1 .. U64Max
  /\ NoHash \notin Hashes

(* initialize_channel funded every channel; see AssetCommitment. *)
ASSUME FundedAssumption ==
  /\ U64Max \in Nat /\ NoNonce \notin Nonces
  /\ LocalFunding \in [Channels -> 0 .. U64Max]
  /\ RemoteFunding \in [Channels -> 0 .. U64Max]
  /\ \A c \in Channels : LocalFunding[c] + RemoteFunding[c] \in 1 .. U64Max

VARIABLES
  mem, disk,   \* [quotes, commitments, htlcs, payments]
  ordered,     \* the kind of caller
  round,       \* stores saved in the current round of ordered saves
  calls,       \* calls made so far
  result       \* how the last call ended

vars == <<mem, disk, ordered, round, calls, result>>

(* DEFAULT_REGTEST_QUOTE_TTL_SECONDS, and the sixty seconds of an invoice. *)
QuoteTtl == 120
InvoiceTtl == 60

(* What RfqQuotes asks of its constants. *)
ASSUME QuoteAssumption ==
  /\ Times \subseteq Nat /\ Scids \subseteq Nat /\ MaxProbes \in Nat
  /\ SeedOf \in [Deals \X {t + QuoteTtl : t \in Times} \X Domains -> Scids]

Rfq == INSTANCE RfqQuotes WITH Expiries <- {t + QuoteTtl : t \in Times}

Commitments ==
  INSTANCE AssetCommitment
    WITH mem <- mem.commitments, disk <- disk.commitments, saving <- FALSE,
         requests <- {}, Deltas <- 0 .. U64Max, MaxRequests <- MaxCalls

Put(f, k, v) == [x \in DOMAIN f \cup {k} |-> IF x = k THEN v ELSE f[x]]

EmptyMap == [x \in {} |-> x]

Request == [channel : Channels, deal : Deals, domain : Domains, hash : Hashes,
            nonce : Nonces, now : Times]

(* NativeAssetPaymentFailureMode, or none *)
Modes == {"None", "WrongQuote", "WrongInvoice", "WrongMetadata"}

------------------------------------------------------------------------------
(* prepare_payment *)

(* receive_native_rfq_request: request a quote under the rfq_id, accept it. *)
QuoteGranted(m, req) ==
  Rfq!RequestAllowed(m.quotes, req.deal, req.now + QuoteTtl, req.domain, req.now)

QuoteFor(m, req) ==
  Rfq!NewQuote(m.quotes, req.deal, req.now + QuoteTtl, req.domain)

WithQuote(m, req) ==
  [m EXCEPT !.quotes =
     Rfq!Accepted(Rfq!Requested(@, req.deal, req.now + QuoteTtl, req.domain),
                  QuoteFor(m, req))]

(* bind_quote_to_invoice, and the invoice as the failure mode presents it. *)
Invoice(m, req, mode) ==
  [quote  |-> IF mode = "WrongQuote" THEN NoQuote ELSE QuoteFor(m, req),
   hash   |-> req.hash,
   expiry |-> req.now + InvoiceTtl]

(* pay_quote_bound_invoice: the quote is read again and authorized. *)
Paid(m, req, mode) ==
  LET s == WithQuote(m, req).quotes
      inv == Invoice(m, req, mode)
  IN  /\ inv.quote \in DOMAIN s.quotes
      /\ inv.expiry <= inv.quote.expiry
      /\ Rfq!AuthorizeAllowed(s, inv.quote, req.now + 2)

WithAuthorization(m, req) ==
  [WithQuote(m, req) EXCEPT !.quotes = Rfq!Authorized(@, QuoteFor(m, req))]

(* The HTLC's custom records; they come out of encode_tlv and              *)
(* decode_custom_records as they went in.                                  *)
HtlcRecords(m, req, mode) ==
  LET q == QuoteFor(m, req)
  IN  [quote  |-> q,
       amount |-> IF mode = "WrongMetadata" THEN q.deal.amount + 1
                                            ELSE q.deal.amount,
       hash   |-> req.hash]

(* validate_final_hop of records against an invoice and the authorization, *)
(* which is the quote.                                                     *)
FinalHopAnyAmount(records, inv, auth, now) ==
  /\ now <= inv.expiry /\ now <= auth.expiry
  /\ records.quote = auth /\ inv.quote = auth
  /\ records.hash = inv.hash
FinalHop(records, inv, auth, now) ==
  /\ now <= inv.expiry /\ now <= auth.expiry
  /\ records.quote = auth /\ inv.quote = auth
  /\ records.amount = auth.deal.amount
  /\ records.hash = inv.hash

Validated(m, req, mode) ==
  LET inv == Invoice(m, req, mode)
      shown == [inv EXCEPT !.hash = IF mode = "WrongInvoice" THEN NoHash ELSE @]
  IN  /\ Paid(m, req, mode)
      /\ FinalHop(HtlcRecords(m, req, mode), shown, QuoteFor(m, req), req.now + 3)

------------------------------------------------------------------------------
(* settle_prepared_payment *)

State(m, req) == m.commitments[req.channel]

UpdateFor(m, req, mode) ==
  LET st == State(m, req)
      amount == HtlcRecords(m, req, mode).amount
  IN  [channel |-> req.channel, number |-> st.number + 1, l2r |-> amount,
       r2l |-> 0, nonce |-> req.nonce,
       signed |-> Commitments!NextOutput(st, amount, 0, req.nonce)]

WithUpdate(m, req, mode) ==
  [WithAuthorization(m, req) EXCEPT !.commitments =
     Put(@, req.channel,
         Commitments!Updated(State(m, req), UpdateFor(m, req, mode)))]

(* The channel is of the quoted asset and the update is built and applied. *)
Moves(m, req, mode) ==
  /\ AssetOf[req.channel] = req.deal.asset
  /\ FinalHop(HtlcRecords(m, req, mode), Invoice(m, req, mode),
              QuoteFor(m, req), req.now + 4)
  /\ Commitments!UpdateAccepted(State(m, req), UpdateFor(m, req, mode))
  /\ Commitments!StoreValid(WithUpdate(m, req, mode).commitments)

(* htlc_id hashes all of this; the quote fixes asset and BTC amount. *)
HtlcId(m, req, mode) ==
  LET r == HtlcRecords(m, req, mode)
  IN  [channel |-> req.channel, quote |-> r.quote, amount |-> r.amount,
       hash |-> r.hash]

(* add_htlc *)
WithHtlc(before, m, req, mode, status) ==
  [before EXCEPT !.htlcs = Put(@, HtlcId(m, req, mode), status)]

(* payment_id *)
PaymentId(m, req) ==
  [channel |-> req.channel, quote |-> QuoteFor(m, req), hash |-> req.hash]

PaymentBeforeUpdate(m, req, mode) ==
  LET st == State(m, req)
  IN  [htlc |-> HtlcId(m, req, mode), number |-> st.number,
       local |-> st.local, remote |-> st.remote, total |-> st.total]
Payment(m, req, mode) ==
  LET st == State(WithUpdate(m, req, mode), req)
  IN  [htlc |-> HtlcId(m, req, mode), number |-> st.number,
       local |-> st.local, remote |-> st.remote, total |-> st.total]

(* validate of the HTLC store and of the payment store: an id is the value *)
(* it is derived from, and only settled payments are recorded.             *)
HtlcsValid(htlcs) == \A id \in DOMAIN htlcs : id.amount # 0
PaymentsValid(payments) ==
  \A id \in DOMAIN payments :
    LET p == payments[id]
    IN  /\ p.htlc.amount # 0
        /\ p.local + p.remote <= U64Max
        /\ p.local + p.remote = p.total

(* record_payment *)
WithPayment(before, m, req, mode) ==
  [before EXCEPT !.payments = Put(@, PaymentId(m, req), Payment(m, req, mode))]

Recordable(m, req, mode) ==
  /\ PaymentId(m, req) \notin DOMAIN m.payments
  /\ PaymentsValid(WithPayment(m, m, req, mode).payments)

------------------------------------------------------------------------------
(* Actions *)

Init ==
  /\ mem = [quotes |-> Rfq!EmptyStore,
            commitments |-> [c \in Channels |-> Commitments!FundedState(c)],
            htlcs |-> EmptyMap, payments |-> EmptyMap]
  /\ disk = mem
  /\ ordered \in Orders
  /\ round = 0
  /\ calls = 0
  /\ result = "None"

(* A call that gets its quote.  One that does not changes nothing. *)
Call(req) ==
  /\ round = 0
  /\ calls < MaxCalls
  /\ QuoteGranted(mem, req)

Return(m, how) ==
  /\ mem' = m
  /\ result' = how
  /\ calls' = calls + 1
  /\ UNCHANGED <<disk, ordered, round>>

(* send_native_asset_payment and try_native_asset_payment_with_failure, by *)
(* where the call ends.                                                    *)
SendUnpaid(req, mode) ==
  /\ Call(req) /\ ~Paid(mem, req, mode)
  /\ Return(WithQuote(mem, req), "Failed")

SendRejectedMoved(req, mode) ==
  /\ Call(req) /\ Paid(mem, req, mode) /\ ~Validated(mem, req, mode)
  /\ Return(WithUpdate(mem, req, mode), "Failed")
SendRejected(req, mode) ==
  /\ Call(req) /\ Paid(mem, req, mode) /\ ~Validated(mem, req, mode)
  /\ Return(WithAuthorization(mem, req), "Failed")

SendUnmoved(req, mode) ==
  /\ Call(req) /\ Validated(mem, req, mode) /\ ~Moves(mem, req, mode)
  /\ Return(WithAuthorization(mem, req), "Failed")

SendDuplicateHtlc(req, mode) ==
  /\ Call(req) /\ Validated(mem, req, mode) /\ Moves(mem, req, mode)
  /\ HtlcId(mem, req, mode) \in DOMAIN mem.htlcs
  /\ Return(WithUpdate(mem, req, mode), "Failed")

SendDuplicatePayment(req, mode) ==
  /\ Call(req) /\ Validated(mem, req, mode) /\ Moves(mem, req, mode)
  /\ HtlcId(mem, req, mode) \notin DOMAIN mem.htlcs
  /\ ~Recordable(mem, req, mode)
  /\ Return(WithHtlc(WithUpdate(mem, req, mode), mem, req, mode, "Settled"),
            "Failed")

SendSettled(req, mode) ==
  /\ Call(req) /\ Validated(mem, req, mode) /\ Moves(mem, req, mode)
  /\ HtlcId(mem, req, mode) \notin DOMAIN mem.htlcs
  /\ Recordable(mem, req, mode)
  /\ Return(WithPayment(WithHtlc(WithUpdate(mem, req, mode), mem, req, mode,
                                 "Settled"),
                        mem, req, mode),
            "Settled")

(* The HTLC store on its own, as asset_htlc.rs and asset_recovery.rs use   *)
(* it: an authorized HTLC is added, then settled or failed.                *)
AddHtlc(req) ==
  /\ Call(req) /\ Validated(mem, req, "None")
  /\ HtlcId(mem, req, "None") \notin DOMAIN mem.htlcs
  /\ Return(WithHtlc(WithAuthorization(mem, req), mem, req, "None", "Offered"),
            "Added")

ResolveHtlc(id, status) ==
  /\ round = 0
  /\ mem.htlcs[id] = "Offered"
  /\ mem' = [mem EXCEPT !.htlcs[id] = status]
  /\ UNCHANGED <<disk, ordered, round, calls, result>>

SaveSequence == <<"quotes", "commitments", "htlcs", "payments">>

(* save_atomic of one store, which validates it. *)
SaveStore(i) ==
  /\ ordered => i = round + 1
  /\ CASE SaveSequence[i] = "quotes"      -> Rfq!Valid(mem.quotes)
       [] SaveSequence[i] = "commitments" -> Commitments!StoreValid(mem.commitments)
       [] SaveSequence[i] = "htlcs"       -> HtlcsValid(mem.htlcs)
       [] SaveSequence[i] = "payments"    -> PaymentsValid(mem.payments)
  /\ disk' = [disk EXCEPT ![SaveSequence[i]] = mem[SaveSequence[i]]]
  /\ round' = IF ordered THEN i % Len(SaveSequence) ELSE 0
  /\ UNCHANGED <<mem, ordered, calls, result>>

Restart ==
  /\ mem' = disk
  /\ round' = 0
  /\ result' = "None"
  /\ UNCHANGED <<disk, ordered, calls>>

Next ==
  \/ \E req \in Request, mode \in Modes :
       \/ SendUnpaid(req, mode) \/ SendRejected(req, mode)
       \/ SendUnmoved(req, mode) \/ SendDuplicateHtlc(req, mode)
       \/ SendDuplicatePayment(req, mode) \/ SendSettled(req, mode)
  \/ \E req \in Request : AddHtlc(req)
  \/ \E id \in DOMAIN mem.htlcs, status \in {"Settled", "Failed"} :
       ResolveHtlc(id, status)
  \/ \E i \in DOMAIN SaveSequence : SaveStore(i)
  \/ Restart

Spec == Init /\ [][Next]_vars

------------------------------------------------------------------------------
(* Properties *)

Status == {"Offered", "Settled", "Failed"}

IsStores(s) ==
  /\ Rfq!IsQuoteStore(s.quotes)
  /\ Commitments!IsStore(s.commitments)
  /\ s.htlcs \in [DOMAIN s.htlcs -> Status]
  /\ \A id \in DOMAIN s.htlcs :
       /\ id.channel \in Channels /\ id.quote \in Rfq!QuoteId
       /\ id.hash \in Hashes
  /\ \A id \in DOMAIN s.payments :
       /\ s.payments[id].number \in Commitments!Amount
       /\ s.payments[id].local + s.payments[id].remote
            = LocalFunding[id.channel] + RemoteFunding[id.channel]

(* The four stores are well-formed in memory and in their files, and every *)
(* payment record sums to the channel's funding, as record_payment checks. *)
TypeOK ==
  /\ IsStores(mem) /\ IsStores(disk)
  /\ round \in 0 .. Len(SaveSequence) - 1
  /\ calls \in 0 .. MaxCalls
  /\ result \in {"None", "Failed", "Added", "Settled"}

(* Whatever the failure mode and the order of the saves, an HTLC carries   *)
(* its quote's amount, and a payment its quote's amount and asset: no       *)
(* presented invoice or metadata reaches a store with other terms.         *)
TermsOfQuote ==
  \A s \in {mem, disk} :
    /\ \A id \in DOMAIN s.htlcs : id.amount = id.quote.deal.amount
    /\ \A id \in DOMAIN s.payments :
         /\ s.payments[id].htlc.quote = id.quote
         /\ s.payments[id].htlc.amount = id.quote.deal.amount
         /\ AssetOf[id.channel] = id.quote.deal.asset

(* A quote authorizes one HTLC over every restart, when the stores are     *)
(* saved in order: the HTLCs in memory and on disk have different quotes,  *)
(* and each quote is used.                                                 *)
OneHtlcPerQuote ==
  ordered => \A s \in {mem, disk} : \A id \in DOMAIN s.htlcs :
    /\ id.quote \in DOMAIN s.quotes.quotes
    /\ s.quotes.quotes[id.quote] = "Used"
    /\ \A other \in DOMAIN s.htlcs : other.quote = id.quote => other = id

Backed(s, id) ==
  LET p == s.payments[id]
      commitments == s.commitments[id.channel].commitments
  IN  /\ p.number \in DOMAIN commitments
      /\ commitments[p.number].local = p.local
      /\ commitments[p.number].remote = p.remote
      /\ commitments[p.number].prior.local - p.local = p.htlc.amount
      /\ p.htlc \in DOMAIN s.htlcs /\ s.htlcs[p.htlc] = "Settled"
      /\ \A other \in DOMAIN s.payments :
           other.channel = id.channel /\ s.payments[other].number = p.number
             => other = id

(* A payment shown as settled is durable in the commitments and the HTLCs, *)
(* when the stores are saved in order: its own commitment number moved     *)
(* exactly its amount and its HTLC is settled, in memory and in every      *)
(* state a crash leaves on disk.  No call leaves a store that its own      *)
(* save_atomic refuses, which would end that order.                        *)
PaymentsBacked ==
  ordered =>
    \A s \in {mem, disk} :
      /\ \A id \in DOMAIN s.payments : Backed(s, id)
      /\ Rfq!Valid(s.quotes) /\ Commitments!StoreValid(s.commitments)
      /\ HtlcsValid(s.htlcs) /\ PaymentsValid(s.payments)

FailedCall == calls' # calls /\ result' = "Failed"
StateKept == /\ mem'.commitments = mem.commitments
             /\ mem'.htlcs = mem.htlcs
             /\ mem'.payments = mem.payments

(* Over stores saved in order, a call that fails leaves the balances, the  *)
(* HTLCs and the payments as they were: FailedPaymentAdvancedState is      *)
(* never reported.                                                         *)
FailedCallLeavesState == [][ordered /\ FailedCall => StateKept]_vars

(* The same whatever the stores' ages, as a negative path is documented to *)
(* leave them.                                                             *)
FailedCallNeverAdvances == [][FailedCall => StateKept]_vars

==============================================================================
