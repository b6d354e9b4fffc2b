------------------------- MODULE NativePaymentProofs -------------------------
(***************************************************************************)
(* Proofs about NativePayment, for every set of channels, deals, domains,  *)
(* hashes, nonces and times and any number of calls.                       *)
(*                                                                         *)
(* Terms holds whatever the order of the saves.  The other properties need *)
(* the ordered saves, and an invariant that ties the four stores together: *)
(* every HTLC's quote is used in the same stores' quotes (so a fresh quote *)
(* has no HTLC and a call can fail neither as a duplicate HTLC nor as a    *)
(* duplicate payment), every payment is backed by the same stores'         *)
(* commitments and HTLCs, and memory continues each of the files, those    *)
(* already written in a round being equal to it.  With that, the stores a  *)
(* crash leaves on disk satisfy what memory does.                          *)
(***************************************************************************)
EXTENDS NativePayment, TLAPS

Quotes == INSTANCE RfqQuotesProofs WITH Expiries <- {t + QuoteTtl : t \in Times}

Updates ==
  INSTANCE AssetCommitmentProofs
    WITH mem <- mem.commitments, disk <- disk.commitments, saving <- FALSE,
         requests <- {}, Deltas <- 0 .. U64Max, MaxRequests <- MaxCalls

HasStores(s) ==
  s = [quotes |-> s.quotes, commitments |-> s.commitments,
       htlcs |-> s.htlcs, payments |-> s.payments]

------------------------------------------------------------------------------
(* The steps, store by store *)

(* The quotes after a call took its quote, and after it was authorized.    *)
TakenQuotes(m, req) ==
  Rfq!Accepted(Rfq!Requested(m.quotes, req.deal, req.now + QuoteTtl, req.domain),
               QuoteFor(m, req))

AuthorizedQuotes(m, req) == Rfq!Authorized(TakenQuotes(m, req), QuoteFor(m, req))

UpdatedCommitments(m, req, mode) ==
  Put(m.commitments, req.channel,
      Commitments!Updated(State(m, req), UpdateFor(m, req, mode)))

(* What each part of a call changes.                                       *)
LEMMA CallStores ==
  ASSUME NEW m, HasStores(m), NEW req, NEW mode, NEW status
  PROVE
    /\ WithQuote(m, req) =
         [quotes |-> TakenQuotes(m, req), commitments |-> m.commitments,
          htlcs |-> m.htlcs, payments |-> m.payments]
    /\ WithAuthorization(m, req) =
         [quotes |-> AuthorizedQuotes(m, req), commitments |-> m.commitments,
          htlcs |-> m.htlcs, payments |-> m.payments]
    /\ WithUpdate(m, req, mode) =
         [quotes |-> AuthorizedQuotes(m, req),
          commitments |-> UpdatedCommitments(m, req, mode),
          htlcs |-> m.htlcs, payments |-> m.payments]
    /\ WithHtlc(WithAuthorization(m, req), m, req, mode, status) =
         [quotes |-> AuthorizedQuotes(m, req), commitments |-> m.commitments,
          htlcs |-> Put(m.htlcs, HtlcId(m, req, mode), status),
          payments |-> m.payments]
    /\ WithHtlc(WithUpdate(m, req, mode), m, req, mode, status) =
         [quotes |-> AuthorizedQuotes(m, req),
          commitments |-> UpdatedCommitments(m, req, mode),
          htlcs |-> Put(m.htlcs, HtlcId(m, req, mode), status),
          payments |-> m.payments]
    /\ WithPayment(WithHtlc(WithUpdate(m, req, mode), m, req, mode, status), m, req, mode) =
         [quotes |-> AuthorizedQuotes(m, req),
          commitments |-> UpdatedCommitments(m, req, mode),
          htlcs |-> Put(m.htlcs, HtlcId(m, req, mode), status),
          payments |-> Put(m.payments, PaymentId(m, req), Payment(m, req, mode))]
<1> DEFINE taken == TakenQuotes(m, req)
           authorized == AuthorizedQuotes(m, req)
           updated == UpdatedCommitments(m, req, mode)
           added == Put(m.htlcs, HtlcId(m, req, mode), status)
           paid == Put(m.payments, PaymentId(m, req), Payment(m, req, mode))
<1>1. WithQuote(m, req) = [m EXCEPT !.quotes = taken]
  BY DEF WithQuote, TakenQuotes, HasStores
<1>2. WithAuthorization(m, req) = [WithQuote(m, req) EXCEPT !.quotes = authorized]
  BY <1>1 DEF WithAuthorization, AuthorizedQuotes, HasStores
<1>3. WithUpdate(m, req, mode) = [WithAuthorization(m, req) EXCEPT !.commitments = updated]
  <2>1. WithAuthorization(m, req).commitments = m.commitments
    BY <1>1, <1>2 DEF HasStores
  <2> QED
    BY <1>2, <2>1 DEF WithUpdate, UpdatedCommitments
<1> HIDE DEF taken, authorized, updated, added, paid
<1>4. WithQuote(m, req) =
        [quotes |-> taken, commitments |-> m.commitments,
         htlcs |-> m.htlcs, payments |-> m.payments]
  BY <1>1 DEF HasStores
<1>5. WithAuthorization(m, req) =
        [quotes |-> authorized, commitments |-> m.commitments,
         htlcs |-> m.htlcs, payments |-> m.payments]
  BY <1>2, <1>4
<1>6. WithUpdate(m, req, mode) =
        [quotes |-> authorized, commitments |-> updated,
         htlcs |-> m.htlcs, payments |-> m.payments]
  BY <1>3, <1>5
<1>7. ASSUME NEW before, before.htlcs = m.htlcs
      PROVE  WithHtlc(before, m, req, mode, status) = [before EXCEPT !.htlcs = added]
  BY <1>7 DEF WithHtlc, added
<1>8. ASSUME NEW before, before.payments = m.payments
      PROVE  WithPayment(before, m, req, mode) = [before EXCEPT !.payments = paid]
  BY <1>8 DEF WithPayment, paid
<1>9. WithHtlc(WithAuthorization(m, req), m, req, mode, status) =
        [quotes |-> authorized, commitments |-> m.commitments,
         htlcs |-> added, payments |-> m.payments]
  BY <1>5, <1>7
<1>10. WithHtlc(WithUpdate(m, req, mode), m, req, mode, status) =
         [quotes |-> authorized, commitments |-> updated,
          htlcs |-> added, payments |-> m.payments]
  BY <1>6, <1>7
<1>11. WithPayment(WithHtlc(WithUpdate(m, req, mode), m, req, mode, status), m, req, mode) =
         [quotes |-> authorized, commitments |-> updated,
          htlcs |-> added, payments |-> paid]
  BY <1>8, <1>10
<1> QED
  BY <1>4, <1>5, <1>6, <1>9, <1>10, <1>11 DEF taken, authorized, updated, added, paid

(* A save replaces one file by its store in memory; saves that are ordered *)
(* go through the four files round by round.                               *)
LEMMA SaveChanges ==
  ASSUME HasStores(mem), HasStores(disk), NEW i \in DOMAIN SaveSequence, SaveStore(i)
  PROVE  /\ UNCHANGED <<mem, ordered, calls, result>>
         /\ ordered => i = round + 1 /\ round' = i % 4
         /\ \/ i = 1 /\ disk' = [quotes |-> mem.quotes, commitments |-> disk.commitments,
                                 htlcs |-> disk.htlcs, payments |-> disk.payments]
            \/ i = 2 /\ disk' = [quotes |-> disk.quotes, commitments |-> mem.commitments,
                                 htlcs |-> disk.htlcs, payments |-> disk.payments]
            \/ i = 3 /\ disk' = [quotes |-> disk.quotes, commitments |-> disk.commitments,
                                 htlcs |-> mem.htlcs, payments |-> disk.payments]
            \/ i = 4 /\ disk' = [quotes |-> disk.quotes, commitments |-> disk.commitments,
                                 htlcs |-> disk.htlcs, payments |-> mem.payments]
<1>1. /\ UNCHANGED <<mem, ordered, calls, result>>
      /\ ordered => i = round + 1 /\ round' = i % Len(SaveSequence)
      /\ disk' = [disk EXCEPT ![SaveSequence[i]] = mem[SaveSequence[i]]]
  BY DEF SaveStore
<1>2. /\ Len(SaveSequence) = 4 /\ i \in 1 .. 4
      /\ SaveSequence[1] = "quotes" /\ SaveSequence[2] = "commitments"
      /\ SaveSequence[3] = "htlcs" /\ SaveSequence[4] = "payments"
  BY DEF SaveSequence
<1>3. i = 1 \/ i = 2 \/ i = 3 \/ i = 4
  BY <1>2
<1>4. CASE i = 1
  <2>1. disk' = [disk EXCEPT !.quotes = mem.quotes]
    BY <1>1, <1>2, <1>4
  <2> QED
    BY <1>1, <1>2, <1>4, <2>1 DEF HasStores
<1>5. CASE i = 2
  <2>1. disk' = [disk EXCEPT !.commitments = mem.commitments]
    BY <1>1, <1>2, <1>5
  <2> QED
    BY <1>1, <1>2, <1>5, <2>1 DEF HasStores
<1>6. CASE i = 3
  <2>1. disk' = [disk EXCEPT !.htlcs = mem.htlcs]
    BY <1>1, <1>2, <1>6
  <2> QED
    BY <1>1, <1>2, <1>6, <2>1 DEF HasStores
<1>7. CASE i = 4
  <2>1. disk' = [disk EXCEPT !.payments = mem.payments]
    BY <1>1, <1>2, <1>7
  <2> QED
    BY <1>1, <1>2, <1>7, <2>1 DEF HasStores
<1> QED
  BY <1>3, <1>4, <1>5, <1>6, <1>7

------------------------------------------------------------------------------
(* Terms *)

HtlcTerms(htlcs) ==
  \A id \in DOMAIN htlcs : id.amount = id.quote.deal.amount /\ id.quote.deal \in Deals

PaymentTerms(payments) ==
  \A id \in DOMAIN payments :
    /\ payments[id].htlc.quote = id.quote
    /\ payments[id].htlc.amount = id.quote.deal.amount
    /\ AssetOf[id.channel] = id.quote.deal.asset

TermsInv ==
  \A s \in {mem, disk} : HasStores(s) /\ HtlcTerms(s.htlcs) /\ PaymentTerms(s.payments)

(* A validated call adds an HTLC and a payment on its quote's terms: the   *)
(* final hop compares what the failure modes presented with the            *)
(* authorization.                                                          *)
LEMMA ValidatedTerms ==
  ASSUME NEW m, NEW req \in Request, NEW mode, Validated(m, req, mode)
  PROVE  LET q == QuoteFor(m, req)
         IN  /\ q.deal = req.deal /\ q.deal \in Deals /\ q.domain = req.domain
             /\ HtlcId(m, req, mode) = [channel |-> req.channel, quote |-> q,
                                        amount |-> q.deal.amount, hash |-> req.hash]
<1> DEFINE q == QuoteFor(m, req)
           records == HtlcRecords(m, req, mode)
<1>1. q.deal = req.deal /\ req.deal \in Deals /\ q.domain = req.domain
  BY DEF QuoteFor, Rfq!NewQuote, Request
<1>2. records.quote = q /\ records.amount = q.deal.amount /\ records.hash = req.hash
  BY DEF Validated, FinalHop, HtlcRecords
<1> HIDE DEF q, records
<1>3. HtlcId(m, req, mode) = [channel |-> req.channel, quote |-> records.quote,
                              amount |-> records.amount, hash |-> records.hash]
  BY DEF HtlcId, records
<1> QED
  BY <1>1, <1>2, <1>3 DEF q

(* Adding a validated call's HTLC keeps the terms of all HTLCs.            *)
LEMMA HtlcAddedOnTerms ==
  ASSUME NEW m, HtlcTerms(m.htlcs), NEW req \in Request, NEW mode,
         Validated(m, req, mode), NEW status
  PROVE  HtlcTerms(Put(m.htlcs, HtlcId(m, req, mode), status))
<1> DEFINE id == HtlcId(m, req, mode)
<1>1. id.amount = id.quote.deal.amount /\ id.quote.deal \in Deals
  BY ValidatedTerms
<1> HIDE DEF id
<1>2. HtlcTerms(Put(m.htlcs, id, status))
  BY <1>1 DEF HtlcTerms, Put
<1> QED
  BY <1>2 DEF id

(* Recording a validated call's payment, on a channel of the quoted asset, *)
(* keeps the terms of all payments.                                        *)
LEMMA PaymentRecordedOnTerms ==
  ASSUME NEW m, PaymentTerms(m.payments), NEW req \in Request, NEW mode,
         Validated(m, req, mode), Moves(m, req, mode)
  PROVE  PaymentTerms(Put(m.payments, PaymentId(m, req), Payment(m, req, mode)))
<1> DEFINE id == PaymentId(m, req)
           p == Payment(m, req, mode)
<1>1. /\ id.channel = req.channel /\ id.quote = QuoteFor(m, req)
      /\ p.htlc = HtlcId(m, req, mode)
  BY DEF PaymentId, Payment
<1>2. AssetOf[req.channel] = req.deal.asset
  BY DEF Moves
<1> HIDE DEF id, p
<1>3. /\ p.htlc.quote = id.quote /\ p.htlc.amount = id.quote.deal.amount
      /\ AssetOf[id.channel] = id.quote.deal.asset
  BY <1>1, <1>2, ValidatedTerms
<1>4. PaymentTerms(Put(m.payments, id, p))
  BY <1>3 DEF PaymentTerms, Put
<1> QED
  BY <1>4 DEF id, p

(* No step of a caller, ordered or not, changes a term.                    *)
LEMMA NextTerms == TermsInv /\ [Next]_vars => TermsInv'
<1> SUFFICES ASSUME TermsInv, [Next]_vars PROVE TermsInv'
  OBVIOUS
<1>a. /\ HasStores(mem) /\ HtlcTerms(mem.htlcs) /\ PaymentTerms(mem.payments)
      /\ HasStores(disk) /\ HtlcTerms(disk.htlcs) /\ PaymentTerms(disk.payments)
  BY DEF TermsInv
<1>b. ASSUME HasStores(mem'), HtlcTerms(mem'.htlcs), PaymentTerms(mem'.payments),
             disk' = disk
      PROVE  TermsInv'
  BY <1>a, <1>b DEF TermsInv
<1>1. ASSUME NEW req \in Request, NEW mode \in Modes,
             SendUnpaid(req, mode) \/ SendRejected(req, mode) \/ SendUnmoved(req, mode)
      PROVE  TermsInv'
  <2>1. disk' = disk /\ mem' \in {WithQuote(mem, req), WithAuthorization(mem, req)}
    BY <1>1 DEF SendUnpaid, SendRejected, SendUnmoved, Return
  <2>2. HasStores(mem') /\ mem'.htlcs = mem.htlcs /\ mem'.payments = mem.payments
    BY <1>a, <2>1, CallStores DEF HasStores
  <2> QED
    BY <1>a, <1>b, <2>1, <2>2
<1>2. ASSUME NEW req \in Request, NEW mode \in Modes, SendDuplicateHtlc(req, mode)
      PROVE  TermsInv'
  <2>1. disk' = disk /\ mem' = WithUpdate(mem, req, mode)
    BY <1>2 DEF SendDuplicateHtlc, Return
  <2>2. HasStores(mem') /\ mem'.htlcs = mem.htlcs /\ mem'.payments = mem.payments
    BY <1>a, <2>1, CallStores DEF HasStores
  <2> QED
    BY <1>a, <1>b, <2>1, <2>2
<1>3. ASSUME NEW req \in Request, NEW mode \in Modes, SendDuplicatePayment(req, mode)
      PROVE  TermsInv'
  <2>1. /\ disk' = disk /\ Validated(mem, req, mode)
        /\ mem' = WithHtlc(WithUpdate(mem, req, mode), mem, req, mode, "Settled")
    BY <1>3 DEF SendDuplicatePayment, Return
  <2>2. /\ HasStores(mem') /\ mem'.payments = mem.payments
        /\ mem'.htlcs = Put(mem.htlcs, HtlcId(mem, req, mode), "Settled")
    BY <1>a, <2>1, CallStores DEF HasStores
  <2> QED
    BY <1>a, <1>b, <2>1, <2>2, HtlcAddedOnTerms
<1>4. ASSUME NEW req \in Request, NEW mode \in Modes, SendSettled(req, mode)
      PROVE  TermsInv'
  <2>1. /\ disk' = disk /\ Validated(mem, req, mode) /\ Moves(mem, req, mode)
        /\ mem' = WithPayment(WithHtlc(WithUpdate(mem, req, mode), mem, req, mode,
                                       "Settled"), mem, req, mode)
    BY <1>4 DEF SendSettled, Return
  <2>2. /\ HasStores(mem')
        /\ mem'.htlcs = Put(mem.htlcs, HtlcId(mem, req, mode), "Settled")
        /\ mem'.payments = Put(mem.payments, PaymentId(mem, req), Payment(mem, req, mode))
    BY <1>a, <2>1, CallStores DEF HasStores
  <2> QED
    BY <1>a, <1>b, <2>1, <2>2, HtlcAddedOnTerms, PaymentRecordedOnTerms
<1>5. ASSUME NEW req \in Request, AddHtlc(req) PROVE TermsInv'
  <2>1. /\ disk' = disk /\ Validated(mem, req, "None")
        /\ mem' = WithHtlc(WithAuthorization(mem, req), mem, req, "None", "Offered")
    BY <1>5 DEF AddHtlc, Return
  <2>2. /\ HasStores(mem') /\ mem'.payments = mem.payments
        /\ mem'.htlcs = Put(mem.htlcs, HtlcId(mem, req, "None"), "Offered")
    BY <1>a, <2>1, CallStores DEF HasStores
  <2> QED
    BY <1>a, <1>b, <2>1, <2>2, HtlcAddedOnTerms
<1>6. ASSUME NEW id \in DOMAIN mem.htlcs, NEW status, ResolveHtlc(id, status)
      PROVE  TermsInv'
  <2>1. disk' = disk /\ mem' = [mem EXCEPT !.htlcs[id] = status]
    BY <1>6 DEF ResolveHtlc
  <2>2. /\ HasStores(mem') /\ mem'.payments = mem.payments
        /\ DOMAIN mem'.htlcs = DOMAIN mem.htlcs
    BY <1>a, <2>1 DEF HasStores
  <2> QED
    BY <1>a, <1>b, <2>1, <2>2 DEF HtlcTerms
<1>7. ASSUME NEW i \in DOMAIN SaveSequence, SaveStore(i) PROVE TermsInv'
  <2>1. mem' = mem /\ HasStores(disk')
        /\ disk'.htlcs \in {mem.htlcs, disk.htlcs}
        /\ disk'.payments \in {mem.payments, disk.payments}
    BY <1>a, <1>7, SaveChanges DEF HasStores
  <2> QED
    BY <1>a, <2>1 DEF TermsInv
<1>8. CASE Restart
  BY <1>a, <1>8 DEF Restart, TermsInv
<1>9. CASE UNCHANGED vars
  BY <1>9 DEF vars, TermsInv
<1> QED
  BY <1>1, <1>2, <1>3, <1>4, <1>5, <1>6, <1>7, <1>8, <1>9 DEF Next

(* The terms hold in every reachable state.                                *)
LEMMA TermsInvariance == Spec => []TermsInv
<1>1. Init => TermsInv
  BY DEF Init, TermsInv, HasStores, HtlcTerms, PaymentTerms, EmptyMap
<1> QED
  BY <1>1, NextTerms, PTL DEF Spec

(* Whatever the failure mode presents and in whatever order the stores are *)
(* saved, an HTLC carries its quote's amount and a payment its quote's     *)
(* amount and asset, in memory and in the files.                           *)
THEOREM TermsAreTheQuotes == Spec => []TermsOfQuote
<1>1. TermsInv => TermsOfQuote
  BY DEF TermsInv, HtlcTerms, PaymentTerms, TermsOfQuote
<1> QED
  BY <1>1, TermsInvariance, PTL

------------------------------------------------------------------------------
(* The quotes of a call *)

QuotesGood(s) == Quotes!GoodStore(s) /\ s.real = {}

(* NativePayment reads RfqQuotes at the same parameters as the lemmas.     *)
LEMMA SameQuotes ==
  ASSUME NEW s, NEW deal, NEW expiry, NEW domain, NEW now, NEW q
  PROVE  /\ Rfq!RequestAllowed(s, deal, expiry, domain, now)
              = Quotes!RequestAllowed(s, deal, expiry, domain, now)
         /\ Rfq!NewQuote(s, deal, expiry, domain) = Quotes!NewQuote(s, deal, expiry, domain)
         /\ Rfq!Requested(s, deal, expiry, domain) = Quotes!Requested(s, deal, expiry, domain)
         /\ Rfq!Accepted(s, q) = Quotes!Accepted(s, q)
         /\ Rfq!Authorized(s, q) = Quotes!Authorized(s, q)
         /\ Rfq!Valid(s) = Quotes!Valid(s)
         /\ Rfq!EmptyStore = Quotes!EmptyStore
<1>1. Rfq!FreeAliases(s, deal, expiry, domain) = Quotes!FreeAliases(s, deal, expiry, domain)
  BY DEF Rfq!FreeAliases, Quotes!FreeAliases, Rfq!Probes, Quotes!Probes
<1>2. Rfq!LiveQuotes(s) = Quotes!LiveQuotes(s)
  BY DEF Rfq!LiveQuotes, Quotes!LiveQuotes, Rfq!Live, Quotes!Live
<1>3. Rfq!RequestAllowed(s, deal, expiry, domain, now)
        = Quotes!RequestAllowed(s, deal, expiry, domain, now)
  BY <1>1, <1>2 DEF Rfq!RequestAllowed, Quotes!RequestAllowed, Rfq!DomainOpen, Quotes!DomainOpen
<1>4. Rfq!NewQuote(s, deal, expiry, domain) = Quotes!NewQuote(s, deal, expiry, domain)
  BY <1>1 DEF Rfq!NewQuote, Quotes!NewQuote
<1>5. Rfq!Requested(s, deal, expiry, domain) = Quotes!Requested(s, deal, expiry, domain)
  BY <1>4 DEF Rfq!Requested, Quotes!Requested, Rfq!Put, Quotes!Put
<1>6. Rfq!Accepted(s, q) = Quotes!Accepted(s, q)
  BY DEF Rfq!Accepted, Quotes!Accepted
<1>7. Rfq!Authorized(s, q) = Quotes!Authorized(s, q)
  BY DEF Rfq!Authorized, Quotes!Authorized, Rfq!Terminated, Quotes!Terminated,
         Rfq!Put, Quotes!Put, Rfq!Remove, Quotes!Remove
<1>8. Rfq!Valid(s) = Quotes!Valid(s)
  BY <1>2 DEF Rfq!Valid, Quotes!Valid, Rfq!AliasesAreNotReal, Quotes!AliasesAreNotReal,
              Rfq!LiveIndexed, Quotes!LiveIndexed, Rfq!UsedIndexed, Quotes!UsedIndexed,
              Rfq!UsedQuotes, Quotes!UsedQuotes
<1>9. Rfq!EmptyStore = Quotes!EmptyStore
  BY DEF Rfq!EmptyStore, Quotes!EmptyStore
<1> QED
  BY <1>3, <1>4, <1>5, <1>6, <1>7, <1>8, <1>9

(* The assumptions of the lemmas on quotes.                                *)
LEMMA QuoteConstants ==
  /\ {t + QuoteTtl : t \in Times} \subseteq Nat
  /\ Times \subseteq Nat /\ Scids \subseteq Nat /\ MaxProbes \in Nat
  /\ SeedOf \in [Deals \X {t + QuoteTtl : t \in Times} \X Domains -> Scids]
BY QuoteAssumption DEF QuoteTtl

(* receive_native_rfq_request and authorize_asset_htlc: a call's quote is  *)
(* one of an unused domain, and both leave a good store that forgets no    *)
(* use; the second enters the quote's own.                                 *)
LEMMA CallQuotes ==
  ASSUME NEW m, QuotesGood(m.quotes), NEW req \in Request, QuoteGranted(m, req)
  PROVE  LET q == QuoteFor(m, req)
         IN  /\ q.domain \notin DOMAIN m.quotes.used
             /\ QuotesGood(TakenQuotes(m, req))
             /\ Quotes!UsedContinues(m.quotes, TakenQuotes(m, req))
             /\ QuotesGood(AuthorizedQuotes(m, req))
             /\ Quotes!UsedContinues(m.quotes, AuthorizedQuotes(m, req))
             /\ Quotes!Kept(q, AuthorizedQuotes(m, req))
<1> DEFINE s == m.quotes
           e == req.now + QuoteTtl
           q == QuoteFor(m, req)
           r == Quotes!Requested(s, req.deal, e, req.domain)
           a == TakenQuotes(m, req)
           t == AuthorizedQuotes(m, req)
<1>1. /\ req.deal \in Deals /\ req.domain \in Domains /\ req.now \in Nat
      /\ e \in {x + QuoteTtl : x \in Times}
      /\ Quotes!RequestAllowed(s, req.deal, e, req.domain, req.now)
  BY SameQuotes, QuoteConstants DEF Request, QuoteGranted
<1>2. /\ q = Quotes!NewQuote(s, req.deal, e, req.domain)
      /\ a = Quotes!Accepted(r, q) /\ t = Quotes!Authorized(a, q)
  BY SameQuotes DEF QuoteFor, TakenQuotes, AuthorizedQuotes
<1>3. q.domain = req.domain /\ q.expiry = e
  BY <1>2 DEF Quotes!NewQuote
<1>4. r = [s EXCEPT !.live = Quotes!Put(@, q.alias, q), !.quotes = Quotes!Put(@, q, "Requested")]
  BY <1>2 DEF Quotes!Requested
<1>5. Quotes!GoodStore(r) /\ Quotes!UsedContinues(s, r)
  BY <1>1, QuoteConstants, Quotes!RequestedIsGood DEF QuotesGood
<1>6. req.domain \notin DOMAIN s.used
  BY <1>1 DEF Quotes!RequestAllowed, Quotes!DomainOpen
<1>7. req.now <= e
  BY <1>1 DEF QuoteTtl
<1> HIDE DEF q, r, a, t, e
<1>8. r.real = s.real /\ r.used = s.used /\ r.quotes = Quotes!Put(s.quotes, q, "Requested")
  <2>1. r = [real |-> s.real, live |-> Quotes!Put(s.live, q.alias, q), used |-> s.used,
             quotes |-> Quotes!Put(s.quotes, q, "Requested")]
    BY <1>4 DEF QuotesGood, Quotes!GoodStore, Quotes!HasFields
  <2> QED
    BY <2>1
<1>9. q \in DOMAIN r.quotes /\ r.quotes[q] = "Requested"
  BY <1>8 DEF Quotes!Put
<1>10. Quotes!AcceptAllowed(r, q, req.now)
  BY <1>3, <1>6, <1>7, <1>8, <1>9 DEF Quotes!AcceptAllowed, Quotes!NotExpired
<1>11. Quotes!GoodStore(a) /\ Quotes!UsedContinues(r, a)
  BY <1>2, <1>5, <1>9, <1>10, QuoteConstants, Quotes!AcceptedIsGood
<1>12. /\ a.real = s.real /\ a.used = s.used
       /\ q \in DOMAIN a.quotes /\ a.quotes[q] = "Accepted"
  <2>1. a = [r EXCEPT !.quotes[q] = "Accepted"]
    BY <1>2 DEF Quotes!Accepted
  <2>2. a = [real |-> r.real, live |-> r.live, used |-> r.used,
             quotes |-> [r.quotes EXCEPT ![q] = "Accepted"]]
    BY <1>5, <2>1 DEF Quotes!GoodStore, Quotes!HasFields
  <2> QED
    BY <1>8, <1>9, <2>2
<1>13. Quotes!AuthorizeAllowed(a, q, req.now)
  BY <1>3, <1>6, <1>7, <1>12 DEF Quotes!AuthorizeAllowed, Quotes!NotExpired
<1>14. Quotes!GoodStore(t) /\ Quotes!UsedContinues(a, t)
  BY <1>2, <1>11, <1>12, <1>13, QuoteConstants, Quotes!AuthorizedIsGood
<1>15. Quotes!Kept(q, t) /\ t.real = a.real
  BY <1>2, <1>11, <1>12, <1>13, QuoteConstants, Quotes!AuthorizedIsKept
<1>16. Quotes!UsedContinues(s, a) /\ Quotes!UsedContinues(s, t)
  BY <1>5, <1>11, <1>14 DEF Quotes!UsedContinues
<1>17. /\ q.domain \notin DOMAIN s.used
       /\ QuotesGood(a) /\ QuotesGood(t)
  BY <1>3, <1>6, <1>11, <1>12, <1>14, <1>15 DEF QuotesGood
<1> QED
  BY <1>15, <1>16, <1>17 DEF q, a, t

------------------------------------------------------------------------------
(* The commitments of a call *)

CommitmentsGood(s) ==
  /\ Updates!GoodStore(s) /\ DOMAIN s = Channels
  /\ Commitments!StoreValid(s)
  /\ \A c \in Channels :
       /\ s[c].total = LocalFunding[c] + RemoteFunding[c]
       /\ s[c].latest.local = s[c].local

(* NativePayment reads AssetCommitment at the same parameters as the       *)
(* lemmas.                                                                 *)
LEMMA SameUpdates ==
  ASSUME NEW st, NEW r, NEW c
  PROVE  /\ Commitments!UpdateAccepted(st, r) = Updates!UpdateAccepted(st, r)
         /\ Commitments!Updated(st, r) = Updates!Updated(st, r)
         /\ Commitments!FundedState(c) = Updates!FundedState(c)
<1> DEFINE o == Commitments!NextOutput(st, r.l2r, r.r2l, r.nonce)
<1>1. o = Updates!NextOutput(st, r.l2r, r.r2l, r.nonce)
  BY DEF Commitments!NextOutput, Updates!NextOutput
<1>2. Commitments!UpdateAccepted(st, r) = Updates!UpdateAccepted(st, r)
  BY <1>1 DEF Commitments!UpdateAccepted, Updates!UpdateAccepted,
       Commitments!FreshNonce, Updates!FreshNonce, Commitments!CanSpend, Updates!CanSpend,
       Commitments!CanReceive, Updates!CanReceive, Commitments!Conserved, Updates!Conserved,
       Commitments!Authentic, Updates!Authentic
<1>3. Commitments!Updated(st, r) = Updates!Updated(st, r)
  BY <1>1 DEF Commitments!Updated, Updates!Updated, Commitments!Put, Updates!Put,
       Commitments!Revoke, Updates!Revoke, Commitments!MonitorOf, Updates!MonitorOf
<1>4. Commitments!FundedState(c) = Updates!FundedState(c)
  BY DEF Commitments!FundedState, Updates!FundedState, Commitments!FundingOutput,
         Updates!FundingOutput, Commitments!EmptyMap, Updates!EmptyMap
<1> QED
  BY <1>2, <1>3, <1>4

(* The assumptions of the lemmas on commitments.                           *)
LEMMA UpdateConstants ==
  /\ Updates!Amount = 0 .. U64Max
  /\ U64Max \in Nat /\ MaxCalls \in Nat /\ NoNonce \notin Nonces
  /\ LocalFunding \in [Channels -> Updates!Amount]
  /\ RemoteFunding \in [Channels -> Updates!Amount]
  /\ \A c \in Channels : LocalFunding[c] + RemoteFunding[c] \in 1 .. U64Max
  /\ 0 .. U64Max \subseteq Updates!Amount
BY FundedAssumption, PaymentAssumption DEF Updates!Amount

(* A validated call asks for an update of a well-formed request.           *)
LEMMA CallRequest ==
  ASSUME NEW m, CommitmentsGood(m.commitments), NEW req \in Request, NEW mode,
         Validated(m, req, mode), Moves(m, req, mode)
  PROVE  LET r == UpdateFor(m, req, mode)
         IN  /\ r \in Updates!Request
             /\ Updates!UpdateAccepted(State(m, req), r)
             /\ r.l2r = QuoteFor(m, req).deal.amount /\ r.r2l = 0
             /\ r.l2r \in 1 .. U64Max
<1> DEFINE st == State(m, req)
           amount == HtlcRecords(m, req, mode).amount
           o == Commitments!NextOutput(st, amount, 0, req.nonce)
           r == UpdateFor(m, req, mode)
<1>1. /\ amount = QuoteFor(m, req).deal.amount
      /\ QuoteFor(m, req).deal \in Deals
  BY ValidatedTerms DEF Validated, FinalHop
<1>2. amount \in 1 .. U64Max /\ U64Max \in Nat
  BY <1>1, PaymentAssumption, FundedAssumption
<1>3. /\ r = [channel |-> req.channel, number |-> st.number + 1, l2r |-> amount,
              r2l |-> 0, nonce |-> req.nonce, signed |-> o]
      /\ o = [number |-> st.number + 1, local |-> (st.local - amount) + 0,
              remote |-> (st.remote - 0) + amount, nonce |-> req.nonce]
  BY DEF UpdateFor, Commitments!NextOutput
<1>4. Updates!UpdateAccepted(st, r)
  BY SameUpdates DEF Moves
<1>5. /\ st.number \in 0 .. U64Max /\ st.local \in 0 .. U64Max /\ st.remote \in 0 .. U64Max
      /\ st.local + st.remote = st.total /\ st.total \in 0 .. U64Max
  BY UpdateConstants DEF State, CommitmentsGood, Updates!GoodStore, Updates!GoodState,
       Updates!IsState, Updates!Conserved, Request
<1>6. st.number < U64Max /\ amount <= st.local
  <2>1. r.l2r = amount
    BY <1>3
  <2> HIDE DEF amount, r, st
  <2> QED
    BY <1>4, <2>1 DEF Updates!UpdateAccepted, Updates!CanSpend
<1> HIDE DEF amount, st, o, r
<1>7. /\ st.number + 1 \in 0 .. U64Max
      /\ (st.local - amount) + 0 \in 0 .. U64Max
      /\ (st.remote - 0) + amount \in 0 .. U64Max
  BY <1>2, <1>5, <1>6
<1>8. o \in Updates!Output
  BY <1>3, <1>7, UpdateConstants DEF Request, Updates!Output
<1>9. r \in Updates!Request
  BY <1>2, <1>3, <1>7, <1>8, UpdateConstants DEF Request, Updates!Request
<1> QED
  BY <1>1, <1>2, <1>3, <1>4, <1>9 DEF st, r

(* build_commitment_update and apply_update: the channel's next commitment *)
(* moves exactly the quoted amount, and nothing before it changes.         *)
LEMMA CallCommitments ==
  ASSUME NEW m, CommitmentsGood(m.commitments), NEW req \in Request, NEW mode,
         HasStores(m), Validated(m, req, mode), Moves(m, req, mode)
  PROVE  LET s == UpdatedCommitments(m, req, mode)
             st == State(m, req)
             t == s[req.channel]
             n == st.number + 1
         IN  /\ CommitmentsGood(s)
             /\ Updates!StoreExtends(s, m.commitments)
             /\ n \notin DOMAIN st.commitments
             /\ t.number = n /\ n \in DOMAIN t.commitments
             /\ t.commitments[n].local = t.local /\ t.commitments[n].remote = t.remote
             /\ t.commitments[n].prior.local - t.local = QuoteFor(m, req).deal.amount
             /\ t.local + t.remote = t.total /\ t.total <= U64Max
<1> DEFINE s == UpdatedCommitments(m, req, mode)
           st == State(m, req)
           r == UpdateFor(m, req, mode)
           t == Updates!Updated(st, r)
           amount == QuoteFor(m, req).deal.amount
           n == st.number + 1
<1>1. /\ r \in Updates!Request /\ Updates!UpdateAccepted(st, r)
      /\ r.l2r = amount /\ r.r2l = 0 /\ amount \in 1 .. U64Max
  BY CallRequest
<1>2. /\ s = Put(m.commitments, req.channel, t)
      /\ Commitments!StoreValid(s)
  <2>1. s = Put(m.commitments, req.channel, t)
    BY SameUpdates DEF UpdatedCommitments
  <2>2. WithUpdate(m, req, mode).commitments = s
    BY CallStores
  <2> QED
    BY <2>1, <2>2 DEF Moves
<1>3. /\ req.channel \in Channels /\ st = m.commitments[req.channel]
      /\ Updates!GoodState(st) /\ Updates!GoodStore(m.commitments)
      /\ DOMAIN m.commitments = Channels
      /\ st.total = LocalFunding[req.channel] + RemoteFunding[req.channel]
      /\ st.latest.local = st.local
  BY DEF Request, State, CommitmentsGood, Updates!GoodStore
<1>4. /\ st.number \in Nat /\ st.local \in Nat /\ st.total \in 0 .. U64Max
      /\ DOMAIN st.commitments = 1 .. st.number /\ U64Max \in Nat
  BY <1>3, UpdateConstants DEF Updates!GoodState, Updates!IsState, Updates!ChainShape
<1> DEFINE o == Updates!NextOutput(st, r.l2r, r.r2l, r.nonce)
<1>5. /\ t.total = st.total /\ t.number = o.number /\ t.local = o.local
      /\ t.remote = o.remote /\ t.latest = o
      /\ t.commitments = Updates!Put(st.commitments, o.number,
             [number |-> o.number, local |-> o.local, remote |-> o.remote,
              nonce |-> r.nonce, prior |-> st.latest])
  BY DEF Updates!Updated
<1>6. o.number = n /\ o.local = (st.local - amount) + 0
  BY <1>1 DEF Updates!NextOutput
<1>7. Updates!GoodState(t) /\ Updates!Extends(t, st)
  BY <1>1, <1>3, UpdateConstants, Updates!UpdatedIsGood
<1> HIDE DEF s, st, r, t, amount, n, o
<1>8. /\ t.number = n /\ n \in DOMAIN t.commitments
      /\ t.commitments[n].local = t.local /\ t.commitments[n].remote = t.remote
      /\ t.commitments[n].prior = st.latest
  BY <1>5, <1>6 DEF Updates!Put
<1>9. t.commitments[n].prior.local - t.local = amount
  BY <1>1, <1>3, <1>4, <1>5, <1>6, <1>8
<1>10. n \notin DOMAIN st.commitments
  BY <1>4 DEF n
<1>11. t.local + t.remote = t.total /\ t.total <= U64Max
  BY <1>4, <1>5, <1>7 DEF Updates!GoodState, Updates!Conserved
<1>12. s = Updates!Put(m.commitments, req.channel, t)
  BY <1>2 DEF Put, Updates!Put
<1>13. Updates!GoodStore(s)
  BY <1>3, <1>7, <1>12, UpdateConstants, Updates!PutIsGood
<1>14. Updates!StoreExtends(s, m.commitments)
  <2>1. Updates!StoreExtends(m.commitments, m.commitments)
    BY <1>3, UpdateConstants, Updates!StoreExtendsReflexive
  <2> QED
    BY <1>3, <1>7, <1>12, <2>1, UpdateConstants, Updates!PutContinues
<1>15. /\ DOMAIN s = Channels /\ s[req.channel] = t
       /\ \A c \in Channels : c # req.channel => s[c] = m.commitments[c]
  BY <1>2, <1>3 DEF Put
<1>16. CommitmentsGood(s)
  BY <1>2, <1>3, <1>5, <1>13, <1>15 DEF CommitmentsGood
<1> QED
  BY <1>8, <1>9, <1>10, <1>11, <1>14, <1>15, <1>16 DEF s, st, n, amount

------------------------------------------------------------------------------
(* Stores saved in order *)

(* Every HTLC's quote is used, and no two HTLCs share one.                 *)
HtlcsGood(htlcs, quotes) ==
  \A id \in DOMAIN htlcs :
    /\ Quotes!Kept(id.quote, quotes)
    /\ \A other \in DOMAIN htlcs : other.quote = id.quote => other = id

BackedBy(payments, commitments, htlcs, id) ==
  LET p == payments[id]
      moved == commitments[id.channel].commitments
  IN  /\ id.channel \in Channels
      /\ p.number \in DOMAIN moved
      /\ moved[p.number].local = p.local /\ moved[p.number].remote = p.remote
      /\ moved[p.number].prior.local - p.local = p.htlc.amount
      /\ p.htlc \in DOMAIN htlcs /\ htlcs[p.htlc] = "Settled"
      /\ \A other \in DOMAIN payments :
           other.channel = id.channel /\ payments[other].number = p.number => other = id

PaymentsGood(payments, commitments, htlcs) ==
  /\ PaymentsValid(payments)
  /\ \A id \in DOMAIN payments : BackedBy(payments, commitments, htlcs, id)

StoresGood(s) ==
  /\ HasStores(s)
  /\ QuotesGood(s.quotes)
  /\ CommitmentsGood(s.commitments)
  /\ HtlcsGood(s.htlcs, s.quotes)
  /\ PaymentsGood(s.payments, s.commitments, s.htlcs)

HtlcsContinue(old, new) ==
  \A id \in DOMAIN old : id \in DOMAIN new /\ (old[id] = "Settled" => new[id] = "Settled")

(* t records at least the uses, commitments and settled HTLCs of s.        *)
Continues(s, t) ==
  /\ Quotes!UsedContinues(s.quotes, t.quotes)
  /\ Updates!StoreExtends(t.commitments, s.commitments)
  /\ HtlcsContinue(s.htlcs, t.htlcs)

(* The files written in this round are memory's. *)
RoundInv ==
  /\ round \in 0 .. 3
  /\ round >= 1 => disk.quotes = mem.quotes
  /\ round >= 2 => disk.commitments = mem.commitments
  /\ round >= 3 => disk.htlcs = mem.htlcs

OrderedInv ==
  /\ TermsInv
  /\ ordered => RoundInv /\ StoresGood(mem) /\ StoresGood(disk) /\ Continues(disk, mem)

(* Newer quotes keep the HTLCs' uses.                                      *)
LEMMA HtlcsStayGood ==
  ASSUME NEW htlcs, NEW s, NEW t, HtlcsGood(htlcs, s), QuotesGood(t),
         Quotes!UsedContinues(s, t)
  PROVE  HtlcsGood(htlcs, t)
<1>1. ASSUME NEW id \in DOMAIN htlcs PROVE Quotes!Kept(id.quote, t)
  BY QuoteConstants, Quotes!KeptContinues DEF HtlcsGood, QuotesGood
<1> QED
  BY <1>1 DEF HtlcsGood

(* Newer commitments and HTLCs keep the payments backed.                   *)
LEMMA PaymentsStayGood ==
  ASSUME NEW payments, NEW s, NEW t, NEW old, NEW new,
         PaymentsGood(payments, s, old), DOMAIN s = Channels,
         Updates!StoreExtends(t, s), HtlcsContinue(old, new)
  PROVE  PaymentsGood(payments, t, new)
<1>1. ASSUME NEW id \in DOMAIN payments PROVE BackedBy(payments, t, new, id)
  <2> DEFINE p == payments[id]
  <2>1. /\ BackedBy(payments, s, old, id) /\ id.channel \in DOMAIN s
    BY DEF PaymentsGood, BackedBy
  <2>2. /\ p.number \in DOMAIN t[id.channel].commitments
        /\ t[id.channel].commitments[p.number] = s[id.channel].commitments[p.number]
    BY <2>1 DEF BackedBy, Updates!StoreExtends, Updates!Extends
  <2>3. p.htlc \in DOMAIN new /\ new[p.htlc] = "Settled"
    BY <2>1 DEF BackedBy, HtlcsContinue
  <2> QED
    BY <2>1, <2>2, <2>3 DEF BackedBy
<1> QED
  BY <1>1 DEF PaymentsGood

(* A store that continues memory continues what memory continues.          *)
LEMMA ContinuesTransitive ==
  ASSUME NEW s, NEW t, NEW u, Continues(s, t), Continues(t, u),
         CommitmentsGood(s.commitments), CommitmentsGood(t.commitments),
         CommitmentsGood(u.commitments)
  PROVE  Continues(s, u)
<1>1. Quotes!UsedContinues(s.quotes, u.quotes)
  BY DEF Continues, Quotes!UsedContinues
<1>2. HtlcsContinue(s.htlcs, u.htlcs)
  BY DEF Continues, HtlcsContinue
<1>3. ASSUME NEW c \in DOMAIN s.commitments
      PROVE  c \in DOMAIN u.commitments /\ Updates!Extends(u.commitments[c], s.commitments[c])
  <2> DEFINE x == s.commitments[c]
             y == t.commitments[c]
             z == u.commitments[c]
  <2>1. /\ c \in DOMAIN u.commitments
        /\ Updates!GoodState(x) /\ Updates!GoodState(y) /\ Updates!GoodState(z)
        /\ Updates!Extends(y, x) /\ Updates!Extends(z, y)
    BY DEF Continues, Updates!StoreExtends, CommitmentsGood, Updates!GoodStore
  <2> HIDE DEF x, y, z
  <2>2. Updates!Extends(z, x)
    BY <2>1, UpdateConstants, Updates!ExtendsTransitive
  <2> QED
    BY <2>1, <2>2 DEF x, z
<1> QED
  BY <1>1, <1>2, <1>3 DEF Continues, Updates!StoreExtends

(* Good stores continue themselves.                                        *)
LEMMA ContinuesReflexive ==
  ASSUME NEW s, CommitmentsGood(s.commitments)
  PROVE  Continues(s, s)
<1>1. Updates!StoreExtends(s.commitments, s.commitments)
  BY UpdateConstants, Updates!StoreExtendsReflexive DEF CommitmentsGood
<1> QED
  BY <1>1 DEF Continues, Quotes!UsedContinues, HtlcsContinue

(* The quote a call gets has no HTLC and no payment yet: its replay domain *)
(* is unused, and theirs are used.                                         *)
LEMMA QuoteIsFresh ==
  ASSUME NEW m, StoresGood(m), PaymentTerms(m.payments), NEW req \in Request,
         QuoteGranted(m, req)
  PROVE  /\ \A id \in DOMAIN m.htlcs : id.quote # QuoteFor(m, req)
         /\ \A id \in DOMAIN m.payments : id.quote # QuoteFor(m, req)
<1>1. QuoteFor(m, req).domain \notin DOMAIN m.quotes.used
  BY CallQuotes DEF StoresGood
<1>2. \A id \in DOMAIN m.htlcs : id.quote # QuoteFor(m, req)
  BY <1>1 DEF StoresGood, HtlcsGood, Quotes!Kept
<1>3. \A id \in DOMAIN m.payments : m.payments[id].htlc \in DOMAIN m.htlcs
  BY DEF StoresGood, PaymentsGood, BackedBy
<1> QED
  BY <1>2, <1>3 DEF PaymentTerms

(* add_htlc of a validated call: the fresh quote is used once.             *)
LEMMA AddedHtlcs ==
  ASSUME NEW m, StoresGood(m), PaymentTerms(m.payments), NEW req \in Request,
         QuoteGranted(m, req), NEW mode, Validated(m, req, mode), NEW status
  PROVE  LET id == HtlcId(m, req, mode)
         IN  /\ id \notin DOMAIN m.htlcs
             /\ HtlcsGood(Put(m.htlcs, id, status), AuthorizedQuotes(m, req))
             /\ HtlcsContinue(m.htlcs, Put(m.htlcs, id, status))
<1> DEFINE id == HtlcId(m, req, mode)
           quotes == AuthorizedQuotes(m, req)
<1>1. id.quote = QuoteFor(m, req)
  BY ValidatedTerms
<1>2. /\ Quotes!Kept(id.quote, quotes) /\ QuotesGood(quotes)
      /\ Quotes!UsedContinues(m.quotes, quotes)
  BY <1>1, CallQuotes DEF StoresGood
<1>3. \A other \in DOMAIN m.htlcs : other.quote # id.quote
  BY <1>1, QuoteIsFresh
<1> HIDE DEF id, quotes
<1>4. HtlcsGood(m.htlcs, quotes)
  BY <1>2, HtlcsStayGood DEF StoresGood
<1>5. id \notin DOMAIN m.htlcs
  BY <1>3
<1>6. HtlcsGood(Put(m.htlcs, id, status), quotes)
  BY <1>2, <1>3, <1>4 DEF HtlcsGood, Put
<1>7. HtlcsContinue(m.htlcs, Put(m.htlcs, id, status))
  BY <1>5 DEF HtlcsContinue, Put
<1> QED
  BY <1>5, <1>6, <1>7 DEF id, quotes

(* record_payment of a call that moved the balance cannot fail, and the    *)
(* payment it records is backed.                                           *)
LEMMA RecordedPayments ==
  ASSUME NEW m, StoresGood(m), PaymentTerms(m.payments), NEW req \in Request,
         QuoteGranted(m, req), NEW mode, Validated(m, req, mode), Moves(m, req, mode)
  PROVE  LET payments == Put(m.payments, PaymentId(m, req), Payment(m, req, mode))
         IN  /\ PaymentId(m, req) \notin DOMAIN m.payments
             /\ PaymentsValid(payments)
             /\ PaymentsGood(payments, UpdatedCommitments(m, req, mode),
                             Put(m.htlcs, HtlcId(m, req, mode), "Settled"))
<1> DEFINE id == PaymentId(m, req)
           p == Payment(m, req, mode)
           htlcs == Put(m.htlcs, HtlcId(m, req, mode), "Settled")
           s == UpdatedCommitments(m, req, mode)
           st == State(m, req)
           t == s[req.channel]
           n == st.number + 1
           amount == QuoteFor(m, req).deal.amount
<1>1. /\ id.channel = req.channel /\ id.quote = QuoteFor(m, req)
      /\ req.channel \in Channels
  BY DEF PaymentId, Request
<1>2. /\ HtlcId(m, req, mode).amount = amount /\ amount \in 1 .. U64Max
  BY ValidatedTerms, PaymentAssumption
<1>3. /\ CommitmentsGood(s) /\ Updates!StoreExtends(s, m.commitments)
      /\ n \notin DOMAIN st.commitments
      /\ t.number = n /\ n \in DOMAIN t.commitments
      /\ t.commitments[n].local = t.local /\ t.commitments[n].remote = t.remote
      /\ t.commitments[n].prior.local - t.local = amount
      /\ t.local + t.remote = t.total /\ t.total <= U64Max
  BY CallCommitments DEF StoresGood
<1>4. /\ p.htlc = HtlcId(m, req, mode) /\ p.number = t.number
      /\ p.local = t.local /\ p.remote = t.remote /\ p.total = t.total
  <2>1. State(WithUpdate(m, req, mode), req) = t
    BY CallStores DEF State, StoresGood
  <2> QED
    BY <2>1 DEF Payment
<1>5. \A other \in DOMAIN m.payments : other # id
  BY <1>1, QuoteIsFresh
<1>6. HtlcsContinue(m.htlcs, htlcs)
  BY AddedHtlcs
<1>7. PaymentsGood(m.payments, s, htlcs)
  BY <1>3, <1>6, PaymentsStayGood DEF StoresGood, CommitmentsGood
<1>8. htlcs[p.htlc] = "Settled" /\ p.htlc \in DOMAIN htlcs
  BY <1>4 DEF Put
<1>9. \A other \in DOMAIN m.payments :
        other.channel = req.channel => m.payments[other].number # n
  BY <1>3 DEF StoresGood, PaymentsGood, BackedBy, State
<1> HIDE DEF id, p, htlcs, s, st, t, n, amount
<1> DEFINE payments == Put(m.payments, id, p)
<1>10. /\ DOMAIN payments = DOMAIN m.payments \cup {id} /\ payments[id] = p
       /\ \A other \in DOMAIN m.payments : payments[other] = m.payments[other]
  BY <1>5 DEF Put
<1> HIDE DEF payments
<1>11. PaymentsValid(payments)
  <2>1. /\ p.htlc.amount # 0 /\ p.local + p.remote <= U64Max /\ p.local + p.remote = p.total
    BY <1>2, <1>3, <1>4
  <2>2. PaymentsValid(m.payments)
    BY DEF StoresGood, PaymentsGood
  <2> QED
    BY <1>10, <2>1, <2>2 DEF PaymentsValid
<1>12. BackedBy(payments, s, htlcs, id)
  <2>1. s[id.channel] = t
    BY <1>1 DEF t
  <2>2. \A other \in DOMAIN payments :
          other.channel = id.channel /\ payments[other].number = p.number => other = id
    BY <1>1, <1>3, <1>4, <1>9, <1>10
  <2>3. t.commitments[p.number].prior.local - p.local = p.htlc.amount
    BY <1>2, <1>3, <1>4
  <2> QED
    BY <1>1, <1>3, <1>4, <1>8, <1>10, <2>1, <2>2, <2>3 DEF BackedBy
<1>13. ASSUME NEW other \in DOMAIN m.payments PROVE BackedBy(payments, s, htlcs, other)
  <2>1. BackedBy(m.payments, s, htlcs, other)
    BY <1>7 DEF PaymentsGood
  <2>2. \A x \in DOMAIN payments :
          x.channel = other.channel /\ payments[x].number = payments[other].number => x = other
    BY <1>1, <1>3, <1>4, <1>9, <1>10, <2>1 DEF BackedBy
  <2> QED
    BY <1>10, <2>1, <2>2 DEF BackedBy
<1>14. PaymentsGood(payments, s, htlcs)
  BY <1>10, <1>11, <1>12, <1>13 DEF PaymentsGood
<1> QED
  BY <1>5, <1>11, <1>14 DEF payments, id, p, s, htlcs

(* Over good stores a call that moved the balance adds its HTLC and        *)
(* records its payment: neither is there before.                           *)
LEMMA NeverDuplicate ==
  ASSUME NEW m, StoresGood(m), PaymentTerms(m.payments), NEW req \in Request,
         QuoteGranted(m, req), NEW mode, Validated(m, req, mode), Moves(m, req, mode)
  PROVE  HtlcId(m, req, mode) \notin DOMAIN m.htlcs /\ Recordable(m, req, mode)
<1>1. WithPayment(m, m, req, mode).payments
        = Put(m.payments, PaymentId(m, req), Payment(m, req, mode))
  BY DEF WithPayment, StoresGood, HasStores
<1> QED
  BY <1>1, AddedHtlcs, RecordedPayments DEF Recordable

(* Every end of a call over good stores leaves good stores that continue   *)
(* those it found.                                                         *)
LEMMA CallKeepsStores ==
  ASSUME NEW m, StoresGood(m), PaymentTerms(m.payments), NEW req \in Request,
         QuoteGranted(m, req)
  PROVE  /\ StoresGood(WithQuote(m, req)) /\ Continues(m, WithQuote(m, req))
         /\ StoresGood(WithAuthorization(m, req)) /\ Continues(m, WithAuthorization(m, req))
<1>1. /\ QuotesGood(TakenQuotes(m, req)) /\ Quotes!UsedContinues(m.quotes, TakenQuotes(m, req))
      /\ QuotesGood(AuthorizedQuotes(m, req))
      /\ Quotes!UsedContinues(m.quotes, AuthorizedQuotes(m, req))
  BY CallQuotes DEF StoresGood
<1>2. /\ HtlcsGood(m.htlcs, TakenQuotes(m, req)) /\ HtlcsGood(m.htlcs, AuthorizedQuotes(m, req))
  BY <1>1, HtlcsStayGood DEF StoresGood
<1>3. Updates!StoreExtends(m.commitments, m.commitments) /\ HtlcsContinue(m.htlcs, m.htlcs)
  BY ContinuesReflexive DEF StoresGood, Continues
<1>4. /\ WithQuote(m, req) =
           [quotes |-> TakenQuotes(m, req), commitments |-> m.commitments,
            htlcs |-> m.htlcs, payments |-> m.payments]
      /\ WithAuthorization(m, req) =
           [quotes |-> AuthorizedQuotes(m, req), commitments |-> m.commitments,
            htlcs |-> m.htlcs, payments |-> m.payments]
  BY CallStores DEF StoresGood
<1>5. StoresGood(WithQuote(m, req)) /\ Continues(m, WithQuote(m, req))
  BY <1>1, <1>2, <1>3, <1>4 DEF StoresGood, HasStores, Continues
<1>6. StoresGood(WithAuthorization(m, req)) /\ Continues(m, WithAuthorization(m, req))
  BY <1>1, <1>2, <1>3, <1>4 DEF StoresGood, HasStores, Continues
<1> QED
  BY <1>5, <1>6

(* The same for the HTLC store on its own: an authorized HTLC is offered.  *)
LEMMA AddKeepsStores ==
  ASSUME NEW m, StoresGood(m), PaymentTerms(m.payments), NEW req \in Request,
         QuoteGranted(m, req), Validated(m, req, "None")
  PROVE  LET new == WithHtlc(WithAuthorization(m, req), m, req, "None", "Offered")
         IN  StoresGood(new) /\ Continues(m, new)
<1> DEFINE new == WithHtlc(WithAuthorization(m, req), m, req, "None", "Offered")
           htlcs == Put(m.htlcs, HtlcId(m, req, "None"), "Offered")
<1>1. new = [quotes |-> AuthorizedQuotes(m, req), commitments |-> m.commitments,
             htlcs |-> htlcs, payments |-> m.payments]
  BY CallStores DEF StoresGood
<1>2. /\ QuotesGood(AuthorizedQuotes(m, req))
      /\ Quotes!UsedContinues(m.quotes, AuthorizedQuotes(m, req))
  BY CallQuotes DEF StoresGood
<1>3. HtlcsGood(htlcs, AuthorizedQuotes(m, req)) /\ HtlcsContinue(m.htlcs, htlcs)
  BY AddedHtlcs
<1>4. Updates!StoreExtends(m.commitments, m.commitments)
  BY ContinuesReflexive DEF StoresGood, Continues
<1> HIDE DEF new, htlcs
<1>5. PaymentsGood(m.payments, m.commitments, htlcs)
  BY <1>3, <1>4, PaymentsStayGood DEF StoresGood, CommitmentsGood
<1>6. StoresGood(new) /\ Continues(m, new)
  BY <1>1, <1>2, <1>3, <1>4, <1>5 DEF StoresGood, HasStores, Continues
<1> QED
  BY <1>6 DEF new

(* The same for a payment that goes through.                               *)
LEMMA SettleKeepsStores ==
  ASSUME NEW m, StoresGood(m), PaymentTerms(m.payments), NEW req \in Request,
         QuoteGranted(m, req), NEW mode, Validated(m, req, mode), Moves(m, req, mode)
  PROVE  LET new == WithPayment(WithHtlc(WithUpdate(m, req, mode), m, req, mode, "Settled"),
                                m, req, mode)
         IN  StoresGood(new) /\ Continues(m, new)
<1> DEFINE new == WithPayment(WithHtlc(WithUpdate(m, req, mode), m, req, mode, "Settled"),
                              m, req, mode)
           htlcs == Put(m.htlcs, HtlcId(m, req, mode), "Settled")
           payments == Put(m.payments, PaymentId(m, req), Payment(m, req, mode))
           s == UpdatedCommitments(m, req, mode)
<1>1. new = [quotes |-> AuthorizedQuotes(m, req), commitments |-> s,
             htlcs |-> htlcs, payments |-> payments]
  BY CallStores DEF StoresGood
<1>2. /\ QuotesGood(AuthorizedQuotes(m, req))
      /\ Quotes!UsedContinues(m.quotes, AuthorizedQuotes(m, req))
  BY CallQuotes DEF StoresGood
<1>3. HtlcsGood(htlcs, AuthorizedQuotes(m, req)) /\ HtlcsContinue(m.htlcs, htlcs)
  BY AddedHtlcs
<1>4. CommitmentsGood(s) /\ Updates!StoreExtends(s, m.commitments)
  BY CallCommitments DEF StoresGood
<1>5. PaymentsGood(payments, s, htlcs)
  BY RecordedPayments
<1> HIDE DEF new, htlcs, payments, s
<1>6. StoresGood(new) /\ Continues(m, new)
  BY <1>1, <1>2, <1>3, <1>4, <1>5 DEF StoresGood, HasStores, Continues
<1> QED
  BY <1>6 DEF new

(* An offered HTLC backs no payment, so resolving it unsettles none.       *)
LEMMA ResolveKeepsStores ==
  ASSUME NEW m, StoresGood(m), NEW id \in DOMAIN m.htlcs, NEW status, m.htlcs[id] = "Offered"
  PROVE  LET new == [m EXCEPT !.htlcs[id] = status]
         IN  StoresGood(new) /\ Continues(m, new)
<1> DEFINE htlcs == [m.htlcs EXCEPT ![id] = status]
           new == [m EXCEPT !.htlcs[id] = status]
<1>1. new = [quotes |-> m.quotes, commitments |-> m.commitments,
             htlcs |-> htlcs, payments |-> m.payments]
  BY DEF StoresGood, HasStores
<1>2. /\ DOMAIN htlcs = DOMAIN m.htlcs
      /\ \A other \in DOMAIN htlcs : other # id => htlcs[other] = m.htlcs[other]
  OBVIOUS
<1> HIDE DEF new, htlcs
<1>3. HtlcsContinue(m.htlcs, htlcs)
  BY <1>2 DEF HtlcsContinue
<1>4. HtlcsGood(htlcs, m.quotes)
  BY <1>2 DEF StoresGood, HtlcsGood
<1>5. Continues(m, m)
  BY ContinuesReflexive DEF StoresGood
<1>6. PaymentsGood(m.payments, m.commitments, htlcs)
  BY <1>3, <1>5, PaymentsStayGood DEF StoresGood, CommitmentsGood, Continues
<1>7. StoresGood(new) /\ Continues(m, new)
  BY <1>1, <1>3, <1>4, <1>5, <1>6 DEF StoresGood, HasStores, Continues
<1> QED
  BY <1>7 DEF new

(* Each save of a round leaves files that are good together: the file it   *)
(* writes rests only on those the round wrote before.                      *)
LEMMA SaveKeepsFiles ==
  ASSUME TermsInv, ordered, RoundInv, StoresGood(mem), StoresGood(disk),
         Continues(disk, mem), NEW i \in DOMAIN SaveSequence, SaveStore(i)
  PROVE  StoresGood(disk') /\ Continues(disk', mem) /\ RoundInv'
<1>1. /\ UNCHANGED <<mem, ordered, calls, result>>
      /\ i = round + 1 /\ round' = i % 4
      /\ \/ i = 1 /\ disk' = [quotes |-> mem.quotes, commitments |-> disk.commitments,
                              htlcs |-> disk.htlcs, payments |-> disk.payments]
         \/ i = 2 /\ disk' = [quotes |-> disk.quotes, commitments |-> mem.commitments,
                              htlcs |-> disk.htlcs, payments |-> disk.payments]
         \/ i = 3 /\ disk' = [quotes |-> disk.quotes, commitments |-> disk.commitments,
                              htlcs |-> mem.htlcs, payments |-> disk.payments]
         \/ i = 4 /\ disk' = [quotes |-> disk.quotes, commitments |-> disk.commitments,
                              htlcs |-> disk.htlcs, payments |-> mem.payments]
  BY SaveChanges DEF StoresGood
<1>2. Continues(mem, mem)
  BY ContinuesReflexive DEF StoresGood
<1>3. CASE i = 1
  <2>1. disk' = [quotes |-> mem.quotes, commitments |-> disk.commitments,
                 htlcs |-> disk.htlcs, payments |-> disk.payments] /\ round' = 1
    BY <1>1, <1>3
  <2>2. HtlcsGood(disk.htlcs, mem.quotes)
    BY HtlcsStayGood DEF StoresGood, Continues
  <2> QED
    BY <1>1, <1>2, <2>1, <2>2 DEF StoresGood, HasStores, Continues, RoundInv
<1>4. CASE i = 2
  <2>1. /\ disk' = [quotes |-> disk.quotes, commitments |-> mem.commitments,
                    htlcs |-> disk.htlcs, payments |-> disk.payments]
        /\ round' = 2 /\ disk.quotes = mem.quotes
    BY <1>1, <1>4 DEF RoundInv
  <2>2. HtlcsContinue(disk.htlcs, disk.htlcs)
    BY DEF HtlcsContinue
  <2>3. PaymentsGood(disk.payments, mem.commitments, disk.htlcs)
    BY <2>2, PaymentsStayGood DEF StoresGood, CommitmentsGood, Continues
  <2> QED
    BY <1>1, <1>2, <2>1, <2>3 DEF StoresGood, HasStores, Continues, RoundInv
<1>5. CASE i = 3
  <2>1. /\ disk' = [quotes |-> disk.quotes, commitments |-> disk.commitments,
                    htlcs |-> mem.htlcs, payments |-> disk.payments]
        /\ round' = 3 /\ disk.quotes = mem.quotes /\ disk.commitments = mem.commitments
    BY <1>1, <1>5 DEF RoundInv
  <2>2. PaymentsGood(disk.payments, mem.commitments, mem.htlcs)
    BY PaymentsStayGood DEF StoresGood, CommitmentsGood, Continues
  <2> QED
    BY <1>1, <1>2, <2>1, <2>2 DEF StoresGood, HasStores, Continues, RoundInv
<1>6. CASE i = 4
  <2>1. /\ disk' = [quotes |-> disk.quotes, commitments |-> disk.commitments,
                    htlcs |-> disk.htlcs, payments |-> mem.payments]
        /\ round' = 0 /\ disk.quotes = mem.quotes /\ disk.commitments = mem.commitments
        /\ disk.htlcs = mem.htlcs
    BY <1>1, <1>6 DEF RoundInv
  <2> QED
    BY <1>1, <1>2, <2>1 DEF StoresGood, HasStores, Continues, RoundInv
<1> QED
  BY <1>1, <1>3, <1>4, <1>5, <1>6

(* A store of funded channels that nothing has changed is valid.           *)
LEMMA FundedIsValid ==
  ASSUME NEW c \in Channels
  PROVE  Commitments!Valid(c, Commitments!FundedState(c))
<1> DEFINE st == Commitments!FundedState(c)
<1>1. /\ st.commitments = Commitments!EmptyMap /\ st.revoked = Commitments!EmptyMap
      /\ st.nonces = Commitments!EmptyMap
      /\ st.monitor = Commitments!FundingOutput(c) /\ st.latest = Commitments!FundingOutput(c)
      /\ st.number = 0 /\ st.local = LocalFunding[c] /\ st.remote = RemoteFunding[c]
      /\ st.total = LocalFunding[c] + RemoteFunding[c]
  BY DEF Commitments!FundedState
<1> HIDE DEF st
<1>2. \A n : Commitments!OutputBefore(c, st, n) = Commitments!FundingOutput(c)
  BY <1>1 DEF Commitments!OutputBefore, Commitments!EmptyMap
<1>3. Commitments!HistoryExplains(c, st)
  BY <1>1, <1>2 DEF Commitments!HistoryExplains, Commitments!EmptyMap
<1> QED
  BY <1>1, <1>3 DEF Commitments!Valid, Commitments!Conserved, Commitments!FundingOutput,
                    Commitments!EmptyMap, st

(* The stores a process starts with are good.                              *)
LEMMA InitStores == Init => StoresGood(mem) /\ disk = mem
<1> SUFFICES ASSUME Init PROVE StoresGood(mem)
  BY DEF Init
<1> DEFINE funded == [c \in Channels |-> Commitments!FundedState(c)]
<1>1. /\ mem = [quotes |-> Rfq!EmptyStore, commitments |-> funded,
                htlcs |-> EmptyMap, payments |-> EmptyMap]
  BY DEF Init
<1>2. QuotesGood(Rfq!EmptyStore)
  <2>1. Rfq!EmptyStore = Quotes!EmptyStore /\ Rfq!EmptyStore.real = {}
    BY DEF Rfq!EmptyStore, Quotes!EmptyStore
  <2>2. Quotes!GoodStore(Quotes!EmptyStore)
    BY QuoteConstants, Quotes!EmptyIsGood
  <2> QED
    BY <2>1, <2>2 DEF QuotesGood
<1>3. CommitmentsGood(funded)
  <2>1. ASSUME NEW c \in Channels
        PROVE  /\ Updates!GoodState(funded[c]) /\ Updates!IsState(funded[c])
               /\ Commitments!Valid(c, funded[c])
               /\ funded[c].total = LocalFunding[c] + RemoteFunding[c]
               /\ funded[c].latest.local = funded[c].local
    <3>1. funded[c] = Updates!FundedState(c) /\ funded[c] = Commitments!FundedState(c)
      BY SameUpdates
    <3>2. Updates!GoodState(Updates!FundedState(c))
      BY UpdateConstants, Updates!FundedIsGood
    <3>3. /\ Updates!FundedState(c).total = LocalFunding[c] + RemoteFunding[c]
          /\ Updates!FundedState(c).latest.local = Updates!FundedState(c).local
      BY DEF Updates!FundedState, Updates!FundingOutput
    <3> HIDE DEF funded
    <3> QED
      BY <3>1, <3>2, <3>3, FundedIsValid DEF Updates!GoodState
  <2>2. DOMAIN funded = Channels
    OBVIOUS
  <2> HIDE DEF funded
  <2>3. Updates!IsMap(funded, Channels, {funded[c] : c \in DOMAIN funded})
    <3>1. funded \in [DOMAIN funded -> {funded[c] : c \in DOMAIN funded}]
      <4>1. funded = [c \in DOMAIN funded |-> funded[c]]
        BY <2>2 DEF funded
      <4> QED
        BY <4>1
    <3> QED
      BY <2>2, <3>1 DEF Updates!IsMap
  <2> QED
    BY <2>1, <2>2, <2>3 DEF CommitmentsGood, Updates!GoodStore, Updates!IsStore,
                            Commitments!StoreValid
<1>4. HtlcsGood(EmptyMap, Rfq!EmptyStore) /\ PaymentsGood(EmptyMap, funded, EmptyMap)
  BY DEF EmptyMap, HtlcsGood, PaymentsGood, PaymentsValid
<1> HIDE DEF funded
<1> QED
  BY <1>1, <1>2, <1>3, <1>4 DEF StoresGood, HasStores

(* A call changes memory between rounds only.                              *)
LEMMA CallStep ==
  ASSUME OrderedInv, TermsInv', ordered, round = 0, UNCHANGED <<disk, ordered, round>>,
         StoresGood(mem'), Continues(mem, mem')
  PROVE  OrderedInv'
<1>1. Continues(disk, mem')
  BY ContinuesTransitive DEF OrderedInv, StoresGood
<1>2. RoundInv'
  BY DEF RoundInv
<1> QED
  BY <1>1, <1>2 DEF OrderedInv

(* No call, save or restart of a caller that saves in order breaks the     *)
(* invariant.                                                              *)
LEMMA NextOrdered == OrderedInv /\ [Next]_vars => OrderedInv'
<1> SUFFICES ASSUME OrderedInv, [Next]_vars PROVE OrderedInv'
  OBVIOUS
<1>a. TermsInv' /\ ordered' = ordered
  BY NextTerms DEF OrderedInv, Next, vars, SendUnpaid, SendRejected, SendUnmoved,
     SendDuplicateHtlc, SendDuplicatePayment, SendSettled, AddHtlc, Return, ResolveHtlc,
     SaveStore, Restart
<1>b. CASE ~ordered
  BY <1>a, <1>b DEF OrderedInv
<1>c. CASE ordered
  <2>a. /\ ordered /\ RoundInv /\ StoresGood(mem) /\ StoresGood(disk) /\ Continues(disk, mem)
        /\ PaymentTerms(mem.payments)
    BY <1>c DEF OrderedInv, TermsInv
  <2>1. ASSUME NEW req \in Request, NEW mode \in Modes,
               SendUnpaid(req, mode) \/ SendRejected(req, mode) \/ SendUnmoved(req, mode)
        PROVE  OrderedInv'
    <3>1. /\ QuoteGranted(mem, req) /\ round = 0 /\ UNCHANGED <<disk, ordered, round>>
          /\ mem' \in {WithQuote(mem, req), WithAuthorization(mem, req)}
      BY <2>1 DEF SendUnpaid, SendRejected, SendUnmoved, Return, Call
    <3>2. StoresGood(mem') /\ Continues(mem, mem')
      BY <2>a, <3>1, CallKeepsStores
    <3> QED
      BY <1>a, <2>a, <3>1, <3>2, CallStep
  <2>2. ASSUME NEW req \in Request, NEW mode \in Modes,
               SendDuplicateHtlc(req, mode) \/ SendDuplicatePayment(req, mode)
        PROVE  OrderedInv'
    BY <2>a, <2>2, NeverDuplicate DEF SendDuplicateHtlc, SendDuplicatePayment, Call
  <2>3. ASSUME NEW req \in Request, NEW mode \in Modes, SendSettled(req, mode)
        PROVE  OrderedInv'
    <3>1. /\ QuoteGranted(mem, req) /\ round = 0 /\ UNCHANGED <<disk, ordered, round>>
          /\ Validated(mem, req, mode) /\ Moves(mem, req, mode)
          /\ mem' = WithPayment(WithHtlc(WithUpdate(mem, req, mode), mem, req, mode,
                                         "Settled"), mem, req, mode)
      BY <2>3 DEF SendSettled, Return, Call
    <3>2. StoresGood(mem') /\ Continues(mem, mem')
      BY <2>a, <3>1, SettleKeepsStores
    <3> QED
      BY <1>a, <2>a, <3>1, <3>2, CallStep
  <2>4. ASSUME NEW req \in Request, AddHtlc(req) PROVE OrderedInv'
    <3>1. /\ QuoteGranted(mem, req) /\ round = 0 /\ UNCHANGED <<disk, ordered, round>>
          /\ Validated(mem, req, "None")
          /\ mem' = WithHtlc(WithAuthorization(mem, req), mem, req, "None", "Offered")
      BY <2>4 DEF AddHtlc, Return, Call
    <3>2. StoresGood(mem') /\ Continues(mem, mem')
      BY <2>a, <3>1, AddKeepsStores
    <3> QED
      BY <1>a, <2>a, <3>1, <3>2, CallStep
  <2>5. ASSUME NEW id \in DOMAIN mem.htlcs, NEW status, ResolveHtlc(id, status)
        PROVE  OrderedInv'
    <3>1. /\ round = 0 /\ UNCHANGED <<disk, ordered, round>> /\ mem.htlcs[id] = "Offered"
          /\ mem' = [mem EXCEPT !.htlcs[id] = status]
      BY <2>5 DEF ResolveHtlc
    <3>2. StoresGood(mem') /\ Continues(mem, mem')
      BY <2>a, <3>1, ResolveKeepsStores
    <3> QED
      BY <1>a, <2>a, <3>1, <3>2, CallStep
  <2>6. ASSUME NEW i \in DOMAIN SaveSequence, SaveStore(i) PROVE OrderedInv'
    <3>1. StoresGood(disk') /\ Continues(disk', mem) /\ RoundInv'
      BY <2>a, <2>6, SaveKeepsFiles DEF OrderedInv
    <3>2. mem' = mem
      BY <2>6 DEF SaveStore
    <3> QED
      BY <1>a, <2>a, <3>1, <3>2 DEF OrderedInv
  <2>7. CASE Restart
    <3>1. mem' = disk /\ disk' = disk /\ round' = 0
      BY <2>7 DEF Restart
    <3>2. Continues(disk, disk)
      BY <2>a, ContinuesReflexive DEF StoresGood
    <3> QED
      BY <1>a, <2>a, <3>1, <3>2 DEF OrderedInv, RoundInv
  <2>8. CASE UNCHANGED vars
    BY <1>a, <2>a, <2>8 DEF vars, OrderedInv, RoundInv
  <2> QED
    BY <2>1, <2>2, <2>3, <2>4, <2>5, <2>6, <2>7, <2>8 DEF Next
<1> QED
  BY <1>b, <1>c

(* Every reachable state of a caller that saves in order satisfies it.     *)
LEMMA OrderedInvariance == Spec => []OrderedInv
<1>1. Init => OrderedInv
  <2> SUFFICES ASSUME Init PROVE OrderedInv
    OBVIOUS
  <2>1. TermsInv
    BY DEF Init, TermsInv, HasStores, HtlcTerms, PaymentTerms, EmptyMap
  <2>2. StoresGood(mem) /\ disk = mem /\ round = 0
    BY InitStores DEF Init
  <2>3. Continues(mem, mem)
    BY <2>2, ContinuesReflexive DEF StoresGood
  <2> QED
    BY <2>1, <2>2, <2>3 DEF OrderedInv, RoundInv
<1> QED
  BY <1>1, NextOrdered, PTL DEF Spec

(* A quote authorizes one HTLC over every restart of a caller that saves   *)
(* in order: HTLCs have different quotes, and each is used.                *)
THEOREM HtlcsUseTheirQuotes == Spec => []OneHtlcPerQuote
<1>1. OrderedInv => OneHtlcPerQuote
  BY DEF OrderedInv, StoresGood, HtlcsGood, Quotes!Kept, OneHtlcPerQuote
<1> QED
  BY <1>1, OrderedInvariance, PTL

(* A payment shown as settled is backed by its own commitment number and   *)
(* its settled HTLC, in memory and in every state a crash leaves on disk,  *)
(* and no call leaves a store that its own save_atomic refuses.            *)
THEOREM PaymentsStayBacked == Spec => []PaymentsBacked
<1>1. ASSUME NEW s, TermsInv, s \in {mem, disk}, StoresGood(s)
      PROVE  /\ \A id \in DOMAIN s.payments : Backed(s, id)
             /\ Rfq!Valid(s.quotes) /\ Commitments!StoreValid(s.commitments)
             /\ HtlcsValid(s.htlcs) /\ PaymentsValid(s.payments)
  <2>1. \A id \in DOMAIN s.payments : Backed(s, id)
    BY <1>1 DEF StoresGood, PaymentsGood, BackedBy, Backed
  <2>2. Rfq!Valid(s.quotes)
    <3>1. Quotes!AliasesAreNotReal(s.quotes)
      BY <1>1 DEF StoresGood, QuotesGood, Quotes!AliasesAreNotReal
    <3> QED
      BY <1>1, <3>1, SameQuotes DEF StoresGood, QuotesGood, Quotes!GoodStore, Quotes!Valid
  <2>3. HtlcsValid(s.htlcs)
    BY <1>1, PaymentAssumption, FundedAssumption DEF TermsInv, HtlcTerms, HtlcsValid
  <2> QED
    BY <1>1, <2>1, <2>2, <2>3 DEF StoresGood, CommitmentsGood, PaymentsGood
<1>2. OrderedInv => PaymentsBacked
  BY <1>1 DEF OrderedInv, PaymentsBacked
<1> QED
  BY <1>2, OrderedInvariance, PTL

(* Over stores saved in order, a call that fails leaves the balances, the  *)
(* HTLCs and the payments as they were: it never gets as far as a          *)
(* duplicate HTLC or payment.                                              *)
THEOREM FailureLeavesState == Spec => FailedCallLeavesState
<1>1. OrderedInv /\ [Next]_vars => [ordered /\ FailedCall => StateKept]_vars
  <2> SUFFICES ASSUME OrderedInv, Next, ordered, calls' # calls, result' = "Failed"
               PROVE  StateKept
    BY DEF FailedCall, vars
  <2>a. StoresGood(mem) /\ PaymentTerms(mem.payments)
    BY DEF OrderedInv, TermsInv
  <2>1. ASSUME NEW req \in Request, NEW mode \in Modes,
               SendUnpaid(req, mode) \/ SendRejected(req, mode) \/ SendUnmoved(req, mode)
        PROVE  StateKept
    <3>1. mem' \in {WithQuote(mem, req), WithAuthorization(mem, req)}
      BY <2>1 DEF SendUnpaid, SendRejected, SendUnmoved, Return
    <3> QED
      BY <2>a, <3>1, CallStores DEF StoresGood, StateKept
  <2>2. ASSUME NEW req \in Request, NEW mode \in Modes,
               SendDuplicateHtlc(req, mode) \/ SendDuplicatePayment(req, mode)
        PROVE  StateKept
    BY <2>a, <2>2, NeverDuplicate DEF SendDuplicateHtlc, SendDuplicatePayment, Call
  <2> QED
    BY <2>1, <2>2 DEF Next, SendSettled, AddHtlc, Return, ResolveHtlc, SaveStore, Restart
<1> QED
  BY <1>1, OrderedInvariance, PTL DEF Spec, FailedCallLeavesState

==============================================================================
