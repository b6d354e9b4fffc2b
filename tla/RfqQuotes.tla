------------------------------ MODULE RfqQuotes ------------------------------
(***************************************************************************)
(* The operations of RfqQuoteStore (src/crates/tap-ldk-core/src/           *)
(* rfq_quote_store.rs) as operators on a store value.  Every operation     *)
(* first makes its early-return checks (the ...Allowed operators), then    *)
(* changes the store in place (the operators named for the result) and     *)
(* returns Err after the change when the changed store is not Valid.       *)
(*                                                                         *)
(* A quote id is the hash of everything the quote binds: the deal (peer,   *)
(* asset, amounts, invoice context), expiry, replay domain and SCID alias. *)
(* The timestamps a quote records follow from its status and are left out. *)
(***************************************************************************)
EXTENDS Integers, FiniteSets

CONSTANTS
  Deals,      \* well-formed, priceable requests: peer, asset, amount, context
  Domains,    \* replay domains
  Times,      \* unix seconds a caller may pass
  Expiries,   \* unix seconds a quote may expire after
  Scids,      \* short channel ids, real ones and aliases
  SeedOf,     \* [Deals \X Expiries \X Domains -> Scids]: derive_quote_seed
  MaxProbes   \* aliases tried from the seed on (10_000 in the code)

ASSUME QuoteAssumption ==
  /\ Times \subseteq Nat /\ Expiries \subseteq Nat
  /\ Scids \subseteq Nat
  /\ MaxProbes \in Nat
  /\ SeedOf \in [Deals \X Expiries \X Domains -> Scids]

Statuses == {"Requested", "Accepted", "Rejected", "Expired", "Used"}
Live == {"Requested", "Accepted"}

QuoteId == [deal : Deals, expiry : Expiries, domain : Domains, alias : Nat]

EmptyStore ==
  [real |-> {}, live |-> [a \in {} |-> a], used |-> [d \in {} |-> d],
   quotes |-> [q \in {} |-> q]]

IsQuoteStore(s) ==
  /\ s.real \subseteq Nat
  /\ DOMAIN s.quotes \subseteq QuoteId
  /\ \A q \in DOMAIN s.quotes : s.quotes[q] \in Statuses
  /\ DOMAIN s.live \subseteq Nat /\ \A a \in DOMAIN s.live : s.live[a] \in QuoteId
  /\ DOMAIN s.used \subseteq Domains
  /\ \A d \in DOMAIN s.used : s.used[d] \in QuoteId

(* BTreeMap::insert and BTreeMap::remove *)
Put(f, k, v) == [x \in DOMAIN f \cup {k} |-> IF x = k THEN v ELSE f[x]]
Remove(f, k) == [x \in DOMAIN f \ {k} |-> f[x]]

------------------------------------------------------------------------------
(* validate *)

LiveQuotes(s) == {q \in DOMAIN s.quotes : s.quotes[q] \in Live}
UsedQuotes(s) == {q \in DOMAIN s.quotes : s.quotes[q] = "Used"}

(* No quote, terminal ones included, has a real channel's SCID as alias. *)
AliasesAreNotReal(s) == \A q \in DOMAIN s.quotes : q.alias \notin s.real

(* live_aliases lists exactly the live quotes, one per alias and at most   *)
(* one per replay domain.                                                  *)
LiveIndexed(s) ==
  /\ DOMAIN s.live = {q.alias : q \in LiveQuotes(s)}
  /\ \A q \in LiveQuotes(s) : s.live[q.alias] = q
  /\ \A q, p \in LiveQuotes(s) : q.domain = p.domain => q = p

(* used_replay_domains lists exactly the used quotes, one per domain. *)
UsedIndexed(s) ==
  /\ DOMAIN s.used = {q.domain : q \in UsedQuotes(s)}
  /\ \A q \in UsedQuotes(s) : s.used[q.domain] = q

Valid(s) == AliasesAreNotReal(s) /\ LiveIndexed(s) /\ UsedIndexed(s)

------------------------------------------------------------------------------
(* register_real_local_scid *)

RegisterAllowed(s, scid) == scid \notin DOMAIN s.live
Registered(s, scid) == [s EXCEPT !.real = @ \cup {scid}]

(* request_quote *)

(* allocate_scid_alias tries consecutive aliases from the seed. *)
Probes(deal, expiry, domain) ==
  SeedOf[deal, expiry, domain] .. SeedOf[deal, expiry, domain] + MaxProbes - 1

FreeOfLiveOnly(s, deal, expiry, domain) ==
  Probes(deal, expiry, domain) \ DOMAIN s.live
FreeAliases(s, deal, expiry, domain) ==
  Probes(deal, expiry, domain) \ (s.real \cup DOMAIN s.live)

NewQuote(s, deal, expiry, domain) ==
  LET free == FreeAliases(s, deal, expiry, domain)
  IN  [deal |-> deal, expiry |-> expiry, domain |-> domain,
       alias |-> CHOOSE a \in free : \A b \in free : a <= b]

DomainNotLive(s, domain) == \A q \in LiveQuotes(s) : q.domain # domain
DomainOpen(s, domain) ==
  /\ domain \notin DOMAIN s.used
  /\ \A q \in LiveQuotes(s) : q.domain # domain

RequestAllowed(s, deal, expiry, domain, now) ==
  /\ now < expiry
  /\ DomainOpen(s, domain)
  /\ FreeAliases(s, deal, expiry, domain) # {}

Requested(s, deal, expiry, domain) ==
  LET q == NewQuote(s, deal, expiry, domain)
  IN  [s EXCEPT !.live = Put(@, q.alias, q), !.quotes = Put(@, q, "Requested")]

(* accept_quote *)

(* ensure_quote_not_expired *)
NotExpired(q, now) == now <= q.expiry

AcceptAllowed(s, q, now) ==
  /\ NotExpired(q, now)
  /\ s.quotes[q] = "Requested"
  /\ q.domain \notin DOMAIN s.used

Accepted(s, q) == [s EXCEPT !.quotes[q] = "Accepted"]

(* reject_quote and expire_quote *)

TerminatedKeepingAlias(s, q, status) == [s EXCEPT !.quotes[q] = status]
Terminated(s, q, status) ==
  [s EXCEPT !.quotes[q] = status, !.live = Remove(@, q.alias)]

RejectAllowed(s, q) == s.quotes[q] \in Live

ExpireAllowed(s, q, now) == s.quotes[q] \in Live /\ now > q.expiry

(* authorize_asset_htlc *)

AuthorizeAllowed(s, q, now) ==
  /\ NotExpired(q, now)
  /\ s.quotes[q] = "Accepted"
  /\ q.domain \notin DOMAIN s.used

Authorized(s, q) ==
  [Terminated(s, q, "Used") EXCEPT !.used = Put(@, q.domain, q)]

==============================================================================
