-------------------------- MODULE RfqQuotesProofs --------------------------
(***************************************************************************)
(* Lemmas about the operations of RfqQuotes on one store, for every set of *)
(* deals, domains, times and SCIDs, every seed function and any number of  *)
(* alias probes.  RfqProofs rests on them.       *)
(*                                                                         *)
(* No operation relies on the validation at its end: the early-return      *)
(* checks alone keep the indexes exact.  GoodStore also says that no live  *)
(* quote is in a used domain (so that authorizing one cannot displace an   *)
(* entry of used_replay_domains, and a fresh request cannot resurrect a    *)
(* used quote).                                                            *)
(***************************************************************************)
EXTENDS RfqQuotes, TLAPS, WellFoundedInduction

HasFields(s) ==
  s = [real |-> s.real, live |-> s.live, used |-> s.used, quotes |-> s.quotes]

LiveDomainsOpen(s) == \A q \in LiveQuotes(s) : q.domain \notin DOMAIN s.used

GoodStore(s) ==
  /\ HasFields(s)
  /\ IsQuoteStore(s)
  /\ LiveIndexed(s)
  /\ UsedIndexed(s)
  /\ DOMAIN s.live \cap s.real = {}
  /\ LiveDomainsOpen(s)

(* The quote's use is entered in the store. *)
Kept(q, s) ==
  /\ q \in DOMAIN s.quotes /\ s.quotes[q] = "Used"
  /\ q.domain \in DOMAIN s.used /\ s.used[q.domain] = q

(* Every domain s has used is used by the same quote in t. *)
UsedContinues(s, t) ==
  \A d \in DOMAIN s.used : d \in DOMAIN t.used /\ t.used[d] = s.used[d]

------------------------------------------------------------------------------

(* A nonempty set of naturals has a least element: what the probing loop   *)
(* of allocate_scid_alias returns when it returns an alias at all.         *)
LEMMA LeastExists ==
  ASSUME NEW T, T \subseteq Nat, T # {}
  PROVE  \E a \in T : \A b \in T : a <= b
<1>1. PICK a \in T : \A b \in T : ~ (<<b, a>> \in OpToRel(<, Nat))
  BY NatLessThanWellFounded, WFMin
<1>2. ASSUME NEW b \in T PROVE a <= b
  <2>1. a \in Nat /\ b \in Nat
    OBVIOUS
  <2>2. ~ (b < a)
    BY <1>1, <2>1 DEF OpToRel
  <2> QED BY <2>1, <2>2
<1> QED BY <1>2

(* A new quote is well-formed and its alias is one the loop found free. *)
LEMMA NewQuoteIsFree ==
  ASSUME NEW s, NEW deal \in Deals, NEW expiry \in Expiries, NEW domain \in Domains,
         FreeAliases(s, deal, expiry, domain) # {}
  PROVE  LET q == NewQuote(s, deal, expiry, domain)
         IN  /\ q \in QuoteId
             /\ q.domain = domain
             /\ q.alias \in FreeAliases(s, deal, expiry, domain)
<1> DEFINE free == FreeAliases(s, deal, expiry, domain)
           alias == CHOOSE a \in free : \A b \in free : a <= b
<1>1. SeedOf[deal, expiry, domain] \in Nat
  BY QuoteAssumption
<1>2. free \subseteq Nat
  <2>1. ASSUME NEW seed \in Nat PROVE seed .. seed + MaxProbes - 1 \subseteq Nat
    BY QuoteAssumption
  <2> QED BY <1>1, <2>1 DEF FreeAliases, Probes
<1>3. alias \in free
  <2>1. \E a \in free : \A b \in free : a <= b
    BY <1>2, LeastExists
  <2> QED BY <2>1
<1> QED BY <1>2, <1>3 DEF NewQuote, QuoteId

(* register_real_local_scid refuses a live alias, so the store stays good. *)
LEMMA RegisteredIsGood ==
  ASSUME NEW s, GoodStore(s), NEW scid \in Scids, RegisterAllowed(s, scid)
  PROVE  GoodStore(Registered(s, scid)) /\ UsedContinues(s, Registered(s, scid))
<1> DEFINE t == Registered(s, scid)
<1>1. /\ t = [real |-> s.real \cup {scid}, live |-> s.live, used |-> s.used,
              quotes |-> s.quotes]
  BY DEF GoodStore, HasFields, Registered
<1>2. HasFields(t) /\ IsQuoteStore(t)
  BY <1>1, QuoteAssumption DEF GoodStore, HasFields, IsQuoteStore
<1>3. LiveIndexed(t) /\ UsedIndexed(t) /\ LiveDomainsOpen(t)
  BY <1>1 DEF GoodStore, LiveIndexed, UsedIndexed, LiveDomainsOpen, LiveQuotes, UsedQuotes
<1>4. DOMAIN t.live \cap t.real = {}
  BY <1>1 DEF GoodStore, RegisterAllowed
<1> QED BY <1>1, <1>2, <1>3, <1>4 DEF GoodStore, UsedContinues

(* request_quote takes a free alias and an open domain.                    *)
LEMMA RequestedIsGood ==
  ASSUME NEW s, GoodStore(s),
         NEW deal \in Deals, NEW expiry \in Expiries, NEW domain \in Domains, NEW now,
         RequestAllowed(s, deal, expiry, domain, now)
  PROVE  LET t == Requested(s, deal, expiry, domain)
         IN  GoodStore(t) /\ UsedContinues(s, t)
<1> DEFINE q == NewQuote(s, deal, expiry, domain)
           t == Requested(s, deal, expiry, domain)
<1>1. /\ q \in QuoteId /\ q.domain = domain /\ q.alias \in Nat
      /\ q.alias \notin s.real /\ q.alias \notin DOMAIN s.live
  <2>1. /\ q \in QuoteId /\ q.domain = domain
        /\ q.alias \in FreeAliases(s, deal, expiry, domain)
    BY NewQuoteIsFree DEF RequestAllowed
  <2> HIDE DEF q
  <2> QED BY <2>1 DEF FreeAliases, QuoteId
<1>2. domain \notin DOMAIN s.used /\ \A p \in LiveQuotes(s) : p.domain # domain
  BY DEF RequestAllowed, DomainOpen
<1>0. t = [s EXCEPT !.live = Put(@, q.alias, q), !.quotes = Put(@, q, "Requested")]
  BY DEF Requested
<1> HIDE DEF q, t
<1>3. t = [real |-> s.real, live |-> Put(s.live, q.alias, q), used |-> s.used,
           quotes |-> Put(s.quotes, q, "Requested")]
  BY <1>0 DEF GoodStore, HasFields
<1>4. /\ DOMAIN t.quotes = DOMAIN s.quotes \cup {q}
      /\ t.quotes[q] = "Requested"
      /\ \A p \in DOMAIN s.quotes : p # q => t.quotes[p] = s.quotes[p]
      /\ DOMAIN t.live = DOMAIN s.live \cup {q.alias}
      /\ t.live[q.alias] = q
      /\ \A a \in DOMAIN s.live : a # q.alias => t.live[a] = s.live[a]
  BY <1>3 DEF Put
<1>5. LiveQuotes(t) = LiveQuotes(s) \cup {q}
  BY <1>4 DEF LiveQuotes, Live
<1>6. UsedQuotes(t) = UsedQuotes(s)
  <2>1. q \notin UsedQuotes(s)
    BY <1>1, <1>2 DEF GoodStore, UsedIndexed
  <2> QED BY <1>4, <2>1 DEF UsedQuotes
<1>7. HasFields(t) /\ IsQuoteStore(t)
  BY <1>1, <1>3, <1>4 DEF GoodStore, HasFields, IsQuoteStore, Statuses
<1>8. LiveIndexed(t)
  <2>1. \A p \in LiveQuotes(s) : p.alias \in DOMAIN s.live /\ p.alias # q.alias
    BY <1>1 DEF GoodStore, LiveIndexed
  <2>2. DOMAIN t.live = {p.alias : p \in LiveQuotes(t)}
    BY <1>4, <1>5 DEF GoodStore, LiveIndexed
  <2>3. \A p \in LiveQuotes(t) : t.live[p.alias] = p
    BY <1>4, <1>5, <2>1 DEF GoodStore, LiveIndexed
  <2>4. \A p, r \in LiveQuotes(t) : p.domain = r.domain => p = r
    BY <1>1, <1>2, <1>5 DEF GoodStore, LiveIndexed
  <2> QED BY <2>2, <2>3, <2>4 DEF LiveIndexed
<1>9. UsedIndexed(t)
  BY <1>3, <1>6 DEF GoodStore, UsedIndexed
<1>10. DOMAIN t.live \cap t.real = {}
  BY <1>1, <1>3, <1>4 DEF GoodStore
<1>11. LiveDomainsOpen(t)
  BY <1>1, <1>2, <1>3, <1>5 DEF GoodStore, LiveDomainsOpen
<1> QED BY <1>3, <1>7, <1>8, <1>9, <1>10, <1>11 DEF GoodStore, UsedContinues, t

(* accept_quote changes one live status for the other.                     *)
LEMMA AcceptedIsGood ==
  ASSUME NEW s, GoodStore(s), NEW q \in DOMAIN s.quotes, NEW now, AcceptAllowed(s, q, now)
  PROVE  GoodStore(Accepted(s, q)) /\ UsedContinues(s, Accepted(s, q))
<1> DEFINE t == Accepted(s, q)
<1>1. t = [real |-> s.real, live |-> s.live, used |-> s.used,
           quotes |-> [s.quotes EXCEPT ![q] = "Accepted"]]
  BY DEF GoodStore, HasFields, Accepted
<1> HIDE DEF t
<1>2. LiveQuotes(t) = LiveQuotes(s) /\ UsedQuotes(t) = UsedQuotes(s)
  BY <1>1 DEF AcceptAllowed, LiveQuotes, UsedQuotes, Live
<1>3. HasFields(t) /\ IsQuoteStore(t)
  BY <1>1 DEF GoodStore, HasFields, IsQuoteStore, Statuses
<1>4. LiveIndexed(t) /\ UsedIndexed(t) /\ LiveDomainsOpen(t)
  BY <1>1, <1>2 DEF GoodStore, LiveIndexed, UsedIndexed, LiveDomainsOpen
<1>5. DOMAIN t.live \cap t.real = {}
  BY <1>1 DEF GoodStore
<1> QED BY <1>1, <1>3, <1>4, <1>5 DEF GoodStore, UsedContinues, t

(* A live quote that becomes terminal takes its alias out of the index and *)
(* leaves every other live quote's entry.                                  *)
LEMMA TerminatedLive ==
  ASSUME NEW s, GoodStore(s), NEW q \in LiveQuotes(s), NEW status \in Statuses \ Live
  PROVE  LET t == Terminated(s, q, status)
         IN  /\ t = [real |-> s.real, live |-> Remove(s.live, q.alias), used |-> s.used,
                     quotes |-> [s.quotes EXCEPT ![q] = status]]
             /\ HasFields(t) /\ IsQuoteStore(t)
             /\ LiveQuotes(t) = LiveQuotes(s) \ {q}
             /\ LiveIndexed(t)
             /\ DOMAIN t.live \cap t.real = {}
<1> DEFINE t == Terminated(s, q, status)
<1>0. t = [s EXCEPT !.quotes[q] = status, !.live = Remove(@, q.alias)]
  BY DEF Terminated
<1> HIDE DEF t
<1>1. t = [real |-> s.real, live |-> Remove(s.live, q.alias), used |-> s.used,
           quotes |-> [s.quotes EXCEPT ![q] = status]]
  BY <1>0 DEF GoodStore, HasFields
<1>2. LiveQuotes(t) = LiveQuotes(s) \ {q}
  BY <1>1 DEF LiveQuotes
<1>3. /\ DOMAIN t.live = DOMAIN s.live \ {q.alias}
      /\ \A a \in DOMAIN t.live : t.live[a] = s.live[a]
  BY <1>1 DEF Remove
<1>4. HasFields(t) /\ IsQuoteStore(t)
  <2>1. DOMAIN t.quotes = DOMAIN s.quotes /\ \A p \in DOMAIN t.quotes : t.quotes[p] \in Statuses
    BY <1>1 DEF GoodStore, IsQuoteStore
  <2> QED BY <1>1, <1>3, <2>1 DEF GoodStore, HasFields, IsQuoteStore
<1>5. LiveIndexed(t)
  <2>1. \A p \in LiveQuotes(t) : p \in LiveQuotes(s) /\ p.alias # q.alias
    BY <1>2 DEF GoodStore, LiveIndexed
  <2>2. DOMAIN t.live = {p.alias : p \in LiveQuotes(t)}
    BY <1>2, <1>3, <2>1 DEF GoodStore, LiveIndexed
  <2>3. \A p \in LiveQuotes(t) : t.live[p.alias] = p
    BY <1>3, <2>1, <2>2 DEF GoodStore, LiveIndexed
  <2>4. \A p, r \in LiveQuotes(t) : p.domain = r.domain => p = r
    BY <2>1 DEF GoodStore, LiveIndexed
  <2> QED BY <2>2, <2>3, <2>4 DEF LiveIndexed
<1>6. DOMAIN t.live \cap t.real = {}
  BY <1>1, <1>3 DEF GoodStore
<1> QED BY <1>1, <1>2, <1>4, <1>5, <1>6 DEF t

(* reject_quote and expire_quote leave used_replay_domains alone.          *)
LEMMA TerminatedIsGood ==
  ASSUME NEW s, GoodStore(s), NEW q \in LiveQuotes(s), NEW status \in {"Rejected", "Expired"}
  PROVE  LET t == Terminated(s, q, status) IN GoodStore(t) /\ UsedContinues(s, t)
<1> DEFINE t == Terminated(s, q, status)
<1>1. status \in Statuses \ Live
  BY DEF Statuses, Live
<1>2. /\ t = [real |-> s.real, live |-> Remove(s.live, q.alias), used |-> s.used,
              quotes |-> [s.quotes EXCEPT ![q] = status]]
      /\ HasFields(t) /\ IsQuoteStore(t)
      /\ LiveQuotes(t) = LiveQuotes(s) \ {q}
      /\ LiveIndexed(t)
      /\ DOMAIN t.live \cap t.real = {}
  BY <1>1, TerminatedLive
<1> HIDE DEF t
<1>3. UsedQuotes(t) = UsedQuotes(s)
  BY <1>2 DEF UsedQuotes, LiveQuotes, Live
<1>4. UsedIndexed(t) /\ LiveDomainsOpen(t)
  BY <1>2, <1>3 DEF GoodStore, UsedIndexed, LiveDomainsOpen
<1> QED BY <1>2, <1>4 DEF GoodStore, UsedContinues, t

(* authorize_asset_htlc enters the quote in used_replay_domains, which     *)
(* displaces nothing: a live quote's domain is not used.                   *)
LEMMA AuthorizedIsGood ==
  ASSUME NEW s, GoodStore(s), NEW q \in DOMAIN s.quotes, NEW now,
         AuthorizeAllowed(s, q, now)
  PROVE  GoodStore(Authorized(s, q)) /\ UsedContinues(s, Authorized(s, q))
<1> DEFINE u == Terminated(s, q, "Used")
           t == Authorized(s, q)
<1>1. q \in LiveQuotes(s) /\ s.quotes[q] = "Accepted" /\ q.domain \notin DOMAIN s.used
  BY DEF AuthorizeAllowed, LiveQuotes, Live
<1>2. q \in QuoteId /\ q.domain \in Domains
  BY DEF GoodStore, IsQuoteStore, QuoteId
<1>3. /\ u = [real |-> s.real, live |-> Remove(s.live, q.alias), used |-> s.used,
              quotes |-> [s.quotes EXCEPT ![q] = "Used"]]
      /\ HasFields(u) /\ IsQuoteStore(u)
      /\ LiveQuotes(u) = LiveQuotes(s) \ {q}
      /\ LiveIndexed(u)
      /\ DOMAIN u.live \cap u.real = {}
  BY <1>1, TerminatedLive DEF Statuses, Live
<1>4. t = [real |-> u.real, live |-> u.live, used |-> Put(u.used, q.domain, q),
           quotes |-> u.quotes]
  BY <1>3 DEF HasFields, Authorized
<1> HIDE DEF u, t
<1>5. /\ DOMAIN t.used = DOMAIN s.used \cup {q.domain}
      /\ t.used[q.domain] = q
      /\ \A d \in DOMAIN s.used : t.used[d] = s.used[d]
  BY <1>1, <1>3, <1>4 DEF Put
<1>6. LiveQuotes(t) = LiveQuotes(s) \ {q}
  BY <1>3, <1>4 DEF LiveQuotes
<1>7. UsedQuotes(t) = UsedQuotes(s) \cup {q}
  BY <1>3, <1>4 DEF UsedQuotes
<1>8. HasFields(t) /\ IsQuoteStore(t)
  <2>1. HasFields(t)
    BY <1>4 DEF HasFields
  <2>2. \A d \in DOMAIN t.used : d \in Domains /\ t.used[d] \in QuoteId
    BY <1>2, <1>5 DEF GoodStore, IsQuoteStore
  <2>3. t.real = u.real /\ t.live = u.live /\ t.quotes = u.quotes
    BY <1>4
  <2>4. DOMAIN t.used \subseteq Domains
    BY <2>2
  <2>5. IsQuoteStore(t)
    BY <1>3, <2>2, <2>3, <2>4 DEF IsQuoteStore
  <2> QED BY <2>1, <2>5
<1>9. LiveIndexed(t) /\ DOMAIN t.live \cap t.real = {}
  <2>1. LiveQuotes(t) = LiveQuotes(u) /\ t.live = u.live /\ t.real = u.real
    BY <1>3, <1>4, <1>6
  <2>2. LiveIndexed(u) /\ DOMAIN u.live \cap u.real = {}
    BY <1>3
  <2> QED BY <2>1, <2>2 DEF LiveIndexed
<1>10. UsedIndexed(t)
  <2>1. DOMAIN t.used = {p.domain : p \in UsedQuotes(t)}
    BY <1>5, <1>7 DEF GoodStore, UsedIndexed
  <2>2. \A p \in UsedQuotes(s) : p.domain \in DOMAIN s.used /\ s.used[p.domain] = p
    BY DEF GoodStore, UsedIndexed
  <2> QED BY <1>5, <1>7, <2>1, <2>2 DEF UsedIndexed
<1>11. LiveDomainsOpen(t)
  <2>1. \A p \in LiveQuotes(t) : p.domain # q.domain /\ p.domain \notin DOMAIN s.used
    BY <1>1, <1>6 DEF GoodStore, LiveIndexed, LiveDomainsOpen
  <2> QED BY <1>5, <2>1 DEF LiveDomainsOpen
<1> QED BY <1>5, <1>8, <1>9, <1>10, <1>11 DEF GoodStore, UsedContinues, t

(* Every entry of a good store's used_replay_domains names a used quote of *)
(* its domain.                                                             *)
LEMMA UsedEntryIsUsed ==
  ASSUME NEW s, GoodStore(s), NEW d \in DOMAIN s.used
  PROVE  s.used[d] \in DOMAIN s.quotes /\ s.quotes[s.used[d]] = "Used"
<1>1. PICK q \in UsedQuotes(s) : q.domain = d
  BY DEF GoodStore, UsedIndexed
<1>2. s.used[d] = q
  BY <1>1 DEF GoodStore, UsedIndexed
<1> QED
  BY <1>2 DEF UsedQuotes

(* A store that continues another keeps every use entered in it.           *)
LEMMA KeptContinues ==
  ASSUME NEW s, NEW t, GoodStore(t), UsedContinues(s, t), NEW q, Kept(q, s)
  PROVE  Kept(q, t)
<1>1. q.domain \in DOMAIN t.used /\ t.used[q.domain] = q
  BY DEF Kept, UsedContinues
<1>2. t.used[q.domain] \in DOMAIN t.quotes /\ t.quotes[t.used[q.domain]] = "Used"
  BY <1>1, UsedEntryIsUsed
<1> QED
  BY <1>1, <1>2 DEF Kept

(* authorize_asset_htlc enters the quote's use, and registers nothing.     *)
LEMMA AuthorizedIsKept ==
  ASSUME NEW s, GoodStore(s), NEW q \in DOMAIN s.quotes, NEW now,
         AuthorizeAllowed(s, q, now)
  PROVE  Kept(q, Authorized(s, q)) /\ Authorized(s, q).real = s.real
<1> DEFINE u == Terminated(s, q, "Used")
           t == Authorized(s, q)
<1>1. q \in LiveQuotes(s)
  BY DEF AuthorizeAllowed, LiveQuotes, Live
<1>2. u = [real |-> s.real, live |-> Remove(s.live, q.alias), used |-> s.used,
           quotes |-> [s.quotes EXCEPT ![q] = "Used"]]
  BY <1>1, TerminatedLive DEF Statuses, Live
<1>3. /\ t.quotes = [s.quotes EXCEPT ![q] = "Used"] /\ t.real = s.real
      /\ t.used = Put(s.used, q.domain, q)
  BY <1>2 DEF Authorized
<1> HIDE DEF t
<1>4. Kept(q, t) /\ t.real = s.real
  BY <1>3 DEF Kept, Put
<1> QED
  BY <1>4 DEF t

(* A store starts empty. *)
LEMMA EmptyIsGood == GoodStore(EmptyStore) /\ Valid(EmptyStore)
<1>1. GoodStore(EmptyStore)
  BY DEF GoodStore, EmptyStore, HasFields, IsQuoteStore, LiveIndexed, UsedIndexed,
         LiveDomainsOpen, LiveQuotes, UsedQuotes
<1>2. AliasesAreNotReal(EmptyStore)
  BY DEF AliasesAreNotReal, EmptyStore
<1> QED
  BY <1>1, <1>2 DEF Valid, GoodStore

==============================================================================
