--------------------------- MODULE AssetCommitment ---------------------------
(***************************************************************************)
(* The asset commitment store of src/crates/tap-ldk-core/src/              *)
(* asset_commitment.rs: per channel, the asset balances of every Lightning *)
(* commitment number, the numbers that are revoked, the asset nonces that  *)
(* are used, the monitor blob of the latest commitment and the chain of    *)
(* proof-history outputs that explains it.                                 *)
(*                                                                         *)
(* The store lives in memory (mem) and in one JSON file (disk) that        *)
(* save_atomic replaces by writing a temporary file and renaming it.  A    *)
(* process may stop between any two steps and start again from the file.   *)
(* Update requests are built on a snapshot of a channel's state and may    *)
(* reach the store late, twice, or after a restart: requests only grows.   *)
(*                                                                         *)
(* A digest or a signature is the tuple of the fields it hashes.           *)
(***************************************************************************)
EXTENDS Integers, Sequences, FiniteSets

CONSTANTS
  Channels,        \* the funded channels a process may hand to the store
  LocalFunding,    \* [Channels -> amount]: local balance at funding
  RemoteFunding,   \* [Channels -> amount]: remote balance at funding
  Nonces,          \* asset nonces a caller may choose
  Deltas,          \* amounts an update may move in one direction
  U64Max,          \* the largest u64
  MaxRequests,     \* bound: requests ever built
  NoNonce          \* the nonce context of the funding commitment

Amount == 0 .. U64Max

(* Funding sums both sides with checked additions and refuses zero inputs. *)
ASSUME FundingAssumption ==
  /\ U64Max \in Nat
  /\ LocalFunding \in [Channels -> Amount]
  /\ RemoteFunding \in [Channels -> Amount]
  /\ \A c \in Channels : LocalFunding[c] + RemoteFunding[c] \in 1 .. U64Max

ASSUME UpdateAssumption ==
  /\ Deltas \subseteq Amount
  /\ MaxRequests \in Nat
  /\ NoNonce \notin Nonces

VARIABLES mem, disk, saving, requests

vars == <<mem, disk, saving, requests>>

------------------------------------------------------------------------------
(* State *)

(* A commitment's content, and the id of the proof-history output it makes. *)
Output == [number : Amount, local : Amount, remote : Amount,
           nonce : Nonces \cup {NoNonce}]

Commitment == [number : Amount, local : Amount, remote : Amount,
               nonce : Nonces, prior : Output]

(* A BTreeMap is a function on its keys.  f has keys in S, values in T. *)
IsMap(f, S, T) == DOMAIN f \subseteq S /\ f \in [DOMAIN f -> T]

IsState(st) ==
  /\ st \in [total : Amount, number : Amount, local : Amount, remote : Amount,
             commitments : {st.commitments}, revoked : {st.revoked},
             nonces : {st.nonces}, monitor : Output, latest : Output]
  /\ IsMap(st.commitments, Amount, Commitment)
  /\ IsMap(st.revoked, Amount, Amount)
  /\ IsMap(st.nonces, Nonces, Amount)

IsStore(s) ==
  /\ IsMap(s, Channels, {s[c] : c \in DOMAIN s})
  /\ \A c \in DOMAIN s : IsState(s[c])

Request ==
  [channel : Channels, number : Amount, l2r : Deltas, r2l : Deltas,
   nonce : Nonces, signed : Output]

(* BTreeMap::insert *)
Put(f, k, v) == [x \in DOMAIN f \cup {k} |-> IF x = k THEN v ELSE f[x]]

EmptyMap == [x \in {} |-> x]

OutputOf(com) == [number |-> com.number, local |-> com.local,
                  remote |-> com.remote, nonce |-> com.nonce]

FundingOutput(c) == [number |-> 0, local |-> LocalFunding[c],
                     remote |-> RemoteFunding[c], nonce |-> NoNonce]

FundedState(c) ==
  [total |-> LocalFunding[c] + RemoteFunding[c], number |-> 0,
   local |-> LocalFunding[c], remote |-> RemoteFunding[c],
   commitments |-> EmptyMap, revoked |-> EmptyMap, nonces |-> EmptyMap,
   monitor |-> FundingOutput(c), latest |-> FundingOutput(c)]

------------------------------------------------------------------------------
(* Validation *)

Last(S) == CHOOSE m \in S : \A k \in S : k <= m

(* The output a commitment numbered n must spend: that of the stored        *)
(* commitment before it, or the channel-funding output.                     *)
OutputBefore(c, st, n) ==
  LET earlier == {m \in DOMAIN st.commitments : m < n}
  IN  IF earlier = {} THEN FundingOutput(c)
                      ELSE OutputOf(st.commitments[Last(earlier)])

(* Replay accepts the history: each commitment spends its predecessor's    *)
(* output, the recorded latest output is the last one, and it is the       *)
(* funding output exactly when the channel is at number 0.                 *)
HistoryExplains(c, st) ==
  /\ \A n \in DOMAIN st.commitments :
       st.commitments[n].prior = OutputBefore(c, st, n)
  /\ st.latest = OutputBefore(c, st, U64Max + 1)
  /\ st.number = 0 <=> DOMAIN st.commitments = {}

Conserved(l, r, total) == l + r = total

Valid(c, st) ==
  /\ Conserved(st.local, st.remote, st.total)
  /\ st.number \notin DOMAIN st.revoked
  /\ st.monitor.number = st.number
  /\ st.monitor.local = st.local
  /\ st.monitor.remote = st.remote
  /\ \A k \in DOMAIN st.nonces :
       /\ st.nonces[k] \in DOMAIN st.commitments
       /\ st.commitments[st.nonces[k]].nonce = k
  /\ \A n \in DOMAIN st.commitments :
       /\ st.commitments[n].number = n
       /\ Conserved(st.commitments[n].local, st.commitments[n].remote,
                    st.total)
  /\ HistoryExplains(c, st)

StoreValid(s) == \A c \in DOMAIN s : Valid(c, s[c])

------------------------------------------------------------------------------
(* Updates *)

(* Both sides can pay what they send (checked_sub). *)
CanSpendUnchecked(st, l2r, r2l) == TRUE
CanSpend(st, l2r, r2l) == l2r <= st.local /\ r2l <= st.remote

(* Neither side goes over u64 by what it receives (checked_add). *)
CanReceive(st, l2r, r2l) ==
  /\ (st.local - l2r) + r2l <= U64Max
  /\ (st.remote - r2l) + l2r <= U64Max

(* What build_commitment_update signs: the balances after the move, at the *)
(* next number, under the chosen nonce.                                    *)
NextOutput(st, l2r, r2l, k) ==
  [number |-> st.number + 1,
   local  |-> (st.local - l2r) + r2l,
   remote |-> (st.remote - r2l) + l2r,
   nonce  |-> k]

(* The virtual transaction, its witness and the asset signature match what *)
(* the store recomputes from its own state.                                *)
AuthenticUnchecked(st, r) == TRUE
Authentic(st, r) == r.signed = NextOutput(st, r.l2r, r.r2l, r.nonce)

FreshNonceUnchecked(st, k) == TRUE
FreshNonce(st, k) == k \notin DOMAIN st.nonces

UpdateAccepted(st, r) ==
  /\ st.number < U64Max
  /\ r.number = st.number + 1
  /\ FreshNonce(st, r.nonce)
  /\ CanSpend(st, r.l2r, r.r2l)
  /\ CanReceive(st, r.l2r, r.r2l)
  /\ LET o == NextOutput(st, r.l2r, r.r2l, r.nonce)
     IN  Conserved(o.local, o.remote, st.total)
  /\ Authentic(st, r)

RevokeNothing(st) == st.revoked
Revoke(st) == Put(st.revoked, st.number, st.number + 1)

MonitorOneBehind(o) == [o EXCEPT !.number = o.number - 1]
MonitorOf(o) == o

Updated(st, r) ==
  LET o == NextOutput(st, r.l2r, r.r2l, r.nonce)
  IN  [total |-> st.total, number |-> o.number,
       local |-> o.local, remote |-> o.remote,
       commitments |->
         Put(st.commitments, o.number,
             [number |-> o.number, local |-> o.local, remote |-> o.remote,
              nonce |-> r.nonce, prior |-> st.latest]),
       revoked |-> Revoke(st),
       nonces |-> Put(st.nonces, r.nonce, o.number),
       monitor |-> MonitorOf(o), latest |-> o]

------------------------------------------------------------------------------
(* Actions *)

Init ==
  /\ mem = EmptyMap
  /\ disk = EmptyMap
  /\ saving = FALSE
  /\ requests = {}

(* initialize_channel: a duplicate is refused; otherwise the funded state  *)
(* enters a copy of the store that must validate before it replaces it.    *)
InitializeChannel(c) ==
  /\ ~saving
  /\ c \notin DOMAIN mem
  /\ LET next == Put(mem, c, FundedState(c))
     IN  StoreValid(next) /\ mem' = next
  /\ UNCHANGED <<disk, saving, requests>>

(* build_commitment_update on the state as it is now.  The request is kept *)
(* by whoever built it: nothing ties its use to this moment.               *)
BuildUpdate(c, l2r, r2l, k) ==
  /\ ~saving
  /\ c \in DOMAIN mem
  /\ Cardinality(requests) < MaxRequests
  /\ mem[c].number < U64Max
  /\ CanSpend(mem[c], l2r, r2l)
  /\ CanReceive(mem[c], l2r, r2l)
  /\ requests' = requests \cup
       {[channel |-> c, number |-> mem[c].number + 1,
         l2r |-> l2r, r2l |-> r2l, nonce |-> k,
         signed |-> NextOutput(mem[c], l2r, r2l, k)]}
  /\ UNCHANGED <<mem, disk, saving>>

(* apply_update: the channel is known and valid, the request is accepted   *)
(* and the updated copy of the store validates; else the store is as it    *)
(* was.                                                                    *)
ApplyUpdate(r) ==
  /\ ~saving
  /\ r.channel \in DOMAIN mem
  /\ Valid(r.channel, mem[r.channel])
  /\ UpdateAccepted(mem[r.channel], r)
  /\ LET next == Put(mem, r.channel, Updated(mem[r.channel], r))
     IN  StoreValid(next) /\ mem' = next
  /\ UNCHANGED <<disk, saving, requests>>

(* save_atomic: validate and write the temporary file ... *)
SaveWriteTemp ==
  /\ ~saving
  /\ StoreValid(mem)
  /\ saving' = TRUE
  /\ UNCHANGED <<mem, disk, requests>>

(* ... and rename it over the store. *)
SaveRename ==
  /\ saving
  /\ disk' = mem
  /\ saving' = FALSE
  /\ UNCHANGED <<mem, requests>>

ReloadedKeepingNew(d) ==
  [c \in DOMAIN mem |-> IF c \in DOMAIN d THEN d[c] ELSE mem[c]]
ReloadedFrom(d) == d

(* The process stops anywhere and loads the file again.  A temporary file  *)
(* it left behind is never read.                                           *)
Restart ==
  /\ StoreValid(disk)
  /\ mem' = ReloadedFrom(disk)
  /\ saving' = FALSE
  /\ UNCHANGED <<disk, requests>>

Next ==
  \/ \E c \in Channels : InitializeChannel(c)
  \/ \E c \in Channels, l2r \in Deltas, r2l \in Deltas, k \in Nonces :
       BuildUpdate(c, l2r, r2l, k)
  \/ \E r \in requests : ApplyUpdate(r)
  \/ SaveWriteTemp
  \/ SaveRename
  \/ Restart

Spec == Init /\ [][Next]_vars

------------------------------------------------------------------------------
(* Properties *)

(* Stores hold well-formed channel states and u64 amounts only: no balance *)
(* goes below zero or over u64 (checked_sub and checked_add in             *)
(* validate_update).                                                       *)
TypeOK ==
  /\ IsStore(mem)
  /\ IsStore(disk)
  /\ saving \in BOOLEAN
  /\ requests \subseteq Request

(* No partial failure: once validate_update accepts a request, the checks  *)
(* apply_update makes afterwards (proof history, monitor, nonce index) all *)
(* pass, so an accepted update always commits.                             *)
AcceptedUpdateCommits ==
  \A r \in requests :
    (r.channel \in DOMAIN mem /\ UpdateAccepted(mem[r.channel], r))
      => StoreValid(Put(mem, r.channel, Updated(mem[r.channel], r)))

(* The commitment numbers below the latest one, and no other, are revoked, *)
(* each by its successor, and every number after funding has its stored    *)
(* commitment.  validate only checks that the latest number is not revoked.*)
ChainShape(st) ==
  /\ DOMAIN st.commitments = 1 .. st.number
  /\ DOMAIN st.revoked = 0 .. st.number - 1
  /\ \A n \in DOMAIN st.revoked : st.revoked[n] = n + 1

RevocationChain ==
  /\ \A c \in DOMAIN mem : ChainShape(mem[c])
  /\ \A c \in DOMAIN disk : ChainShape(disk[c])

(* Both sides derive the same balances: every stored commitment holds what *)
(* the builder of some request for this channel signed, whatever was lost  *)
(* in a restart or applied in between, and divides the channel's funding   *)
(* into two amounts, with moves in both directions at zero and at u64's    *)
(* limit.                                                                  *)
SignedBalancesApplied ==
  \A c \in DOMAIN mem :
    \A n \in DOMAIN mem[c].commitments :
      LET k == mem[c].commitments[n]
      IN  /\ \E r \in requests : r.channel = c /\ r.signed = OutputOf(k)
          /\ k.local \in Amount /\ k.remote \in Amount
          /\ k.local + k.remote = LocalFunding[c] + RemoteFunding[c]

(* t continues s: everything s records is in t unchanged. *)
Extends(t, s) ==
  /\ s.number <= t.number
  /\ s.total = t.total
  /\ \A n \in DOMAIN s.commitments :
       n \in DOMAIN t.commitments /\ t.commitments[n] = s.commitments[n]
  /\ \A n \in DOMAIN s.revoked :
       n \in DOMAIN t.revoked /\ t.revoked[n] = s.revoked[n]
  /\ \A k \in DOMAIN s.nonces :
       k \in DOMAIN t.nonces /\ t.nonces[k] = s.nonces[k]

StoreExtends(t, s) ==
  \A c \in DOMAIN s : c \in DOMAIN t /\ Extends(t[c], s[c])

(* What is on disk is never rolled back, rewritten or applied a second     *)
(* time: commitments, revocations and nonce uses only accumulate, across   *)
(* crashes, interrupted saves and late or repeated requests.               *)
DurableHistoryAppendOnly == [][StoreExtends(disk', disk)]_disk

(* The monitor blob says persisted: true from the moment                   *)
(* AssetCommitmentMonitorBlob::new builds it; this is what the flag        *)
(* claims: the commitment it describes is in the file.                     *)
PersistedFlagTruthful ==
  \A c \in DOMAIN mem :
    c \in DOMAIN disk /\ disk[c].number >= mem[c].monitor.number

(* The store implements the abstract log of balances: stale, repeated and  *)
(* refused requests leave no trace, a commit appends one share-out of the  *)
(* total, the rename makes everything durable at once and a restart        *)
(* forgets exactly what was not renamed.                                   *)
BalanceOf(x) == [local |-> x.local, remote |-> x.remote]

LogOf(c, s) ==
  IF c \notin DOMAIN s
    THEN <<>>
    ELSE <<BalanceOf(FundingOutput(c))>>
           \o [n \in 1 .. s[c].number |-> BalanceOf(s[c].commitments[n])]

Log == INSTANCE CommitmentLog WITH
         log <- [c \in Channels |-> LogOf(c, mem)],
         durable <- [c \in Channels |-> LogOf(c, disk)]

ImplementsLog == Log!Spec

==============================================================================
