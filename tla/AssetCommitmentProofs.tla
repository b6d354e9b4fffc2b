------------------------ MODULE AssetCommitmentProofs ------------------------
(***************************************************************************)
(* Proofs about AssetCommitment, for every set of channels and nonces,     *)
(* every funding, every u64 bound and any number of requests.              *)
(*                                                                         *)
(* TypeOK and RevocationChain are not inductive: that an applied update    *)
(* leaves every older commitment and revocation alone needs the next       *)
(* number to be unused, which is ChainShape, and that a save never rolls   *)
(* the file back needs memory to continue the file all the time, which is  *)
(* MemoryContinuesDisk.  IInv adds both to the conservation of every       *)
(* channel's total.                                                        *)
(*                                                                         *)
(* SignedBalancesApplied needs the file to be signed as well (SignedInv),  *)
(* since a restart makes it the memory, and ImplementsLog needs IInv for   *)
(* the shape of the logs and SignedInv for the totals they share out.      *)
(***************************************************************************)
EXTENDS AssetCommitment, TLAPS

(* A channel state that is well-formed and shares out its whole total.     *)
GoodState(st) == IsState(st) /\ ChainShape(st) /\ Conserved(st.local, st.remote, st.total)

GoodStore(s) == IsStore(s) /\ \A c \in DOMAIN s : GoodState(s[c])

MemoryContinuesDisk == StoreExtends(mem, disk)

IInv ==
  /\ GoodStore(mem)
  /\ GoodStore(disk)
  /\ saving \in BOOLEAN
  /\ requests \subseteq Request
  /\ MemoryContinuesDisk

------------------------------------------------------------------------------
(* Lemmas about the operators *)

(* Inserting a well-typed entry keeps a map well-typed. *)
LEMMA PutIsMap ==
  ASSUME NEW f, NEW S, NEW T, IsMap(f, S, T), NEW k \in S, NEW v \in T
  PROVE  IsMap(Put(f, k, v), S, T)
BY DEF Put, IsMap

(* Storing a good state of a channel keeps a store good. *)
LEMMA PutIsGood ==
  ASSUME NEW s, GoodStore(s), NEW c \in Channels, NEW st, GoodState(st)
  PROVE  GoodStore(Put(s, c, st))
BY DEF GoodStore, IsStore, GoodState, IsMap, Put

(* initialize_channel stores a good state. *)
LEMMA FundedIsGood ==
  ASSUME NEW c \in Channels
  PROVE  GoodState(FundedState(c))
<1>1. /\ U64Max \in Nat
      /\ LocalFunding[c] \in Amount /\ RemoteFunding[c] \in Amount
      /\ LocalFunding[c] + RemoteFunding[c] \in Amount
  BY FundingAssumption DEF Amount
<1>2. IsMap(EmptyMap, Amount, Commitment) /\ IsMap(EmptyMap, Amount, Amount)
      /\ IsMap(EmptyMap, Nonces, Amount)
  BY DEF IsMap, EmptyMap
<1>3. FundingOutput(c) \in Output
  BY <1>1 DEF FundingOutput, Output, Amount
<1>4. IsState(FundedState(c))
  BY <1>1, <1>2, <1>3 DEF IsState, FundedState, Amount
<1>5. ChainShape(FundedState(c))
  BY DEF ChainShape, FundedState, EmptyMap
<1> QED
  BY <1>1, <1>4, <1>5 DEF GoodState, Conserved, FundedState, Amount

(* A state an accepted update makes is good and continues the one before. *)
LEMMA UpdatedIsGood ==
  ASSUME NEW st, GoodState(st), NEW r \in Request, UpdateAccepted(st, r)
  PROVE  GoodState(Updated(st, r)) /\ Extends(Updated(st, r), st)
<1> DEFINE o == NextOutput(st, r.l2r, r.r2l, r.nonce)
           com == [number |-> o.number, local |-> o.local, remote |-> o.remote,
                   nonce |-> r.nonce, prior |-> st.latest]
           t == Updated(st, r)
<1>1. /\ U64Max \in Nat /\ Deltas \subseteq Amount
      /\ r.l2r \in Amount /\ r.r2l \in Amount /\ r.nonce \in Nonces
  BY FundingAssumption, UpdateAssumption DEF Request
<1>2. /\ st.total \in Amount /\ st.number \in Amount
      /\ st.local \in Amount /\ st.remote \in Amount
      /\ st.latest \in Output
      /\ IsMap(st.commitments, Amount, Commitment)
      /\ IsMap(st.revoked, Amount, Amount)
      /\ IsMap(st.nonces, Nonces, Amount)
      /\ st.local + st.remote = st.total
  BY DEF GoodState, IsState, Conserved
<1>3. /\ st.number + 1 \in Amount /\ o.number = st.number + 1
      /\ o.local + o.remote = st.total
      /\ o.local = (st.local - r.l2r) + r.r2l
      /\ o.remote = (st.remote - r.r2l) + r.l2r
      /\ o.nonce = r.nonce
      /\ r.l2r <= st.local /\ r.r2l <= st.remote
      /\ r.nonce \notin DOMAIN st.nonces
  <2>1. st.number < U64Max /\ CanSpend(st, r.l2r, r.r2l)
        /\ FreshNonce(st, r.nonce) /\ Conserved(o.local, o.remote, st.total)
    BY DEF UpdateAccepted
  <2>2. st.number + 1 \in Amount
    BY <1>1, <1>2, <2>1 DEF Amount
  <2> QED
    BY <2>1, <2>2 DEF NextOutput, Conserved, CanSpend, FreshNonce
<1>4. o.local \in Amount /\ o.remote \in Amount
  <2>1. /\ st.local \in Nat /\ st.remote \in Nat /\ st.total \in Nat
        /\ r.l2r \in Nat /\ r.r2l \in Nat /\ st.total <= U64Max
    BY <1>1, <1>2 DEF Amount
  <2> HIDE DEF o
  <2>2. o.local \in Nat /\ o.remote \in Nat
    BY <1>3, <2>1
  <2>3. o.local <= st.total /\ o.remote <= st.total
    BY <1>3, <2>1, <2>2
  <2> QED
    BY <1>1, <2>1, <2>2, <2>3 DEF Amount
<1>5. o \in Output /\ com \in Commitment
  BY <1>1, <1>2, <1>3, <1>4 DEF Output, Commitment, NextOutput
<1>6. t = [total |-> st.total, number |-> o.number, local |-> o.local,
           remote |-> o.remote,
           commitments |-> Put(st.commitments, o.number, com),
           revoked |-> Put(st.revoked, st.number, st.number + 1),
           nonces |-> Put(st.nonces, r.nonce, o.number),
           monitor |-> o, latest |-> o]
  BY DEF Updated, Revoke, MonitorOf
<1> HIDE DEF o, com, t
<1>7. IsState(t)
  <2>1. IsMap(t.commitments, Amount, Commitment)
    BY <1>2, <1>3, <1>5, <1>6, PutIsMap
  <2>2. IsMap(t.revoked, Amount, Amount)
    BY <1>2, <1>3, <1>6, PutIsMap
  <2>3. IsMap(t.nonces, Nonces, Amount)
    BY <1>1, <1>2, <1>3, <1>6, PutIsMap
  <2> QED
    BY <1>2, <1>3, <1>4, <1>5, <1>6, <2>1, <2>2, <2>3 DEF IsState
<1>8. ChainShape(st) /\ DOMAIN st.commitments = 1 .. st.number
      /\ DOMAIN st.revoked = 0 .. st.number - 1
  BY DEF GoodState, ChainShape
<1>9. ChainShape(t)
  <2>1. DOMAIN t.commitments = 1 .. t.number
    BY <1>2, <1>3, <1>6, <1>8 DEF Put, Amount
  <2>2. DOMAIN t.revoked = 0 .. t.number - 1
    BY <1>2, <1>3, <1>6, <1>8 DEF Put, Amount
  <2>3. ASSUME NEW n \in DOMAIN t.revoked PROVE t.revoked[n] = n + 1
    BY <1>6, <1>8 DEF Put, ChainShape
  <2> QED
    BY <2>1, <2>2, <2>3 DEF ChainShape
<1>10. GoodState(t)
  BY <1>3, <1>6, <1>7, <1>9 DEF GoodState, Conserved
<1>11. Extends(t, st)
  <2>1. st.number <= t.number /\ st.total = t.total
    BY <1>2, <1>3, <1>6 DEF Amount
  <2>2. ASSUME NEW n \in DOMAIN st.commitments
        PROVE  n \in DOMAIN t.commitments /\ t.commitments[n] = st.commitments[n]
    <3>1. n # o.number
      BY <1>2, <1>3, <1>8 DEF Amount
    <3> QED
      BY <3>1, <1>6 DEF Put
  <2>3. ASSUME NEW n \in DOMAIN st.revoked
        PROVE  n \in DOMAIN t.revoked /\ t.revoked[n] = st.revoked[n]
    <3>1. n # st.number
      BY <1>2, <1>8 DEF Amount
    <3> QED
      BY <3>1, <1>6 DEF Put
  <2>4. ASSUME NEW k \in DOMAIN st.nonces
        PROVE  k \in DOMAIN t.nonces /\ t.nonces[k] = st.nonces[k]
    BY <1>3, <1>6 DEF Put
  <2> QED
    BY <2>1, <2>2, <2>3, <2>4 DEF Extends
<1> QED
  BY <1>10, <1>11 DEF t

(* A good store continues itself, and continuing is transitive. *)
LEMMA StoreExtendsReflexive ==
  ASSUME NEW s, GoodStore(s)
  PROVE  StoreExtends(s, s)
<1> SUFFICES ASSUME NEW c \in DOMAIN s
             PROVE  Extends(s[c], s[c])
  BY DEF StoreExtends
<1>1. s[c].number \in Nat
  BY FundingAssumption DEF GoodStore, GoodState, IsState, Amount
<1> QED
  BY <1>1 DEF Extends

(* A store that continues a continuation continues the first store.        *)
LEMMA ExtendsTransitive ==
  ASSUME NEW s, NEW t, NEW u, GoodState(s), GoodState(t), GoodState(u),
         Extends(t, s), Extends(u, t)
  PROVE  Extends(u, s)
<1>1. s.number \in Nat /\ t.number \in Nat /\ u.number \in Nat
  BY FundingAssumption DEF GoodState, IsState, Amount
<1>2. s.number <= u.number /\ s.total = u.total
  BY <1>1 DEF Extends
<1>3. ASSUME NEW n \in DOMAIN s.commitments
      PROVE  n \in DOMAIN u.commitments /\ u.commitments[n] = s.commitments[n]
  BY DEF Extends
<1>4. ASSUME NEW n \in DOMAIN s.revoked
      PROVE  n \in DOMAIN u.revoked /\ u.revoked[n] = s.revoked[n]
  BY DEF Extends
<1>5. ASSUME NEW k \in DOMAIN s.nonces
      PROVE  k \in DOMAIN u.nonces /\ u.nonces[k] = s.nonces[k]
  BY DEF Extends
<1> QED
  BY <1>2, <1>3, <1>4, <1>5 DEF Extends

(* Replacing one channel's state by one that continues it, or adding a     *)
(* channel, keeps a store a continuation of what it continued.             *)
LEMMA PutContinues ==
  ASSUME NEW s, NEW t, GoodStore(s), GoodStore(t), StoreExtends(t, s),
         NEW c, NEW st, GoodState(st),
         c \in DOMAIN t => Extends(st, t[c])
  PROVE  StoreExtends(Put(t, c, st), s)
<1> SUFFICES ASSUME NEW d \in DOMAIN s
             PROVE  d \in DOMAIN Put(t, c, st) /\ Extends(Put(t, c, st)[d], s[d])
  BY DEF StoreExtends
<1>1. d \in DOMAIN t /\ Extends(t[d], s[d]) /\ GoodState(t[d]) /\ GoodState(s[d])
  BY DEF StoreExtends, GoodStore
<1>2. CASE d = c
  BY <1>1, <1>2, ExtendsTransitive DEF Put
<1>3. CASE d # c
  BY <1>1, <1>3 DEF Put
<1> QED
  BY <1>2, <1>3

------------------------------------------------------------------------------
(* The inductive invariant *)

(* An empty store, in memory and on disk, satisfies the invariant.         *)
LEMMA InitIInv == Init => IInv
<1> SUFFICES ASSUME Init PROVE IInv
  OBVIOUS
<1>1. GoodStore(EmptyMap)
  BY DEF GoodStore, IsStore, IsMap, EmptyMap
<1>2. StoreExtends(EmptyMap, EmptyMap)
  BY DEF StoreExtends, EmptyMap
<1> QED
  BY <1>1, <1>2 DEF Init, IInv, MemoryContinuesDisk

(* Every operation, save, request and restart keeps the invariant.         *)
LEMMA NextIInv == IInv /\ [Next]_vars => IInv'
<1> SUFFICES ASSUME IInv, [Next]_vars PROVE IInv'
  OBVIOUS
<1> USE DEF IInv, MemoryContinuesDisk
<1>1. ASSUME NEW c \in Channels, InitializeChannel(c) PROVE IInv'
  <2>1. /\ c \notin DOMAIN mem
        /\ mem' = Put(mem, c, FundedState(c))
        /\ UNCHANGED <<disk, saving, requests>>
    BY <1>1 DEF InitializeChannel
  <2>2. GoodState(FundedState(c))
    BY FundedIsGood
  <2>3. GoodStore(mem')
    BY <2>1, <2>2, PutIsGood
  <2>4. StoreExtends(mem', disk)
    BY <2>1, <2>2, PutContinues
  <2> QED
    BY <2>1, <2>3, <2>4
<1>2. ASSUME NEW c \in Channels, NEW l2r \in Deltas, NEW r2l \in Deltas,
             NEW k \in Nonces, BuildUpdate(c, l2r, r2l, k)
      PROVE  IInv'
  <2>1. requests' \subseteq Request
    <3> DEFINE o == NextOutput(mem[c], l2r, r2l, k)
               new == [channel |-> c, number |-> mem[c].number + 1,
                       l2r |-> l2r, r2l |-> r2l, nonce |-> k, signed |-> o]
    <3>1. /\ requests' = requests \cup {new}
          /\ mem[c].number < U64Max
          /\ CanSpend(mem[c], l2r, r2l) /\ CanReceive(mem[c], l2r, r2l)
          /\ c \in DOMAIN mem
      BY <1>2 DEF BuildUpdate
    <3>2. /\ U64Max \in Nat /\ l2r \in Amount /\ r2l \in Amount
          /\ mem[c].number \in Amount
          /\ mem[c].local \in Amount /\ mem[c].remote \in Amount
      BY <3>1, FundingAssumption, UpdateAssumption
      DEF IInv, GoodStore, GoodState, IsState
    <3>3. mem[c].number + 1 \in Amount /\ o \in Output
      BY <3>1, <3>2 DEF NextOutput, Output, CanSpend, CanReceive, Amount
    <3> HIDE DEF o
    <3>4. new \in Request
      BY <3>1, <3>3 DEF Request
    <3> QED
      BY <3>1, <3>4
  <2>2. UNCHANGED <<mem, disk, saving>>
    BY <1>2 DEF BuildUpdate
  <2> QED
    BY <2>1, <2>2
<1>3. ASSUME NEW r \in requests, ApplyUpdate(r) PROVE IInv'
  <2> DEFINE st == mem[r.channel]
             new == Updated(st, r)
  <2>1. /\ r \in Request /\ r.channel \in DOMAIN mem /\ r.channel \in Channels
        /\ UpdateAccepted(st, r)
        /\ mem' = Put(mem, r.channel, new)
        /\ UNCHANGED <<disk, saving, requests>>
    BY <1>3 DEF ApplyUpdate, Request
  <2>2. GoodState(st)
    BY <2>1 DEF GoodStore
  <2>3. GoodState(new) /\ Extends(new, st)
    BY <2>1, <2>2, UpdatedIsGood
  <2> HIDE DEF new
  <2>4. GoodStore(mem')
    BY <2>1, <2>3, PutIsGood
  <2>5. StoreExtends(mem', disk)
    BY <2>1, <2>3, PutContinues
  <2> QED
    BY <2>1, <2>4, <2>5
<1>4. CASE SaveWriteTemp
  BY <1>4 DEF SaveWriteTemp
<1>5. CASE SaveRename
  BY <1>5, StoreExtendsReflexive DEF SaveRename
<1>6. CASE Restart
  BY <1>6, StoreExtendsReflexive DEF Restart, ReloadedFrom
<1>7. CASE UNCHANGED vars
  BY <1>7 DEF vars
<1> QED
  BY <1>1, <1>2, <1>3, <1>4, <1>5, <1>6, <1>7 DEF Next

(* Every reachable store satisfies the invariant.                          *)
LEMMA Invariance == Spec => []IInv
BY InitIInv, NextIInv, PTL DEF Spec

------------------------------------------------------------------------------
(* Theorems *)

(* initialize_channel, apply_update, save_atomic and load only ever hold   *)
(* well-formed channel states whose amounts fit a u64.                     *)
THEOREM TypeCorrect == Spec => []TypeOK
<1>1. IInv => TypeOK
  BY DEF IInv, TypeOK, GoodStore
<1> QED
  BY <1>1, Invariance, PTL

(* Exactly the numbers below the latest are revoked, each by its successor,*)
(* in memory and in the file, though validate only checks that the latest  *)
(* number is not revoked.                                                  *)
THEOREM RevocationChainInvariant == Spec => []RevocationChain
<1>1. IInv => RevocationChain
  BY DEF IInv, RevocationChain, GoodStore, GoodState
<1> QED
  BY <1>1, Invariance, PTL

(* No crash, interrupted save, stale or repeated request ever rolls back   *)
(* or rewrites what save_atomic has made durable.                          *)
THEOREM DurableAppendOnly == Spec => DurableHistoryAppendOnly
<1>1. IInv /\ [Next]_vars => [StoreExtends(disk', disk)]_disk
  <2> SUFFICES ASSUME IInv, [Next]_vars, disk' # disk
               PROVE  StoreExtends(disk', disk)
    OBVIOUS
  <2>1. SaveRename
    BY DEF Next, vars, InitializeChannel, BuildUpdate, ApplyUpdate,
           SaveWriteTemp, Restart
  <2> QED
    BY <2>1 DEF SaveRename, IInv, MemoryContinuesDisk
<1> QED
  BY <1>1, Invariance, PTL DEF Spec, DurableHistoryAppendOnly

------------------------------------------------------------------------------
(* Accepted updates commit *)

(* The last of the numbers 1 .. n is n. *)
LEMMA LastOfRange ==
  ASSUME NEW n \in Nat, n # 0
  PROVE  Last(1 .. n) = n
<1> DEFINE IsLast(m) == m \in 1 .. n /\ \A k \in 1 .. n : k <= m
<1>1. IsLast(n)
  OBVIOUS
<1>2. \A m : IsLast(m) => m = n
  OBVIOUS
<1> QED
  BY <1>1, <1>2 DEF Last

(* A store has no commitments exactly when its latest number is 0.         *)
LEMMA RangeEmpty ==
  ASSUME NEW n \in Int, n >= 0
  PROVE  1 .. n = {} <=> n = 0
<1>1. CASE n = 0
  BY <1>1
<1>2. CASE n # 0
  <2>1. n \in 1 .. n
    BY <1>2
  <2> QED
    BY <1>2, <2>1
<1> QED
  BY <1>1, <1>2

(* What a commitment numbered n + 1 spends in a chain without gaps.        *)
LEMMA OutputBeforeInChain ==
  ASSUME NEW c, NEW st, NEW top \in Nat, DOMAIN st.commitments = 1 .. top,
         NEW n \in Nat, n > top
  PROVE  OutputBefore(c, st, n) =
           IF top = 0 THEN FundingOutput(c) ELSE OutputOf(st.commitments[top])
<1>1. {m \in DOMAIN st.commitments : m < n} = 1 .. top
  OBVIOUS
<1>2. CASE top = 0
  BY <1>1, <1>2 DEF OutputBefore
<1>3. CASE top # 0
  <2>1. 1 .. top # {} /\ Last(1 .. top) = top
    BY <1>3, LastOfRange, RangeEmpty
  <2> QED
    BY <1>1, <1>3, <2>1 DEF OutputBefore
<1> QED
  BY <1>2, <1>3

(* validate accepts the state an accepted update makes of a valid one: the *)
(* checks apply_update makes after validate_update repeat nothing that     *)
(* could fail.                                                             *)
LEMMA UpdatedIsValid ==
  ASSUME NEW c, NEW st, GoodState(st), Valid(c, st),
         NEW r \in Request, UpdateAccepted(st, r)
  PROVE  Valid(c, Updated(st, r))
<1> DEFINE o == NextOutput(st, r.l2r, r.r2l, r.nonce)
           com == [number |-> o.number, local |-> o.local, remote |-> o.remote,
                   nonce |-> r.nonce, prior |-> st.latest]
           t == Updated(st, r)
<1>1. /\ U64Max \in Nat /\ st.number \in Nat /\ st.number < U64Max
      /\ DOMAIN st.commitments = 1 .. st.number
      /\ DOMAIN st.revoked = 0 .. st.number - 1
      /\ r.nonce \notin DOMAIN st.nonces
      /\ Conserved(o.local, o.remote, st.total)
      /\ HistoryExplains(c, st)
  BY FundingAssumption
  DEF GoodState, IsState, ChainShape, UpdateAccepted, FreshNonce, Amount, Valid
<1>2. /\ o.number = st.number + 1
      /\ o.nonce = r.nonce
      /\ o = [number |-> o.number, local |-> o.local, remote |-> o.remote, nonce |-> o.nonce]
      /\ t = [total |-> st.total, number |-> o.number, local |-> o.local,
              remote |-> o.remote,
              commitments |-> Put(st.commitments, o.number, com),
              revoked |-> Put(st.revoked, st.number, st.number + 1),
              nonces |-> Put(st.nonces, r.nonce, o.number),
              monitor |-> o, latest |-> o]
  BY DEF Updated, Revoke, MonitorOf, NextOutput
<1>3. OutputOf(com) = o
  BY <1>2 DEF OutputOf
<1>4. /\ com.number = st.number + 1 /\ com.nonce = r.nonce /\ com.prior = st.latest
      /\ com.local = o.local /\ com.remote = o.remote
  BY <1>2
<1> HIDE DEF o, com, t
<1>5. /\ DOMAIN t.commitments = 1 .. st.number + 1
      /\ t.commitments[st.number + 1] = com
      /\ \A n \in 1 .. st.number : t.commitments[n] = st.commitments[n]
  BY <1>1, <1>2 DEF Put
<1>6. /\ Conserved(t.local, t.remote, t.total) /\ t.number \notin DOMAIN t.revoked
      /\ t.monitor.number = t.number /\ t.monitor.local = t.local
      /\ t.monitor.remote = t.remote
  BY <1>1, <1>2 DEF Put
<1>7. ASSUME NEW k \in DOMAIN t.nonces
      PROVE  t.nonces[k] \in DOMAIN t.commitments /\ t.commitments[t.nonces[k]].nonce = k
  <2>1. CASE k = r.nonce
    BY <1>1, <1>2, <1>4, <1>5, <2>1 DEF Put
  <2>2. CASE k # r.nonce
    <3>1. k \in DOMAIN st.nonces /\ t.nonces[k] = st.nonces[k]
      BY <1>2, <2>2 DEF Put
    <3>2. st.nonces[k] \in 1 .. st.number /\ st.commitments[st.nonces[k]].nonce = k
      BY <1>1, <3>1 DEF Valid
    <3> QED
      BY <1>1, <1>5, <3>1, <3>2
  <2> QED
    BY <2>1, <2>2
<1>8. ASSUME NEW n \in DOMAIN t.commitments
      PROVE  /\ t.commitments[n].number = n
             /\ Conserved(t.commitments[n].local, t.commitments[n].remote, t.total)
             /\ t.commitments[n].prior = OutputBefore(c, t, n)
  <2>1. CASE n = st.number + 1
    <3>1. OutputBefore(c, t, n) = OutputBefore(c, st, U64Max + 1)
      <4>1. {m \in DOMAIN t.commitments : m < n} = 1 .. st.number
        BY <1>1, <1>5, <2>1
      <4>2. {m \in DOMAIN st.commitments : m < U64Max + 1} = 1 .. st.number
        BY <1>1
      <4>3. st.number # 0 => Last(1 .. st.number) \in 1 .. st.number
        BY <1>1, LastOfRange
      <4>4. st.number = 0 <=> 1 .. st.number = {}
        BY <1>1, RangeEmpty
      <4> QED
        BY <1>1, <1>5, <4>1, <4>2, <4>3, <4>4 DEF OutputBefore
    <3>2. st.latest = OutputBefore(c, st, U64Max + 1)
      BY <1>1 DEF HistoryExplains
    <3> QED
      BY <1>1, <1>2, <1>4, <1>5, <2>1, <3>1, <3>2
  <2>2. CASE n # st.number + 1
    <3>1. n \in 1 .. st.number /\ n \in DOMAIN st.commitments
      BY <1>1, <1>5, <2>2
    <3>2. t.commitments[n] = st.commitments[n] /\ t.total = st.total
      BY <1>2, <1>5, <3>1
    <3>3. OutputBefore(c, t, n) = OutputBefore(c, st, n)
      <4>1. {m \in DOMAIN t.commitments : m < n} = 1 .. n - 1
        BY <1>1, <1>5, <3>1
      <4>2. {m \in DOMAIN st.commitments : m < n} = 1 .. n - 1
        BY <1>1, <3>1
      <4>3. n - 1 # 0 => Last(1 .. n - 1) = n - 1
        BY <1>1, <3>1, LastOfRange
      <4>4. n - 1 # 0 => n - 1 \in 1 .. st.number
        BY <1>1, <3>1
      <4>5. n - 1 = 0 <=> 1 .. n - 1 = {}
        <5>1. n - 1 \in Int /\ n - 1 >= 0
          BY <1>1, <3>1
        <5> QED
          BY <5>1, RangeEmpty
      <4> QED
        BY <1>5, <4>1, <4>2, <4>3, <4>4, <4>5 DEF OutputBefore
    <3> QED
      BY <3>1, <3>2, <3>3 DEF Valid, HistoryExplains
  <2> QED
    BY <2>1, <2>2
<1>9. t.latest = OutputBefore(c, t, U64Max + 1)
  <2>1. U64Max + 1 \in Nat /\ U64Max + 1 > st.number + 1 /\ st.number + 1 \in Nat
        /\ st.number + 1 # 0
    BY <1>1
  <2>2. OutputBefore(c, t, U64Max + 1) = OutputOf(t.commitments[st.number + 1])
    <3> DEFINE top == st.number + 1
               n == U64Max + 1
    <3>1. top \in Nat /\ n \in Nat /\ n > top /\ top # 0 /\ DOMAIN t.commitments = 1 .. top
      BY <1>5, <2>1
    <3> HIDE DEF top, n
    <3>2. OutputBefore(c, t, n) = OutputOf(t.commitments[top])
      BY <3>1, OutputBeforeInChain
    <3> QED
      BY <3>2 DEF top, n
  <2> QED
    BY <1>2, <1>3, <1>5, <2>2
<1>10. ~(t.number = 0) /\ DOMAIN t.commitments # {}
  BY <1>1, <1>2, <1>5
<1> QED
  BY <1>6, <1>7, <1>8, <1>9, <1>10 DEF Valid, HistoryExplains, t

(* Every state in memory has been validated: by initialize_channel and     *)
(* apply_update before they replace the store, by load after a restart.    *)
LEMMA MemoryValid == Spec => []StoreValid(mem)
<1>1. Init => StoreValid(mem)
  BY DEF Init, StoreValid, EmptyMap
<1>2. StoreValid(mem) /\ [Next]_vars => StoreValid(mem)'
  BY DEF Next, vars, InitializeChannel, BuildUpdate, ApplyUpdate,
         SaveWriteTemp, SaveRename, Restart, ReloadedFrom, StoreValid
<1> QED
  BY <1>1, <1>2, PTL DEF Spec

(* An update that validate_update accepts always commits: no check that    *)
(* apply_update makes after it can fail.                                   *)
THEOREM AcceptedUpdatesCommit == Spec => []AcceptedUpdateCommits
<1>1. IInv /\ StoreValid(mem) => AcceptedUpdateCommits
  <2> SUFFICES ASSUME IInv, StoreValid(mem), NEW r \in requests,
                      r.channel \in DOMAIN mem, UpdateAccepted(mem[r.channel], r),
                      NEW d \in DOMAIN Put(mem, r.channel, Updated(mem[r.channel], r))
               PROVE  Valid(d, Put(mem, r.channel, Updated(mem[r.channel], r))[d])
    BY DEF AcceptedUpdateCommits, StoreValid
  <2>1. CASE d = r.channel
    <3>1. Valid(d, Updated(mem[d], r))
      BY <2>1, UpdatedIsValid DEF IInv, GoodStore, StoreValid
    <3> QED
      BY <2>1, <3>1 DEF Put
  <2>2. CASE d # r.channel
    BY <2>2 DEF Put, StoreValid
  <2> QED
    BY <2>1, <2>2
<1> QED
  BY <1>1, Invariance, MemoryValid, PTL

------------------------------------------------------------------------------
(* Balances are signed *)

(* SignedBalancesApplied of one channel's state, with the total of its     *)
(* funding, which an update never changes.                                 *)
SignedState(c, st) ==
  /\ st.total = LocalFunding[c] + RemoteFunding[c]
  /\ \A n \in DOMAIN st.commitments :
       LET k == st.commitments[n]
       IN  /\ \E r \in requests : r.channel = c /\ r.signed = OutputOf(k)
           /\ k.local \in Amount /\ k.remote \in Amount
           /\ k.local + k.remote = LocalFunding[c] + RemoteFunding[c]

SignedStore(s) == \A c \in DOMAIN s : SignedState(c, s[c])

(* A restart makes the file the memory, so the file must be signed too.    *)
SignedInv == SignedStore(mem) /\ SignedStore(disk)

(* An accepted update adds one commitment, and it is the one its request   *)
(* was signed for.                                                         *)
LEMMA UpdatedIsSigned ==
  ASSUME IInv, NEW r \in requests, NEW st, GoodState(st),
         SignedState(r.channel, st), UpdateAccepted(st, r)
  PROVE  SignedState(r.channel, Updated(st, r))
<1> DEFINE o == NextOutput(st, r.l2r, r.r2l, r.nonce)
           com == [number |-> o.number, local |-> o.local, remote |-> o.remote,
                   nonce |-> r.nonce, prior |-> st.latest]
           t == Updated(st, r)
<1>1. r \in Request
  BY DEF IInv
<1>2. r.signed = o
  BY DEF UpdateAccepted, Authentic
<1>3. /\ t.total = st.total
      /\ t.commitments = Put(st.commitments, o.number, com)
      /\ OutputOf(com) = o
  BY DEF Updated, OutputOf, NextOutput
<1>4. /\ t.local = o.local /\ t.remote = o.remote
      /\ com.local = o.local /\ com.remote = o.remote
  BY DEF Updated
<1>5. GoodState(t)
  BY <1>1, UpdatedIsGood
<1>6. /\ com.local \in Amount /\ com.remote \in Amount
      /\ com.local + com.remote = st.total
  BY <1>3, <1>4, <1>5 DEF GoodState, IsState, Conserved
<1> HIDE DEF o, com, t
<1>7. ASSUME NEW n \in DOMAIN t.commitments
      PROVE  LET k == t.commitments[n]
             IN  /\ \E q \in requests : q.channel = r.channel /\ q.signed = OutputOf(k)
                 /\ k.local \in Amount /\ k.remote \in Amount
                 /\ k.local + k.remote =
                      LocalFunding[r.channel] + RemoteFunding[r.channel]
  <2>1. CASE n = o.number
    <3>1. t.commitments[n] = com
      BY <1>3, <2>1 DEF Put
    <3> QED
      BY <1>2, <1>3, <1>6, <3>1 DEF SignedState
  <2>2. CASE n # o.number
    <3>1. n \in DOMAIN st.commitments /\ t.commitments[n] = st.commitments[n]
      BY <1>3, <2>2 DEF Put
    <3> QED
      BY <3>1 DEF SignedState
  <2> QED
    BY <2>1, <2>2
<1> QED
  BY <1>3, <1>7 DEF SignedState, t

(* Every operation, save, request and restart keeps the states signed.     *)
LEMMA NextSigned == IInv /\ SignedInv /\ [Next]_vars => SignedInv'
<1> SUFFICES ASSUME IInv, SignedInv, [Next]_vars PROVE SignedInv'
  OBVIOUS
<1>1. requests \subseteq requests'
  BY DEF Next, vars, InitializeChannel, BuildUpdate, ApplyUpdate, SaveWriteTemp,
         SaveRename, Restart
<1>2. ASSUME NEW c, NEW st, SignedState(c, st)
      PROVE  SignedState(c, st)'
  BY <1>1, <1>2 DEF SignedState
<1>3. ASSUME NEW s, SignedStore(s)
      PROVE  \A c \in DOMAIN s : SignedState(c, s[c])'
  BY <1>2, <1>3 DEF SignedStore
<1>4. CASE UNCHANGED <<mem, disk>>
  BY <1>3, <1>4 DEF SignedInv, SignedStore
<1>5. ASSUME NEW c \in Channels, InitializeChannel(c) PROVE SignedInv'
  <2>1. mem' = Put(mem, c, FundedState(c)) /\ disk' = disk
    BY <1>5 DEF InitializeChannel
  <2>2. SignedState(c, FundedState(c))
    BY DEF SignedState, FundedState, EmptyMap
  <2>3. SignedStore(mem')
    BY <2>1, <2>2 DEF SignedInv, SignedStore, Put
  <2> QED
    BY <1>3, <2>1, <2>3 DEF SignedInv, SignedStore
<1>6. ASSUME NEW r \in requests, ApplyUpdate(r) PROVE SignedInv'
  <2>1. /\ r.channel \in DOMAIN mem /\ UpdateAccepted(mem[r.channel], r)
        /\ mem' = Put(mem, r.channel, Updated(mem[r.channel], r)) /\ disk' = disk
    BY <1>6 DEF ApplyUpdate
  <2>2. SignedState(r.channel, Updated(mem[r.channel], r))
    BY <2>1, UpdatedIsSigned DEF IInv, GoodStore, SignedInv, SignedStore
  <2>3. SignedStore(mem')
    BY <2>1, <2>2 DEF SignedInv, SignedStore, Put
  <2> QED
    BY <1>3, <2>1, <2>3 DEF SignedInv, SignedStore
<1>7. CASE SaveRename
  BY <1>3, <1>7 DEF SaveRename, SignedInv, SignedStore
<1>8. CASE Restart
  BY <1>3, <1>8 DEF Restart, ReloadedFrom, SignedInv, SignedStore
<1> QED
  BY <1>4, <1>5, <1>6, <1>7, <1>8 DEF Next, vars, BuildUpdate, SaveWriteTemp

(* Whatever was lost in a restart or reached the store late, a stored      *)
(* commitment holds what the builder of a request signed, and shares out   *)
(* the channel's funding.                                                  *)
THEOREM BalancesSigned == Spec => []SignedBalancesApplied
<1>1. Init => SignedInv
  BY DEF Init, SignedInv, SignedStore, EmptyMap
<1>2. SignedInv => SignedBalancesApplied
  BY DEF SignedInv, SignedStore, SignedState, SignedBalancesApplied
<1> QED
  BY <1>1, <1>2, Invariance, NextSigned, PTL DEF Spec

------------------------------------------------------------------------------
(* Refinement: the store implements CommitmentLog *)

(* The log of a channel state. *)
LogOfState(c, st) ==
  <<BalanceOf(FundingOutput(c))>>
    \o [n \in 1 .. st.number |-> BalanceOf(st.commitments[n])]

(* The log is never empty, and its entries follow the stored commitments.  *)
LEMMA LogShape ==
  ASSUME NEW c, NEW st, st.number \in Nat
  PROVE  /\ LogOfState(c, st) =
              [i \in 1 .. st.number + 1 |->
                 IF i = 1 THEN BalanceOf(FundingOutput(c))
                          ELSE BalanceOf(st.commitments[i - 1])]
         /\ LogOfState(c, st) # <<>>
<1> DEFINE entries == [n \in 1 .. st.number |-> BalanceOf(st.commitments[n])]
           head == <<BalanceOf(FundingOutput(c))>>
<1>1. Len(head) = 1 /\ Len(entries) = st.number /\ head[1] = BalanceOf(FundingOutput(c))
  OBVIOUS
<1>2. LogOfState(c, st) = head \o entries
  BY DEF LogOfState
<1>3. \A i \in 1 .. st.number + 1 :
        i # 1 => i - 1 \in 1 .. st.number
  OBVIOUS
<1> QED
  BY <1>1, <1>2, <1>3

(* initialize_channel opens the log with the funding balances.             *)
LEMMA FundedLog ==
  ASSUME NEW c
  PROVE  LogOfState(c, FundedState(c)) = <<Log!Funding(c)>>
<1>1. FundedState(c).number = 0
  BY DEF FundedState
<1>2. BalanceOf(FundingOutput(c)) = Log!Funding(c)
  BY DEF BalanceOf, FundingOutput, Log!Funding
<1>3. LogOfState(c, FundedState(c)) =
        [i \in 1 .. 1 |-> IF i = 1 THEN Log!Funding(c)
                          ELSE BalanceOf(FundedState(c).commitments[i - 1])]
  <2> DEFINE st == FundedState(c)
  <2> HIDE DEF st
  <2>1. st.number = 0
    BY <1>1 DEF st
  <2>2. st.number \in Nat /\ st.number + 1 = 1
    BY <2>1
  <2>3. LogOfState(c, st) =
          [i \in 1 .. st.number + 1 |->
             IF i = 1 THEN BalanceOf(FundingOutput(c))
                      ELSE BalanceOf(st.commitments[i - 1])]
    BY <2>2, LogShape
  <2>4. LogOfState(c, st) =
          [i \in 1 .. 1 |->
             IF i = 1 THEN Log!Funding(c) ELSE BalanceOf(st.commitments[i - 1])]
    BY <1>2, <2>2, <2>3
  <2> QED
    BY <2>4 DEF st
<1>4. LogOfState(c, FundedState(c)) = [i \in 1 .. 1 |-> Log!Funding(c)]
  BY <1>3
<1> QED
  BY <1>4

(* apply_update appends the new balances to the log.                       *)
LEMMA UpdatedLog ==
  ASSUME NEW c, NEW st, GoodState(st), NEW r \in Request, UpdateAccepted(st, r)
  PROVE  LogOfState(c, Updated(st, r)) =
           Append(LogOfState(c, st), BalanceOf(Updated(st, r)))
<1> DEFINE t == Updated(st, r)
<1>1. st.number \in Nat /\ DOMAIN st.commitments = 1 .. st.number
  BY FundingAssumption DEF GoodState, IsState, ChainShape, Amount
<1>2. /\ t.number = st.number + 1
      /\ BalanceOf(t.commitments[t.number]) = BalanceOf(t)
      /\ \A n \in 1 .. st.number : t.commitments[n] = st.commitments[n]
  BY <1>1 DEF Updated, NextOutput, Put, BalanceOf
<1> HIDE DEF t
<1>3. LogOfState(c, t) =
        [i \in 1 .. st.number + 2 |->
           IF i = 1 THEN BalanceOf(FundingOutput(c)) ELSE BalanceOf(t.commitments[i - 1])]
  <2>1. t.number \in Nat /\ t.number + 1 = st.number + 2
    BY <1>1, <1>2
  <2> QED
    BY <2>1, LogShape
<1>4. LogOfState(c, st) =
        [i \in 1 .. st.number + 1 |->
           IF i = 1 THEN BalanceOf(FundingOutput(c)) ELSE BalanceOf(st.commitments[i - 1])]
  BY <1>1, LogShape
<1>5. Append(LogOfState(c, st), BalanceOf(t)) =
        [i \in 1 .. st.number + 2 |->
           IF i = st.number + 2 THEN BalanceOf(t) ELSE LogOfState(c, st)[i]]
  <2>1. Len(LogOfState(c, st)) = st.number + 1
    BY <1>1, <1>4
  <2>2. Append(LogOfState(c, st), BalanceOf(t)) =
          [i \in 1 .. Len(LogOfState(c, st)) + 1 |->
             IF i <= Len(LogOfState(c, st)) THEN LogOfState(c, st)[i] ELSE BalanceOf(t)]
    BY <1>1, <1>4
  <2> QED
    BY <1>1, <2>1, <2>2
<1>6. ASSUME NEW i \in 1 .. st.number + 2
      PROVE  LogOfState(c, t)[i] = Append(LogOfState(c, st), BalanceOf(t))[i]
  <2>1. CASE i = st.number + 2
    <3>1. i - 1 = t.number /\ i # 1
      BY <1>1, <1>2, <2>1
    <3>2. LogOfState(c, t)[i] = BalanceOf(t.commitments[i - 1])
      BY <1>3, <3>1
    <3>3. Append(LogOfState(c, st), BalanceOf(t))[i] = BalanceOf(t)
      BY <1>5, <2>1
    <3> QED
      BY <1>2, <3>1, <3>2, <3>3
  <2>2. CASE i # st.number + 2 /\ i # 1
    <3>1. i - 1 \in 1 .. st.number /\ i \in 1 .. st.number + 1
      BY <1>1, <2>2
    <3>2. LogOfState(c, t)[i] = BalanceOf(t.commitments[i - 1])
      BY <1>3, <2>2
    <3>3. LogOfState(c, st)[i] = BalanceOf(st.commitments[i - 1])
      BY <1>4, <2>2, <3>1
    <3>4. Append(LogOfState(c, st), BalanceOf(t))[i] = LogOfState(c, st)[i]
      BY <1>5, <2>2
    <3> QED
      BY <1>2, <3>1, <3>2, <3>3, <3>4
  <2>3. CASE i # st.number + 2 /\ i = 1
    <3>1. i \in 1 .. st.number + 1
      BY <1>1, <2>3
    <3> QED
      BY <1>3, <1>4, <1>5, <2>3, <3>1
  <2> QED
    BY <2>1, <2>2, <2>3
<1>7. LogOfState(c, t) = Append(LogOfState(c, st), BalanceOf(t))
  <2> DEFINE f == LogOfState(c, t)
             g == Append(LogOfState(c, st), BalanceOf(t))
  <2>1. /\ DOMAIN f = 1 .. st.number + 2 /\ DOMAIN g = 1 .. st.number + 2
        /\ f = [i \in DOMAIN f |-> f[i]] /\ g = [i \in DOMAIN g |-> g[i]]
    BY <1>3, <1>5
  <2>2. \A i \in 1 .. st.number + 2 : f[i] = g[i]
    BY <1>6
  <2> HIDE DEF f, g
  <2>3. f = g
    BY <2>1, <2>2
  <2> QED
    BY <2>3 DEF f, g
<1> QED
  BY <1>7 DEF t

(* The log the refinement maps a stored channel to is its state's log.     *)
LEMMA LogIsState ==
  ASSUME NEW c, NEW s, c \in DOMAIN s
  PROVE  LogOf(c, s) = LogOfState(c, s[c])
BY DEF LogOf, LogOfState

(* A step that stores one channel's state appends to that channel's log,   *)
(* or opens it, and leaves the other logs alone.                           *)
LEMMA PutChangesOneLog ==
  ASSUME NEW c \in Channels, NEW st, NEW s
  PROVE  [d \in Channels |-> LogOf(d, Put(s, c, st))] =
           [[d \in Channels |-> LogOf(d, s)] EXCEPT ![c] = LogOfState(c, st)]
<1>1. ASSUME NEW d \in Channels
      PROVE  LogOf(d, Put(s, c, st)) = IF d = c THEN LogOfState(c, st) ELSE LogOf(d, s)
  <2>1. CASE d = c
    <3>1. c \in DOMAIN Put(s, c, st) /\ Put(s, c, st)[c] = st
      BY DEF Put
    <3> QED
      BY <2>1, <3>1, LogIsState
  <2>2. CASE d # c /\ d \in DOMAIN s
    <3>1. d \in DOMAIN Put(s, c, st) /\ Put(s, c, st)[d] = s[d]
      BY <2>2 DEF Put
    <3> QED
      BY <2>2, <3>1, LogIsState
  <2>3. CASE d # c /\ d \notin DOMAIN s
    <3>1. d \notin DOMAIN Put(s, c, st)
      BY <2>3 DEF Put
    <3> QED
      BY <2>3, <3>1 DEF LogOf
  <2> QED
    BY <2>1, <2>2, <2>3
<1> QED
  BY <1>1

(* The balances of a good state are a way to share out its total.          *)
LEMMA BalanceIsShare ==
  ASSUME NEW c \in Channels, NEW st, GoodState(st),
         st.total = LocalFunding[c] + RemoteFunding[c]
  PROVE  BalanceOf(st) \in Log!Shares(c)
<1>1. /\ st.local \in Nat /\ st.remote \in Nat /\ st.total \in Nat
      /\ st.local + st.remote = st.total
  BY FundingAssumption DEF GoodState, IsState, Conserved, Amount
<1>2. st.local \in 0 .. Log!Total(c) /\ st.remote = Log!Total(c) - st.local
  BY <1>1 DEF Log!Total
<1> QED
  BY <1>2 DEF Log!Shares, BalanceOf

(* Every step of the store is a step of the log, or changes no log: a      *)
(* request, built or refused, leaves none, and the file is the durable     *)
(* log.                                                                    *)
THEOREM StoreImplementsLog == Spec => ImplementsLog
<1> DEFINE logOf(s) == [c \in Channels |-> LogOf(c, s)]
<1>1. Init => Log!Init
  BY DEF Init, Log!Init, LogOf, EmptyMap
<1>2. IInv /\ SignedInv /\ [Next]_vars => [Log!Next]_(Log!vars)
  <2> SUFFICES ASSUME IInv, SignedInv, [Next]_vars
               PROVE  Log!Next \/ UNCHANGED Log!vars
    OBVIOUS
  <2> USE DEF IInv, GoodStore
  <2>1. ASSUME NEW c \in Channels, InitializeChannel(c) PROVE Log!Open(c)
    <3>1. c \notin DOMAIN mem /\ mem' = Put(mem, c, FundedState(c)) /\ disk' = disk
      BY <2>1 DEF InitializeChannel
    <3>2. logOf(mem)[c] = <<>>
      BY <3>1 DEF LogOf
    <3>3. logOf(mem') = [logOf(mem) EXCEPT ![c] = <<Log!Funding(c)>>]
      BY <3>1, PutChangesOneLog, FundedLog
    <3> QED
      BY <3>1, <3>2, <3>3 DEF Log!Open
  <2>2. ASSUME NEW r \in requests, ApplyUpdate(r) PROVE Log!Commit(r.channel)
    <3> DEFINE c == r.channel
               t == Updated(mem[c], r)
    <3>1. /\ c \in DOMAIN mem /\ UpdateAccepted(mem[c], r) /\ r \in Request
          /\ mem' = Put(mem, c, t) /\ disk' = disk /\ c \in Channels
      BY <2>2 DEF ApplyUpdate, Request
    <3>2. GoodState(mem[c]) /\ GoodState(t)
      BY <3>1, UpdatedIsGood
    <3>3. BalanceOf(t) \in Log!Shares(c)
      <4>1. t.total = LocalFunding[c] + RemoteFunding[c]
        BY <3>1 DEF SignedInv, SignedStore, SignedState, Updated
      <4> HIDE DEF t
      <4> QED
        BY <3>1, <3>2, <4>1, BalanceIsShare
    <3>4. LogOfState(c, t) = Append(LogOfState(c, mem[c]), BalanceOf(t))
      BY <3>1, <3>2, UpdatedLog
    <3>5. logOf(mem)[c] = LogOfState(c, mem[c]) /\ logOf(mem)[c] # <<>>
      <4>1. mem[c].number \in Nat
        BY <3>2, FundingAssumption DEF GoodState, IsState, Amount
      <4> QED
        BY <3>1, <4>1, LogIsState, LogShape
    <3> HIDE DEF t
    <3>6. logOf(mem') = [logOf(mem) EXCEPT ![c] = LogOfState(c, t)]
      BY <3>1, PutChangesOneLog
    <3> QED
      BY <3>1, <3>3, <3>4, <3>5, <3>6 DEF Log!Commit
  <2>3. CASE SaveRename
    BY <2>3 DEF SaveRename, Log!Next, Log!Persist
  <2>4. CASE Restart
    BY <2>4 DEF Restart, ReloadedFrom, Log!Next, Log!Restart
  <2>5. CASE UNCHANGED <<mem, disk>>
    BY <2>5 DEF Log!vars
  <2>6. ASSUME NEW r \in requests, ApplyUpdate(r) PROVE r.channel \in Channels
    BY <2>6 DEF Request
  <2> QED
    BY <2>1, <2>2, <2>3, <2>4, <2>5, <2>6
    DEF Next, vars, BuildUpdate, SaveWriteTemp, Log!Next
<1>3. Spec => []SignedInv
  <2>1. Init => SignedInv
    BY DEF Init, SignedInv, SignedStore, EmptyMap
  <2> QED
    BY <2>1, Invariance, NextSigned, PTL DEF Spec
<1> QED
  BY <1>1, <1>2, <1>3, Invariance, PTL DEF Spec, ImplementsLog, Log!Spec

==============================================================================
