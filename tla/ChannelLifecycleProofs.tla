----------------------- MODULE ChannelLifecycleProofs ------------------------
(***************************************************************************)
(* Proofs about closes, checkpoints and watched events of ChannelLifecycle, *)
(* for every set of channels, keys, moves and chain snapshots and without   *)
(* the bounds of the model.                                                 *)
(*                                                                          *)
(* A close is recorded, and a checkpoint used, against a store that has     *)
(* moved on since.  What makes that safe is that a store which continues    *)
(* another holds every balance the other held, at the same number           *)
(* (ContinuationHolds); IInv and the append-only file of                    *)
(* AssetCommitmentProofs say when one store continues another.  The         *)
(* properties of reports need only that the report accepted last is valid.  *)
(***************************************************************************)
EXTENDS ChannelLifecycle, AssetCommitmentProofs, FiniteSums, SequenceTheorems

-----------------------------------------------------------------------------
(* The balances a store holds *)

(* The balances a channel's state has stored for commitment n; number 0 is *)
(* the funding.                                                            *)
BalanceAt(c, st, n) ==
  IF n = 0 THEN BalanceOf(FundingOutput(c)) ELSE BalanceOf(st.commitments[n])

HoldsBalance(s, c, n, balance) ==
  /\ c \in DOMAIN s
  /\ n \in 0 .. s[c].number
  /\ balance = BalanceAt(c, s[c], n)

(* The current balances are those stored for the latest commitment.        *)
LatestStored(s) ==
  \A c \in DOMAIN s : BalanceOf(s[c]) = BalanceAt(c, s[c], s[c].number)

LatestInv == LatestStored(mem) /\ LatestStored(disk)

StoreInv == IInv /\ SignedInv /\ LatestInv

-----------------------------------------------------------------------------
(* Closes and checkpoints *)

(* A close pays what the store holds for its number, and carries for each  *)
(* side the proof that validate_close_proof expects.                       *)
GoodClose(cl) ==
  LET x == cl.parts
  IN  /\ x.channel \in Channels /\ x.key \in CloseKeys
      /\ HoldsBalance(mem, x.channel, x.number, x.amount)
      /\ \A s \in Sides :
           /\ cl.proof[s] = CloseProof(x.channel, s, x.number, x.amount[s], x.key[s])
           /\ CloseProofValid(cl, s, cl.proof[s])

(* A claimed proof is a close proof, determined by its anchor outpoint.    *)
SelfDescribing(p) ==
  p = CloseProof(p.anchor[2], p.anchor[3], p.anchor[4], p.anchor[5], p.anchor[6])

CloseInv ==
  /\ \A cl \in drafts : GoodClose(cl)
  /\ \A id \in DOMAIN closes : GoodClose(closes[id])
  /\ \A s \in Sides : \A p \in claimed[s] : SelfDescribing(p)

(* A checkpoint of a durable state describes what the file holds.          *)
CheckpointInv ==
  \A e \in checkpoints :
    LET cp == e.checkpoint
    IN  /\ CheckpointValid(cp) /\ cp.refers \subseteq OtherStores
        /\ e.safe => /\ HoldsBalance(disk, cp.channel, cp.number, BalanceOf(cp))
                     /\ cp.total = LocalFunding[cp.channel] + RemoteFunding[cp.channel]

-----------------------------------------------------------------------------
(* Reports *)

(* The observations are those of the report accepted last.                 *)
ReportInv ==
  /\ observations \in Seq({observations[j] : j \in DOMAIN observations})
  /\ events = <<>> => observations = <<>>
  /\ observations # <<>> => ObservationReportValid(events, observations)
  /\ \A j \in DOMAIN observations : observations[j].kind \in ObservationKinds

-----------------------------------------------------------------------------
(* The store *)

(* The steps of the life of a channel that touch the commitment store are  *)
(* steps of the store; the others leave it alone.                          *)
LEMMA LifecycleStepIsStoreStep == [LifecycleNext]_allVars => [Next]_vars
<1> SUFFICES ASSUME [LifecycleNext]_allVars PROVE [Next]_vars
  OBVIOUS
<1>1. CASE UNCHANGED allVars
  BY <1>1 DEF allVars
<1>2. CASE StoreStep
  <2>1. ASSUME NEW m \in Moves PROVE m[1] \in Deltas /\ m[2] \in Deltas
    BY CloseAssumption
  <2> QED BY <1>2, <2>1 DEF StoreStep, Next
<1>3. CASE CloseStep
  BY <1>3 DEF CloseStep, RecordClose, RestartAfterClose, Next
<1>4. CASE NewCloseStep
  BY <1>4 DEF NewCloseStep, CooperativeClose, ClaimClose
<1>5. CASE RecoveryStep
  BY <1>5 DEF RecoveryStep, TakeCheckpoint
<1>6. ASSUME NEW id, NEW s, NEW c, RunLifecycle(id, s, c) PROVE [Next]_vars
  BY <1>6 DEF RunLifecycle
<1>7. ASSUME NEW e, NEW okind, NEW source, NEW state, Observe(e, okind, source, state)
      PROVE  [Next]_vars
  BY <1>7 DEF Observe
<1> QED BY <1>1, <1>2, <1>3, <1>4, <1>5, <1>6, <1>7 DEF LifecycleNext

(* initialize_channel and apply_update store the balances they make        *)
(* current; a rename and a restart copy a store.                           *)
LEMMA NextLatest == IInv /\ LatestInv /\ [Next]_vars => LatestInv'
<1> SUFFICES ASSUME IInv, LatestInv, [Next]_vars PROVE LatestInv'
  OBVIOUS
<1> USE DEF LatestInv, LatestStored
<1>1. ASSUME NEW c \in Channels, InitializeChannel(c) PROVE LatestInv'
  <2>1. mem' = Put(mem, c, FundedState(c)) /\ disk' = disk
    BY <1>1 DEF InitializeChannel
  <2>2. BalanceOf(FundedState(c)) = BalanceAt(c, FundedState(c), FundedState(c).number)
    BY DEF FundedState, BalanceAt, BalanceOf, FundingOutput
  <2> QED BY <2>1, <2>2 DEF Put
<1>2. ASSUME NEW r \in requests, ApplyUpdate(r) PROVE LatestInv'
  <2> DEFINE st == mem[r.channel]
             t == Updated(st, r)
  <2>1. /\ r.channel \in DOMAIN mem
        /\ mem' = Put(mem, r.channel, t) /\ disk' = disk
    BY <1>2 DEF ApplyUpdate
  <2>2. st.number \in Nat
    BY <2>1, FundingAssumption DEF IInv, GoodStore, GoodState, IsState, Amount
  <2>3. /\ t.number = st.number + 1
        /\ t.commitments[t.number].local = t.local
        /\ t.commitments[t.number].remote = t.remote
    BY DEF Updated, NextOutput, Put
  <2> HIDE DEF t
  <2>4. BalanceOf(t) = BalanceAt(r.channel, t, t.number)
    BY <2>2, <2>3 DEF BalanceAt, BalanceOf
  <2> QED BY <2>1, <2>4 DEF Put
<1>3. CASE SaveRename
  BY <1>3 DEF SaveRename
<1>4. CASE Restart
  BY <1>4 DEF Restart, ReloadedFrom
<1>5. CASE UNCHANGED <<mem, disk>>
  BY <1>5
<1> QED
  BY <1>1, <1>2, <1>3, <1>4, <1>5 DEF Next, vars, BuildUpdate, SaveWriteTemp

LEMMA StoreInvariance == LifecycleSpec => []StoreInv
<1>1. LifecycleInit => StoreInv
  <2>1. LifecycleInit => Init /\ SignedInv /\ LatestInv
    BY DEF LifecycleInit, Init, SignedInv, SignedStore, LatestInv, LatestStored, EmptyMap
  <2> QED BY <2>1, InitIInv DEF StoreInv
<1>2. StoreInv /\ [Next]_vars => StoreInv'
  BY NextIInv, NextSigned, NextLatest DEF StoreInv
<1> QED BY <1>1, <1>2, LifecycleStepIsStoreStep, PTL DEF LifecycleSpec

(* A channel of a good store holds its balances at numbers and in amounts  *)
(* that fit a u64.                                                         *)
LEMMA HeldBalanceTyped ==
  ASSUME NEW s, GoodStore(s), NEW c \in Channels, NEW n, NEW b,
         HoldsBalance(s, c, n, b)
  PROVE  n \in Amount /\ b.local \in Amount /\ b.remote \in Amount
<1>1. /\ s[c].number \in Amount /\ DOMAIN s[c].commitments = 1 .. s[c].number
      /\ \A m \in DOMAIN s[c].commitments : s[c].commitments[m] \in Commitment
  BY DEF HoldsBalance, GoodStore, GoodState, IsState, IsMap, ChainShape
<1>2. n \in Amount /\ n \in 0 .. s[c].number
  BY <1>1, FundingAssumption DEF HoldsBalance, Amount
<1>3. CASE n = 0
  BY <1>2, <1>3, FundingAssumption DEF HoldsBalance, BalanceAt, BalanceOf, FundingOutput
<1>4. CASE n # 0
  <2>1. n \in DOMAIN s[c].commitments
    BY <1>1, <1>2, <1>4, FundingAssumption DEF Amount
  <2>2. s[c].commitments[n] \in Commitment
    BY <1>1, <2>1
  <2> QED BY <1>2, <1>4, <2>2 DEF HoldsBalance, BalanceAt, BalanceOf, Commitment
<1> QED BY <1>3, <1>4

(* A store that continues another holds every balance the other held.      *)
LEMMA ContinuationHolds ==
  ASSUME NEW s, NEW t, GoodStore(s), GoodStore(t), StoreExtends(t, s),
         NEW c, NEW n, NEW b, HoldsBalance(s, c, n, b)
  PROVE  HoldsBalance(t, c, n, b)
<1>1. c \in DOMAIN s /\ c \in DOMAIN t /\ Extends(t[c], s[c])
  BY DEF HoldsBalance, StoreExtends
<1>2. /\ s[c].number \in Nat /\ t[c].number \in Nat /\ s[c].number <= t[c].number
      /\ DOMAIN s[c].commitments = 1 .. s[c].number
  BY <1>1, FundingAssumption
  DEF GoodStore, GoodState, IsState, ChainShape, Amount, Extends
<1>3. n \in 0 .. s[c].number /\ n \in 0 .. t[c].number
  BY <1>2 DEF HoldsBalance
<1>4. n # 0 => n \in DOMAIN s[c].commitments
  BY <1>2, <1>3
<1>5. BalanceAt(c, t[c], n) = BalanceAt(c, s[c], n)
  BY <1>1, <1>4 DEF BalanceAt, Extends
<1> QED BY <1>1, <1>3, <1>5 DEF HoldsBalance

(* The current balances of a channel are held at its latest number.        *)
LEMMA LatestHeld ==
  ASSUME NEW s, GoodStore(s), LatestStored(s), NEW c \in DOMAIN s
  PROVE  HoldsBalance(s, c, s[c].number, BalanceOf(s[c]))
BY FundingAssumption DEF GoodStore, GoodState, IsState, Amount, LatestStored, HoldsBalance

(* What is held at the latest number are the current balances.             *)
LEMMA HeldAtLatest ==
  ASSUME NEW s, LatestStored(s), NEW c, NEW n, NEW b, HoldsBalance(s, c, n, b),
         n = s[c].number
  PROVE  b = BalanceOf(s[c])
BY DEF HoldsBalance, LatestStored

(* The memory is continued by every step of the store but a restart.       *)
LEMMA StoreStepContinues ==
  ASSUME StoreInv, StoreInv', StoreStep
  PROVE  StoreExtends(mem', mem)
<1>1. GoodStore(mem) /\ StoreExtends(mem, mem)
  BY StoreExtendsReflexive DEF StoreInv, IInv
<1>2. ASSUME NEW c \in Channels, InitializeChannel(c) PROVE StoreExtends(mem', mem)
  BY <1>1, <1>2, PutContinues, FundedIsGood DEF InitializeChannel
<1>3. ASSUME NEW r \in requests, ApplyUpdate(r) PROVE StoreExtends(mem', mem)
  <2>1. /\ r \in Request /\ r.channel \in DOMAIN mem
        /\ UpdateAccepted(mem[r.channel], r) /\ GoodState(mem[r.channel])
        /\ mem' = Put(mem, r.channel, Updated(mem[r.channel], r))
    BY <1>1, <1>3 DEF ApplyUpdate, StoreInv, IInv, GoodStore
  <2>2. /\ GoodState(Updated(mem[r.channel], r))
        /\ Extends(Updated(mem[r.channel], r), mem[r.channel])
    BY <2>1, UpdatedIsGood
  <2> QED BY <1>1, <2>1, <2>2, PutContinues
<1>4. CASE UNCHANGED mem
  BY <1>1, <1>4
<1> QED
  BY <1>2, <1>3, <1>4 DEF StoreStep, BuildUpdate, SaveWriteTemp, SaveRename

-----------------------------------------------------------------------------
(* Closes *)

(* A close that cooperative_close builds from the current state of a       *)
(* channel, and validates, is good.                                        *)
LEMMA BuiltCloseIsGood ==
  ASSUME StoreInv, NEW c \in Channels, NEW keys \in CloseKeys, c \in DOMAIN mem,
         CloseValid(CloseOf(c, mem[c], keys))
  PROVE  GoodClose(CloseOf(c, mem[c], keys))
<1> DEFINE cl == CloseOf(c, mem[c], keys)
<1>1. /\ cl.parts.channel = c /\ cl.parts.key = keys
      /\ cl.parts.number = mem[c].number
      /\ cl.parts.amount = BalanceOf(mem[c])
      /\ \A s \in Sides :
           cl.proof[s] = CloseProof(c, s, cl.parts.number, cl.parts.amount[s], keys[s])
  BY DEF CloseOf, BalanceOf
<1>2. \A s \in Sides : CloseProofValid(cl, s, cl.proof[s])
  BY DEF CloseValid
<1> HIDE DEF cl
<1>3. HoldsBalance(mem, c, mem[c].number, BalanceOf(mem[c]))
  BY LatestHeld DEF StoreInv, LatestInv, IInv
<1>4. GoodClose(cl)
  BY <1>1, <1>2, <1>3 DEF GoodClose
<1> QED BY <1>4 DEF cl

(* A good close stays good while the store only continues.                 *)
LEMMA GoodCloseContinues ==
  ASSUME StoreInv, StoreInv', StoreExtends(mem', mem), NEW cl, GoodClose(cl)
  PROVE  GoodClose(cl)'
<1>1. HoldsBalance(mem', cl.parts.channel, cl.parts.number, cl.parts.amount)
  <2>1. GoodStore(mem) /\ GoodStore(mem')
    BY DEF StoreInv, IInv
  <2> QED BY <2>1, ContinuationHolds DEF GoodClose
<1> QED BY <1>1 DEF GoodClose

(* The proofs of a good close name themselves by their anchor.             *)
LEMMA GoodCloseDescribes ==
  ASSUME NEW cl, GoodClose(cl), NEW s \in Sides
  PROVE  SelfDescribing(cl.proof[s])
<1>1. ASSUME NEW c, NEW n, NEW a, NEW k
      PROVE  SelfDescribing(CloseProof(c, s, n, a, k))
  BY DEF SelfDescribing, CloseProof, ProofFile, CloseAnchor
<1> QED BY <1>1 DEF GoodClose

LEMMA NextClose ==
  ASSUME StoreInv, StoreInv', CloseInv, [LifecycleNext]_allVars
  PROVE  CloseInv'
<1>1. StoreExtends(mem, mem)
  BY StoreExtendsReflexive DEF StoreInv, IInv
<1>2. ASSUME StoreExtends(mem', mem), UNCHANGED closeVars PROVE CloseInv'
  BY <1>2, GoodCloseContinues DEF CloseInv, closeVars, SelfDescribing
<1>3. ASSUME UNCHANGED mem, NEW cl, GoodClose(cl) PROVE GoodClose(cl)'
  BY <1>1, <1>3, GoodCloseContinues
<1>4. CASE StoreStep
  BY <1>2, <1>4, StoreStepContinues DEF StoreStep
<1>5. ASSUME NEW cl \in drafts, RecordClose(cl) PROVE CloseInv'
  <2>1. closes' = Put(closes, cl.id, cl) /\ UNCHANGED <<mem, drafts, claimed>>
    BY <1>5 DEF RecordClose, vars
  <2>2. \A id \in DOMAIN closes' : closes'[id] = cl \/ (id \in DOMAIN closes /\ closes'[id] = closes[id])
    BY <2>1 DEF Put
  <2>3. \A id \in DOMAIN closes' : GoodClose(closes'[id])
    BY <2>2 DEF CloseInv
  <2>4. \A id \in DOMAIN closes' : GoodClose(closes[id])'
    BY <1>3, <2>1, <2>3 DEF CloseInv
  <2> QED BY <1>3, <2>1, <2>4 DEF CloseInv, SelfDescribing
<1>6. CASE RestartAfterClose
  BY <1>6 DEF RestartAfterClose, CloseInv, EmptyMap, SelfDescribing
<1>7. ASSUME NEW c \in Channels, NEW keys \in CloseKeys, CooperativeClose(c, keys)
      PROVE  CloseInv'
  <2>1. /\ c \in DOMAIN mem /\ CloseValid(CloseOf(c, mem[c], keys))
        /\ drafts' = drafts \cup {CloseOf(c, mem[c], keys)}
        /\ UNCHANGED <<mem, closes, claimed>>
    BY <1>7 DEF CooperativeClose, vars
  <2>2. \A cl \in drafts' : GoodClose(cl)
    BY <2>1, BuiltCloseIsGood DEF CloseInv
  <2> QED BY <1>3, <2>1, <2>2 DEF CloseInv, SelfDescribing
<1>8. ASSUME NEW id \in DOMAIN closes, ClaimClose(id) PROVE CloseInv'
  <2>1. /\ claimed' = [s \in Sides |-> claimed[s] \cup {closes[id].proof[s]}]
        /\ UNCHANGED <<mem, drafts, closes>>
    BY <1>8 DEF ClaimClose, vars
  <2>2. ASSUME NEW s \in Sides, NEW p \in claimed'[s] PROVE SelfDescribing(p)
    <3>1. p \in claimed[s] \/ p = closes[id].proof[s]
      BY <2>1, <2>2
    <3> QED BY <3>1, GoodCloseDescribes DEF CloseInv
  <2> QED BY <1>3, <2>1, <2>2 DEF CloseInv, SelfDescribing
<1>9. CASE UNCHANGED <<vars, closeVars>>
  BY <1>1, <1>2, <1>9 DEF vars
<1> QED
  BY <1>4, <1>5, <1>6, <1>7, <1>8, <1>9
  DEF LifecycleNext, allVars, CloseStep, NewCloseStep, RecoveryStep, TakeCheckpoint,
      RunLifecycle, Observe

LEMMA CloseInvariance == LifecycleSpec => []CloseInv
<1>1. LifecycleInit => CloseInv
  BY DEF LifecycleInit, CloseInit, CloseInv, EmptyMap
<1> QED BY <1>1, NextClose, StoreInvariance, PTL DEF LifecycleSpec

(* However late a close is recorded after it was built, it pays out the    *)
(* balances the store committed to at its number; number 0 is the funding. *)
THEOREM ClosesPayCommitments == LifecycleSpec => []ClosePaysCommitted
<1>1. StoreInv /\ CloseInv => ClosePaysCommitted
  <2> SUFFICES ASSUME StoreInv, CloseInv, NEW id \in DOMAIN closes
               PROVE  LET x == closes[id].parts
                          st == mem[x.channel]
                      IN  /\ x.channel \in DOMAIN mem /\ x.number <= st.number
                          /\ x.amount = IF x.number = 0
                               THEN [local |-> LocalFunding[x.channel],
                                     remote |-> RemoteFunding[x.channel]]
                               ELSE CommittedAt(st, x.number)
    BY DEF ClosePaysCommitted
  <2> DEFINE x == closes[id].parts
             st == mem[x.channel]
  <2>1. HoldsBalance(mem, x.channel, x.number, x.amount)
    BY DEF CloseInv, GoodClose
  <2>2. x.channel \in DOMAIN mem /\ x.number <= st.number
    BY <2>1, FundingAssumption
    DEF HoldsBalance, StoreInv, IInv, GoodStore, GoodState, IsState, Amount
  <2>3. CASE x.number = 0
    BY <2>1, <2>2, <2>3 DEF HoldsBalance, BalanceAt, BalanceOf, FundingOutput
  <2>4. CASE x.number # 0 /\ x.number = st.number
    <3>1. x.amount = BalanceOf(st)
      BY <2>1, <2>4, HeldAtLatest DEF StoreInv, LatestInv
    <3> QED BY <2>2, <2>4, <3>1 DEF CommittedAt, BalanceOf
  <2>5. CASE x.number # 0 /\ x.number # st.number
    BY <2>1, <2>2, <2>5 DEF HoldsBalance, BalanceAt, BalanceOf, CommittedAt
  <2> QED BY <2>3, <2>4, <2>5
<1> QED BY <1>1, StoreInvariance, CloseInvariance, PTL

(* Whatever close proofs a wallet already holds, closes of commitments     *)
(* lost in a crash included, it can import its proof of every recorded     *)
(* close: the anchor, and so the proof id, determines the proof.           *)
THEOREM ClosesClaimable == LifecycleSpec => []CloseClaimable
<1>1. CloseInv => CloseClaimable
  <2> SUFFICES ASSUME CloseInv, NEW id \in DOMAIN closes, NEW side \in Sides
               PROVE  Claimable(side, closes[id].proof[side])
    BY DEF CloseClaimable
  <2> DEFINE p == closes[id].proof[side]
  <2>1. SelfDescribing(p) /\ CloseProofValid(closes[id], side, p)
    BY GoodCloseDescribes DEF CloseInv, GoodClose
  <2> HIDE DEF p
  <2>2. VerifySemanticAncestry(p, DefaultContext)
    BY <2>1 DEF CloseProofValid, VerifySemanticAncestry, ForClose, DefaultContext, Expected
  <2>3. ASSUME NEW q \in claimed[side], ProofId(q) = ProofId(p) PROVE q = p
    <3>1. SelfDescribing(q)
      BY DEF CloseInv
    <3>2. q.anchor = p.anchor
      BY <2>3 DEF ProofId
    <3> QED BY <2>1, <3>1, <3>2 DEF SelfDescribing
  <2>4. Claimable(side, p)
    BY <2>2, <2>3 DEF Claimable
  <2> QED BY <2>4 DEF p
<1> QED BY <1>1, CloseInvariance, PTL

(* validate_close_proof refuses the proof of another commitment of the     *)
(* channel, also when it carries the same balance to the same key: the     *)
(* commitment number is in the anchor it expects.                          *)
THEOREM ObsoleteProofsRefused == LifecycleSpec => []ObsoleteProofRefused
<1>1. StoreInv /\ CloseInv => ObsoleteProofRefused
  <2> SUFFICES ASSUME StoreInv, CloseInv, NEW id \in DOMAIN closes, NEW d \in drafts,
                      NEW side \in Sides,
                      d.parts.number # closes[id].parts.number,
                      CloseProofValid(closes[id], side, d.proof[side])
               PROVE  FALSE
    BY DEF ObsoleteProofRefused
  <2> DEFINE x == closes[id].parts
             y == d.parts
             anchor == CloseAnchor(x.channel, side, x.number, x.amount[side], x.key[side])
  <2>1. GoodClose(closes[id]) /\ GoodClose(d)
    BY DEF CloseInv
  <2>2. anchor # None
    <3>1. x.channel \in Channels /\ x.key \in CloseKeys
      BY <2>1 DEF GoodClose
    <3>2. HoldsBalance(mem, x.channel, x.number, x.amount)
      BY <2>1 DEF GoodClose
    <3>3. x.number \in Amount /\ x.amount.local \in Amount /\ x.amount.remote \in Amount
      BY <3>1, <3>2, HeldBalanceTyped DEF StoreInv, IInv
    <3>4. x.amount[side] \in Amount
      BY <3>3 DEF Sides
    <3> QED BY <3>1, <3>3, <3>4, AnchorAssumption
  <2>3. d.proof[side].anchor = CloseAnchor(y.channel, side, y.number, y.amount[side], y.key[side])
    <3>1. d.proof[side] = CloseProof(y.channel, side, y.number, y.amount[side], y.key[side])
      BY <2>1 DEF GoodClose
    <3> QED BY <3>1 DEF CloseProof, ProofFile
  <2>4. Expected(anchor, d.proof[side].anchor)
    BY DEF CloseProofValid, VerifySemanticAncestry, ForClose, DefaultContext
  <2>5. anchor = CloseAnchor(y.channel, side, y.number, y.amount[side], y.key[side])
    BY <2>2, <2>3, <2>4 DEF Expected
  <2> QED BY <2>5 DEF CloseAnchor
<1> QED BY <1>1, StoreInvariance, CloseInvariance, PTL

-----------------------------------------------------------------------------
(* Checkpoints *)

(* A store that continues the file agrees with a checkpoint of a durable   *)
(* state until the channel moves on.                                       *)
LEMMA TakenCheckpointIsGood ==
  ASSUME StoreInv, NEW stage, NEW c \in Channels, c \in DOMAIN mem,
         c \in DOMAIN disk /\ disk[c] = mem[c]
  PROVE  LET cp == Checkpoint(stage, c, mem[c])
         IN  /\ HoldsBalance(disk, cp.channel, cp.number, BalanceOf(cp))
             /\ cp.total = LocalFunding[cp.channel] + RemoteFunding[cp.channel]
<1> DEFINE cp == Checkpoint(stage, c, mem[c])
<1>1. /\ cp.channel = c /\ cp.number = mem[c].number /\ cp.total = mem[c].total
      /\ BalanceOf(cp) = BalanceOf(mem[c])
  BY DEF Checkpoint, BalanceOf
<1>2. HoldsBalance(disk, c, disk[c].number, BalanceOf(disk[c]))
  BY LatestHeld DEF StoreInv, IInv, LatestInv
<1>3. mem[c].total = LocalFunding[c] + RemoteFunding[c]
  BY DEF StoreInv, SignedInv, SignedStore, SignedState
<1> QED BY <1>1, <1>2, <1>3

LEMMA NextCheckpoint ==
  ASSUME StoreInv, StoreInv', CheckpointInv, StoreExtends(disk', disk),
         [LifecycleNext]_allVars
  PROVE  CheckpointInv'
<1>1. ASSUME NEW c, NEW n, NEW b, HoldsBalance(disk, c, n, b)
      PROVE  HoldsBalance(disk', c, n, b)
  <2>1. GoodStore(disk) /\ GoodStore(disk')
    BY DEF StoreInv, IInv
  <2> QED BY <1>1, <2>1, ContinuationHolds
<1>2. CASE UNCHANGED checkpoints
  BY <1>1, <1>2 DEF CheckpointInv
<1>3. ASSUME NEW stage \in TakenStages, NEW c \in Channels, TakeCheckpoint(stage, c)
      PROVE  CheckpointInv'
  <2> DEFINE cp == Checkpoint(stage, c, mem[c])
             safe == c \in DOMAIN disk /\ disk[c] = mem[c]
             e == [checkpoint |-> cp, safe |-> safe]
  <2>1. /\ c \in DOMAIN mem /\ CheckpointValid(cp)
        /\ checkpoints' = checkpoints \cup {e}
    BY <1>3 DEF TakeCheckpoint
  <2>2. safe => /\ HoldsBalance(disk, cp.channel, cp.number, BalanceOf(cp))
                /\ cp.total = LocalFunding[cp.channel] + RemoteFunding[cp.channel]
    BY <2>1, TakenCheckpointIsGood
  <2>3. e.checkpoint = cp /\ e.safe = safe
    OBVIOUS
  <2>4. cp.refers \subseteq OtherStores
    <3>1. RefersTo(stage) \subseteq {"rfq", "htlc", "payment"}
      BY RecoveryAssumption DEF RefersTo, Stages
    <3> QED BY <3>1 DEF Checkpoint, OtherStores
  <2> HIDE DEF cp, safe, e
  <2> QED BY <1>1, <2>1, <2>2, <2>3, <2>4 DEF CheckpointInv
<1> QED
  BY <1>2, <1>3
  DEF LifecycleNext, allVars, lifecycleVars, RecoveryStep, RunLifecycle, Observe

LEMMA CheckpointInvariance == LifecycleSpec => []CheckpointInv
<1>1. LifecycleInit => CheckpointInv
  BY DEF LifecycleInit, RecoveryInit, CheckpointInv
<1>2. StoreInv /\ StoreInv' /\ [Next]_vars => StoreExtends(disk', disk)
  <2> SUFFICES ASSUME StoreInv, StoreInv', [Next]_vars PROVE StoreExtends(disk', disk)
    OBVIOUS
  <2>1. CASE SaveRename
    BY <2>1 DEF SaveRename, StoreInv, IInv, MemoryContinuesDisk
  <2>2. CASE UNCHANGED disk
    BY <2>2, StoreExtendsReflexive DEF StoreInv, IInv
  <2> QED
    BY <2>1, <2>2 DEF Next, vars, InitializeChannel, BuildUpdate, ApplyUpdate,
                      SaveWriteTemp, Restart
<1> QED
  BY <1>1, <1>2, NextCheckpoint, StoreInvariance, LifecycleStepIsStoreStep, PTL
  DEF LifecycleSpec

(* The checks of the other stores refuse for a record that is not there,   *)
(* and only for one.                                                       *)
LEMMA RecordChecks ==
  ASSUME NEW cp, cp.refers \subseteq OtherStores, NEW others \in Holdings
  PROVE  LET outcome == AfterRecord("rfq", cp, others,
                          AfterRecord("htlc", cp, others,
                            AfterRecord("payment", cp, others, "Recovered")))
         IN  IF \A store \in cp.refers : others[store] = "holds"
               THEN outcome = "Recovered"
             ELSE \E store \in cp.refers : outcome \in {Missing[store], Unknown[store]}
<1>1. \A store \in cp.refers : store \in {"rfq", "htlc", "payment"}
  BY DEF OtherStores
<1> QED BY <1>1 DEF AfterRecord

(* A checkpoint of a state that had reached the file never misleads,       *)
(* across any crash: once the channel has moved on it is refused as stale, *)
(* whatever the other stores hold, and until then the commitment store     *)
(* never refuses it, so that it recovers with exactly the other stores     *)
(* that hold its records.                                                  *)
THEOREM SafeCheckpointsRecover == LifecycleSpec => []SafeCheckpointRecovers
<1>1. StoreInv /\ CheckpointInv => SafeCheckpointRecovers
  <2> SUFFICES ASSUME StoreInv, CheckpointInv, NEW e \in checkpoints,
                      NEW others \in Holdings, e.safe
               PROVE  LET cp == e.checkpoint
                          outcome == RecoveryOutcome(cp, mem, others)
                      IN  IF mem[cp.channel].number # cp.number
                            THEN outcome = "StaleCheckpoint"
                          ELSE IF \A store \in cp.refers : others[store] = "holds"
                            THEN outcome = "Recovered"
                          ELSE \E store \in cp.refers :
                                 outcome \in {Missing[store], Unknown[store]}
    BY DEF SafeCheckpointRecovers
  <2> DEFINE cp == e.checkpoint
             c == cp.channel
             after == AfterRecord("rfq", cp, others,
                        AfterRecord("htlc", cp, others,
                          AfterRecord("payment", cp, others, "Recovered")))
  <2>1. /\ CheckpointValid(cp) /\ HoldsBalance(disk, c, cp.number, BalanceOf(cp))
        /\ cp.total = LocalFunding[c] + RemoteFunding[c]
        /\ cp.refers \subseteq OtherStores
    BY DEF CheckpointInv
  <2>2. HoldsBalance(mem, c, cp.number, BalanceOf(cp))
    BY <2>1, ContinuationHolds DEF StoreInv, IInv, MemoryContinuesDisk
  <2>3. c \in DOMAIN mem
    BY <2>2 DEF HoldsBalance
  <2>4. mem[c].total = cp.total
    BY <2>1, <2>3 DEF StoreInv, SignedInv, SignedStore, SignedState
  <2>5. mem[c].number = cp.number =>
          mem[c].local = cp.local /\ mem[c].remote = cp.remote
    BY <2>2, HeldAtLatest DEF StoreInv, LatestInv, BalanceOf
  <2>6. RecoveryOutcome(cp, mem, others) =
          IF mem[c].number # cp.number THEN "StaleCheckpoint" ELSE after
    BY <2>1, <2>3, <2>4, <2>5 DEF RecoveryOutcome
  <2>7. IF \A store \in cp.refers : others[store] = "holds" THEN after = "Recovered"
        ELSE \E store \in cp.refers : after \in {Missing[store], Unknown[store]}
    BY <2>1, RecordChecks
  <2> HIDE DEF after
  <2> QED BY <2>6, <2>7
<1> QED BY <1>1, StoreInvariance, CheckpointInvariance, PTL

-----------------------------------------------------------------------------
(* Reports *)

LEMMA NextReport == ReportInv /\ [LifecycleNext]_allVars => ReportInv'
<1> SUFFICES ASSUME ReportInv, [LifecycleNext]_allVars PROVE ReportInv'
  OBVIOUS
<1>1. CASE UNCHANGED <<events, observations>>
  BY <1>1 DEF ReportInv
<1>2. ASSUME NEW id, NEW s, NEW c, RunLifecycle(id, s, c), events = <<>>
      PROVE  ReportInv'
  <2>1. observations = <<>> /\ observations' = <<>>
    BY <1>2 DEF ReportInv, RunLifecycle
  <2> QED BY <2>1 DEF ReportInv
<1>3. ASSUME NEW e, NEW okind \in ObservationKinds, NEW source, NEW state,
             Observe(e, okind, source, state)
      PROVE  ReportInv'
  <2> DEFINE o == ObservationOf(e, okind, source, state)
  <2>1. /\ observations' = Append(observations, o) /\ events' = events
        /\ ObservationReportValid(events', observations')
    BY <1>3 DEF Observe
  <2>2. o.kind = okind
    BY DEF ObservationOf
  <2>3. events' # <<>>
    BY <2>1 DEF ObservationReportValid, ReportValid
  <2>4. /\ DOMAIN observations' = 1 .. Len(observations) + 1
        /\ \A j \in DOMAIN observations' :
             observations'[j] = o \/ (j \in DOMAIN observations /\ observations'[j] = observations[j])
        /\ observations' \in Seq({observations'[j] : j \in DOMAIN observations'})
    <3> DEFINE S == {observations[j] : j \in DOMAIN observations} \cup {o}
    <3>1. observations \in Seq(S) /\ o \in S
      BY DEF ReportInv
    <3> HIDE DEF S, o
    <3> QED BY <2>1, <3>1
  <2>5. ASSUME NEW j \in DOMAIN observations'
        PROVE  observations'[j].kind \in ObservationKinds
    BY <2>2, <2>4 DEF ReportInv
  <2> QED BY <2>1, <2>3, <2>4, <2>5 DEF ReportInv
<1> QED
  BY <1>1, <1>2, <1>3
  DEF LifecycleNext, allVars, lifecycleVars, RecoveryStep, TakeCheckpoint

LEMMA ReportInvariance == LifecycleSpec => []ReportInv
<1>1. LifecycleInit => ReportInv
  BY DEF LifecycleInit, ReportInv
<1> QED BY <1>1, NextReport, PTL DEF LifecycleSpec

(* Every accepted observation report is of valid events and observations,  *)
(* and the event an observation is of is the only one it can be taken for. *)
LEMMA ObservedEvent ==
  ASSUME ReportInv, NEW i \in DOMAIN events, NEW j \in DOMAIN observations,
         Observes(observations[j], events[i])
  PROVE  LET o == observations[j]
             e == events[i]
         IN  /\ ObservationValid(o) /\ e.status = RequiredStatus(e.kind)
             /\ e.kind = o.eventKind /\ e.status = o.eventStatus
<1>1. ObservationReportValid(events, observations)
  BY DEF ReportInv
<1>2. ObservationValid(observations[j])
  BY <1>1 DEF ObservationReportValid
<1>3. PICK k \in DOMAIN events :
        /\ EventId(events[k]) = observations[j].event
        /\ events[k].kind = observations[j].eventKind
        /\ events[k].status = observations[j].eventStatus
  BY <1>1 DEF ObservationReportValid
<1>4. events[k].kind = events[i].kind /\ k = i
  BY <1>1, <1>3 DEF ObservationReportValid, ReportValid, DistinctIds, Observes, EventId
<1>5. events[i].status = RequiredStatus(events[i].kind)
  BY <1>1 DEF ObservationReportValid, ReportValid, EventValid
<1> QED BY <1>2, <1>3, <1>4, <1>5

(* The tables agree: an observation of an event that is no refusal is only *)
(* valid in the confirmed state.                                           *)
LEMMA RecoveryObservedConfirmed ==
  ASSUME NEW o, ObservationValid(o), o.eventStatus = RequiredStatus(o.eventKind),
         o.eventStatus # "Refused"
  PROVE  o.anchorState = "Confirmed"
<1>1. /\ MatchesEventKind(o.kind, o.eventKind)
      /\ AnchorStateAllowed(o.kind, o.anchorState)
      /\ o.eventKind \notin RefusalKinds
  BY DEF ObservationValid, RequiredStatus, RefusalKinds, CloseKinds, RecoveryKinds
<1>2. o.kind \notin {"FailedSweep", "BtcOnlySweepRefusal", "StaleProofOwnershipAnchor",
                     "MissingProofOwnershipRefusal"}
  BY <1>1 DEF MatchesEventKind, RefusalKinds
<1> QED BY <1>1, <1>2 DEF AnchorStateAllowed

(* An observed event counts: in an accepted report, whatever the watchers  *)
(* reported and in whatever anchor states, an event that is not a refusal  *)
(* is observed confirmed, and a refusal with its reason.                   *)
THEOREM ObservationsCount == LifecycleSpec => []ObservedCounts
<1>1. ReportInv => ObservedCounts
  <2> SUFFICES ASSUME ReportInv, NEW i \in DOMAIN events, NEW j \in DOMAIN observations,
                      Observes(observations[j], events[i])
               PROVE  /\ RecoveryConfirmed(<<events[i]>>, observations)
                      /\ RefusalsPresent(<<events[i]>>, observations)
    BY DEF ObservedCounts
  <2> DEFINE o == observations[j]
             e == events[i]
  <2>1. /\ ObservationValid(o) /\ e.status = RequiredStatus(e.kind)
        /\ e.kind = o.eventKind /\ e.status = o.eventStatus
    BY ObservedEvent
  <2>2. e.status # "Refused" => o.anchorState = "Confirmed"
    BY <2>1, RecoveryObservedConfirmed
  <2>3. e.status = "Refused" => o.eventStatus = "Refused" /\ o.reason # NoValue
    BY <2>1 DEF ObservationValid
  <2>4. \A k \in DOMAIN <<e>> : <<e>>[k] = e
    OBVIOUS
  <2>5. RecoveryConfirmed(<<e>>, observations)
    BY <2>2, <2>4 DEF RecoveryConfirmed
  <2>6. RefusalsPresent(<<e>>, observations)
    BY <2>3, <2>4 DEF RefusalsPresent
  <2> QED BY <2>5, <2>6
<1> QED BY <1>1, ReportInvariance, PTL

(* The kinds of observations, written out. *)
LEMMA ObservationKindsListed ==
  ObservationKinds =
    {"CooperativeCloseAnchor", "UnilateralCommitmentAnchor", "SecondLevelHtlcAnchor",
     "FinalSweepAnchor", "FailedSweep", "BtcOnlySweepRefusal",
     "StaleProofOwnershipAnchor", "MissingProofOwnershipRefusal", "RestartEvidence"}
<1>1. /\ ObservationKind("CooperativeCloseLocal") = "CooperativeCloseAnchor"
      /\ ObservationKind("CooperativeCloseRemote") = "CooperativeCloseAnchor"
      /\ ObservationKind("UnilateralCommitment") = "UnilateralCommitmentAnchor"
      /\ ObservationKind("SecondLevelHtlcSuccess") = "SecondLevelHtlcAnchor"
      /\ ObservationKind("SecondLevelHtlcTimeout") = "SecondLevelHtlcAnchor"
      /\ ObservationKind("FinalSweep") = "FinalSweepAnchor"
      /\ ObservationKind("FailedSweep") = "FailedSweep"
      /\ ObservationKind("BtcOnlySweepRefusal") = "BtcOnlySweepRefusal"
      /\ ObservationKind("StaleProofOwnershipRefusal") = "StaleProofOwnershipAnchor"
      /\ ObservationKind("MissingProofOwnershipRefusal") = "MissingProofOwnershipRefusal"
      /\ ObservationKind("RestartRecovery") = "RestartEvidence"
  BY DEF ObservationKind, CloseKinds
<1>2. EventKinds =
        {"CooperativeCloseLocal", "CooperativeCloseRemote", "UnilateralCommitment",
         "SecondLevelHtlcSuccess", "SecondLevelHtlcTimeout", "FinalSweep",
         "FailedSweep", "BtcOnlySweepRefusal", "StaleProofOwnershipRefusal",
         "MissingProofOwnershipRefusal", "RestartRecovery"}
  BY DEF EventKinds, CloseKinds, RecoveryKinds, RefusalKinds
<1> QED BY <1>1, <1>2 DEF ObservationKinds

(* The callback kind chosen for a valid observation is one that matches it. *)
LEMMA CallbackMatches ==
  ASSUME NEW o, ObservationValid(o), o.kind \in ObservationKinds
  PROVE  MatchesObservation(CallbackKind(o), o)
<1>1. o.source = RequiredSource(o.kind)
  BY DEF ObservationValid
<1>2. CASE o.kind = "FinalSweepAnchor"
  BY <1>1, <1>2 DEF CallbackKind, MatchesObservation, RequiredSource
<1>3. CASE o.kind \in {"FailedSweep", "BtcOnlySweepRefusal"}
  BY <1>1, <1>3 DEF CallbackKind, MatchesObservation, RequiredSource
<1>4. CASE o.kind = "MissingProofOwnershipRefusal"
  BY <1>1, <1>4 DEF CallbackKind, MatchesObservation, RequiredSource
<1>5. CASE o.kind = "RestartEvidence"
  BY <1>1, <1>5 DEF CallbackKind, MatchesObservation, RequiredSource
<1>6. CASE o.kind \in RequiresAnchorOutpoint \ {"FinalSweepAnchor"}
  <2>1. o.source = "ChainWatcher" /\ CallbackKind(o) = "ChainWatcherAnchor"
    BY <1>1, <1>6 DEF CallbackKind, RequiredSource, RequiresAnchorOutpoint
  <2> QED BY <1>6, <2>1 DEF MatchesObservation
<1> QED
  BY <1>2, <1>3, <1>4, <1>5, <1>6, ObservationKindsListed DEF RequiresAnchorOutpoint

(* An observation of a recovered asset proof is confirmed. *)
LEMMA RecoveredIsConfirmed ==
  ASSUME NEW o, ObservationValid(o), o.eventStatus = "AssetProofRecovered"
  PROVE  o.anchorState = "Confirmed"
<1>1. /\ o.eventStatus = ObservedStatus(o.kind)
      /\ AnchorStateAllowed(o.kind, o.anchorState)
  BY DEF ObservationValid
<1>2. o.kind \in {"UnilateralCommitmentAnchor", "SecondLevelHtlcAnchor", "FinalSweepAnchor"}
  BY <1>1 DEF ObservedStatus
<1> QED BY <1>1, <1>2 DEF AnchorStateAllowed

(* An accepted observation report gets, for a valid chain snapshot and for *)
(* no other, a callback report that is accepted and binds all of it.       *)
LEMMA CallbacksAccepted ==
  ASSUME NEW evs, NEW obs, NEW s, ObservationReportValid(evs, obs),
         \A j \in DOMAIN obs : obs[j].kind \in ObservationKinds,
         \E j \in DOMAIN obs : TRUE
  PROVE  LET cbs == CallbacksOf(obs, s)
         IN  /\ CallbackReportValid(evs, obs, s, cbs) <=> SnapshotValid(s)
             /\ CallbacksBound(obs, cbs)
<1> DEFINE cbs == CallbacksOf(obs, s)
<1>1. \A j \in DOMAIN obs : ObservationValid(obs[j])
  BY DEF ObservationReportValid
<1>2. /\ DOMAIN cbs = DOMAIN obs
      /\ \A j \in DOMAIN obs : cbs[j] = CallbackOf(obs[j], s)
  BY DEF CallbacksOf
<1> HIDE DEF cbs
<1>3. ASSUME NEW j \in DOMAIN obs PROVE Binds(cbs[j], obs[j])
  <2>1. MatchesObservation(CallbackKind(obs[j]), obs[j])
    BY <1>1, CallbackMatches
  <2> QED BY <1>2, <2>1 DEF Binds, CallbackOf
<1>4. DistinctIds(cbs, CallbackId)
  <2> SUFFICES ASSUME NEW i \in DOMAIN cbs, NEW j \in DOMAIN cbs, cbs[i] = cbs[j]
               PROVE  i = j
    BY DEF DistinctIds, CallbackId
  <2>1. ObservationId(obs[i]) = ObservationId(obs[j])
    BY <1>2 DEF CallbackOf
  <2> QED BY <1>2, <2>1 DEF ObservationReportValid, DistinctIds
<1>5. cbs # <<>>
  <2>1. PICK j \in DOMAIN cbs : TRUE
    BY <1>2
  <2> QED BY <2>1
<1>6. \A j \in DOMAIN cbs :
        /\ cbs[j].height = s.observed /\ cbs[j].block = s.best
        /\ Binds(cbs[j], obs[j])
        /\ obs[j].eventStatus = "AssetProofRecovered" => obs[j].anchorState = "Confirmed"
  BY <1>1, <1>2, <1>3, RecoveredIsConfirmed DEF CallbackOf
<1>7. CallbackReportValid(evs, obs, s, cbs) <=> SnapshotValid(s)
  BY <1>2, <1>4, <1>5, <1>6 DEF CallbackReportValid
<1>8. CallbacksBound(obs, cbs)
  BY <1>2, <1>3 DEF CallbacksBound
<1> QED BY <1>7, <1>8 DEF cbs

(* Every accepted observation report gets, for a valid chain snapshot and  *)
(* for no other, a callback report that is accepted and binds all of it.   *)
THEOREM CallbacksCover == LifecycleSpec => []CallbacksCoverObservations
<1>1. ReportInv => CallbacksCoverObservations
  <2> SUFFICES ASSUME ReportInv, observations # <<>>, NEW s \in Snapshots
               PROVE  LET cbs == CallbacksOf(observations, s)
                      IN  /\ CallbackReportValid(events, observations, s, cbs)
                               <=> SnapshotValid(s)
                          /\ CallbacksBound(observations, cbs)
    BY DEF CallbacksCoverObservations
  <2>1. \E j \in DOMAIN observations : TRUE
    BY DEF ReportInv
  <2> QED BY <2>1, CallbacksAccepted DEF ReportInv
<1> QED BY <1>1, ReportInvariance, PTL

-----------------------------------------------------------------------------
(* Replay of a fixed list of records *)

(* The recursive function of the loop over the records. *)
TurnOf(x, r) == CHOOSE next \in {Turn(h, r) : h \in {x}} : TRUE
ReplayedTo(after, records, m) ==
  after = [n \in 0..m |-> IF n = 0 THEN Started ELSE TurnOf(after[n - 1], records[n])]

LEMMA ReplayIsChoice ==
  ASSUME NEW records
  PROVE  Replay(records) =
           (CHOOSE after : ReplayedTo(after, records, Len(records)))[Len(records)]
BY Zenon DEF Replay, ReplayedTo, TurnOf

LEMMA ReplayExists ==
  ASSUME NEW records, NEW m \in Nat
  PROVE  \E after : ReplayedTo(after, records, m)
<1> DEFINE N == {n \in Nat : \E after : ReplayedTo(after, records, n)}
<1>1. 0 \in N
  <2> DEFINE f == [n \in 0 .. 0 |-> Started]
  <2>1. ReplayedTo(f, records, 0)
    BY DEF ReplayedTo
  <2> QED
    BY <2>1
<1>2. ASSUME NEW n \in Nat, n \in N PROVE n + 1 \in N
  <2>1. PICK f : ReplayedTo(f, records, n)
    BY <1>2
  <2> DEFINE g == [k \in 0 .. n + 1 |->
                     IF k = 0 THEN Started ELSE TurnOf(f[k - 1], records[k])]
  <2>2. \A k \in 0 .. n : g[k] = f[k]
    BY <2>1 DEF ReplayedTo
  <2>3. \A k \in 0 .. n + 1 : k # 0 => k - 1 \in 0 .. n
    OBVIOUS
  <2>4. g = [k \in 0 .. n + 1 |->
               IF k = 0 THEN Started ELSE TurnOf(g[k - 1], records[k])]
    BY <2>2, <2>3
  <2>5. ReplayedTo(g, records, n + 1)
    BY <2>4, Zenon DEF ReplayedTo
  <2> QED
    BY <2>5
<1> HIDE DEF N
<1>3. \A n \in Nat : n \in N
  BY <1>1, <1>2, NumberInduction
<1> QED
  BY <1>3 DEF N

(* Each record is given to what the records before it have left. *)
LEMMA ReplayTurns ==
  ASSUME NEW records, Len(records) \in Nat
  PROVE  \E after :
           /\ after[0] = Started
           /\ \A n \in 1 .. Len(records) : after[n] = Turn(after[n - 1], records[n])
           /\ Replay(records) = after[Len(records)]
<1> DEFINE m == Len(records)
           after == CHOOSE g : ReplayedTo(g, records, m)
<1>1. ReplayedTo(after, records, m)
  BY ReplayExists
<1>2. Replay(records) = after[m]
  BY ReplayIsChoice
<1> HIDE DEF after, m
<1>3. m \in Nat
  BY DEF m
<1>4. after[0] = Started
  BY <1>1, <1>3 DEF ReplayedTo
<1>5. ASSUME NEW n \in 1 .. m PROVE after[n] = Turn(after[n - 1], records[n])
  <2>1. after[n] = TurnOf(after[n - 1], records[n])
    BY <1>1, <1>3 DEF ReplayedTo
  <2>2. {Turn(h, records[n]) : h \in {after[n - 1]}} = {Turn(after[n - 1], records[n])}
    OBVIOUS
  <2> QED
    BY <2>1, <2>2 DEF TurnOf
<1> QED
  BY <1>2, <1>4, <1>5 DEF m

-----------------------------------------------------------------------------

(* The totals of the engine are sums. *)
AmountsMade(r) == [i \in DOMAIN r.outputs |-> r.outputs[i].amount]
AmountsTaken(h, r) == [x \in Range(r.inputs) |-> h.outputs[x].amount]

LEMMA EngineTotals ==
  ASSUME NEW h, NEW r
  PROVE  /\ Engine(h.seen, h.outputs, h.explained)!OutputTotal(r) =
              SumFunctionOnSet(AmountsMade(r), DOMAIN r.outputs)
         /\ Engine(h.seen, h.outputs, h.explained)!InputTotal(r) =
              SumFunctionOnSet(AmountsTaken(h, r), Range(r.inputs))
<1> DEFINE s == h.seen
           e == h.explained
           p == h.outputs
<1>1. \A f, S : Engine(s, p, e)!SumFunctionOnSet(f, S) = SumFunctionOnSet(f, S)
  BY Zenon DEF Engine!SumFunctionOnSet, Engine!FoldFunctionOnSet, Engine!MapThenFoldSet,
     SumFunctionOnSet, FoldFunctionOnSet, MapThenFoldSet
<1> QED
  BY <1>1 DEF Engine!OutputTotal, Engine!InputTotal, Engine!InputIds, Engine!SumFunction,
     Engine!Range, Range, AmountsMade, AmountsTaken

(* What a kind may consume and produce, in the words of the engine.        *)
Produces(h, kind) == Engine(h.seen, h.outputs, h.explained)!OutputState[kind]
MayConsume(h, kind) == Engine(h.seen, h.outputs, h.explained)!InputStates[kind]

LEMMA EngineTables ==
  ASSUME NEW h
  PROVE  /\ Produces(h, "Issuance") = "Accepted"
         /\ Produces(h, "ChannelFunding") = "ChannelLocked"
         /\ Produces(h, "CooperativeClose") = "Closed"
         /\ Produces(h, "UnilateralClose") = "Closed"
         /\ Produces(h, "SecondLevelHtlc") = "Closed"
         /\ Produces(h, "Sweep") = "Swept"
         /\ Produces(h, "ProofExport") = "Accepted"
         /\ MayConsume(h, "ChannelFunding") = {"Accepted"}
         /\ MayConsume(h, "CooperativeClose") = {"ChannelLocked"}
         /\ MayConsume(h, "UnilateralClose") = {"ChannelLocked"}
         /\ MayConsume(h, "SecondLevelHtlc") = {"Closed"}
         /\ MayConsume(h, "Sweep") = {"Closed"}
         /\ "Closed" \in MayConsume(h, "ProofExport")
<1>1. \A k \in {"Issuance", "ChannelFunding", "CooperativeClose", "UnilateralClose",
                "SecondLevelHtlc", "Sweep", "ProofExport"} :
        k \in Engine(h.seen, h.outputs, h.explained)!Kinds
  BY DEF Engine!Kinds
<1>2. /\ Produces(h, "Issuance") = "Accepted"
      /\ Produces(h, "ChannelFunding") = "ChannelLocked"
      /\ Produces(h, "CooperativeClose") = "Closed"
      /\ Produces(h, "UnilateralClose") = "Closed"
      /\ Produces(h, "SecondLevelHtlc") = "Closed"
      /\ Produces(h, "Sweep") = "Swept"
      /\ Produces(h, "ProofExport") = "Accepted"
  BY <1>1 DEF Produces, Engine!OutputState
<1>3. /\ MayConsume(h, "ChannelFunding") = {"Accepted"}
      /\ MayConsume(h, "CooperativeClose") = {"ChannelLocked"}
      /\ MayConsume(h, "UnilateralClose") = {"ChannelLocked"}
      /\ MayConsume(h, "SecondLevelHtlc") = {"Closed"}
      /\ MayConsume(h, "Sweep") = {"Closed"}
      /\ "Closed" \in MayConsume(h, "ProofExport")
  BY <1>1 DEF MayConsume, Engine!InputStates, Engine!ExportedStates, Engine!ResultingStates
<1> QED
  BY <1>2, <1>3

(* The explanation of an output that a record makes of the inputs.         *)
Explained1(record, kind, inputs, o) ==
  [record |-> record, kind |-> kind, asset |-> o.asset, amount |-> o.amount,
   anchor |-> o.anchor, state |-> o.state, prior |-> inputs]

LEMMA TurnAccepts ==
  ASSUME NEW h, NEW r, h.ok = TRUE, Accepts(h, r)
  PROVE  /\ Turn(h, r).ok = TRUE
         /\ Turn(h, r).seen = h.seen \cup {r.id}
         /\ Turn(h, r).outputs = Engine(h.seen, h.outputs, h.explained)!OutputsAfter(r)
         /\ Turn(h, r).explained = Engine(h.seen, h.outputs, h.explained)!ExplainedAfter(r)
BY DEF Turn

(* A record of one output: of nothing, or of one input of the same amount. *)
MakesOne(h, id, kind, inputs, o) ==
  /\ h.ok = TRUE /\ id \notin h.seen
  /\ o.id \notin DOMAIN h.outputs
  /\ o.asset = Asset /\ o.amount \in 1 .. U64Max
  /\ o.state = Produces(h, kind)
  /\ \/ kind = "Issuance" /\ inputs = <<>>
     \/ /\ kind # "Issuance"
        /\ \E x \in DOMAIN h.outputs :
             /\ inputs = <<x>>
             /\ h.outputs[x].state \in MayConsume(h, kind)
             /\ h.outputs[x].amount = o.amount /\ h.outputs[x].asset = Asset

MadeOne(h, id, kind, inputs, o, t) ==
  /\ t.ok = TRUE
  /\ t.seen = h.seen \cup {id}
  /\ DOMAIN t.outputs = DOMAIN h.outputs \cup {o.id}
  /\ \A x \in DOMAIN h.outputs : t.outputs[x] = h.outputs[x]
  /\ t.outputs[o.id] = Explained1(id, kind, Range(inputs), o)
  /\ t.explained = (h.explained \ Range(inputs)) \cup {o.id}

LEMMA OneOutputTurn ==
  ASSUME NEW h, NEW id, NEW kind, NEW inputs, NEW o, MakesOne(h, id, kind, inputs, o)
  PROVE  MadeOne(h, id, kind, inputs, o, Turn(h, HistoryRecord(id, kind, inputs, <<o>>)))
<1> USE DEF MakesOne
<1> DEFINE r == HistoryRecord(id, kind, inputs, <<o>>)
           s == h.seen
           e == h.explained
           p == h.outputs
<1>1. /\ r.id = id /\ r.kind = kind /\ r.inputs = inputs /\ r.outputs = <<o>>
      /\ r.wellFormed = TRUE
  BY DEF HistoryRecord
<1>2. DOMAIN r.outputs = {1} /\ r.outputs[1] = o
  BY <1>1
<1> HIDE DEF r
<1>3. /\ Engine(s, p, e)!InputIds(r) = Range(inputs)
      /\ Engine(s, p, e)!OutputIds(r) = {o.id}
  BY <1>1, <1>2 DEF Engine!InputIds, Engine!OutputIds, Engine!Range, Range
<1>4. \/ kind = "Issuance" /\ Range(inputs) = {}
      \/ /\ kind # "Issuance"
         /\ \E x \in DOMAIN p :
              /\ Range(inputs) = {x}
              /\ p[x].state \in MayConsume(h, kind)
              /\ p[x].amount = o.amount /\ p[x].asset = Asset
  BY DEF Range
<1>5. Engine(s, p, e)!Identified(r)
  BY <1>1, <1>3, <1>4 DEF Engine!Identified
<1>6. Engine(s, p, e)!InputsAllowed(r)
  <2>1. Engine(s, p, e)!IsInjective(inputs)
    BY DEF Engine!IsInjective
  <2> QED
    BY <1>1, <1>3, <1>4, <2>1 DEF Engine!InputsAllowed, MayConsume
<1>7. Engine(s, p, e)!OutputTotal(r) = o.amount
  <2> DEFINE f == AmountsMade(r)
  <2>0. Engine(s, p, e)!OutputTotal(r) = SumFunctionOnSet(f, DOMAIN r.outputs)
    BY EngineTotals
  <2>1. f[1] = o.amount /\ DOMAIN r.outputs = {} \cup {1} /\ o.amount \in Int
    BY <1>2 DEF AmountsMade
  <2> HIDE DEF f
  <2>2. SumFunctionOnSet(f, {} \cup {1}) = f[1] + SumFunctionOnSet(f, {})
    BY <2>1, SumAdd, FS_EmptySet
  <2>3. SumFunctionOnSet(f, DOMAIN r.outputs) = o.amount
    BY <2>1, <2>2, SumEmpty
  <2> QED
    BY <2>0, <2>3
<1>8. Engine(s, p, e)!OutputsAllowed(r)
  BY <1>1, <1>2, <1>7 DEF Engine!OutputsAllowed, Produces
<1>9. Engine(s, p, e)!Balanced(r)
  <2> SUFFICES ASSUME kind # "Issuance" PROVE Engine(s, p, e)!InputTotal(r) = o.amount
    BY <1>1, <1>7 DEF Engine!Balanced
  <2>1. PICK x \in DOMAIN p : Range(inputs) = {x} /\ p[x].amount = o.amount
    BY <1>4
  <2> DEFINE f == AmountsTaken(h, r)
  <2>0. Engine(s, p, e)!InputTotal(r) = SumFunctionOnSet(f, Range(r.inputs))
    BY EngineTotals
  <2>2. f[x] = o.amount /\ Range(r.inputs) = {} \cup {x} /\ o.amount \in Int
    BY <1>1, <2>1 DEF AmountsTaken
  <2> HIDE DEF f
  <2>3. SumFunctionOnSet(f, {} \cup {x}) = f[x] + SumFunctionOnSet(f, {})
    BY <2>2, SumAdd, FS_EmptySet
  <2>4. SumFunctionOnSet(f, Range(r.inputs)) = o.amount
    BY <2>2, <2>3, SumEmpty
  <2> QED
    BY <2>0, <2>4
<1>10. Engine(s, p, e)!OneAsset(r)
  BY <1>1, <1>2, <1>3, <1>4 DEF Engine!OneAsset
<1>11. Engine(s, p, e)!OutputsNew(r)
  BY <1>3 DEF Engine!OutputsNew
<1>12. Accepts(h, r)
  BY <1>5, <1>6, <1>8, <1>9, <1>10, <1>11 DEF Accepts
<1>13. Engine(s, p, e)!IndexOf(r, o.id) = 1
  BY <1>2 DEF Engine!IndexOf
<1>14. Engine(s, p, e)!Explanation(r, 1) = Explained1(id, kind, Range(inputs), o)
  BY <1>1, <1>2, <1>3 DEF Engine!Explanation, Explained1
<1>15. Engine(s, p, e)!OutputsAfter(r) =
         [x \in DOMAIN p \cup {o.id} |->
            IF x = o.id THEN Explained1(id, kind, Range(inputs), o) ELSE p[x]]
  BY <1>3, <1>13, <1>14 DEF Engine!OutputsAfter
<1>16. Engine(s, p, e)!ExplainedAfter(r) = (e \ Range(inputs)) \cup {o.id}
  BY <1>1, <1>3, <1>4 DEF Engine!ExplainedAfter, Engine!SpentBy, Engine!Consumes
<1> DEFINE t == Turn(h, r)
<1>17. /\ t.ok = TRUE /\ t.seen = s \cup {id}
       /\ t.outputs = [x \in DOMAIN p \cup {o.id} |->
                        IF x = o.id THEN Explained1(id, kind, Range(inputs), o) ELSE p[x]]
       /\ t.explained = (e \ Range(inputs)) \cup {o.id}
  <2>1. /\ t.ok = TRUE /\ t.seen = s \cup {r.id}
        /\ t.outputs = Engine(s, p, e)!OutputsAfter(r)
        /\ t.explained = Engine(s, p, e)!ExplainedAfter(r)
    BY <1>12, TurnAccepts
  <2> HIDE DEF t, s, p, e
  <2> QED
    BY <1>1, <1>15, <1>16, <2>1
<1>18. t = Turn(h, HistoryRecord(id, kind, inputs, <<o>>))
  BY DEF r
<1> HIDE DEF t
<1> QED
  BY <1>17, <1>18 DEF MadeOne

(* The record of a close: two outputs of the one input. *)
MakesTwo(h, id, kind, x, o, q) ==
  /\ h.ok = TRUE /\ id \notin h.seen /\ kind # "Issuance"
  /\ x \in DOMAIN h.outputs /\ h.outputs[x].state \in MayConsume(h, kind)
  /\ h.outputs[x].asset = Asset /\ h.outputs[x].amount <= U64Max
  /\ o.id # q.id /\ {o.id, q.id} \cap DOMAIN h.outputs = {}
  /\ o.asset = Asset /\ q.asset = Asset
  /\ o.amount \in Nat \ {0} /\ q.amount \in Nat \ {0}
  /\ h.outputs[x].amount = o.amount + q.amount
  /\ o.state = Produces(h, kind) /\ q.state = Produces(h, kind)

MadeTwo(h, id, kind, x, o, q, t) ==
  /\ t.ok = TRUE
  /\ t.seen = h.seen \cup {id}
  /\ DOMAIN t.outputs = DOMAIN h.outputs \cup {o.id, q.id}
  /\ \A y \in DOMAIN h.outputs : t.outputs[y] = h.outputs[y]
  /\ t.outputs[o.id] = Explained1(id, kind, {x}, o)
  /\ t.outputs[q.id] = Explained1(id, kind, {x}, q)
  /\ t.explained = (h.explained \ {x}) \cup {o.id, q.id}

LEMMA TwoOutputTurn ==
  ASSUME NEW h, NEW id, NEW kind, NEW x, NEW o, NEW q, MakesTwo(h, id, kind, x, o, q)
  PROVE  MadeTwo(h, id, kind, x, o, q, Turn(h, HistoryRecord(id, kind, <<x>>, <<o, q>>)))
<1> USE DEF MakesTwo
<1> DEFINE r == HistoryRecord(id, kind, <<x>>, <<o, q>>)
           s == h.seen
           e == h.explained
           p == h.outputs
<1>1. /\ r.id = id /\ r.kind = kind /\ r.inputs = <<x>> /\ r.outputs = <<o, q>>
      /\ r.wellFormed = TRUE
  BY DEF HistoryRecord
<1>2. DOMAIN r.outputs = {1, 2} /\ r.outputs[1] = o /\ r.outputs[2] = q
  BY <1>1
<1> HIDE DEF r
<1>3. /\ Engine(s, p, e)!InputIds(r) = {x} /\ Range(r.inputs) = {x}
      /\ Engine(s, p, e)!OutputIds(r) = {o.id, q.id}
  BY <1>1, <1>2 DEF Engine!InputIds, Engine!OutputIds, Engine!Range, Range
<1>4. Engine(s, p, e)!Identified(r)
  BY <1>1, <1>3 DEF Engine!Identified
<1>5. Engine(s, p, e)!InputsAllowed(r)
  <2>1. Engine(s, p, e)!IsInjective(<<x>>)
    BY DEF Engine!IsInjective
  <2> QED
    BY <1>1, <1>3, <2>1 DEF Engine!InputsAllowed, MayConsume
<1>6. Engine(s, p, e)!OutputTotal(r) = o.amount + q.amount
  <2> DEFINE f == AmountsMade(r)
  <2>1. Engine(s, p, e)!OutputTotal(r) = SumFunctionOnSet(f, DOMAIN r.outputs)
    BY EngineTotals
  <2> DEFINE S == {} \cup {1}
  <2>2. /\ f[1] = o.amount /\ f[2] = q.amount /\ o.amount \in Int /\ q.amount \in Int
        /\ DOMAIN r.outputs = S \cup {2}
    BY <1>2 DEF AmountsMade
  <2>3. SumFunctionOnSet(f, S) = f[1] + SumFunctionOnSet(f, {}) /\ IsFiniteSet(S)
    <3> HIDE DEF f, MakesTwo
    <3> QED
      BY <2>2, SumAdd, FS_EmptySet, FS_AddElement
  <2>4. 2 \notin S /\ \A y \in S \cup {2} : f[y] \in Int
    BY <2>2
  <2> HIDE DEF f, S
  <2>5. SumFunctionOnSet(f, S \cup {2}) = f[2] + SumFunctionOnSet(f, S)
    BY <2>3, <2>4, SumAdd
  <2> QED
    BY <2>1, <2>2, <2>3, <2>5, SumEmpty
<1>7. Engine(s, p, e)!OutputsAllowed(r)
  BY <1>1, <1>2, <1>6 DEF Engine!OutputsAllowed, Produces
<1>8. Engine(s, p, e)!Balanced(r)
  <2> DEFINE f == AmountsTaken(h, r)
  <2>1. Engine(s, p, e)!InputTotal(r) = SumFunctionOnSet(f, Range(r.inputs))
    BY EngineTotals
  <2>2. f[x] = o.amount + q.amount /\ Range(r.inputs) = {} \cup {x} /\ f[x] \in Int
    BY <1>3 DEF AmountsTaken
  <2> HIDE DEF f
  <2>3. SumFunctionOnSet(f, {} \cup {x}) = f[x] + SumFunctionOnSet(f, {})
    BY <2>2, SumAdd, FS_EmptySet
  <2>4. SumFunctionOnSet(f, Range(r.inputs)) = o.amount + q.amount
    BY <2>2, <2>3, SumEmpty
  <2> QED
    BY <1>6, <2>1, <2>4 DEF Engine!Balanced
<1>9. Engine(s, p, e)!OneAsset(r)
  BY <1>1, <1>2, <1>3 DEF Engine!OneAsset
<1>10. Engine(s, p, e)!OutputsNew(r)
  BY <1>3 DEF Engine!OutputsNew
<1>11. Accepts(h, r)
  BY <1>4, <1>5, <1>7, <1>8, <1>9, <1>10 DEF Accepts
<1>12. /\ Engine(s, p, e)!IndexOf(r, o.id) = 1
       /\ Engine(s, p, e)!IndexOf(r, q.id) = 2
  BY <1>2 DEF Engine!IndexOf
<1>13. /\ Engine(s, p, e)!Explanation(r, 1) = Explained1(id, kind, {x}, o)
       /\ Engine(s, p, e)!Explanation(r, 2) = Explained1(id, kind, {x}, q)
  BY <1>1, <1>2, <1>3 DEF Engine!Explanation, Explained1
<1>14. Engine(s, p, e)!OutputsAfter(r) =
         [y \in DOMAIN p \cup {o.id, q.id} |->
            IF y = o.id THEN Explained1(id, kind, {x}, o)
            ELSE IF y = q.id THEN Explained1(id, kind, {x}, q) ELSE p[y]]
  BY <1>3, <1>12, <1>13 DEF Engine!OutputsAfter
<1>15. Engine(s, p, e)!ExplainedAfter(r) = (e \ {x}) \cup {o.id, q.id}
  BY <1>1, <1>3 DEF Engine!ExplainedAfter, Engine!SpentBy, Engine!Consumes
<1> DEFINE t == Turn(h, r)
<1>16. /\ t.ok = TRUE /\ t.seen = s \cup {id}
       /\ t.outputs = [y \in DOMAIN p \cup {o.id, q.id} |->
                         IF y = o.id THEN Explained1(id, kind, {x}, o)
                         ELSE IF y = q.id THEN Explained1(id, kind, {x}, q) ELSE p[y]]
       /\ t.explained = (e \ {x}) \cup {o.id, q.id}
  <2>1. /\ t.ok = TRUE /\ t.seen = s \cup {r.id}
        /\ t.outputs = Engine(s, p, e)!OutputsAfter(r)
        /\ t.explained = Engine(s, p, e)!ExplainedAfter(r)
    BY <1>11, TurnAccepts
  <2> HIDE DEF t, s, p, e
  <2> QED
    BY <1>1, <1>14, <1>15, <2>1
<1>17. t = Turn(h, HistoryRecord(id, kind, <<x>>, <<o, q>>))
  BY DEF r
<1> HIDE DEF t
<1>18. /\ DOMAIN t.outputs = DOMAIN p \cup {o.id, q.id}
       /\ \A y \in DOMAIN p : t.outputs[y] = p[y]
       /\ t.outputs[o.id] = Explained1(id, kind, {x}, o)
       /\ t.outputs[q.id] = Explained1(id, kind, {x}, q)
  <2> DEFINE m == t.outputs
  <2>1. m = [y \in DOMAIN p \cup {o.id, q.id} |->
                IF y = o.id THEN Explained1(id, kind, {x}, o)
                ELSE IF y = q.id THEN Explained1(id, kind, {x}, q) ELSE p[y]]
    BY <1>16
  <2> HIDE DEF m
  <2> QED
    BY <2>1 DEF m
<1> QED
  BY <1>16, <1>17, <1>18 DEF MadeTwo

(* The two records before a close or a recovery leave one output of the    *)
(* whole channel, locked into it.                                          *)
LockedBy(h, name, total, prior) ==
  /\ h.ok = TRUE
  /\ h.seen = {<<"prior input", name>>, <<"prior channel", name>>}
  /\ DOMAIN h.outputs = {<<"prior input", name>>, ChannelOutput(prior)}
  /\ h.outputs[ChannelOutput(prior)].amount = total
  /\ h.outputs[ChannelOutput(prior)].asset = Asset
  /\ h.outputs[ChannelOutput(prior)].state = "ChannelLocked"

LEMMA PriorTurns ==
  ASSUME NEW name, NEW c, NEW total \in 1 .. U64Max, NEW prior
  PROVE  LET r == PriorRecords(name, c, total, prior)
         IN  LockedBy(Turn(Turn(Started, r[1]), r[2]), name, total, prior)
<1> DEFINE issued == <<"prior input", name>>
           id == <<"prior channel", name>>
           locked == ChannelOutput(prior)
           o1 == HistoryOutput(issued, total, c, "Accepted")
           o2 == HistoryOutput(locked, total, c, "ChannelLocked")
           h1 == Turn(Started, HistoryRecord(issued, "Issuance", <<>>, <<o1>>))
           h2 == Turn(h1, HistoryRecord(id, "ChannelFunding", <<issued>>, <<o2>>))
           r == PriorRecords(name, c, total, prior)
<1>1. Turn(Turn(Started, r[1]), r[2]) = h2
  BY DEF PriorRecords
<1>2. issued # locked /\ issued # id
  BY DEF ChannelOutput
<1>3. /\ o1.id = issued /\ o1.asset = Asset /\ o1.amount = total /\ o1.state = "Accepted"
      /\ o2.id = locked /\ o2.asset = Asset /\ o2.amount = total
      /\ o2.state = "ChannelLocked"
  BY DEF HistoryOutput
<1>4. /\ Started.ok = TRUE /\ Started.seen = {} /\ DOMAIN Started.outputs = {}
  BY DEF Started, Refused, EmptyMap
<1> HIDE DEF issued, id, locked, o1, o2, r
<1>5. /\ h1.ok = TRUE /\ h1.seen = {issued} /\ DOMAIN h1.outputs = {issued}
      /\ h1.outputs[issued].amount = total /\ h1.outputs[issued].asset = Asset
      /\ h1.outputs[issued].state = "Accepted"
  <2>1. o1.state = Produces(Started, "Issuance")
    BY <1>3, EngineTables
  <2>2. MakesOne(Started, issued, "Issuance", <<>>, o1)
    BY <1>3, <1>4, <2>1 DEF MakesOne
  <2>3. MadeOne(Started, issued, "Issuance", <<>>, o1, h1)
    BY <2>2, OneOutputTurn
  <2> HIDE DEF h1
  <2>4. h1.outputs[issued] = Explained1(issued, "Issuance", Range(<<>>), o1)
    BY <1>3, <2>3 DEF MadeOne
  <2> QED
    BY <1>3, <1>4, <2>3, <2>4 DEF MadeOne, Explained1
<1>6. LockedBy(h2, name, total, prior)
  <2>1. /\ o2.state = Produces(h1, "ChannelFunding")
        /\ "Accepted" \in MayConsume(h1, "ChannelFunding")
    BY <1>3, EngineTables
  <2> HIDE DEF h1
  <2>2. \E y \in DOMAIN h1.outputs :
          /\ <<issued>> = <<y>>
          /\ h1.outputs[y].state \in MayConsume(h1, "ChannelFunding")
          /\ h1.outputs[y].amount = o2.amount /\ h1.outputs[y].asset = Asset
    BY <1>3, <1>5, <2>1
  <2>3. MakesOne(h1, id, "ChannelFunding", <<issued>>, o2)
    BY <1>2, <1>3, <1>5, <2>1, <2>2 DEF MakesOne
  <2>4. MadeOne(h1, id, "ChannelFunding", <<issued>>, o2, h2)
    BY <2>3, OneOutputTurn
  <2> HIDE DEF h2
  <2>5. h2.outputs[locked] = Explained1(id, "ChannelFunding", Range(<<issued>>), o2)
    BY <1>3, <2>4 DEF MadeOne
  <2>6. /\ h2.outputs[locked].amount = total /\ h2.outputs[locked].asset = Asset
        /\ h2.outputs[locked].state = "ChannelLocked"
    BY <1>3, <2>5 DEF Explained1
  <2>7. /\ h2.ok = TRUE /\ h2.seen = {issued, id} /\ DOMAIN h2.outputs = {issued, locked}
    BY <1>3, <1>5, <2>4 DEF MadeOne
  <2> QED
    BY <2>6, <2>7 DEF LockedBy, issued, id, locked
<1> QED
  BY <1>1, <1>6 DEF r

(* The five records of a close replay: the channel is issued and funded,   *)
(* the close splits its output, and each side exports its part.            *)
LEMMA CloseReplays ==
  ASSUME NEW cl, cl.parts.total <= U64Max, U64Max \in Nat,
         \A s \in Sides : cl.proof[s].amount \in Nat \ {0},
         cl.parts.total = cl.proof["local"].amount + cl.proof["remote"].amount
  PROVE  CloseHistoryValid(cl)
<1> DEFINE x == cl.parts
           name == <<"close", cl.id>>
           issued == <<"prior input", name>>
           locked == ChannelOutput(x.prior)
           shut(s) == ClosedOutput(cl.id, s)
           out(s) == ExportOutput(cl.id, s, cl.proof[s])
           closed(s) == HistoryOutput(shut(s), cl.proof[s].amount, cl.proof[s].anchor, "Closed")
           exported(s) == HistoryOutput(out(s), cl.proof[s].amount, cl.proof[s].anchor,
                                        "Accepted")
           r1 == PriorRecords(name, x.channel, x.total, x.prior)[1]
           r2 == PriorRecords(name, x.channel, x.total, x.prior)[2]
           r3 == HistoryRecord(name, "CooperativeClose", <<locked>>,
                               <<closed("local"), closed("remote")>>)
           export(s) == HistoryRecord(<<"export", cl.id, s>>, "ProofExport", <<shut(s)>>,
                                      <<exported(s)>>)
<1>1. CloseRecords(cl) = <<r1, r2>> \o <<r3, export("local"), export("remote")>>
  BY DEF CloseRecords, PriorRecords
<1> DEFINE R == CloseRecords(cl)
<1>2. /\ Len(R) = 5
      /\ R[1] = r1 /\ R[2] = r2 /\ R[3] = r3
      /\ R[4] = export("local") /\ R[5] = export("remote")
  <2> HIDE DEF R, r1, r2, r3, export
  <2>1. R = <<r1, r2>> \o <<r3, export("local"), export("remote")>>
    BY <1>1 DEF R
  <2> QED
    BY <2>1
<1> HIDE DEF R
<1>3. PICK after :
        /\ after[0] = Started
        /\ \A n \in 1 .. 5 : after[n] = Turn(after[n - 1], R[n])
        /\ Replay(R) = after[5]
  <2> HIDE DEF r1, r2, r3, export
  <2>1. Len(R) = 5 /\ Len(R) \in Nat
    BY <1>2
  <2> QED
    BY <2>1, ReplayTurns
<1>4. /\ after[1] = Turn(after[0], r1) /\ after[2] = Turn(after[1], r2)
      /\ after[3] = Turn(after[2], r3) /\ after[4] = Turn(after[3], export("local"))
      /\ after[5] = Turn(after[4], export("remote"))
  <2> HIDE DEF r1, r2, r3, export
  <2>1. /\ after[1] = Turn(after[0], R[1]) /\ after[2] = Turn(after[1], R[2])
        /\ after[3] = Turn(after[2], R[3]) /\ after[4] = Turn(after[3], R[4])
        /\ after[5] = Turn(after[4], R[5])
    BY <1>3
  <2> QED
    BY <1>2, <2>1
(* No two of the records and of the outputs have one id.                   *)
<1>5. /\ issued # locked /\ issued # name /\ issued # <<"prior channel", name>>
      /\ \A s \in Sides : /\ shut(s) \notin {issued, locked}
                          /\ out(s) \notin {issued, locked}
                          /\ \A t \in Sides : out(s) # shut(t)
                          /\ <<"export", cl.id, s>> \notin
                               {issued, <<"prior channel", name>>, name}
      /\ shut("local") # shut("remote") /\ out("local") # out("remote")
      /\ <<"export", cl.id, "local">> # <<"export", cl.id, "remote">>
      /\ name # <<"prior channel", name>>
  BY DEF ChannelOutput, ClosedOutput, ExportOutput, Sides
<1>6. \A s \in Sides :
           /\ closed(s).id = shut(s) /\ closed(s).asset = Asset
           /\ closed(s).amount = cl.proof[s].amount /\ closed(s).state = "Closed"
           /\ exported(s).id = out(s) /\ exported(s).asset = Asset
           /\ exported(s).amount = cl.proof[s].amount /\ exported(s).state = "Accepted"
           /\ exported(s).anchor = cl.proof[s].anchor
  BY DEF HistoryOutput
<1>7. /\ x.total \in 1 .. U64Max
      /\ \A s \in Sides : cl.proof[s].amount \in 1 .. U64Max
  BY DEF Sides
<1>8. \A s \in Sides : s = "local" \/ s = "remote"
  BY DEF Sides
(* What each turn leaves.                                                  *)
<1>9. /\ after[2].ok = TRUE /\ after[2].seen = {issued, <<"prior channel", name>>}
       /\ DOMAIN after[2].outputs = {issued, locked}
       /\ after[2].outputs[locked].amount = x.total
       /\ after[2].outputs[locked].asset = Asset
       /\ after[2].outputs[locked].state = "ChannelLocked"
  <2>1. after[2] = Turn(Turn(Started, r1), r2)
    BY <1>3, <1>4
  <2>2. LockedBy(after[2], name, x.total, x.prior)
    BY <1>7, <2>1, PriorTurns
  <2> QED
    BY <2>2 DEF LockedBy
<1> HIDE DEF name, issued, locked, shut, out, closed, exported
<1>10. /\ after[3].ok = TRUE
       /\ after[3].seen = {issued, <<"prior channel", name>>, name}
       /\ DOMAIN after[3].outputs = {issued, locked, shut("local"), shut("remote")}
       /\ \A s \in Sides : /\ after[3].outputs[shut(s)].amount = cl.proof[s].amount
                           /\ after[3].outputs[shut(s)].asset = Asset
                           /\ after[3].outputs[shut(s)].state = "Closed"
  <2>1. /\ "Closed" = Produces(after[2], "CooperativeClose")
        /\ "ChannelLocked" \in MayConsume(after[2], "CooperativeClose")
    BY EngineTables
  <2> DEFINE o == closed("local")
             q == closed("remote")
             t == Turn(after[2], HistoryRecord(name, "CooperativeClose", <<locked>>, <<o, q>>))
  <2>2. /\ o.id = shut("local") /\ q.id = shut("remote")
        /\ o.asset = Asset /\ q.asset = Asset
        /\ o.amount = cl.proof["local"].amount /\ q.amount = cl.proof["remote"].amount
        /\ o.state = "Closed" /\ q.state = "Closed"
    BY <1>6 DEF Sides
  <2>3. after[3] = t
    BY <1>4
  <2> HIDE DEF o, q
  <2>4. /\ name \notin after[2].seen /\ locked \in DOMAIN after[2].outputs
        /\ after[2].outputs[locked].state \in MayConsume(after[2], "CooperativeClose")
        /\ after[2].outputs[locked].asset = Asset
        /\ after[2].outputs[locked].amount <= U64Max
        /\ after[2].outputs[locked].amount = o.amount + q.amount
        /\ o.id # q.id /\ {o.id, q.id} \cap DOMAIN after[2].outputs = {}
        /\ o.amount \in Nat \ {0} /\ q.amount \in Nat \ {0}
    BY <1>5, <1>7, <1>9, <2>1, <2>2 DEF Sides
  <2>5. /\ t.ok = TRUE /\ t.seen = after[2].seen \cup {name}
        /\ DOMAIN t.outputs = DOMAIN after[2].outputs \cup {o.id, q.id}
        /\ t.outputs[o.id] = Explained1(name, "CooperativeClose", {locked}, o)
        /\ t.outputs[q.id] = Explained1(name, "CooperativeClose", {locked}, q)
    <3>1. MakesTwo(after[2], name, "CooperativeClose", locked, o, q)
      BY <1>9, <2>1, <2>2, <2>4 DEF MakesTwo
    <3>2. MadeTwo(after[2], name, "CooperativeClose", locked, o, q, t)
      BY <3>1, TwoOutputTurn
    <3> HIDE DEF t
    <3> QED
      BY <3>2 DEF MadeTwo
  <2> HIDE DEF t
  <2>6. /\ t.ok = TRUE /\ t.seen = {issued, <<"prior channel", name>>, name}
        /\ DOMAIN t.outputs = {issued, locked, shut("local"), shut("remote")}
    BY <1>9, <2>2, <2>5
  <2>7. /\ t.outputs[shut("local")] = Explained1(name, "CooperativeClose", {locked}, o)
        /\ t.outputs[shut("remote")] = Explained1(name, "CooperativeClose", {locked}, q)
    BY <2>2, <2>5
  <2>8. \A s \in Sides : /\ t.outputs[shut(s)].amount = cl.proof[s].amount
                        /\ t.outputs[shut(s)].asset = Asset
                        /\ t.outputs[shut(s)].state = "Closed"
    BY <1>8, <2>2, <2>7 DEF Explained1
  <2> QED
    BY <2>3, <2>6, <2>8
<1> DEFINE l == "local"
           r == "remote"
<1>11. /\ after[4].ok = TRUE
       /\ after[4].seen = {issued, <<"prior channel", name>>, name, <<"export", cl.id, l>>}
       /\ DOMAIN after[4].outputs = {issued, locked, shut(l), shut(r), out(l)}
       /\ after[4].outputs[shut(r)] = after[3].outputs[shut(r)]
       /\ out(l) \in after[4].explained
       /\ after[4].outputs[out(l)] =
            Explained1(<<"export", cl.id, l>>, "ProofExport", {shut(l)}, exported(l))
  <2> DEFINE id == <<"export", cl.id, l>>
             o == exported(l)
             t == Turn(after[3], HistoryRecord(id, "ProofExport", <<shut(l)>>, <<o>>))
  <2>1. /\ o.state = Produces(after[3], "ProofExport")
        /\ "Closed" \in MayConsume(after[3], "ProofExport")
    BY <1>6, EngineTables DEF Sides
  <2>2. /\ id \notin after[3].seen /\ o.id = out(l) /\ o.id \notin DOMAIN after[3].outputs
        /\ o.asset = Asset /\ o.amount = cl.proof[l].amount /\ o.amount \in 1 .. U64Max
        /\ shut(l) \in DOMAIN after[3].outputs
        /\ after[3].outputs[shut(l)].amount = o.amount
        /\ after[3].outputs[shut(l)].asset = Asset
        /\ after[3].outputs[shut(l)].state = "Closed"
    BY <1>5, <1>6, <1>7, <1>10 DEF Sides
  <2>3. Range(<<shut(l)>>) = {shut(l)}
    BY DEF Range
  <2>4. after[4] = t
    BY <1>4
  <2>5. /\ t.ok = TRUE /\ t.seen = after[3].seen \cup {id}
        /\ DOMAIN t.outputs = DOMAIN after[3].outputs \cup {o.id}
        /\ \A y \in DOMAIN after[3].outputs : t.outputs[y] = after[3].outputs[y]
        /\ t.outputs[o.id] = Explained1(id, "ProofExport", Range(<<shut(l)>>), o)
        /\ t.explained = (after[3].explained \ Range(<<shut(l)>>)) \cup {o.id}
    <3> HIDE DEF id, o
    <3>1. \E y \in DOMAIN after[3].outputs :
            /\ <<shut(l)>> = <<y>>
            /\ after[3].outputs[y].state \in MayConsume(after[3], "ProofExport")
            /\ after[3].outputs[y].amount = o.amount /\ after[3].outputs[y].asset = Asset
      BY <2>1, <2>2
    <3>2. MakesOne(after[3], id, "ProofExport", <<shut(l)>>, o)
      BY <1>10, <2>1, <2>2, <3>1 DEF MakesOne
    <3>3. MadeOne(after[3], id, "ProofExport", <<shut(l)>>, o, t)
      BY <3>2, OneOutputTurn
    <3> HIDE DEF t
    <3> QED
      BY <3>3 DEF MadeOne
  <2> HIDE DEF t
  <2>6. t.seen = {issued, <<"prior channel", name>>, name, id}
    BY <1>10, <2>5
  <2> HIDE DEF id, o
  <2>7. /\ t.ok = TRUE
        /\ DOMAIN t.outputs = {issued, locked, shut(l), shut(r), out(l)}
        /\ t.outputs[shut(r)] = after[3].outputs[shut(r)]
        /\ out(l) \in t.explained
        /\ t.outputs[out(l)] = Explained1(id, "ProofExport", {shut(l)}, o)
    BY <1>10, <2>2, <2>3, <2>5
  <2> QED
    BY <2>4, <2>6, <2>7 DEF id, o
<1>12. /\ after[5].ok = TRUE
       /\ after[5].outputs[out(l)] = after[4].outputs[out(l)]
       /\ {out(l), out(r)} \subseteq after[5].explained
       /\ after[5].outputs[out(r)] =
            Explained1(<<"export", cl.id, r>>, "ProofExport", {shut(r)}, exported(r))
  <2> DEFINE id == <<"export", cl.id, r>>
             o == exported(r)
             t == Turn(after[4], HistoryRecord(id, "ProofExport", <<shut(r)>>, <<o>>))
  <2>1. /\ o.state = Produces(after[4], "ProofExport")
        /\ "Closed" \in MayConsume(after[4], "ProofExport")
    BY <1>6, EngineTables DEF Sides
  <2>2. /\ id \notin after[4].seen /\ o.id = out(r) /\ o.id \notin DOMAIN after[4].outputs
        /\ o.asset = Asset /\ o.amount = cl.proof[r].amount /\ o.amount \in 1 .. U64Max
        /\ shut(r) \in DOMAIN after[4].outputs
        /\ after[4].outputs[shut(r)].amount = o.amount
        /\ after[4].outputs[shut(r)].asset = Asset
        /\ after[4].outputs[shut(r)].state = "Closed"
    BY <1>5, <1>6, <1>7, <1>10, <1>11 DEF Sides
  <2>3. Range(<<shut(r)>>) = {shut(r)}
    BY DEF Range
  <2>4. after[5] = t
    BY <1>4
  <2>5. /\ t.ok = TRUE
        /\ \A y \in DOMAIN after[4].outputs : t.outputs[y] = after[4].outputs[y]
        /\ t.outputs[o.id] = Explained1(id, "ProofExport", Range(<<shut(r)>>), o)
        /\ t.explained = (after[4].explained \ Range(<<shut(r)>>)) \cup {o.id}
    <3> HIDE DEF id, o
    <3>1. \E y \in DOMAIN after[4].outputs :
            /\ <<shut(r)>> = <<y>>
            /\ after[4].outputs[y].state \in MayConsume(after[4], "ProofExport")
            /\ after[4].outputs[y].amount = o.amount /\ after[4].outputs[y].asset = Asset
      BY <2>1, <2>2
    <3>2. MakesOne(after[4], id, "ProofExport", <<shut(r)>>, o)
      BY <1>11, <2>1, <2>2, <3>1 DEF MakesOne
    <3>3. MadeOne(after[4], id, "ProofExport", <<shut(r)>>, o, t)
      BY <3>2, OneOutputTurn
    <3> HIDE DEF t
    <3> QED
      BY <3>3 DEF MadeOne
  <2> HIDE DEF t
  <2>6. out(l) # shut(r)
    BY <1>5 DEF Sides
  <2> HIDE DEF id, o
  <2>7. /\ t.ok = TRUE
        /\ t.outputs[out(l)] = after[4].outputs[out(l)]
        /\ {out(l), out(r)} \subseteq t.explained
        /\ t.outputs[out(r)] = Explained1(id, "ProofExport", {shut(r)}, o)
    BY <1>11, <2>2, <2>3, <2>5, <2>6
  <2> QED
    BY <2>4, <2>7 DEF id, o
<1> DEFINE h == Replay(R)
<1>13. ASSUME NEW s \in Sides
       PROVE  /\ out(s) \in h.explained
              /\ h.outputs[out(s)].kind = "ProofExport"
              /\ h.outputs[out(s)].amount = cl.proof[s].amount
              /\ h.outputs[out(s)].anchor = cl.proof[s].anchor
              /\ h.outputs[out(s)].prior = {shut(s)}
  <2>1. /\ out(s) \in h.explained
        /\ h.outputs[out(s)] =
             Explained1(<<"export", cl.id, s>>, "ProofExport", {shut(s)}, exported(s))
    BY <1>3, <1>8, <1>11, <1>12
  <2> HIDE DEF h
  <2> QED
    BY <1>6, <2>1 DEF Explained1
<1> QED
  BY <1>3, <1>12, <1>13 DEF CloseHistoryValid, R, out, shut

(* The records of a recovery replay: the channel closes unilaterally, and  *)
(* a second-level transaction or a sweep takes the whole output.           *)
LEMMA RecoveryReplays ==
  ASSUME NEW c, NEW st, st.total \in 1 .. U64Max, NEW kind \in SpendKinds
  PROVE  RecoveryHistoryValid(c, st, kind)
<1> DEFINE name == <<"recovery", c, kind>>
           prior == st.latest
           locked == ChannelOutput(prior)
           anchor == RecoveryAnchor(c, st, kind)
           shut == UnilateralOutput(c, kind)
           taken == <<"recovered output", c, kind>>
           closing == <<"unilateral close", c, kind>>
           o3 == HistoryOutput(shut, st.total, anchor, "Closed")
           o4 == HistoryOutput(taken, st.total, anchor, TerminalState(kind))
           r1 == PriorRecords(name, c, st.total, prior)[1]
           r2 == PriorRecords(name, c, st.total, prior)[2]
           r3 == HistoryRecord(closing, "UnilateralClose", <<locked>>, <<o3>>)
           r4 == HistoryRecord(name, TerminalKind(kind), <<shut>>, <<o4>>)
           R == RecoveryRecords(c, st, kind)
           h3 == Turn(Turn(Turn(Started, r1), r2), r3)
<1>1. /\ kind = "Commitment" => R = <<r1, r2>> \o <<r3>> \o <<>>
      /\ kind # "Commitment" => R = <<r1, r2>> \o <<r3>> \o <<r4>>
  <2>1. kind # "Commitment" => RecoveredOutput(c, kind) = taken
    BY DEF RecoveredOutput
  <2>2. PriorRecords(name, c, st.total, prior) = <<r1, r2>>
    BY DEF PriorRecords
  <2> HIDE DEF r1, r2
  <2> QED
    BY <2>1, <2>2 DEF RecoveryRecords
<1> HIDE DEF R
<1>2. /\ Len(R) = IF kind = "Commitment" THEN 3 ELSE 4
      /\ R[1] = r1 /\ R[2] = r2 /\ R[3] = r3
      /\ kind # "Commitment" => R[4] = r4
  <2> HIDE DEF r1, r2, r3, r4
  <2> DEFINE S == {r1, r2, r3, r4}
             T == <<r1, r2>> \o <<r3>>
  <2>1. <<r1, r2>> \in Seq(S) /\ <<r3>> \in Seq(S) /\ <<r4>> \in Seq(S) /\ <<>> \in Seq(S)
    OBVIOUS
  <2>2. /\ T \in Seq(S) /\ Len(T) = 3
        /\ T[1] = r1 /\ T[2] = r2 /\ T[3] = r3
    <3> HIDE DEF S
    <3> QED
      BY <2>1, ConcatProperties
  <2>3. /\ kind = "Commitment" => R = T \o <<>>
        /\ kind # "Commitment" => R = T \o <<r4>>
    BY <1>1
  <2> HIDE DEF S, T
  <2>4. CASE kind = "Commitment"
    <3>1. R = T
      BY <2>2, <2>3, <2>4, ConcatEmptySeq
    <3> QED
      BY <2>2, <2>4, <3>1
  <2>5. CASE kind # "Commitment"
    <3> DEFINE u == <<r4>>
    <3>1. Len(u) = 1 /\ u[1] = r4 /\ u \in Seq(S)
      BY <2>1
    <3> HIDE DEF u
    <3>2. /\ Len(T \o u) = 4
          /\ \A i \in 1 .. 4 : (T \o u)[i] = IF i <= 3 THEN T[i] ELSE u[i - 3]
      <4>1. /\ Len(T \o u) = Len(T) + Len(u)
            /\ \A i \in 1 .. Len(T) + Len(u) :
                 (T \o u)[i] = IF i <= Len(T) THEN T[i] ELSE u[i - Len(T)]
        BY <2>2, <3>1, ConcatProperties
      <4> QED
        BY <2>2, <3>1, <4>1
    <3>3. /\ (T \o u)[1] = T[1] /\ (T \o u)[2] = T[2] /\ (T \o u)[3] = T[3]
          /\ (T \o u)[4] = u[1]
      BY <3>2
    <3>4. R = T \o u
      BY <2>3, <2>5 DEF u
    <3> QED
      BY <2>2, <2>5, <3>1, <3>2, <3>3, <3>4
  <2> QED
    BY <2>4, <2>5
<1>3. PICK after :
        /\ after[0] = Started
        /\ \A n \in 1 .. Len(R) : after[n] = Turn(after[n - 1], R[n])
        /\ Replay(R) = after[Len(R)]
  <2> HIDE DEF r1, r2, r3, r4
  <2>1. Len(R) \in Nat
    BY <1>2
  <2> QED
    BY <2>1, ReplayTurns
<1>4. /\ after[3] = h3
      /\ kind = "Commitment" => Replay(R) = h3
      /\ kind # "Commitment" => Replay(R) = Turn(h3, r4)
  <2> HIDE DEF r1, r2, r3, r4
  <2>1. /\ after[1] = Turn(after[0], R[1]) /\ after[2] = Turn(after[1], R[2])
        /\ after[3] = Turn(after[2], R[3])
        /\ kind # "Commitment" => after[4] = Turn(after[3], R[4])
    BY <1>2, <1>3
  <2>2. Replay(R) = IF kind = "Commitment" THEN after[3] ELSE after[4]
    BY <1>2, <1>3
  <2>3. after[3] = h3
    BY <1>2, <1>3, <2>1
  <2> QED
    BY <1>2, <2>1, <2>2, <2>3
<1>5. /\ locked # <<"prior input", name>> /\ shut \notin {<<"prior input", name>>, locked}
      /\ taken \notin {<<"prior input", name>>, locked, shut}
      /\ closing \notin {<<"prior input", name>>, <<"prior channel", name>>}
      /\ name \notin {<<"prior input", name>>, <<"prior channel", name>>, closing}
  BY DEF ChannelOutput, UnilateralOutput
<1>6. /\ o3.id = shut /\ o3.asset = Asset /\ o3.amount = st.total /\ o3.state = "Closed"
      /\ o3.anchor = anchor
      /\ o4.id = taken /\ o4.asset = Asset /\ o4.amount = st.total
      /\ o4.state = TerminalState(kind) /\ o4.anchor = anchor
  BY DEF HistoryOutput
<1> DEFINE h2 == Turn(Turn(Started, r1), r2)
<1>7. LockedBy(h2, name, st.total, prior)
  BY PriorTurns
<1>8. h3 = Turn(h2, HistoryRecord(closing, "UnilateralClose", <<locked>>, <<o3>>))
  OBVIOUS
<1> HIDE DEF r1, r2, h2, h3, o3, o4, closing, locked, taken, shut
<1>9. /\ h3.ok = TRUE
      /\ h3.seen = {<<"prior input", name>>, <<"prior channel", name>>, closing}
      /\ DOMAIN h3.outputs = {<<"prior input", name>>, locked, shut}
      /\ shut \in h3.explained
      /\ h3.outputs[shut] = Explained1(closing, "UnilateralClose", Range(<<locked>>), o3)
  <2>1. /\ o3.state = Produces(h2, "UnilateralClose")
        /\ "ChannelLocked" \in MayConsume(h2, "UnilateralClose")
    BY <1>6, EngineTables
  <2>2. /\ h2.ok = TRUE /\ h2.seen = {<<"prior input", name>>, <<"prior channel", name>>}
        /\ DOMAIN h2.outputs = {<<"prior input", name>>, locked}
        /\ h2.outputs[locked].amount = st.total /\ h2.outputs[locked].asset = Asset
        /\ h2.outputs[locked].state = "ChannelLocked"
    BY <1>7 DEF LockedBy, locked
  <2> HIDE DEF name
  <2>3. \E y \in DOMAIN h2.outputs :
          /\ <<locked>> = <<y>>
          /\ h2.outputs[y].state \in MayConsume(h2, "UnilateralClose")
          /\ h2.outputs[y].amount = o3.amount /\ h2.outputs[y].asset = Asset
    BY <1>6, <2>1, <2>2
  <2>4. MakesOne(h2, closing, "UnilateralClose", <<locked>>, o3)
    BY <1>5, <1>6, <2>1, <2>2, <2>3 DEF MakesOne
  <2>5. MadeOne(h2, closing, "UnilateralClose", <<locked>>, o3, h3)
    BY <1>8, <2>4, OneOutputTurn
  <2> QED
    BY <1>6, <2>2, <2>5 DEF MadeOne
<1>10. /\ h3.outputs[shut].amount = st.total /\ h3.outputs[shut].asset = Asset
       /\ h3.outputs[shut].state = "Closed" /\ h3.outputs[shut].kind = "UnilateralClose"
       /\ h3.outputs[shut].anchor = anchor
  <2>1. h3.outputs[shut] = Explained1(closing, "UnilateralClose", Range(<<locked>>), o3)
    BY <1>9
  <2> HIDE DEF anchor, name
  <2> QED
    BY <1>6, <2>1 DEF Explained1
<1>11. CASE kind = "Commitment"
  <2>1. RecoveredOutput(c, kind) = shut
    BY <1>11 DEF RecoveredOutput, shut
  <2>2. TerminalKind(kind) = "UnilateralClose" /\ TerminalState(kind) = "Closed"
    BY <1>11 DEF TerminalKind, TerminalState
  <2> QED
    BY <1>4, <1>9, <1>10, <1>11, <2>1, <2>2 DEF RecoveryHistoryValid, R
<1>12. CASE kind # "Commitment"
  <2> DEFINE h4 == Turn(h3, r4)
             k == TerminalKind(kind)
  <2>1. /\ k \in {"SecondLevelHtlc", "Sweep"}
        /\ TerminalState(kind) = Produces(h3, k) /\ "Closed" \in MayConsume(h3, k)
    BY <1>12, EngineTables DEF TerminalKind, TerminalState, SpendKinds
  <2> HIDE DEF name, k
  <2>2. \E y \in DOMAIN h3.outputs :
          /\ <<shut>> = <<y>>
          /\ h3.outputs[y].state \in MayConsume(h3, k)
          /\ h3.outputs[y].amount = o4.amount /\ h3.outputs[y].asset = Asset
    BY <1>6, <1>9, <1>10, <2>1
  <2>3. MakesOne(h3, name, k, <<shut>>, o4)
    BY <1>5, <1>6, <1>9, <2>1, <2>2 DEF MakesOne
  <2>4. MadeOne(h3, name, k, <<shut>>, o4, h4)
    BY <2>3, OneOutputTurn DEF k
  <2> HIDE DEF h4
  <2>5. /\ h4.ok = TRUE /\ taken \in h4.explained
        /\ h4.outputs[taken] = Explained1(name, k, Range(<<shut>>), o4)
    BY <1>6, <2>4 DEF MadeOne
  <2>6. /\ h4.outputs[taken].kind = k /\ h4.outputs[taken].state = TerminalState(kind)
        /\ h4.outputs[taken].amount = st.total /\ h4.outputs[taken].anchor = anchor
    BY <1>6, <2>5 DEF Explained1
  <2>7. RecoveredOutput(c, kind) = taken
    BY <1>12 DEF RecoveredOutput, taken
  <2>8. Replay(R) = h4
    BY <1>4, <1>12 DEF h4
  <2> QED
    BY <2>5, <2>6, <2>7, <2>8 DEF RecoveryHistoryValid, R, k
<1> QED
  BY <1>11, <1>12


-----------------------------------------------------------------------------
(* A close can always be built *)

(* A proof that build_close_proof makes for a side that is not empty       *)
(* passes the ancestry check against the close it was built for.           *)
LEMMA BuiltProofVerifies ==
  ASSUME NEW c \in Channels, NEW s \in Sides, NEW n \in Amount, NEW a \in Amount, a # 0,
         NEW keys \in CloseKeys
  PROVE  VerifySemanticAncestry(CloseProof(c, s, n, a, keys[s]),
           ForClose(Asset, a, keys[s], CloseGenesis, CloseAnchor(c, s, n, a, keys[s])))
<1> DEFINE anchor == CloseAnchor(c, s, n, a, keys[s])
           key == keys[s]
           p == ProofFile(Asset, CloseGenesis, anchor, a, key)
           context == ForClose(Asset, a, key, CloseGenesis, anchor)
<1>1. /\ anchor # Malformed /\ CloseGenesis # Malformed /\ Asset # ZeroId
      /\ CloseGenesis # anchor
  BY AnchorAssumption, CloseAssumption DEF CloseGenesis, CloseAnchor
<1> HIDE DEF anchor, key
<1>2. /\ p.version = 0 /\ p.scope = "SemanticAncestry" /\ p.network = "Regtest"
      /\ p.type = "Normal" /\ p.asset = Asset /\ p.amount = a /\ p.key = key
      /\ p.genesis = CloseGenesis /\ p.anchor = anchor /\ p.root = RootOf(Asset, key, a)
  BY DEF ProofFile
<1>3. /\ context.network = "Regtest" /\ context.type = "Normal" /\ context.asset = Asset
      /\ context.amount = a /\ context.key = key /\ context.genesis = CloseGenesis
      /\ context.anchor = anchor /\ context.stale = None /\ context.tapd = None
  BY DEF ForClose, DefaultContext
<1>4. /\ RootOf(Asset, key, a).sum = a /\ RootOf(Asset, key, a).hash = <<Asset, key, a>>
      /\ <<Asset, key, a>> # <<>>
  BY DEF RootOf
<1> HIDE DEF p, context
<1>5. \A f \in {"asset", "amount", "key", "genesis", "anchor"} :
        Expected(context[f], p[f])
  BY <1>2, <1>3 DEF Expected
<1>6. VerifySemanticAncestry(p, context)
  BY <1>1, <1>2, <1>3, <1>4, <1>5 DEF VerifySemanticAncestry, ZeroHash
<1> QED BY <1>6 DEF p, context, anchor, key, CloseProof

(* A state whose sides are not empty and add up to its total can be closed. *)
LEMMA BuiltCloseValidates ==
  ASSUME NEW c \in Channels, NEW st, GoodState(st), NEW keys \in CloseKeys,
         st.local # 0, st.remote # 0
  PROVE  CloseValid(CloseOf(c, st, keys))
<1> DEFINE cl == CloseOf(c, st, keys)
<1>1. /\ cl.parts.channel = c /\ cl.parts.number = st.number
      /\ cl.parts.total = st.total /\ cl.parts.key = keys
      /\ cl.parts.amount.local = st.local /\ cl.parts.amount.remote = st.remote
      /\ cl.id = CloseId(cl.parts)
      /\ cl.status = "CooperativeClosed" /\ cl.force = "Deferred"
      /\ \A s \in Sides :
           cl.proof[s] = CloseProof(c, s, st.number, cl.parts.amount[s], keys[s])
  BY DEF CloseOf
<1>2. /\ U64Max \in Nat /\ st.number \in Amount
      /\ st.local \in Amount /\ st.remote \in Amount /\ st.total \in Amount
      /\ st.local + st.remote = st.total
  BY FundingAssumption DEF GoodState, IsState, Conserved
<1> HIDE DEF cl
<1>3. \A s \in Sides : cl.parts.amount[s] \in Amount /\ cl.parts.amount[s] # 0
  BY <1>1, <1>2 DEF Sides
<1>4. \A s \in Sides : cl.proof[s].amount = cl.parts.amount[s]
  <2>1. ASSUME NEW s, NEW n, NEW a, NEW k PROVE CloseProof(c, s, n, a, k).amount = a
    BY DEF CloseProof, ProofFile
  <2> QED BY <1>1, <2>1
<1>5. \A s \in Sides : CloseProofValid(cl, s, cl.proof[s])
  BY <1>1, <1>2, <1>3, BuiltProofVerifies DEF CloseProofValid
<1>6. CloseHistoryValid(cl)
  <2>1. \A s \in Sides : cl.proof[s].amount \in Nat \ {0}
    BY <1>2, <1>3, <1>4 DEF Amount
  <2>2. /\ cl.parts.total = cl.proof["local"].amount + cl.proof["remote"].amount
        /\ cl.parts.total <= U64Max
    BY <1>1, <1>2, <1>4 DEF Sides, Amount
  <2> QED BY <1>2, <2>1, <2>2, CloseReplays
<1>7. AllocationValid(cl, cl.parts.number)
  BY <1>1, <1>2 DEF AllocationValid
<1> QED BY <1>1, <1>2, <1>5, <1>6, <1>7 DEF CloseValid, cl

(* Every channel with two non-empty sides can be closed in every state the *)
(* store can reach: the close built from it passes the ancestry check of   *)
(* both proofs, the replay of its five records and the fork's allocation   *)
(* check.                                                                  *)
THEOREM ClosesNeverStuck == LifecycleSpec => []CloseNeverStuck
<1>1. StoreInv => CloseNeverStuck
  <2> SUFFICES ASSUME StoreInv, NEW c \in DOMAIN mem, NEW keys \in CloseKeys,
                      mem[c].local # 0, mem[c].remote # 0
               PROVE  CloseValid(CloseOf(c, mem[c], keys))
    BY DEF CloseNeverStuck
  <2>1. c \in Channels /\ GoodState(mem[c])
    BY DEF StoreInv, IInv, GoodStore, IsStore, IsMap
  <2> QED BY <2>1, BuiltCloseValidates
<1> QED BY <1>1, StoreInvariance, PTL

-----------------------------------------------------------------------------
(* The reports of a closed channel are accepted *)

(* NoValue stands for Option::None: it is none of the texts, ids and       *)
(* evidence (tuples, in the model) that an event carries as Some.          *)
NoValueApart ==
  /\ NoValue \notin RefusalKinds
  /\ \A x, y : NoValue # <<x, y>>
  /\ \A x, y, z : NoValue # <<x, y, z>>
  /\ \A w, x, y, z : NoValue # <<w, x, y, z>>

(* A recorded close stays valid: record_close validates the whole store.   *)
ClosesStayValid ==
  \A id \in DOMAIN closes : id = closes[id].id /\ CloseValid(closes[id])

LEMMA NextRecorded == ClosesStayValid /\ [LifecycleNext]_allVars => ClosesStayValid'
<1> SUFFICES ASSUME ClosesStayValid, [LifecycleNext]_allVars PROVE ClosesStayValid'
  OBVIOUS
<1>1. CASE UNCHANGED closes
  BY <1>1 DEF ClosesStayValid
<1>2. ASSUME NEW cl, RecordClose(cl) PROVE ClosesStayValid'
  BY <1>2 DEF RecordClose, CloseStoreValid, ClosesStayValid
<1>3. CASE RestartAfterClose
  BY <1>3 DEF RestartAfterClose, EmptyMap, ClosesStayValid
<1> QED
  BY <1>1, <1>2, <1>3
  DEF LifecycleNext, allVars, closeVars, StoreStep, CloseStep, NewCloseStep, CooperativeClose,
      ClaimClose, RecoveryStep, TakeCheckpoint, RunLifecycle, Observe

LEMMA RecordedInvariance == LifecycleSpec => []ClosesStayValid
<1>1. LifecycleInit => ClosesStayValid
  BY DEF LifecycleInit, CloseInit, EmptyMap, ClosesStayValid
<1> QED BY <1>1, NextRecorded, PTL DEF LifecycleSpec

(* The statuses of the kinds of events.                                    *)
LEMMA StatusTable ==
  /\ \A k \in CloseKinds : RequiredStatus(k) = "ProofExported"
  /\ \A k \in RecoveryKinds : RequiredStatus(k) = "AssetProofRecovered"
  /\ \A k \in RefusalKinds : RequiredStatus(k) = "Refused"
  /\ RequiredStatus("RestartRecovery") = "Restarted"
<1>1. CloseKinds \cap RecoveryKinds = {} /\ (CloseKinds \cup RecoveryKinds) \cap RefusalKinds = {}
      /\ "RestartRecovery" \notin CloseKinds \cup RecoveryKinds \cup RefusalKinds
  BY DEF CloseKinds, RecoveryKinds, RefusalKinds
<1> QED BY <1>1 DEF RequiredStatus

(* Each builder of run_onchain_lifecycle_smoke makes a valid event.        *)
LEMMA CloseEventValid ==
  ASSUME NoValueApart, NEW kind \in CloseKinds, NEW side, NEW cl, cl.parts.amount[side] # 0
  PROVE  CloseEvent(kind, side, cl).kind = kind /\ EventValid(CloseEvent(kind, side, cl))
<1> DEFINE e == CloseEvent(kind, side, cl)
           o == ExportOutput(cl.id, side, cl.proof[side])
           h == <<side, cl.proof[side]>>
<1>1. /\ e.kind = kind /\ e.status = RequiredStatus(kind)
      /\ e.amount = cl.parts.amount[side] /\ e.history = o /\ e.handoff = h
      /\ e.reason = NoValue
  BY DEF CloseEvent, NewEvent
<1>2. o # NoValue /\ h # NoValue
  BY DEF NoValueApart, ExportOutput
<1>3. RequiredStatus(kind) = "ProofExported"
  BY StatusTable
<1>4. kind \notin RecoveryKinds /\ kind # "RestartRecovery"
  BY DEF CloseKinds, RecoveryKinds
<1> HIDE DEF e, o, h
<1>5. EventValid(e)
  BY <1>1, <1>2, <1>3, <1>4 DEF EventValid, RequiresSweepOutput
<1> QED BY <1>1, <1>5 DEF e

LEMMA RecoveryEventValid ==
  ASSUME NoValueApart, NEW kind \in RecoveryKinds, NEW spend, NEW c, NEW st, st.total # 0
  PROVE  /\ RecoveryEvent(kind, spend, c, st).kind = kind
         /\ EventValid(RecoveryEvent(kind, spend, c, st))
<1> DEFINE e == RecoveryEvent(kind, spend, c, st)
           o == RecoveredOutput(c, spend)
           h == <<"handoff", spend, c, st>>
           w == <<"sweep", spend, c, st>>
<1>1. /\ e.kind = kind /\ e.status = RequiredStatus(kind)
      /\ e.amount = st.total /\ e.history = o /\ e.handoff = h /\ e.sweep = w
      /\ e.reason = NoValue
  BY DEF RecoveryEvent, NewEvent
<1>2. o # NoValue /\ h # NoValue /\ w # NoValue
  BY DEF NoValueApart, RecoveredOutput, UnilateralOutput
<1>3. RequiredStatus(kind) = "AssetProofRecovered"
  BY StatusTable
<1>4. kind # "RestartRecovery"
  BY DEF RecoveryKinds
<1> HIDE DEF e, o, h, w
<1>5. EventValid(e)
  BY <1>1, <1>2, <1>3, <1>4 DEF EventValid
<1> QED BY <1>1, <1>5 DEF e

LEMMA RefusalEventValid ==
  ASSUME NoValueApart, NEW kind \in RefusalKinds, NEW c, NEW total, total # 0
  PROVE  /\ RefusalEvent(kind, c, total).kind = kind
         /\ EventValid(RefusalEvent(kind, c, total))
<1> DEFINE e == RefusalEvent(kind, c, total)
<1>1. /\ e.kind = kind /\ e.status = RequiredStatus(kind) /\ e.amount = total
      /\ e.reason = kind
  BY DEF RefusalEvent, NewEvent
<1>2. kind # NoValue
  BY DEF NoValueApart
<1>3. RequiredStatus(kind) = "Refused"
  BY StatusTable
<1>4. /\ kind \notin CloseKinds \cup RecoveryKinds /\ kind # "RestartRecovery"
      /\ kind \notin RequiresProofHistory
  BY DEF CloseKinds, RecoveryKinds, RefusalKinds, RequiresProofHistory
<1> HIDE DEF e
<1>5. EventValid(e)
  BY <1>1, <1>2, <1>3, <1>4 DEF EventValid, RequiresProofHandoff, RequiresSweepOutput
<1> QED BY <1>1, <1>5 DEF e

LEMMA RestartEventValid ==
  ASSUME NoValueApart, NEW c, NEW cl, NEW st, cl.parts.total # 0
  PROVE  /\ RestartEvent(c, cl, st).kind = "RestartRecovery"
         /\ EventValid(RestartEvent(c, cl, st))
<1> DEFINE e == RestartEvent(c, cl, st)
           o == ExportOutput(cl.id, "local", cl.proof["local"])
           w == <<"wallets", cl.proof>>
           m == <<"monitor", cl.parts,
                  Ownership(c, st.number, "Commitment", TRUE, TRUE, st),
                  RecoveredOutput(c, "Commitment")>>
<1>1. /\ e.kind = "RestartRecovery" /\ e.status = RequiredStatus("RestartRecovery")
      /\ e.amount = cl.parts.total /\ e.history = o /\ e.wallet = w /\ e.monitor = m
      /\ e.reason = NoValue
  BY DEF RestartEvent, NewEvent
<1>2. o # NoValue /\ w # NoValue /\ m # NoValue
  BY DEF NoValueApart, ExportOutput
<1>3. RequiredStatus("RestartRecovery") = "Restarted"
  BY StatusTable
<1>4. "RestartRecovery" \notin CloseKinds \cup RecoveryKinds
  BY DEF CloseKinds, RecoveryKinds
<1> HIDE DEF e, o, w, m
<1>5. EventValid(e)
  BY <1>1, <1>2, <1>3, <1>4 DEF EventValid, RequiresProofHandoff, RequiresSweepOutput
<1> QED BY <1>1, <1>5 DEF e

(* The kinds of the eleven events of a report, in their order.             *)
ReportKinds ==
  <<"CooperativeCloseLocal", "CooperativeCloseRemote", "UnilateralCommitment",
    "SecondLevelHtlcSuccess", "SecondLevelHtlcTimeout", "FinalSweep", "FailedSweep",
    "BtcOnlySweepRefusal", "StaleProofOwnershipRefusal", "MissingProofOwnershipRefusal",
    "RestartRecovery">>

LEMMA ReportKindsListed ==
  /\ DOMAIN ReportKinds = 1 .. 11
  /\ \A i \in 1 .. 11 : ReportKinds[i] \in EventKinds
  /\ \A i, j \in 1 .. 11 : ReportKinds[i] = ReportKinds[j] => i = j
  /\ \A k \in EventKinds : \E i \in 1 .. 11 : ReportKinds[i] = k
<1>1. \A i : i \in 1 .. 11 <=> i \in {1, 2, 3, 4, 5, 6, 7, 8, 9, 10, 11}
  OBVIOUS
<1>2. DOMAIN ReportKinds = 1 .. 11
  BY DEF ReportKinds
<1>3. /\ ReportKinds[1] = "CooperativeCloseLocal" /\ ReportKinds[2] = "CooperativeCloseRemote"
      /\ ReportKinds[3] = "UnilateralCommitment" /\ ReportKinds[4] = "SecondLevelHtlcSuccess"
      /\ ReportKinds[5] = "SecondLevelHtlcTimeout" /\ ReportKinds[6] = "FinalSweep"
      /\ ReportKinds[7] = "FailedSweep" /\ ReportKinds[8] = "BtcOnlySweepRefusal"
      /\ ReportKinds[9] = "StaleProofOwnershipRefusal"
      /\ ReportKinds[10] = "MissingProofOwnershipRefusal"
      /\ ReportKinds[11] = "RestartRecovery"
  BY DEF ReportKinds
<1>4. EventKinds =
        {"CooperativeCloseLocal", "CooperativeCloseRemote", "UnilateralCommitment",
         "SecondLevelHtlcSuccess", "SecondLevelHtlcTimeout", "FinalSweep",
         "FailedSweep", "BtcOnlySweepRefusal", "StaleProofOwnershipRefusal",
         "MissingProofOwnershipRefusal", "RestartRecovery"}
  BY DEF EventKinds, CloseKinds, RecoveryKinds, RefusalKinds
<1>5. \A i \in 1 .. 11 : ReportKinds[i] \in EventKinds
  BY <1>1, <1>3, <1>4
<1>6. \A i, j \in 1 .. 11 : ReportKinds[i] = ReportKinds[j] => i = j
  BY <1>1, <1>3
<1>7. ASSUME NEW k \in EventKinds PROVE \E i \in 1 .. 11 : ReportKinds[i] = k
  BY <1>3, <1>4
<1> QED BY <1>2, <1>5, <1>6, <1>7

(* A list of events as run_onchain_lifecycle_smoke builds it.              *)
Complete(evs) ==
  /\ DOMAIN evs = 1 .. 11
  /\ \A i \in 1 .. 11 : evs[i].kind = ReportKinds[i] /\ EventValid(evs[i])

LEMMA LifecycleEventsComplete ==
  ASSUME NoValueApart, NEW c, NEW cl, NEW st, st.total # 0, cl.parts.total # 0,
         \A s \in Sides : cl.parts.amount[s] # 0
  PROVE  Complete(LifecycleEvents(c, cl, st))
<1> DEFINE evs == LifecycleEvents(c, cl, st)
           Right(i) == evs[i].kind = ReportKinds[i] /\ EventValid(evs[i])
<1>1. DOMAIN evs = 1 .. 11
  BY DEF LifecycleEvents
<1>2. /\ evs[1] = CloseEvent("CooperativeCloseLocal", "local", cl)
      /\ evs[2] = CloseEvent("CooperativeCloseRemote", "remote", cl)
      /\ evs[3] = RecoveryEvent("UnilateralCommitment", "Commitment", c, st)
      /\ evs[4] = RecoveryEvent("SecondLevelHtlcSuccess", "SecondLevelHtlc", c, st)
      /\ evs[5] = RecoveryEvent("SecondLevelHtlcTimeout", "SecondLevelHtlc", c, st)
      /\ evs[6] = RecoveryEvent("FinalSweep", "FinalSweep", c, st)
      /\ evs[7] = RefusalEvent("FailedSweep", cl.parts.channel, cl.parts.total)
      /\ evs[8] = RefusalEvent("BtcOnlySweepRefusal", c, st.total)
      /\ evs[9] = RefusalEvent("StaleProofOwnershipRefusal", c, st.total)
      /\ evs[10] = RefusalEvent("MissingProofOwnershipRefusal", c, st.total)
      /\ evs[11] = RestartEvent(c, cl, st)
  BY DEF LifecycleEvents
<1>3. /\ ReportKinds[1] = "CooperativeCloseLocal" /\ ReportKinds[2] = "CooperativeCloseRemote"
      /\ ReportKinds[3] = "UnilateralCommitment" /\ ReportKinds[4] = "SecondLevelHtlcSuccess"
      /\ ReportKinds[5] = "SecondLevelHtlcTimeout" /\ ReportKinds[6] = "FinalSweep"
      /\ ReportKinds[7] = "FailedSweep" /\ ReportKinds[8] = "BtcOnlySweepRefusal"
      /\ ReportKinds[9] = "StaleProofOwnershipRefusal"
      /\ ReportKinds[10] = "MissingProofOwnershipRefusal"
      /\ ReportKinds[11] = "RestartRecovery"
  BY DEF ReportKinds
<1> HIDE DEF evs
<1>4. Right(1) /\ Right(2)
  <2>1. "CooperativeCloseLocal" \in CloseKinds /\ "CooperativeCloseRemote" \in CloseKinds
    BY DEF CloseKinds
  <2> QED BY <1>2, <1>3, <2>1, CloseEventValid DEF Sides
<1>5. Right(3) /\ Right(4) /\ Right(5) /\ Right(6)
  <2>1. {"UnilateralCommitment", "SecondLevelHtlcSuccess", "SecondLevelHtlcTimeout",
         "FinalSweep"} \subseteq RecoveryKinds
    BY DEF RecoveryKinds
  <2> QED BY <1>2, <1>3, <2>1, RecoveryEventValid
<1>6. Right(7) /\ Right(8) /\ Right(9) /\ Right(10)
  <2>1. {"FailedSweep", "BtcOnlySweepRefusal", "StaleProofOwnershipRefusal",
         "MissingProofOwnershipRefusal"} \subseteq RefusalKinds
    BY DEF RefusalKinds
  <2> QED BY <1>2, <1>3, <2>1, RefusalEventValid
<1>7. Right(11)
  BY <1>2, <1>3, RestartEventValid
<1>8. \A i \in 1 .. 11 : i \in {1, 2, 3, 4, 5, 6, 7, 8, 9, 10, 11}
  OBVIOUS
<1> HIDE DEF Right
<1>9. \A i \in 1 .. 11 : Right(i)
  BY <1>4, <1>5, <1>6, <1>7, <1>8
<1> QED BY <1>1, <1>9 DEF Complete, evs, Right

(* A complete list is accepted as a report, and every flag of it is set.   *)
LEMMA CompleteReports ==
  ASSUME NEW evs, Complete(evs)
  PROVE  /\ ReportValid(evs)
         /\ Summary(evs) = [exported |-> TRUE, recovered |-> RecoveryKinds,
                            refused |-> {"FailedSweep", "BtcOnlySweepRefusal"},
                            restarted |-> TRUE]
<1>1. evs # <<>>
  <2>1. 1 \in DOMAIN evs
    BY DEF Complete
  <2> QED BY <2>1
<1>2. DistinctIds(evs, EventId)
  <2>1. \A i, j \in DOMAIN evs : EventId(evs[i]) = EventId(evs[j]) => evs[i].kind = evs[j].kind
    BY DEF EventId
  <2> QED BY <2>1, ReportKindsListed DEF Complete, DistinctIds
<1>3. \A k \in EventKinds : HasStatus(evs, k, RequiredStatus(k))
  <2> SUFFICES ASSUME NEW k \in EventKinds PROVE HasStatus(evs, k, RequiredStatus(k))
    OBVIOUS
  <2>1. PICK i \in 1 .. 11 : ReportKinds[i] = k
    BY ReportKindsListed
  <2>2. evs[i].kind = k /\ evs[i].status = RequiredStatus(k)
    BY <2>1 DEF Complete, EventValid
  <2> QED BY <2>2 DEF HasStatus, Complete
<1>4. /\ CloseKinds \cup RecoveryKinds \cup RefusalKinds \cup {"RestartRecovery"} = EventKinds
      /\ {"FailedSweep", "BtcOnlySweepRefusal"} \subseteq RefusalKinds
  BY DEF EventKinds, RefusalKinds
<1>5. /\ \A k \in CloseKinds : HasStatus(evs, k, "ProofExported")
      /\ \A k \in RecoveryKinds : HasStatus(evs, k, "AssetProofRecovered")
      /\ \A k \in {"FailedSweep", "BtcOnlySweepRefusal"} : HasStatus(evs, k, "Refused")
      /\ HasStatus(evs, "RestartRecovery", "Restarted")
  BY <1>3, <1>4, StatusTable
<1>6. /\ {k \in RecoveryKinds : HasStatus(evs, k, "AssetProofRecovered")} = RecoveryKinds
      /\ {k \in {"FailedSweep", "BtcOnlySweepRefusal"} : HasStatus(evs, k, "Refused")}
           = {"FailedSweep", "BtcOnlySweepRefusal"}
  BY <1>5
<1>7. /\ (\A k \in CloseKinds : HasStatus(evs, k, "ProofExported")) = TRUE
      /\ HasStatus(evs, "RestartRecovery", "Restarted") = TRUE
  BY <1>5 DEF HasStatus
<1>8. Summary(evs) = [exported |-> TRUE, recovered |-> RecoveryKinds,
                      refused |-> {"FailedSweep", "BtcOnlySweepRefusal"},
                      restarted |-> TRUE]
  BY <1>6, <1>7, Zenon DEF Summary
<1> QED BY <1>1, <1>2, <1>8 DEF Complete, ReportValid

(* The tables of observations and of events agree.                         *)
LEMMA ObservationTable ==
  ASSUME NEW k \in EventKinds
  PROVE  LET okind == ObservationKind(k)
         IN  /\ MatchesEventKind(okind, k)
             /\ ObservedStatus(okind) = RequiredStatus(k)
             /\ AnchorStateAllowed(okind,
                  CASE okind \in {"FailedSweep", "MissingProofOwnershipRefusal"} -> "Unknown"
                    [] okind = "StaleProofOwnershipAnchor" -> "Stale"
                    [] OTHER -> "Confirmed")
<1>1. CASE k \in CloseKinds
  <2>1. ObservationKind(k) = "CooperativeCloseAnchor"
    BY <1>1 DEF ObservationKind, CloseKinds
  <2> QED BY <1>1, <2>1, StatusTable DEF MatchesEventKind, ObservedStatus, AnchorStateAllowed
<1>2. CASE k = "UnilateralCommitment"
  <2>1. ObservationKind(k) = "UnilateralCommitmentAnchor" /\ k \in RecoveryKinds
    BY <1>2 DEF ObservationKind, CloseKinds, RecoveryKinds
  <2> QED BY <1>2, <2>1, StatusTable DEF MatchesEventKind, ObservedStatus, AnchorStateAllowed
<1>3. CASE k \in {"SecondLevelHtlcSuccess", "SecondLevelHtlcTimeout"}
  <2>1. ObservationKind(k) = "SecondLevelHtlcAnchor" /\ k \in RecoveryKinds
    BY <1>3 DEF ObservationKind, CloseKinds, RecoveryKinds
  <2> QED BY <1>3, <2>1, StatusTable DEF MatchesEventKind, ObservedStatus, AnchorStateAllowed
<1>4. CASE k = "FinalSweep"
  <2>1. ObservationKind(k) = "FinalSweepAnchor" /\ k \in RecoveryKinds
    BY <1>4 DEF ObservationKind, CloseKinds, RecoveryKinds
  <2> QED BY <1>4, <2>1, StatusTable DEF MatchesEventKind, ObservedStatus, AnchorStateAllowed
<1>5. CASE k = "StaleProofOwnershipRefusal"
  <2>1. ObservationKind(k) = "StaleProofOwnershipAnchor" /\ k \in RefusalKinds
    BY <1>5 DEF ObservationKind, CloseKinds, RefusalKinds
  <2> QED BY <1>5, <2>1, StatusTable DEF MatchesEventKind, ObservedStatus, AnchorStateAllowed
<1>6. CASE k = "RestartRecovery"
  <2>1. ObservationKind(k) = "RestartEvidence"
    BY <1>6 DEF ObservationKind, CloseKinds
  <2> QED BY <1>6, <2>1, StatusTable DEF MatchesEventKind, ObservedStatus, AnchorStateAllowed
<1>7. CASE k \in {"FailedSweep", "BtcOnlySweepRefusal", "MissingProofOwnershipRefusal"}
  <2>1. ObservationKind(k) = k /\ k \in RefusalKinds
    BY <1>7 DEF ObservationKind, CloseKinds, RefusalKinds
  <2> QED BY <1>7, <2>1, StatusTable DEF MatchesEventKind, ObservedStatus, AnchorStateAllowed
<1> QED
  BY <1>1, <1>2, <1>3, <1>4, <1>5, <1>6, <1>7 DEF EventKinds, RecoveryKinds, RefusalKinds

(* The bounded observation of a valid event is valid.                      *)
LEMMA BoundedObservationValid ==
  ASSUME NoValueApart, NEW e, EventValid(e), e.kind \in EventKinds
  PROVE  LET o == BoundedObservation(e)
         IN  /\ ObservationValid(o) /\ o.event = EventId(e) /\ o.eventKind = e.kind
             /\ o.eventStatus = e.status /\ o.channel = e.channel /\ o.amount = e.amount
             /\ o.kind = ObservationKind(e.kind)
<1> DEFINE okind == ObservationKind(e.kind)
           source == RequiredSource(okind)
           state == CASE okind \in {"FailedSweep", "MissingProofOwnershipRefusal"} -> "Unknown"
                      [] okind = "StaleProofOwnershipAnchor" -> "Stale"
                      [] OTHER -> "Confirmed"
           o == ObservationOf(e, okind, source, state)
<1>1. BoundedObservation(e) = o
  BY DEF BoundedObservation
<1>2. /\ MatchesEventKind(okind, e.kind) /\ ObservedStatus(okind) = RequiredStatus(e.kind)
      /\ AnchorStateAllowed(okind, state)
  BY ObservationTable
<1> HIDE DEF okind, source, state
<1>3. /\ o.event = EventId(e) /\ o.eventKind = e.kind /\ o.eventStatus = e.status
      /\ o.source = source /\ o.kind = okind /\ o.channel = e.channel
      /\ o.amount = e.amount /\ o.anchorState = state
      /\ o.outpoint = IF okind \in RequiresAnchorOutpoint THEN EventId(e) ELSE NoValue
      /\ o.sweep = IF okind \in ObservesSweepOutput
                   THEN OrElse(e.sweep, EventId(e)) ELSE NoValue
      /\ o.wallet = OrElse(e.wallet, EventId(e)) /\ o.monitor = OrElse(e.monitor, EventId(e))
      /\ o.reason = IF e.status = "Refused" THEN OrElse(e.reason, e.kind) ELSE NoValue
  BY DEF ObservationOf
<1>4. EventId(e) # NoValue
  BY DEF EventId, NoValueApart
<1>5. \A v : OrElse(v, EventId(e)) # NoValue
  BY <1>4 DEF OrElse
<1>6. e.status = "Refused" => OrElse(e.reason, e.kind) # NoValue
  BY DEF EventValid, OrElse
<1>7. e.amount # 0 /\ e.status = RequiredStatus(e.kind)
  BY DEF EventValid
<1> HIDE DEF o
<1>8. ObservationValid(o)
  BY <1>2, <1>3, <1>4, <1>5, <1>6, <1>7 DEF ObservationValid, source
<1> QED BY <1>1, <1>3, <1>8 DEF okind

(* The bounded observations of a complete list are accepted and cover it.  *)
LEMMA CompleteObservations ==
  ASSUME NoValueApart, NEW evs, Complete(evs)
  PROVE  LET obs == BoundedObservations(evs)
         IN  /\ ObservationReportValid(evs, obs)
             /\ AllObserved(evs, obs) /\ RecoveryConfirmed(evs, obs)
             /\ RefusalsPresent(evs, obs) /\ RestartPresent(obs)
             /\ \A j \in DOMAIN obs : obs[j].kind \in ObservationKinds
             /\ \E j \in DOMAIN obs : TRUE
<1> DEFINE obs == BoundedObservations(evs)
<1>1. DOMAIN obs = 1 .. 11 /\ \A i \in 1 .. 11 : obs[i] = BoundedObservation(evs[i])
  BY DEF BoundedObservations, Complete
<1> HIDE DEF obs
<1>2. ASSUME NEW i \in 1 .. 11
      PROVE  /\ ObservationValid(obs[i]) /\ obs[i].event = EventId(evs[i])
             /\ obs[i].eventKind = evs[i].kind /\ obs[i].eventStatus = evs[i].status
             /\ obs[i].channel = evs[i].channel /\ obs[i].amount = evs[i].amount
             /\ obs[i].kind = ObservationKind(evs[i].kind)
             /\ evs[i].status = RequiredStatus(evs[i].kind)
  <2>1. EventValid(evs[i]) /\ evs[i].kind \in EventKinds
    BY ReportKindsListed DEF Complete
  <2> QED BY <1>1, <2>1, BoundedObservationValid DEF EventValid
<1>3. DistinctIds(obs, ObservationId)
  <2> SUFFICES ASSUME NEW i \in 1 .. 11, NEW j \in 1 .. 11,
                      ObservationId(obs[i]) = ObservationId(obs[j])
               PROVE  i = j
    BY <1>1 DEF DistinctIds
  <2>1. EventId(evs[i]) = EventId(evs[j])
    BY <1>2 DEF ObservationId
  <2>2. evs[i].kind = evs[j].kind
    BY <2>1 DEF EventId
  <2> QED BY <2>2, ReportKindsListed DEF Complete
<1>4. ObservationReportValid(evs, obs)
  <2>1. obs # <<>>
    <3>1. 1 \in DOMAIN obs
      BY <1>1
    <3> QED BY <3>1
  <2>2. ReportValid(evs)
    BY CompleteReports
  <2>3. ASSUME NEW i \in 1 .. 11
        PROVE  /\ ObservationValid(obs[i])
               /\ \E j \in DOMAIN evs :
                    LET e == evs[j]
                    IN  /\ EventId(e) = obs[i].event
                        /\ e.kind = obs[i].eventKind /\ e.status = obs[i].eventStatus
                        /\ e.channel = obs[i].channel /\ e.amount = obs[i].amount
    <3>1. i \in DOMAIN evs
      BY DEF Complete
    <3> QED BY <1>2, <3>1
  <2> QED BY <1>1, <1>3, <2>1, <2>2, <2>3 DEF ObservationReportValid
<1>5. AllObserved(evs, obs)
  BY <1>1, <1>2 DEF AllObserved, Observes, Complete
<1>6. RecoveryConfirmed(evs, obs)
  <2> SUFFICES ASSUME NEW i \in 1 .. 11, evs[i].status # "Refused"
               PROVE  Observes(obs[i], evs[i]) /\ obs[i].anchorState = "Confirmed"
    BY <1>1 DEF RecoveryConfirmed, Complete
  <2>1. obs[i].eventStatus = RequiredStatus(obs[i].eventKind) /\ obs[i].eventStatus # "Refused"
    BY <1>2
  <2> QED BY <1>2, <2>1, RecoveryObservedConfirmed DEF Observes
<1>7. RefusalsPresent(evs, obs)
  <2> SUFFICES ASSUME NEW i \in 1 .. 11, evs[i].status = "Refused"
               PROVE  /\ Observes(obs[i], evs[i])
                      /\ obs[i].eventStatus = "Refused" /\ obs[i].reason # NoValue
    BY <1>1 DEF RefusalsPresent, Complete
  <2> QED BY <1>2 DEF Observes, ObservationValid
<1>8. RestartPresent(obs)
  <2>1. evs[11].kind = "RestartRecovery"
    BY DEF Complete, ReportKinds
  <2>2. ObservationKind("RestartRecovery") = "RestartEvidence"
    BY DEF ObservationKind, CloseKinds
  <2>3. ObservationValid(obs[11]) /\ obs[11].kind = "RestartEvidence"
    BY <1>2, <2>1, <2>2
  <2>4. AnchorStateAllowed("RestartEvidence", obs[11].anchorState)
        /\ NoValue \notin {obs[11].wallet, obs[11].monitor}
    BY <2>3 DEF ObservationValid
  <2>5. obs[11].anchorState = "Confirmed"
    BY <2>4 DEF AnchorStateAllowed
  <2> QED BY <1>1, <2>3, <2>4, <2>5 DEF RestartPresent
<1>9. \A j \in DOMAIN obs : obs[j].kind \in ObservationKinds
  BY <1>1, <1>2, ReportKindsListed DEF Complete, ObservationKinds
<1>10. 1 \in DOMAIN obs
  BY <1>1
<1> QED BY <1>4, <1>5, <1>6, <1>7, <1>8, <1>9, <1>10 DEF obs

(* What a wallet exports of a close proof is the proof.                    *)
LEMMA CloseProofIsRead ==
  ASSUME NEW c, NEW s, NEW n, NEW a, NEW k
  PROVE  Decode(Encode(CloseProof(c, s, n, a, k))) = CloseProof(c, s, n, a, k)
BY DEF Decode, Encode, CloseProof, ProofFile, FieldTypes

(* A valid close and a state that has moved on give every evidence that    *)
(* require_lifecycle_evidence asks for.                                    *)
LEMMA EvidenceIsThere ==
  ASSUME NEW c \in Channels, NEW st, GoodState(st), st.total # 0, st.number > 0,
         NEW cl, CloseValid(cl), RestartMatches(cl),
         \A s \in Sides : Decode(Encode(cl.proof[s])) = cl.proof[s]
  PROVE  Evidence(c, cl, st)
<1>1. CloseHistoryValid(cl) /\ \A s \in Sides : CloseProofValid(cl, s, cl.proof[s])
  BY DEF CloseValid
<1>2. /\ U64Max \in Nat /\ st.total \in 1 .. U64Max
      /\ st.number \in Amount /\ st.number \in Nat
  BY FundingAssumption DEF GoodState, IsState, Amount
<1>3. ASSUME NEW kind \in SpendKinds PROVE OwnershipRecovered(c, st, kind)
  <2> DEFINE o == Ownership(c, st.number, kind, TRUE, TRUE, st)
             x == Expectation(c, st, kind)
  <2>1. o # None
    <3>1. st.total \in Amount
      BY <1>2 DEF Amount
    <3>2. Ownership(c, st.number, kind, TRUE, TRUE, [total |-> st.total]) # None
      BY <1>2, <3>1, OwnershipAssumption
    <3> QED BY <3>2 DEF Ownership
  <2>2. /\ o.channel = c /\ o.number = st.number /\ o.kind = kind /\ o.sum = st.total
        /\ o.btc = TRUE /\ o.asset = TRUE
        /\ x.channel = c /\ x.number = st.number /\ x.kind = kind /\ x.sum = st.total
    BY DEF Ownership, Expectation
  <2>3. RecoveryHistoryValid(c, st, kind)
    BY <1>2, RecoveryReplays
  <2> HIDE DEF o, x
  <2>4. OwnershipBuilt(o) /\ OwnershipAccepted(o, x)
    BY <2>1, <2>2 DEF OwnershipBuilt, OwnershipAccepted
  <2> QED BY <2>3, <2>4 DEF OwnershipRecovered, o, x
<1>4. MissingRefused(c, st, "Commitment")
  BY DEF MissingRefused, OwnershipAccepted
<1>5. StaleRefused(c, st, "Commitment")
  <2>1. st.number - 1 # st.number /\ st.number # 0
    BY <1>2
  <2>2. \A n : Ownership(c, n, "Commitment", TRUE, TRUE, st).number = n
    BY DEF Ownership
  <2>3. Expectation(c, st, "Commitment").number = st.number
    BY DEF Expectation
  <2> QED BY <2>1, <2>2, <2>3 DEF StaleRefused, OwnershipAccepted
<1>6. BtcOnlyRefused(c, st, "FinalSweep")
  BY DEF BtcOnlyRefused, OwnershipBuilt, Ownership
<1>7. FailedSweepGate # "Recovered" /\ BtcRestartUnaffected
  BY DEF FailedSweepGate, BtcRestartUnaffected, SkippedFields, BtcSmokeState
<1> QED BY <1>1, <1>3, <1>4, <1>5, <1>6, <1>7 DEF Evidence

(* A proof that passes validate_close_proof passes the import of a wallet, *)
(* which expects nothing, and is of the asset and amount of its side.      *)
LEMMA CloseProofImports ==
  ASSUME NEW cl, NEW s \in Sides, NEW p, CloseProofValid(cl, s, p),
         NEW keys \in CloseKeys, cl.parts.key = keys, cl.parts.channel \in Channels,
         cl.parts.number \in Amount, cl.parts.amount[s] \in Amount,
         p = CloseProof(cl.parts.channel, s, cl.parts.number, cl.parts.amount[s], keys[s])
  PROVE  /\ VerifySemanticAncestry(p, DefaultContext)
         /\ p.asset = Asset /\ p.amount = cl.parts.amount[s]
<1>1. p.asset = Asset /\ p.amount = cl.parts.amount[s]
  BY DEF CloseProof, ProofFile
<1>2. VerifySemanticAncestry(p, DefaultContext)
  <2> DEFINE context == ForClose(Asset, cl.parts.amount[s], cl.parts.key[s], CloseGenesis,
                          CloseAnchor(cl.parts.channel, s, cl.parts.number,
                                      cl.parts.amount[s], cl.parts.key[s]))
  <2>1. VerifySemanticAncestry(p, context)
    BY DEF CloseProofValid
  <2>2. /\ context.network = DefaultContext.network /\ context.type = DefaultContext.type
        /\ context.stale = DefaultContext.stale /\ context.tapd = DefaultContext.tapd
    BY DEF ForClose, DefaultContext
  <2>3. \A f \in {"asset", "amount", "key", "genesis", "anchor"} :
          Expected(DefaultContext[f], p[f])
    BY DEF DefaultContext, Expected
  <2> HIDE DEF context
  <2> QED BY <2>1, <2>2, <2>3 DEF VerifySemanticAncestry
<1> QED BY <1>1, <1>2

(* However late a close was recorded, and wherever the channel recovered   *)
(* stands, provided it has been updated: the evidence of close, restart    *)
(* and recovery is there; the event report and the bounded observation     *)
(* report derived from it are accepted, with every summary flag set; and   *)
(* so is, for every valid chain snapshot, the callback report, which binds *)
(* every observation.                                                      *)
THEOREM ReportsBuild ==
  ASSUME NoValueApart
  PROVE  LifecycleSpec => []LifecycleReportsBuild
<1>1. StoreInv /\ CloseInv /\ ClosesStayValid => LifecycleReportsBuild
  <2> SUFFICES ASSUME StoreInv, CloseInv, ClosesStayValid,
                      NEW id \in DOMAIN closes, NEW s \in {mem, disk},
                      NEW c \in DOMAIN s, s[c].number > 0
               PROVE  LET evs == LifecycleEvents(c, closes[id], s[c])
                          obs == BoundedObservations(evs)
                      IN  /\ Evidence(c, closes[id], s[c])
                          /\ ReportValid(evs)
                          /\ Summary(evs) =
                               [exported |-> TRUE, recovered |-> RecoveryKinds,
                                refused |-> {"FailedSweep", "BtcOnlySweepRefusal"},
                                restarted |-> TRUE]
                          /\ ObservationReportValid(evs, obs)
                          /\ AllObserved(evs, obs) /\ RecoveryConfirmed(evs, obs)
                          /\ RefusalsPresent(evs, obs) /\ RestartPresent(obs)
                          /\ \A snap \in {sn \in Snapshots : SnapshotValid(sn)} :
                               /\ CallbackReportValid(evs, obs, snap, CallbacksOf(obs, snap))
                               /\ CallbacksBound(obs, CallbacksOf(obs, snap))
    BY DEF LifecycleReportsBuild
  <2> DEFINE cl == closes[id]
             st == s[c]
             x == cl.parts
             evs == LifecycleEvents(c, cl, st)
             obs == BoundedObservations(evs)
  <2>1. closes[cl.id] = cl
    BY DEF ClosesStayValid
  <2>2. GoodClose(cl) /\ CloseValid(cl)
    BY DEF CloseInv, ClosesStayValid
  <2>3. /\ c \in Channels /\ GoodState(st) /\ U64Max \in Nat
        /\ st.total = LocalFunding[c] + RemoteFunding[c] /\ st.total \in 1 .. U64Max
    <3>1. GoodStore(s) /\ SignedStore(s)
      BY DEF StoreInv, IInv, SignedInv
    <3> QED BY <3>1, FundingAssumption DEF GoodStore, IsStore, IsMap, SignedStore, SignedState
  <2>4. \A side \in Sides :
          cl.proof[side] = CloseProof(x.channel, side, x.number, x.amount[side], x.key[side])
    BY <2>2 DEF GoodClose
  <2>5. \A side \in Sides : x.amount[side] # 0
    <3>1. ASSUME NEW side \in Sides PROVE cl.proof[side].amount # 0
      BY <2>2 DEF CloseValid, CloseProofValid, VerifySemanticAncestry
    <3>2. ASSUME NEW side, NEW n, NEW a, NEW k
          PROVE  CloseProof(x.channel, side, n, a, k).amount = a
      BY DEF CloseProof, ProofFile
    <3> QED BY <2>4, <3>1, <3>2
  <2>6. x.number \in Amount /\ x.amount.local \in Amount /\ x.amount.remote \in Amount
    BY <2>2, HeldBalanceTyped DEF GoodClose, StoreInv, IInv
  <2>7. x.total # 0
    <3>1. x.amount.local # 0 /\ x.amount.local + x.amount.remote = x.total
      BY <2>2, <2>5 DEF CloseValid, Sides
    <3> QED BY <2>3, <2>6, <3>1 DEF Amount
  <2>8. \A side \in Sides : Decode(Encode(cl.proof[side])) = cl.proof[side]
    BY <2>4, CloseProofIsRead
  <2>9. RestartMatches(cl)
    <3>1. ASSUME NEW side \in Sides
          PROVE  /\ VerifySemanticAncestry(cl.proof[side], DefaultContext)
                 /\ cl.proof[side].asset = Asset /\ cl.proof[side].amount = x.amount[side]
      <4>1. x.amount[side] \in Amount
        BY <2>6 DEF Sides
      <4>2. x.channel \in Channels /\ x.key \in CloseKeys
        BY <2>2 DEF GoodClose
      <4>3. CloseProofValid(cl, side, cl.proof[side])
        BY <2>2 DEF GoodClose
      <4> QED BY <2>4, <2>6, <4>1, <4>2, <4>3, CloseProofImports
    <3> QED BY <2>1, <2>8, <3>1 DEF RestartMatches
  <2>10. Evidence(c, cl, st)
    BY <2>2, <2>3, <2>8, <2>9, EvidenceIsThere
  <2>11. Complete(evs)
    BY <2>3, <2>5, <2>7, LifecycleEventsComplete
  <2> HIDE DEF evs
  <2>12. ASSUME NEW snap, SnapshotValid(snap)
         PROVE  /\ CallbackReportValid(evs, obs, snap, CallbacksOf(obs, snap))
                /\ CallbacksBound(obs, CallbacksOf(obs, snap))
    BY <2>11, <2>12, CompleteObservations, CallbacksAccepted
  <2>13. \A snap \in {sn \in Snapshots : SnapshotValid(sn)} :
           /\ CallbackReportValid(evs, obs, snap, CallbacksOf(obs, snap))
           /\ CallbacksBound(obs, CallbacksOf(obs, snap))
    BY <2>12
  <2>14. /\ ReportValid(evs)
         /\ Summary(evs) =
              [exported |-> TRUE, recovered |-> RecoveryKinds,
               refused |-> {"FailedSweep", "BtcOnlySweepRefusal"}, restarted |-> TRUE]
    BY <2>11, CompleteReports
  <2>15. /\ ObservationReportValid(evs, obs)
         /\ AllObserved(evs, obs) /\ RecoveryConfirmed(evs, obs)
         /\ RefusalsPresent(evs, obs) /\ RestartPresent(obs)
    BY <2>11, CompleteObservations
  <2> HIDE DEF obs
  <2> QED BY <2>10, <2>13, <2>14, <2>15 DEF evs, obs
<1> QED BY <1>1, StoreInvariance, CloseInvariance, RecordedInvariance, PTL
==============================================================================
