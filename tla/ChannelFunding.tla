--------------------------- MODULE ChannelFunding ---------------------------
(***************************************************************************)
(* AssetChannelStore of src/crates/tap-ldk-core/src/asset_channel_funding  *)
(* .rs: channels funded with asset proofs, beside the wallets the proofs   *)
(* come from.  The store keeps the proofs it has spent; it does not tell   *)
(* the wallets, and they do not tell it.                                   *)
(***************************************************************************)
EXTENDS Wallet, TapVm

CONSTANTS
  Outpoints,     \* funding outpoints asked for
  FundingKeys,   \* funding script keys
  MaxInputs,     \* bound on the proofs of one side of a request
  MaxChannels    \* bound on the channels funded

ASSUME FundingAssumption == MaxInputs \in Nat /\ MaxChannels \in Nat

VARIABLES
  channels,   \* channel id -> StoredAssetChannel
  spent       \* proof id -> the channel it funds (spent_funding_proofs)

fundingVars == <<channels, spent>>
allVars == <<vars, fundingVars>>

------------------------------------------------------------------------------
(* A request *)

Request == [local : {"alice"}, remote : {"bob"}, asset : Assets \cup {ZeroId},
            outpoint : Outpoints, key : FundingKeys]

Ids(inputs) == [i \in DOMAIN inputs |-> ProofId(inputs[i])]
Inputs(local, remote) == local \o remote

(* validate_inputs, once for each side *)
InputsValid(asset, inputs) ==
  /\ \A i \in DOMAIN inputs :
       /\ ProofId(inputs[i]) \notin DOMAIN spent
       /\ VerifySemanticAncestry(inputs[i], ForAsset(asset))
  /\ IsInjective(Ids(inputs))

(* shared_genesis *)
SharedGenesis(inputs) ==
  \A i, j \in DOMAIN inputs : inputs[i].genesis = inputs[j].genesis

(* funding_tap_commitment *)
FundingRoot(asset, genesis, key, total) ==
  TapRoot(2, <<TapAsset(asset, genesis, total, key)>>)

(* derive_channel_id sorts the proofs; so does the history's transition id *)
ChannelId(r, local, remote, ids) ==
  [request |-> r, local |-> local, remote |-> remote, proofs |-> ToSet(ids)]

(* funding_proof_history_metadata_from_parts *)
FundingHistory(id, r, local, remote, ids) ==
  <<"asset-channel-funding", id, r.asset, r.outpoint, r.key, local, remote, ToSet(ids)>>

(* validate_funding_proof_history replays one issuance per input and the   *)
(* funding that locks them (ProofHistory): the records and the outputs are *)
(* named after the proofs, so one proof on both sides is a duplicate.      *)
HistoryReplays(inputs, total) ==
  /\ IsInjective(Ids(inputs))
  /\ \A i \in DOMAIN inputs : inputs[i].amount # 0
  /\ Total(inputs) = total /\ total # 0

(* validate_with_ldk_funding_hook: the fork's check of the funding request *)
LdkFundingHook(asset, root, total, outputCommitment) ==
  /\ asset # ZeroId
  /\ root.sum = total
  /\ outputCommitment = TapscriptRoot(root)

MonitorOf(id, asset, local, remote, root) ==
  [number |-> 0, persisted |-> TRUE,
   digest |-> <<id, asset, local, remote, root>>]

Channel(id, r, genesis, local, remote) ==
  LET lb == Total(local)
      rb == Total(remote)
      root == FundingRoot(r.asset, genesis, r.key, lb + rb)
  IN  [request |-> r, genesis |-> genesis, root |-> root,
       localBalance |-> lb, remoteBalance |-> rb, total |-> lb + rb,
       localProofs |-> Ids(local), remoteProofs |-> Ids(remote),
       history |-> FundingHistory(id, r, lb, rb, Ids(Inputs(local, remote))),
       monitor |-> MonitorOf(id, r.asset, lb, rb, root)]

ProofsOf(c) == c.localProofs \o c.remoteProofs

(* StoredAssetChannel::validate_fields, binding_id, expected_monitor_digest *)
ChannelValid(id, c) ==
  LET r == c.request
  IN  /\ c.localBalance + c.remoteBalance = c.total
      /\ c.total <= U64Max
      /\ c.root = FundingRoot(r.asset, c.genesis, r.key, c.total)
      /\ ProofsOf(c) # <<>>
      /\ c.history = FundingHistory(id, r, c.localBalance, c.remoteBalance, ProofsOf(c))
      /\ id = ChannelId(r, c.localBalance, c.remoteBalance, ProofsOf(c))
      /\ c.monitor = MonitorOf(id, r.asset, c.localBalance, c.remoteBalance, c.root)

(* AssetChannelStore::validate: no proof funds twice, and the index of the *)
(* spent proofs is exactly that of the channels.                           *)
StoreValid(cs, sp) ==
  /\ \A id \in DOMAIN cs : ChannelValid(id, cs[id])
  /\ \A c, d \in DOMAIN cs :
       c # d => ToSet(ProofsOf(cs[c])) \cap ToSet(ProofsOf(cs[d])) = {}
  /\ \A c \in DOMAIN cs : IsInjective(ProofsOf(cs[c]))
  /\ DOMAIN sp = UNION {ToSet(ProofsOf(cs[c])) : c \in DOMAIN cs}
  /\ \A i \in DOMAIN sp : i \in ToSet(ProofsOf(cs[sp[i]]))

(* Everything fund_channel checks before it changes the store. *)
Fundable(r, local, remote) ==
  LET inputs == Inputs(local, remote)
      total == Total(inputs)
      root == FundingRoot(r.asset, Head(inputs).genesis, r.key, total)
  IN  /\ inputs # <<>>
      /\ InputsValid(r.asset, local) /\ InputsValid(r.asset, remote)
      /\ SharedGenesis(inputs)
      /\ Summable(inputs)
      /\ TransitionValid(FundingTransition(r.asset, inputs, total, r.key, Ids(inputs)))
      /\ ChannelId(r, Total(local), Total(remote), Ids(inputs)) \notin DOMAIN channels
      /\ LdkFundingHook(r.asset, root, total, TapscriptRoot(root))
      /\ HistoryReplays(inputs, total)

------------------------------------------------------------------------------
(* Actions *)

FundingInit ==
  channels = [c \in {} |-> c] /\ spent = [p \in {} |-> p]

(* fund_channel: on a clone of the store, kept if it is valid. *)
FundChannel(r, local, remote) ==
  /\ Cardinality(DOMAIN channels) < MaxChannels
  /\ Fundable(r, local, remote)
  /\ LET ids == Ids(Inputs(local, remote))
         id == ChannelId(r, Total(local), Total(remote), ids)
         next == Put(channels, id,
                     Channel(id, r, Head(Inputs(local, remote)).genesis, local, remote))
         nextSpent == [p \in DOMAIN spent \cup ToSet(ids) |->
                         IF p \in ToSet(ids) THEN id ELSE spent[p]]
     IN  /\ StoreValid(next, nextSpent)
         /\ channels' = next
         /\ spent' = nextSpent
  /\ UNCHANGED vars

InputLists == SeqOf(tlvs, MaxInputs)

FundingStep ==
  \E r \in Request : \E local, remote \in InputLists : FundChannel(r, local, remote)

FlowInit == Init /\ FundingInit
FlowNext == (WalletStep /\ UNCHANGED fundingVars) \/ FundingStep
FlowSpec == FlowInit /\ [][FlowNext]_allVars

------------------------------------------------------------------------------
(* Properties *)

(* The wallets and the channel store are at every step ones that load and  *)
(* save_atomic accept, although an import inserts before it validates, an  *)
(* operation may fail half way and a courier may alter its bundles: in     *)
(* particular a proof backs at most one channel, on one side of it.        *)
StoresLoadable == WalletsLoadable /\ StoreValid(channels, spent)

Funded == UNION {{p \in made : ProofId(p) \in ToSet(ProofsOf(channels[c]))} :
                   c \in DOMAIN channels}

(* The proofs of S are those of the ids, one for each.                     *)
Names(S, ids) ==
  /\ {ProofId(p) : p \in S} = ToSet(ids)
  /\ \A p, q \in S : ProofId(p) = ProofId(q) => p = q

(* Each channel holds exactly what proofs that were made are worth, all of *)
(* its asset and genesis and none of them on both sides: funding neither   *)
(* creates nor destroys balance, and what each side put in is what it owns.*)
ChannelsBacked ==
  \A c \in DOMAIN channels : \E local, remote \in SUBSET made :
    LET ch == channels[c]
    IN  /\ Names(local, ch.localProofs) /\ Names(remote, ch.remoteProofs)
        /\ local \cap remote = {}
        /\ ch.localBalance = AmountOf(local) /\ ch.remoteBalance = AmountOf(remote)
        /\ \A p \in local \cup remote :
             p.asset = ch.request.asset /\ p.genesis = ch.genesis

ChannelTotal(asset) ==
  SumFunction([c \in {d \in DOMAIN channels : channels[d].request.asset = asset} |->
                 channels[c].total])

Worth(S, asset) == AmountOf({p \in S : p.asset = asset})

Transferred(asset) ==
  SumFunction([s \in {t \in spends : t[1].asset = asset} |-> s[1].amount])

(* What proofs used more than once are worth: those spendable although     *)
(* they were transferred or fund a channel, those both transferred and in  *)
(* a channel, and every transfer of a proof but one.                       *)
Reused(asset) ==
  Worth(HeldSpendable \cap (Spent \cup Funded), asset)
    + Worth(Funded \cap Spent, asset)
    + (Transferred(asset) - Worth(Spent, asset))

(* What wallets present as spendable and channels hold exceeds what was    *)
(* issued or brought in by no more than the proofs used more than once are *)
(* worth.  The stores do not prevent such a use (SpentNeverSpendable is    *)
(* violated); without one, nothing is created.                             *)
FlowConserved ==
  \A a \in {p.asset : p \in made} :
    Worth(HeldSpendable, a) + ChannelTotal(a) <= Worth(Origins, a) + Reused(a)

------------------------------------------------------------------------------
(* What the proofs assume of the constants *)

(* An asset that is asked for is not the absent value. *)
AssetsPresent == None \notin Assets \cup {ZeroId}

==============================================================================
