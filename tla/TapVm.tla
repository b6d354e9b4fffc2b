-------------------------------- MODULE TapVm --------------------------------
(***************************************************************************)
(* Virtual asset transitions (src/crates/tap-ldk-core/src/tap_vm.rs) and   *)
(* the commitment of a Taproot output to a set of assets                   *)
(* (src/crates/tap-ldk-core/src/taproot_commitment.rs), as the channel     *)
(* components use them.  A hash is modelled by what is hashed.             *)
(***************************************************************************)
EXTENDS Integers, Sequences, SequencesExt

CONSTANTS U64Max   \* the largest amount

Total(items) == SumFunction([i \in DOMAIN items |-> items[i].amount])

(* checked_sum: None of the sums on the way may pass U64Max. *)
Summable(items) == Total(items) <= U64Max

(* AssetVirtualWitness::from_context *)
Witness(index, context) == [nonce |-> <<index, context>>, authorization |-> context]

(* AssetVirtualTransition::channel_funding *)
FundingTransition(asset, inputs, total, key, context) ==
  [kind |-> "ChannelFunding", asset |-> asset,
   inputs |-> [i \in DOMAIN inputs |-> [amount |-> inputs[i].amount,
                                        previous |-> <<asset, i, context>>]],
   outputs |-> <<[amount |-> total, key |-> key]>>,
   witnesses |-> [i \in DOMAIN inputs |-> Witness(i, context)]]

(* AssetVirtualTransition::validate *)
TransitionValid(t) ==
  /\ t.outputs # <<>> /\ Summable(t.outputs)
  /\ IF t.kind = "Issuance"
     THEN t.inputs = <<>> /\ t.witnesses = <<>> /\ Total(t.outputs) # 0
     ELSE /\ t.inputs # <<>>
          /\ Len(t.witnesses) = Len(t.inputs)
          /\ Summable(t.inputs)
          /\ Total(t.inputs) = Total(t.outputs)

------------------------------------------------------------------------------
(* TapCommitment *)

(* A TapAsset as funding_tap_commitment fills it in. *)
TapAsset(asset, genesis, amount, key) ==
  [version |-> 1, asset |-> asset, type |-> "Normal", genesis |-> genesis,
   amount |-> amount, key |-> key]

(* The root of the tree of trees: the assets it commits to and their sum;  *)
(* TapCommitment shows that the root of the trees tells them apart.        *)
TapRoot(version, assets) ==
  [version |-> version, leaves |-> ToSet(assets), sum |-> Total(assets)]

(* tapscript_root without a sibling is the hash of the leaf script, which  *)
(* holds the version and the root.                                         *)
TapscriptRoot(root) == <<"tapleaf", root>>

==============================================================================
