------------------------------ MODULE TapVmCase ------------------------------
(***************************************************************************)
(* The validation of a Taproot Asset state transition, TapVmFixtureCase in *)
(* src/crates/tap-ldk-core/src/tap_vm.rs: one asset with a witness for     *)
(* each input it spends, the inputs, and the outputs it is split into.  An *)
(* option is a sequence of at most one element.  Beside it runs            *)
(* TapCommitment, whose compressed proofs a split carries.                 *)
(***************************************************************************)
EXTENDS TapCommitment

CONSTANTS
  TopAssets,     \* assets of a case, their witnesses not yet filled in
  VmInputs,      \* TapVmInputs of a case
  VmWitnesses,   \* TapVmPrevWitnesses of a case
  VmSplits,      \* TapVmSplits of a case
  MaxVmItems     \* bound on the inputs, on the witnesses and on the splits

ASSUME TapVmCaseAssumption ==
  /\ MaxVmItems \in Nat
  /\ \A a \in TopAssets :
       {"amount", "witnesses"} \subseteq DOMAIN a /\ a.amount \in Nat /\ a.witnesses = <<>>

VARIABLES vmCase   \* the option of a case [asset, inputs, splits]

allVars == <<treesVars, vmCase>>

------------------------------------------------------------------------------
(* Shapes *)

ZeroAssetId == "zero"
ZeroPrevId == [out |-> "zero", asset |-> ZeroAssetId, key |-> "zero"]

(* validate_compressed_key *)
KeyWellFormed(key) == key.parity \in {2, 3}

(* validate_asset_shape; the lengths of the hex fields are one flag. *)
AssetShape(a) ==
  /\ a.version <= 1
  /\ a.scriptVersion = 0
  /\ a.type \in {0, 1}
  /\ a.wellFormed
  /\ KeyWellFormed(a.key)

(* validate_asset_amount_for_type *)
AmountForType(a) == IF a.type = 0 THEN a.amount > 0 ELSE a.amount = 1

(* same_asset_definition *)
SameDefinition(a, b) ==
  a.version = b.version /\ a.type = b.type /\ a.scriptVersion = b.scriptVersion

(* same_script_key_xonly *)
SameScriptKey(key, other) == key.x = other.x

(* validate_signature_bytes: 64 or 65 bytes that are not all zero *)
SignatureShape(bytes) == bytes = "signature"

(* validate_script_path: a hash lock and its preimage, or a key's script   *)
(* and a signature.                                                        *)
ScriptPath(argument, script) ==
  \/ script.op = "hash160" /\ script.hash = argument
  \/ script.op = "checksig" /\ SignatureShape(argument)

(* validate_witness_stack and validate_control_block *)
WitnessStack(stack) ==
  \/ Len(stack) = 1 /\ SignatureShape(stack[1])
  \/ Len(stack) = 3 /\ stack[3] = "control block" /\ ScriptPath(stack[1], stack[2])

------------------------------------------------------------------------------
(* TapVmFixtureCase::validate *)

SumOf(amounts) == SumFunction(amounts)
InputsTotal(c) == SumOf([i \in DOMAIN c.inputs |-> c.inputs[i].asset.amount])
SplitsTotal(c) == SumOf([i \in DOMAIN c.splits |-> c.splits[i].key.amount])

(* validate_genesis *)
GenesisValid(c) ==
  LET witnesses == c.asset.witnesses
  IN  /\ c.splits = <<>>
      /\ Len(witnesses) = 1
      /\ witnesses[1].prev = ZeroPrevId
      /\ witnesses[1].stack = <<>> /\ witnesses[1].split = <<>>
      /\ AmountForType(c.asset)

(* The witness of an input: the first one with its previous id. *)
WitnessAnywhere(c, input) == {i \in DOMAIN c.asset.witnesses : i = 1}
WitnessFor(c, input) ==
  LET named == {i \in DOMAIN c.asset.witnesses : c.asset.witnesses[i].prev = input.prev}
  IN  {i \in named : \A j \in named : i <= j}

(* The loop of validate_transfer over the inputs. *)
InputsValid(c) ==
  \A n \in DOMAIN c.inputs :
    LET input == c.inputs[n]
    IN  /\ AssetShape(input.asset)
        /\ SameDefinition(c.asset, input.asset)
        /\ \E i \in WitnessFor(c, input) :
             /\ c.asset.witnesses[i].stack # <<>>
             /\ WitnessStack(c.asset.witnesses[i].stack[1])

(* TapVmSplit::validate.  The proof is decoded and not verified. *)
SplitValid(split, top, assetId, root) ==
  LET asset == split.value.asset
  IN  /\ split.key.asset = assetId
      /\ split.key.index = split.value.index
      /\ split.key.amount = asset.amount
      /\ SameScriptKey(split.key.key, asset.key) /\ KeyWellFormed(split.key.key)
      /\ AssetShape(asset)
      /\ SameDefinition(top, asset)
      /\ Len(asset.witnesses) = 1
      /\ asset.witnesses[1].prev = ZeroPrevId
      /\ asset.witnesses[1].stack = <<>>
      /\ \E s \in ToSet(asset.witnesses[1].split) :
           /\ CompressedValid(s.proof)
           /\ SameDefinition(top, s.rootAsset)
           /\ s.rootAsset.root = <<root>>

(* The split that stands for the asset itself. *)
TopLevelLocator(split, top, assetId) ==
  /\ split.key.index = 0
  /\ split.key.amount = top.amount
  /\ SameScriptKey(split.key.key, top.key)
  /\ split.key.asset = assetId

(* The rest of validate_transfer when there are splits. *)
SplitsValid(c, assetId) ==
  \E root \in ToSet(c.asset.root) :
    /\ root.sum = InputsTotal(c)
    /\ \A n \in DOMAIN c.splits : SplitValid(c.splits[n], c.asset, assetId, root)
    /\ SplitsTotal(c) <= MaxSum
    /\ SplitsTotal(c) = InputsTotal(c)
    /\ \E n \in DOMAIN c.splits : TopLevelLocator(c.splits[n], c.asset, assetId)

(* validate_transfer *)
TransferValid(c) ==
  /\ Len(c.asset.witnesses) = Len(c.inputs)
  /\ c.asset.witnesses[1].prev.asset # ZeroAssetId
  /\ InputsValid(c)
  /\ InputsTotal(c) <= MaxSum
  /\ IF c.splits = <<>> THEN c.asset.amount = InputsTotal(c)
     ELSE SplitsValid(c, c.asset.witnesses[1].prev.asset)

(* validate; an asset without witnesses is refused. *)
CaseValid(c) ==
  /\ AssetShape(c.asset)
  /\ c.asset.witnesses # <<>>
  /\ IF c.inputs = <<>> THEN GenesisValid(c) ELSE TransferValid(c)

------------------------------------------------------------------------------
(* Actions: the case as its file lists it *)

CaseInit == TreesInit /\ vmCase = <<>>

Begin(asset) ==
  /\ vmCase = <<>>
  /\ vmCase' = <<[asset |-> asset, inputs |-> <<>>, splits |-> <<>>]>>

AddWitness(w) ==
  /\ vmCase # <<>> /\ Len(vmCase[1].asset.witnesses) < MaxVmItems
  /\ vmCase' = [vmCase EXCEPT ![1].asset.witnesses = Append(@, w)]

AddInput(input) ==
  /\ vmCase # <<>> /\ Len(vmCase[1].inputs) < MaxVmItems
  /\ vmCase' = [vmCase EXCEPT ![1].inputs = Append(@, input)]

AddSplit(split) ==
  /\ vmCase # <<>> /\ Len(vmCase[1].splits) < MaxVmItems
  /\ vmCase' = [vmCase EXCEPT ![1].splits = Append(@, split)]

CaseStep ==
  \/ \E asset \in TopAssets : Begin(asset)
  \/ \E w \in VmWitnesses : AddWitness(w)
  \/ \E input \in VmInputs : AddInput(input)
  \/ \E split \in VmSplits : AddSplit(split)

(* A case and the trees have nothing in common: a behaviour uses one. *)
CaseNext ==
  \/ vmCase = <<>> /\ TreesNext /\ UNCHANGED vmCase
  \/ tree.leaves = NoLeaves /\ assets = <<>> /\ CaseStep /\ UNCHANGED treesVars

CaseSpec == CaseInit /\ [][CaseNext]_allVars

------------------------------------------------------------------------------
(* Properties *)

Outputs(c) ==
  IF c.splits = <<>> THEN <<c.asset>>
  ELSE [n \in DOMAIN c.splits |-> c.splits[n].value.asset]

(* An accepted transition is authorized and conserves: when its inputs are *)
(* distinct, every witness it carries was checked, whatever the order they *)
(* are listed in; the amounts of the assets it makes, not only of their    *)
(* keys, are those of the inputs; and one of them is the asset itself.  An *)
(* accepted issuance has no input and makes one asset of a lawful amount.  *)
AcceptedTransitionsConserve ==
  \A c \in ToSet(vmCase) :
    (CaseValid(c) /\ \A m, n \in DOMAIN c.inputs :
                       c.inputs[m].prev = c.inputs[n].prev => m = n) =>
      IF c.inputs = <<>> THEN Outputs(c) = <<c.asset>> /\ AmountForType(c.asset)
      ELSE /\ \A i \in DOMAIN c.asset.witnesses :
                /\ c.asset.witnesses[i].stack # <<>>
                /\ WitnessStack(c.asset.witnesses[i].stack[1])
           /\ SumOf([i \in DOMAIN Outputs(c) |-> Outputs(c)[i].amount]) = InputsTotal(c)
           /\ \E a \in ToSet(Outputs(c)) :
                a.amount = c.asset.amount /\ SameScriptKey(a.key, c.asset.key)

(* MssmtTree, where no case is being read: after any insertions and        *)
(* deletions a compressed proof verifies for exactly the leaf at its key   *)
(* (ProofsExact).                                                          *)
TreeProofsExact == vmCase = <<>> => ProofsExact

(* TapCommitment, where no case is being read: an output's root binds its  *)
(* assets and nothing but them (TapRootBindsAssets).                       *)
OutputsBindAssets == vmCase = <<>> => TapRootBindsAssets

==============================================================================
