------------------------------- MODULE Wallet -------------------------------
(***************************************************************************)
(* WalletState of src/crates/tap-ldk-core/src/wallet.rs: verified proofs,  *)
(* the asset outputs they make spendable, issuance, local transfers,       *)
(* anchor updates, and import and export through files and courier         *)
(* bundles; with the wallet file the commands of                           *)
(* src/crates/tap-ldk-cli/src/main.rs load and save.                       *)
(*                                                                         *)
(* Operations are taken by library callers on the value in memory, where   *)
(* one that returns an error may still have changed the value, and by CLI  *)
(* commands, each a load, one operation and a save.  The one command that  *)
(* leaves something outside the wallet before its save, wallet-send-local, *)
(* can crash in between.                                                   *)
(***************************************************************************)
EXTENDS ProofFiles, Functions

CONSTANTS
  Wallets,       \* wallets, each with its file
  Assets,        \* assets that can be issued, one per ticker
  Keys,          \* script keys
  Issues,        \* amounts issued, 0 included
  Amounts,       \* amounts sent, 0 included
  States,        \* the anchor states that are observed
  Watched,       \* the anchors whose state is observed to change
  TapdImports,   \* requests to import a tapd proof file
  Rewritten,     \* proofs a courier may put into a bundle it writes anew
  MaxMade        \* bound on the distinct proofs made

AnchorStates == {"Unknown", "Pending", "Confirmed", "Stale", "Reorged"}

ASSUME WalletAssumption ==
  /\ Issues \cup Amounts \subseteq Nat
  /\ \A r \in TapdImports : r.amount \in Nat
  /\ \A q \in Rewritten : Decode(Encode(q)) = q /\ q.amount \in Nat
  /\ States \subseteq AnchorStates
  /\ MaxMade \in Nat

VARIABLES
  wallet,    \* wallet -> its WalletState
  tlvs,      \* proofs written out for others (receiver proofs, exports)
  made,      \* proofs issued, transferred or brought in from outside so
             \* far, with a tapd file or by a courier
  spends     \* the transfers made: the proof spent and the proofs made of it

vars == <<wallet, tlvs, made, spends>>

------------------------------------------------------------------------------
(* The value of one wallet *)

Empty == [proofs |-> [i \in {} |-> i], utxos |-> [i \in {} |-> i]]

(* UtxoStatus::from_anchor_state *)
Status(anchorState) ==
  CASE anchorState = "Confirmed" -> "Spendable"
    [] anchorState = "Pending"   -> "Pending"
    [] anchorState = "Unknown"   -> "Unresolved"
    [] OTHER                     -> "Rejected"

StoredProof(p, tapd) == [proof |-> p, tapd |-> tapd, history |-> WalletHistory(p)]

ConfirmedUtxo(p, anchorState) ==
  [header |-> HeaderOf(p), anchorState |-> "Confirmed", status |-> "Spendable"]
Utxo(p, anchorState) ==
  [header |-> HeaderOf(p), anchorState |-> anchorState,
   status |-> Status(anchorState)]

(* WalletState::validate.  The single issuance record of a proof replays   *)
(* (ProofHistory) whenever the proof verifies; a spendable output replays  *)
(* it under the strict policy, which asks for a confirmed anchor.          *)
WalletValid(w) ==
  /\ \A i \in DOMAIN w.proofs :
       LET s == w.proofs[i]
       IN  /\ i = ProofId(s.proof)
           /\ VerifySemanticAncestry(s.proof, ContextFor(s.tapd))
           /\ s.history = WalletHistory(s.proof)
  /\ \A i \in DOMAIN w.utxos :
       LET u == w.utxos[i]
       IN  /\ i \in DOMAIN w.proofs
           /\ u.header = HeaderOf(w.proofs[i].proof)
           /\ u.status = Status(u.anchorState)
           /\ u.status = "Spendable" => u.anchorState = "Confirmed"

(* accepted_wallet_balance_explanation *)
Explained(w, i) ==
  /\ i \in DOMAIN w.proofs \cap DOMAIN w.utxos
  /\ w.utxos[i].status = "Spendable"

Spendable(w) == {i \in DOMAIN w.utxos : w.utxos[i].status = "Spendable"}

AmountOf(S) == SumFunction([p \in S |-> p.amount])

(* Every operation yields the new wallet and whether it returned Ok. *)
Return(w) == [wallet |-> w, ok |-> TRUE]
Refuse(w) == [wallet |-> w, ok |-> FALSE]

(* next.validate()?; *self = next *)
Commit(w, next) == IF WalletValid(next) THEN Return(next) ELSE Refuse(w)

Put(f, i, v) == [j \in DOMAIN f \cup {i} |-> IF j = i THEN v ELSE f[j]]

(* import_verified_proof_with_tapd.  A proof already held is not imported  *)
(* again, whatever anchor state comes with it; at most the tapd file it    *)
(* lacks is attached.  A new one is inserted before validate runs.         *)
Import(w, p, tapd, anchorState) ==
  LET i == ProofId(p)
      held == w.proofs[i]
      attached == [w EXCEPT !.proofs[i].tapd = tapd]
      added == [proofs |-> Put(w.proofs, i, StoredProof(p, tapd)),
                utxos |-> Put(w.utxos, i, Utxo(p, anchorState))]
  IN  IF ~VerifySemanticAncestry(p, ContextFor(tapd)) THEN Refuse(w)
      ELSE IF i \notin DOMAIN w.proofs
        THEN [wallet |-> added, ok |-> WalletValid(added)]
      ELSE IF held.proof # p \/ (None \notin {held.tapd, tapd} /\ held.tapd # tapd)
        THEN Refuse(w)
      ELSE IF tapd = None \/ held.tapd # None THEN Return(w)
      ELSE Commit(w, attached)

(* update_anchor_state *)
WithOldStatus(w, anchor, anchorState) ==
  LET hit == {i \in DOMAIN w.utxos : w.utxos[i].header.anchor = anchor}
  IN  IF hit = {} THEN Refuse(w)
      ELSE Return([w EXCEPT !.utxos = [i \in DOMAIN @ |->
             IF i \in hit THEN [@[i] EXCEPT !.anchorState = anchorState] ELSE @[i]]])
WithAnchorState(w, anchor, anchorState) ==
  LET hit == {i \in DOMAIN w.utxos : w.utxos[i].header.anchor = anchor}
  IN  IF hit = {} THEN Refuse(w)
      ELSE Commit(w, [w EXCEPT !.utxos = [i \in DOMAIN @ |->
             IF i \in hit THEN [@[i] EXCEPT !.anchorState = anchorState,
                                            !.status = Status(anchorState)]
                          ELSE @[i]]])

(* RegtestIssueRequest::build_proof: the asset and its genesis follow from *)
(* the ticker alone, the anchor from asset, key and amount.                *)
Genesis(asset) == <<"genesis", asset>>
IssuanceProof(asset, key, amount) ==
  ProofFile(asset, Genesis(asset), <<"issued", asset, key, amount>>, amount, key)

(* transfer_output_proof *)
TransferProof(input, amount, key, index) ==
  [ProofFile(input.asset, input.genesis,
             <<"transfer", input.anchor, key, amount, index>>, amount, key)
     EXCEPT !.network = input.network, !.type = input.type]

(* TapdProofImportRequest::build_semantic_proof *)
TapdProof(r) ==
  [ProofFile(r.asset, r.genesis, r.anchor, r.amount, r.key)
     EXCEPT !.type = r.tapd.leaf.type]

(* import_proof_courier_bundle: the state of the bundle is compared with   *)
(* the wallet after the import (require_imported_bundle_state).            *)
ImportBundleOutcome(w, b) ==
  LET p == Decode(b.tlv)
      outcome == Import(w, p, b.tapd, b.anchorState)
      i == b.header.id
  IN  IF ~BundleValid(b) \/ b.history # WalletHistory(p) THEN Refuse(w)
      ELSE IF ~outcome.ok THEN outcome
      ELSE [outcome EXCEPT !.ok =
              /\ i \in DOMAIN outcome.wallet.utxos
              /\ outcome.wallet.proofs[i].history = b.history
              /\ outcome.wallet.utxos[i].anchorState = b.anchorState]

(* The outputs a transfer of amount from the output i may be made of.      *)
SpendableFor(w, asset, amount) ==
  {i \in Spendable(w) : /\ w.utxos[i].header.asset = asset
                        /\ w.utxos[i].header.amount >= amount}

WholeChange(input, amount) ==
  IF input.amount = amount THEN {}
  ELSE {TransferProof(input, input.amount, input.key, 1)}
Change(input, amount) ==
  IF input.amount = amount THEN {}
  ELSE {TransferProof(input, input.amount - amount, input.key, 1)}

------------------------------------------------------------------------------
(* Actions.  An operation that changes nothing, refused or not, is no step. *)

Init ==
  /\ wallet = [w \in Wallets |-> Empty]
  /\ tlvs = {} /\ made = {} /\ spends = {}

Apply(w, outcome) ==
  /\ outcome.wallet # wallet[w]
  /\ wallet' = [wallet EXCEPT ![w] = outcome.wallet]

Make(proofs) ==
  /\ made' = made \cup proofs
  /\ Cardinality(made') <= MaxMade

(* wallet-init saves an empty wallet over whatever the file holds. *)
InitWallet(w) ==
  /\ Apply(w, Return(Empty))
  /\ UNCHANGED <<tlvs, made, spends>>

(* issue_regtest_asset *)
Issue(w, asset, key, amount) ==
  /\ amount # 0
  /\ LET p == IssuanceProof(asset, key, amount)
     IN  Apply(w, Import(wallet[w], p, None, "Confirmed")) /\ Make({p})
  /\ UNCHANGED <<tlvs, spends>>

(* import_encoded_proof, wallet-import-proof-file *)
ImportProofFile(w, p) ==
  /\ Apply(w, Import(wallet[w], Decode(Encode(p)), None, "Confirmed"))
  /\ UNCHANGED <<tlvs, made, spends>>

(* import_tapd_proof_file *)
ImportTapdProofFile(w, r) ==
  /\ r.tapd.leaf # None
  /\ LET outcome == Import(wallet[w], TapdProof(r), r.tapd, "Confirmed")
     IN  /\ Apply(w, outcome)
         /\ Make(IF outcome.ok THEN {TapdProof(r)} ELSE {})
  /\ UNCHANGED <<tlvs, spends>>

UpdateAnchorState(w, anchor, anchorState) ==
  /\ Apply(w, WithAnchorState(wallet[w], anchor, anchorState))
  /\ UNCHANGED <<tlvs, made, spends>>

(* export_encoded_proof, wallet-export-proof-file *)
ExportProofFile(w, i) ==
  /\ Explained(wallet[w], i)
  /\ wallet[w].proofs[i].proof \notin tlvs
  /\ tlvs' = tlvs \cup {wallet[w].proofs[i].proof}
  /\ UNCHANGED <<wallet, made, spends>>

(* export_proof_courier_bundle *)
Exported(w, i) == Bundle(w.proofs[i].proof, w.proofs[i].tapd, w.utxos[i].anchorState)
Exportable(w) == IF WalletValid(w) THEN {i \in DOMAIN w.utxos : Explained(w, i)} ELSE {}

(* What may reach the other end: the bundle as it was exported, or with    *)
(* another anchor state, without its tapd file, or with another anchor     *)
(* under the digest it was sent with; or one written anew, for another     *)
(* proof.  The digest is a plain hash inside the bundle, so whoever writes *)
(* the header, the history and the digest along with the proof has written *)
(* a valid bundle.                                                         *)
Delivered(b) ==
  {b} \cup {[b EXCEPT !.anchorState = s] : s \in States}
      \cup {[b EXCEPT !.tapd = None]}
      \cup {[b EXCEPT !.tlv.fields.anchor = None, !.header.anchor = None,
                      !.header.id = <<b.header.asset, None>>,
                      !.history = WalletHistory([Decode(b.tlv) EXCEPT !.anchor = None])]}
      \cup {Bundle(q, tapd, b.anchorState) : q \in Rewritten, tapd \in {None, b.tapd}}

Arriving == UNION {UNION {Delivered(Exported(wallet[v], i)) :
                            i \in Exportable(wallet[v])} : v \in Wallets}

(* import_proof_courier_bundle of what the courier delivers; a proof the   *)
(* courier has put in is brought in from outside.                          *)
ImportBundle(w, b) ==
  /\ Apply(w, ImportBundleOutcome(wallet[w], b))
  /\ Make({Decode(b.tlv)} \cap Rewritten)
  /\ UNCHANGED <<tlvs, spends>>

(* send_local_transfer up to the proofs it returns.  find takes the first  *)
(* output in the order of the map, which is an order of hashes.            *)
TransferOutcome(w, i, amount, key) ==
  LET input == w.proofs[i].proof
      change == Change(input, amount)
      without == [proofs |-> Restrict(w.proofs, DOMAIN w.proofs \ {i}),
                  utxos |-> Restrict(w.utxos, DOMAIN w.utxos \ {i})]
  IN  IF ~VerifySemanticAncestry(input, DefaultContext) THEN Refuse(w)
      ELSE IF change = {} THEN Commit(w, without)
      ELSE Import(without, CHOOSE p \in change : TRUE, None, "Confirmed")

(* wallet-send-local: the receiver's proof is written before the wallet is *)
(* saved; crashed says that the process ended in between.                  *)
SendLocalTransfer(w, asset, amount, key, crashed) ==
  amount # 0 /\ \E i \in SpendableFor(wallet[w], asset, amount) :
    LET input == wallet[w].proofs[i].proof
        outcome == TransferOutcome(wallet[w], i, amount, key)
        outputs == {TransferProof(input, amount, key, 0)} \cup Change(input, amount)
    IN  /\ outcome.ok
        /\ IF crashed THEN UNCHANGED wallet ELSE Apply(w, outcome)
        /\ tlvs' = tlvs \cup {TransferProof(input, amount, key, 0)}
        /\ Make(outputs)
        /\ spends' = spends \cup {<<input, outputs>>}

WalletStep ==
  \/ \E b \in Arriving, w \in Wallets : ImportBundle(w, b)
  \/ \E w \in Wallets :
       \/ \E a \in Assets, k \in Keys, n \in Issues : Issue(w, a, k, n)
       \/ \E a \in Assets, k \in Keys, n \in Amounts, crashed \in BOOLEAN :
            SendLocalTransfer(w, a, n, k, crashed)
       \/ \E p \in tlvs : ImportProofFile(w, p)
       \/ InitWallet(w)
       \/ \E r \in TapdImports : ImportTapdProofFile(w, r)
       \/ \E x \in Watched, s \in States : UpdateAnchorState(w, x, s)
       \/ \E p \in made : ExportProofFile(w, ProofId(p))

Next == WalletStep

Spec == Init /\ [][Next]_vars

------------------------------------------------------------------------------
(* Properties *)

(* Every wallet is one that load and save_atomic accept. *)
WalletsLoadable == \A w \in Wallets : WalletValid(wallet[w])

(* Every proof a wallet holds was issued, transferred or brought in: by a  *)
(* tapd file, or by a courier in a bundle it wrote anew.  A bundle altered *)
(* under the digest it was sent with brings in no other proof than it was  *)
(* exported with.                                                          *)
HeldWasMade ==
  \A w \in Wallets : \A i \in DOMAIN wallet[w].proofs :
    wallet[w].proofs[i].proof \in made

Spent == {s[1] : s \in spends}
Offspring == UNION {s[2] : s \in spends}
Origins == made \ Offspring

HeldSpendable ==
  UNION {{wallet[w].proofs[i].proof : i \in Spendable(wallet[w])} : w \in Wallets}

(* What the documentation asks of a wallet: no proof that has been spent   *)
(* by a transfer is presented as spendable.                                *)
SpentNeverSpendable == HeldSpendable \cap Spent = {}

(* A courier import that returns an error changes no balance, though it    *)
(* compares the bundle with the wallet only after it has changed it.       *)
RefusedImportLeavesBalances ==
  \A w \in Wallets, b \in Arriving :
    LET outcome == ImportBundleOutcome(wallet[w], b)
    IN  ~outcome.ok =>
          \A i \in DOMAIN outcome.wallet.utxos :
            i \in DOMAIN wallet[w].utxos
              /\ outcome.wallet.utxos[i] = wallet[w].utxos[i]

==============================================================================
