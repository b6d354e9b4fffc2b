------------------------ MODULE ChannelFundingProofs -------------------------
(***************************************************************************)
(* Proofs about wallets and the channels funded from their proofs, for     *)
(* every set of wallets, assets, keys, amounts and tapd files, any proofs  *)
(* a courier may put into its bundles, and any number of proofs made and   *)
(* channels funded.                                                        *)
(***************************************************************************)
EXTENDS ChannelFunding, FiniteSums, SequenceTheorems

------------------------------------------------------------------------------
(* Wallets *)

(* The fields a wallet and what it stores of a proof have. *)
WalletShape(w) ==
  /\ w = [proofs |-> w.proofs, utxos |-> w.utxos]
  /\ \A i \in DOMAIN w.proofs :
       LET s == w.proofs[i]
       IN  s = [proof |-> s.proof, tapd |-> s.tapd, history |-> s.history]

(* A wallet load accepts, all of whose proofs are of P. *)
GoodWallet(w, P) ==
  /\ WalletShape(w)
  /\ WalletValid(w)
  /\ \A i \in DOMAIN w.proofs : w.proofs[i].proof \in P

(* The fields of a proof file: what decode reads back from encode.         *)
IsFile(p) == p = [t \in FieldTypes |-> p[t]]

WInv ==
  /\ DOMAIN wallet = Wallets
  /\ \A w \in Wallets : GoodWallet(wallet[w], made)
  /\ tlvs \subseteq made
  /\ \A p \in made : IsFile(p)

LEMMA GoodWithMore ==
  ASSUME NEW w, NEW P, NEW Q, GoodWallet(w, P), P \subseteq Q
  PROVE  GoodWallet(w, Q)
BY DEF GoodWallet

LEMMA EmptyIsGood ==
  ASSUME NEW P
  PROVE  GoodWallet(Empty, P)
BY DEF GoodWallet, WalletShape, WalletValid, Empty

(* validate runs before a changed wallet is kept. *)
LEMMA CommitIsGood ==
  ASSUME NEW w, NEW P, GoodWallet(w, P), NEW next, WalletShape(next),
         \A i \in DOMAIN next.proofs : next.proofs[i].proof \in P
  PROVE  GoodWallet(Commit(w, next).wallet, P)
BY DEF GoodWallet, Commit, Return, Refuse

(* An output is spendable only by a confirmed anchor. *)
LEMMA SpendableIsConfirmed ==
  ASSUME NEW s, Status(s) = "Spendable"
  PROVE  s = "Confirmed"
BY DEF Status

(* The import of a verified proof that is not held leaves a valid wallet,  *)
(* so the validation after the insertion never refuses it.                 *)
LEMMA AddedIsValid ==
  ASSUME NEW w, WalletValid(w), NEW p, NEW tapd, NEW s,
         VerifySemanticAncestry(p, ContextFor(tapd))
  PROVE  WalletValid([proofs |-> Put(w.proofs, ProofId(p), StoredProof(p, tapd)),
                      utxos |-> Put(w.utxos, ProofId(p), Utxo(p, s))])
<1> DEFINE i == ProofId(p)
           added == [proofs |-> Put(w.proofs, i, StoredProof(p, tapd)),
                     utxos |-> Put(w.utxos, i, Utxo(p, s))]
<1>1. /\ DOMAIN added.proofs = DOMAIN w.proofs \cup {i}
      /\ \A j \in DOMAIN added.proofs :
           added.proofs[j] = IF j = i THEN StoredProof(p, tapd) ELSE w.proofs[j]
  BY DEF Put
<1>2. /\ DOMAIN added.utxos = DOMAIN w.utxos \cup {i}
      /\ \A j \in DOMAIN added.utxos :
           added.utxos[j] = IF j = i THEN Utxo(p, s) ELSE w.utxos[j]
  BY DEF Put
<1>3. i = ProofId(p)
  OBVIOUS
<1> HIDE DEF added, i
<1>4. ASSUME NEW j \in DOMAIN added.proofs
      PROVE  /\ j = ProofId(added.proofs[j].proof)
             /\ VerifySemanticAncestry(added.proofs[j].proof, ContextFor(added.proofs[j].tapd))
             /\ added.proofs[j].history = WalletHistory(added.proofs[j].proof)
  <2>1. CASE j = i
    BY <1>1, <1>3, <2>1 DEF StoredProof
  <2>2. CASE j # i
    BY <1>1, <2>2 DEF WalletValid
  <2> QED
    BY <2>1, <2>2
<1>5. ASSUME NEW j \in DOMAIN added.utxos
      PROVE  /\ j \in DOMAIN added.proofs
             /\ added.utxos[j].header = HeaderOf(added.proofs[j].proof)
             /\ added.utxos[j].status = Status(added.utxos[j].anchorState)
             /\ added.utxos[j].status = "Spendable" => added.utxos[j].anchorState = "Confirmed"
  <2>1. CASE j = i
    BY <1>1, <1>2, <2>1, SpendableIsConfirmed DEF Utxo, StoredProof
  <2>2. CASE j # i
    BY <1>1, <1>2, <2>2 DEF WalletValid
  <2> QED
    BY <2>1, <2>2
<1>6. WalletValid(added)
  BY <1>4, <1>5 DEF WalletValid
<1> QED
  BY <1>6 DEF added, i

(* An import that returns an error has changed nothing; one that returns   *)
(* Ok verified the proof, and either entered it, or left the outputs as    *)
(* they were.                                                              *)
LEMMA ImportOutcome ==
  ASSUME NEW w, NEW P, GoodWallet(w, P), NEW p, NEW tapd, NEW s
  PROVE  LET outcome == Import(w, p, tapd, s)
             i == ProofId(p)
         IN  /\ ~outcome.ok => outcome.wallet = w
             /\ outcome.ok => VerifySemanticAncestry(p, ContextFor(tapd))
             /\ outcome.ok => \/ /\ outcome.wallet.utxos = Put(w.utxos, i, Utxo(p, s))
                                 /\ outcome.wallet.proofs = Put(w.proofs, i, StoredProof(p, tapd))
                              \/ outcome.wallet.utxos = w.utxos
             /\ outcome.ok \in BOOLEAN
             /\ p \in P => GoodWallet(outcome.wallet, P)
<1> DEFINE outcome == Import(w, p, tapd, s)
           i == ProofId(p)
           held == w.proofs[i]
           attached == [w EXCEPT !.proofs[i].tapd = tapd]
           added == [proofs |-> Put(w.proofs, i, StoredProof(p, tapd)),
                     utxos |-> Put(w.utxos, i, Utxo(p, s))]
<1>1. CASE ~VerifySemanticAncestry(p, ContextFor(tapd))
  BY <1>1 DEF Import, Refuse
<1>2. CASE VerifySemanticAncestry(p, ContextFor(tapd)) /\ i \notin DOMAIN w.proofs
  <2>1. outcome = [wallet |-> added, ok |-> WalletValid(added)]
    BY <1>2 DEF Import
  <2>2. WalletValid(added)
    BY <1>2, AddedIsValid DEF GoodWallet
  <2>3. ASSUME p \in P PROVE GoodWallet(added, P)
    BY <2>2, <2>3 DEF GoodWallet, WalletShape, Put, StoredProof
  <2> QED
    BY <1>2, <2>1, <2>2, <2>3
<1>3. CASE VerifySemanticAncestry(p, ContextFor(tapd)) /\ i \in DOMAIN w.proofs
  <2>1. outcome \in {Return(w), Refuse(w), Commit(w, attached)}
    BY <1>3 DEF Import
  <2>2. /\ attached = [proofs |-> attached.proofs, utxos |-> w.utxos]
        /\ DOMAIN attached.proofs = DOMAIN w.proofs
        /\ \A j \in DOMAIN w.proofs :
             attached.proofs[j] = IF j = i THEN [w.proofs[j] EXCEPT !.tapd = tapd]
                                  ELSE w.proofs[j]
    BY <1>3 DEF GoodWallet, WalletShape
  <2> HIDE DEF attached, i
  <2>3. WalletShape(attached) /\ \A j \in DOMAIN attached.proofs : attached.proofs[j].proof \in P
    BY <2>2 DEF GoodWallet, WalletShape
  <2>4. GoodWallet(Commit(w, attached).wallet, P)
    BY <2>3, CommitIsGood
  <2>5. attached.utxos = w.utxos
    BY <2>2
  <2> HIDE DEF outcome
  <2>6. CASE outcome = Return(w)
    BY <1>3, <2>6 DEF Return, outcome, i
  <2>7. CASE outcome = Refuse(w)
    BY <1>3, <2>7 DEF Refuse, outcome, i
  <2>8. CASE outcome = Commit(w, attached) /\ WalletValid(attached)
    <3>1. outcome.wallet = attached /\ outcome.ok = TRUE
      BY <2>8 DEF Commit, Return
    <3>2. GoodWallet(attached, P)
      BY <2>4, <2>8 DEF Commit, Return
    <3> QED
      BY <1>3, <2>5, <3>1, <3>2 DEF outcome, i
  <2>9. CASE outcome = Commit(w, attached) /\ ~WalletValid(attached)
    <3>1. outcome.wallet = w /\ outcome.ok = FALSE
      BY <2>9 DEF Commit, Refuse
    <3> QED
      BY <1>3, <3>1 DEF outcome, i
  <2> QED
    BY <2>1, <2>6, <2>7, <2>8, <2>9
<1> QED
  BY <1>1, <1>2, <1>3

(* update_anchor_state changes no proof. *)
LEMMA AnchorStateIsGood ==
  ASSUME NEW w, NEW P, GoodWallet(w, P), NEW anchor, NEW s
  PROVE  GoodWallet(WithAnchorState(w, anchor, s).wallet, P)
<1> DEFINE hit == {i \in DOMAIN w.utxos : w.utxos[i].header.anchor = anchor}
           u == [i \in DOMAIN w.utxos |->
                   IF i \in hit
                   THEN [w.utxos[i] EXCEPT !.anchorState = s, !.status = Status(s)]
                   ELSE w.utxos[i]]
           next == [w EXCEPT !.utxos = u]
<1>1. \/ WithAnchorState(w, anchor, s) = Refuse(w)
      \/ WithAnchorState(w, anchor, s) = Commit(w, next)
  BY DEF WithAnchorState
<1> HIDE DEF u
<1>2. next = [proofs |-> w.proofs, utxos |-> u]
  BY DEF GoodWallet, WalletShape
<1> HIDE DEF next
<1>3. GoodWallet(Commit(w, next).wallet, P)
  <2>1. WalletShape(next) /\ \A i \in DOMAIN next.proofs : next.proofs[i].proof \in P
    BY <1>2 DEF GoodWallet, WalletShape
  <2> QED
    BY <2>1, CommitIsGood
<1> QED
  BY <1>1, <1>3 DEF Refuse

(* A wallet without one of its outputs is still one load accepts. *)
LEMMA WithoutIsGood ==
  ASSUME NEW w, NEW P, GoodWallet(w, P), NEW i
  PROVE  GoodWallet([proofs |-> Restrict(w.proofs, DOMAIN w.proofs \ {i}),
                     utxos |-> Restrict(w.utxos, DOMAIN w.utxos \ {i})], P)
<1> DEFINE next == [proofs |-> Restrict(w.proofs, DOMAIN w.proofs \ {i}),
                    utxos |-> Restrict(w.utxos, DOMAIN w.utxos \ {i})]
<1>1. /\ DOMAIN next.proofs = DOMAIN w.proofs \ {i}
      /\ DOMAIN next.utxos = DOMAIN w.utxos \ {i}
      /\ \A j \in DOMAIN next.proofs : next.proofs[j] = w.proofs[j]
      /\ \A j \in DOMAIN next.utxos : next.utxos[j] = w.utxos[j]
      /\ next = [proofs |-> next.proofs, utxos |-> next.utxos]
  BY DEF Restrict
<1> HIDE DEF next
<1>2. WalletShape(next) /\ \A j \in DOMAIN next.proofs : next.proofs[j].proof \in P
  BY <1>1 DEF GoodWallet, WalletShape
<1>3. WalletValid(next)
  BY <1>1 DEF GoodWallet, WalletValid
<1>4. GoodWallet(next, P)
  BY <1>2, <1>3 DEF GoodWallet
<1> QED
  BY <1>4 DEF next

(* The change of a transfer is at most one proof. *)
LEMMA ChangeIsOne ==
  ASSUME NEW input, NEW amount, Change(input, amount) # {}
  PROVE  (CHOOSE p \in Change(input, amount) : TRUE) \in Change(input, amount)
BY DEF Change

LEMMA TransferIsGood ==
  ASSUME NEW w, NEW P, GoodWallet(w, P), NEW i, NEW amount, NEW key,
         Change(w.proofs[i].proof, amount) \subseteq P
  PROVE  LET outcome == TransferOutcome(w, i, amount, key)
         IN  outcome.ok => GoodWallet(outcome.wallet, P)
<1> DEFINE input == w.proofs[i].proof
           change == Change(input, amount)
           without == [proofs |-> Restrict(w.proofs, DOMAIN w.proofs \ {i}),
                       utxos |-> Restrict(w.utxos, DOMAIN w.utxos \ {i})]
           outcome == TransferOutcome(w, i, amount, key)
           next == CHOOSE p \in change : TRUE
<1>1. \/ outcome = Refuse(w)
      \/ outcome = Commit(w, without)
      \/ change # {} /\ outcome = Import(without, next, None, "Confirmed")
  BY DEF TransferOutcome
<1>2. GoodWallet(without, P)
  BY WithoutIsGood
<1>3. change # {} => next \in P
  BY ChangeIsOne
<1> HIDE DEF next, without, outcome, change
<1>4. GoodWallet(Commit(w, without).wallet, P)
  BY <1>2, CommitIsGood DEF GoodWallet
<1>5. change # {} => GoodWallet(Import(without, next, None, "Confirmed").wallet, P)
  BY <1>2, <1>3, ImportOutcome
<1>6. GoodWallet(Refuse(w).wallet, P)
  BY DEF Refuse
<1>7. GoodWallet(outcome.wallet, P)
  BY <1>1, <1>4, <1>5, <1>6
<1> QED
  BY <1>7 DEF outcome

(* What the wallet makes is a proof file, and a file is read as it was     *)
(* written.                                                                *)
LEMMA MadeAreFiles ==
  /\ \A asset, genesis, anchor, amount, key :
       IsFile(ProofFile(asset, genesis, anchor, amount, key))
  /\ \A asset, key, amount : IsFile(IssuanceProof(asset, key, amount))
  /\ \A r : IsFile(TapdProof(r))
  /\ \A input, amount, key, index : IsFile(TransferProof(input, amount, key, index))
<1>1. FieldTypes = {"version", "asset", "genesis", "anchor", "amount", "key", "root",
                    "scope", "network", "type"}
  BY DEF FieldTypes, ProofFile
<1>2. \A asset, genesis, anchor, amount, key :
        IsFile(ProofFile(asset, genesis, anchor, amount, key))
  BY <1>1 DEF IsFile, ProofFile
<1>3. \A asset, key, amount : IsFile(IssuanceProof(asset, key, amount))
  BY <1>2 DEF IssuanceProof
<1>4. \A r : IsFile(TapdProof(r))
  BY <1>1 DEF IsFile, ProofFile, TapdProof
<1>5. ASSUME NEW input, NEW amount, NEW key, NEW index
      PROVE  IsFile(TransferProof(input, amount, key, index))
  <2> DEFINE p == ProofFile(input.asset, input.genesis,
                            <<"transfer", input.anchor, key, amount, index>>, amount, key)
  <2>1. IsFile(p)
    BY <1>2
  <2>2. TransferProof(input, amount, key, index) =
          [p EXCEPT !.network = input.network, !.type = input.type]
    BY DEF TransferProof
  <2> HIDE DEF p
  <2>3. p = [t \in FieldTypes |-> p[t]]
    BY <2>1 DEF IsFile
  <2> QED
    BY <2>2, <2>3 DEF IsFile
<1> QED
  BY <1>2, <1>3, <1>4, <1>5

LEMMA FileIsRead ==
  ASSUME NEW p, IsFile(p)
  PROVE  Decode(Encode(p)) = p
BY DEF Decode, Encode, IsFile

(* A file the courier may put into a bundle is read as it was written. *)
LEMMA RewrittenAreFiles ==
  /\ \A q \in Rewritten : q.amount \in Nat /\ Decode(Encode(q)) = q
  /\ \A q \in Rewritten : IsFile(q)
BY WalletAssumption DEF Decode, Encode, IsFile

(* A bundle altered under its digest is refused if its proof was changed;  *)
(* a valid one therefore holds the proof it was exported with, or the one  *)
(* the courier wrote it anew for.                                          *)
LEMMA ArrivingIsMade ==
  ASSUME WInv, NEW b \in Arriving, BundleValid(b)
  PROVE  Decode(b.tlv) \in made \cup Rewritten
<1>1. PICK v \in Wallets :
        b \in UNION {Delivered(Exported(wallet[v], i)) : i \in Exportable(wallet[v])}
  BY DEF Arriving
<1>2. PICK i \in Exportable(wallet[v]) : b \in Delivered(Exported(wallet[v], i))
  BY <1>1
<1> DEFINE p == wallet[v].proofs[i].proof
           e == Bundle(p, wallet[v].proofs[i].tapd, wallet[v].utxos[i].anchorState)
<1>3. i \in DOMAIN wallet[v].proofs
  BY <1>2 DEF Exportable, Explained
<1>4. p \in made /\ IsFile(p)
  BY <1>3 DEF WInv, GoodWallet
<1>5. b \in Delivered(e)
  BY <1>2 DEF Exported
<1> HIDE DEF p
<1>6. CASE \E q \in Rewritten : \E tapd, state : b = Bundle(q, tapd, state)
  <2>1. \E q \in Rewritten : b.tlv = Encode(q)
    BY <1>6 DEF Bundle
  <2> QED
    BY <2>1, RewrittenAreFiles
<1>7. CASE b.digest = Encode(p)
  <2>1. b.tlv = Encode(p)
    BY <1>7 DEF BundleValid
  <2> QED
    BY <1>4, <2>1, FileIsRead
<1>8. \/ b = e \/ (\E s \in States : b = [e EXCEPT !.anchorState = s])
      \/ b = [e EXCEPT !.tapd = None]
      \/ b = [e EXCEPT !.tlv.fields.anchor = None, !.header.anchor = None,
                 !.header.id = <<e.header.asset, None>>,
                 !.history = WalletHistory([Decode(e.tlv) EXCEPT !.anchor = None])]
      \/ \E q \in Rewritten : \E tapd, state : b = Bundle(q, tapd, state)
  <2> HIDE DEF e
  <2> QED
    BY <1>5 DEF Delivered
<1>9. CASE b = e \/ (\E s \in States : b = [e EXCEPT !.anchorState = s])
            \/ b = [e EXCEPT !.tapd = None]
  <2>1. b.digest = Encode(p)
    BY <1>9 DEF Bundle
  <2> QED
    BY <1>7, <2>1
<1>10. CASE b = [e EXCEPT !.tlv.fields.anchor = None, !.header.anchor = None,
                    !.header.id = <<e.header.asset, None>>,
                    !.history = WalletHistory([Decode(e.tlv) EXCEPT !.anchor = None])]
  <2>1. b.digest = Encode(p)
    BY <1>10 DEF Bundle
  <2> QED
    BY <1>7, <2>1
<1> QED
  BY <1>6, <1>8, <1>9, <1>10

LEMMA ApplyIsGood ==
  ASSUME WInv, made \subseteq made', NEW w \in Wallets, NEW outcome, Apply(w, outcome),
         GoodWallet(outcome.wallet, made')
  PROVE  DOMAIN wallet' = Wallets /\ \A v \in Wallets : GoodWallet(wallet'[v], made')
<1>1. wallet' = [wallet EXCEPT ![w] = outcome.wallet]
  BY DEF Apply
<1>2. ASSUME NEW v \in Wallets PROVE GoodWallet(wallet[v], made')
  BY <1>2, GoodWithMore DEF WInv
<1> QED
  BY <1>1, <1>2 DEF WInv

(* Every operation leaves the wallets valid, with proofs that were made.   *)
LEMMA WalletStepKeeps ==
  ASSUME WInv, WalletStep
  PROVE  WInv'
<1>1. /\ DOMAIN wallet = Wallets /\ \A w \in Wallets : GoodWallet(wallet[w], made)
      /\ tlvs \subseteq made /\ \A p \in made : IsFile(p)
  BY DEF WInv
<1>2. ASSUME NEW b \in Arriving, NEW w \in Wallets, ImportBundle(w, b) PROVE WInv'
  <2> DEFINE p == Decode(b.tlv)
             inner == Import(wallet[w], p, b.tapd, b.anchorState)
             outcome == ImportBundleOutcome(wallet[w], b)
  <2>1. /\ Apply(w, outcome) /\ outcome.wallet # wallet[w] /\ UNCHANGED tlvs
        /\ made' = made \cup ({p} \cap Rewritten)
    BY <1>2 DEF ImportBundle, Apply, Make
  <2>2. BundleValid(b) /\ outcome.wallet = inner.wallet
    BY <2>1 DEF ImportBundleOutcome, Refuse
  <2>3. p \in made \cup Rewritten
    BY <2>2, ArrivingIsMade
  <2> HIDE DEF outcome, p
  <2>4. made \subseteq made' /\ p \in made' /\ \A q \in made' : IsFile(q)
    BY <1>1, <2>1, <2>3, RewrittenAreFiles
  <2>5. GoodWallet(wallet[w], made')
    BY <1>1, <2>4, GoodWithMore
  <2>6. GoodWallet(outcome.wallet, made')
    BY <2>2, <2>4, <2>5, ImportOutcome
  <2> QED
    BY <1>1, <2>1, <2>4, <2>6, ApplyIsGood DEF WInv
<1>3. ASSUME NEW w \in Wallets, NEW a, NEW k, NEW n, Issue(w, a, k, n) PROVE WInv'
  <2> DEFINE p == IssuanceProof(a, k, n)
             outcome == Import(wallet[w], p, None, "Confirmed")
  <2>1. Apply(w, outcome) /\ made' = made \cup {p} /\ UNCHANGED tlvs
    BY <1>3 DEF Issue, Make
  <2>2. IsFile(p)
    BY MadeAreFiles
  <2> HIDE DEF p
  <2>3. GoodWallet(wallet[w], made') /\ p \in made' /\ made \subseteq made'
    BY <1>1, <2>1, GoodWithMore
  <2>4. GoodWallet(outcome.wallet, made')
    BY <2>3, ImportOutcome
  <2> HIDE DEF outcome
  <2> QED
    BY <1>1, <2>1, <2>2, <2>3, <2>4, ApplyIsGood DEF WInv
<1>4. ASSUME NEW w \in Wallets, NEW a, NEW n, NEW k, NEW crashed \in BOOLEAN,
             SendLocalTransfer(w, a, n, k, crashed)
      PROVE  WInv'
  <2>1. PICK i \in SpendableFor(wallet[w], a, n) :
          LET input == wallet[w].proofs[i].proof
              outcome == TransferOutcome(wallet[w], i, n, k)
              outputs == {TransferProof(input, n, k, 0)} \cup Change(input, n)
          IN  /\ outcome.ok
              /\ IF crashed THEN UNCHANGED wallet ELSE Apply(w, outcome)
              /\ tlvs' = tlvs \cup {TransferProof(input, n, k, 0)}
              /\ made' = made \cup outputs
    BY <1>4 DEF SendLocalTransfer, Make
  <2> DEFINE input == wallet[w].proofs[i].proof
             outcome == TransferOutcome(wallet[w], i, n, k)
             outputs == {TransferProof(input, n, k, 0)} \cup Change(input, n)
  <2>2. \A p \in outputs : IsFile(p)
    BY MadeAreFiles DEF Change
  <2>3. /\ made \subseteq made' /\ tlvs' \subseteq made' /\ Change(input, n) \subseteq made'
        /\ \A p \in made' : IsFile(p)
    BY <1>1, <2>1, <2>2
  <2>4. GoodWallet(wallet[w], made')
    BY <1>1, <2>3, GoodWithMore
  <2>5. outcome.ok => GoodWallet(outcome.wallet, made')
    BY <2>3, <2>4, TransferIsGood
  <2> HIDE DEF outcome
  <2>6. outcome.ok /\ (IF crashed THEN UNCHANGED wallet ELSE Apply(w, outcome))
    BY <2>1 DEF outcome
  <2>7. CASE crashed
    <3>1. \A v \in Wallets : GoodWallet(wallet[v], made')
      BY <1>1, <2>3, GoodWithMore
    <3> QED
      BY <1>1, <2>3, <2>6, <2>7, <3>1 DEF WInv
  <2>8. CASE ~crashed
    BY <2>3, <2>5, <2>6, <2>8, ApplyIsGood DEF WInv
  <2> QED
    BY <2>7, <2>8
<1>5. ASSUME NEW w \in Wallets, NEW p \in tlvs, ImportProofFile(w, p) PROVE WInv'
  <2> DEFINE outcome == Import(wallet[w], Decode(Encode(p)), None, "Confirmed")
  <2>1. Apply(w, outcome) /\ UNCHANGED <<tlvs, made>>
    BY <1>5 DEF ImportProofFile
  <2>2. Decode(Encode(p)) = p /\ p \in made
    BY <1>1, FileIsRead
  <2>3. GoodWallet(outcome.wallet, made)
    BY <1>1, <2>2, ImportOutcome
  <2> HIDE DEF outcome
  <2> QED
    BY <1>1, <2>1, <2>3, ApplyIsGood DEF WInv
<1>6. ASSUME NEW w \in Wallets, InitWallet(w) PROVE WInv'
  <2>1. Apply(w, Return(Empty)) /\ UNCHANGED <<tlvs, made>> /\ Return(Empty).wallet = Empty
    BY <1>6 DEF InitWallet, Return
  <2>2. GoodWallet(Return(Empty).wallet, made')
    BY <2>1, EmptyIsGood
  <2> QED
    BY <1>1, <2>1, <2>2, ApplyIsGood DEF WInv
<1>7. ASSUME NEW w \in Wallets, NEW r, ImportTapdProofFile(w, r) PROVE WInv'
  <2> DEFINE p == TapdProof(r)
             outcome == Import(wallet[w], p, r.tapd, "Confirmed")
  <2>1. /\ Apply(w, outcome) /\ outcome.wallet # wallet[w] /\ UNCHANGED tlvs
        /\ made' = made \cup (IF outcome.ok THEN {p} ELSE {})
    BY <1>7 DEF ImportTapdProofFile, Make, Apply
  <2>2. IsFile(p)
    BY MadeAreFiles
  <2> HIDE DEF p
  <2>3. outcome.ok
    BY <1>1, <2>1, ImportOutcome
  <2>4. GoodWallet(wallet[w], made') /\ p \in made' /\ made \subseteq made'
    BY <1>1, <2>1, <2>3, GoodWithMore
  <2>5. GoodWallet(outcome.wallet, made')
    BY <2>4, ImportOutcome
  <2> HIDE DEF outcome
  <2> QED
    BY <1>1, <2>1, <2>2, <2>3, <2>4, <2>5, ApplyIsGood DEF WInv
<1>8. ASSUME NEW w \in Wallets, NEW anchor, NEW s, UpdateAnchorState(w, anchor, s)
      PROVE  WInv'
  <2> DEFINE outcome == WithAnchorState(wallet[w], anchor, s)
  <2>1. Apply(w, outcome) /\ UNCHANGED <<tlvs, made>>
    BY <1>8 DEF UpdateAnchorState
  <2>2. GoodWallet(outcome.wallet, made)
    BY <1>1, AnchorStateIsGood
  <2> HIDE DEF outcome
  <2> QED
    BY <1>1, <2>1, <2>2, ApplyIsGood DEF WInv
<1>9. ASSUME NEW w \in Wallets, NEW i, ExportProofFile(w, i) PROVE WInv'
  <2>1. /\ UNCHANGED <<wallet, made>> /\ tlvs' = tlvs \cup {wallet[w].proofs[i].proof}
        /\ i \in DOMAIN wallet[w].proofs
    BY <1>9 DEF ExportProofFile, Explained
  <2>2. wallet[w].proofs[i].proof \in made
    BY <1>1, <2>1 DEF GoodWallet
  <2> QED
    BY <1>1, <2>1, <2>2 DEF WInv
<1> QED
  BY <1>2, <1>3, <1>4, <1>5, <1>6, <1>7, <1>8, <1>9 DEF WalletStep

(* The wallets' invariant holds in every reachable state of the flow.      *)
LEMMA WalletInvariance == FlowSpec => []WInv
<1>1. FlowInit => WInv
  BY EmptyIsGood DEF FlowInit, Init, WInv
<1>2. WInv /\ [FlowNext]_allVars => WInv'
  <2>1. ASSUME WInv, UNCHANGED vars PROVE WInv'
    BY <2>1 DEF WInv, vars
  <2> QED
    BY <2>1, WalletStepKeeps DEF FlowNext, FundingStep, FundChannel, allVars
<1> QED
  BY <1>1, <1>2, PTL DEF FlowSpec

------------------------------------------------------------------------------
(* Theorems about wallets *)

(* No wallet holds a proof that no issuance, transfer or tapd file made    *)
(* and no courier wrote a bundle anew for: a bundle altered under the      *)
(* digest it was sent with brings in the proof it was exported with or     *)
(* nothing.  The digest is unkeyed, so a bundle written anew is accepted.  *)
THEOREM HeldProofsWereMade == FlowSpec => []HeldWasMade
<1>1. WInv => HeldWasMade
  BY DEF WInv, GoodWallet, HeldWasMade
<1> QED
  BY <1>1, WalletInvariance, PTL

(* A courier import that returns an error changes no output: what          *)
(* require_imported_bundle_state compares after an insertion is what was   *)
(* inserted, so it can only refuse a proof that was already held.          *)
THEOREM RefusedImportsLeaveBalances == FlowSpec => []RefusedImportLeavesBalances
<1>1. ASSUME WInv, NEW w \in Wallets, NEW b \in Arriving,
             ~ImportBundleOutcome(wallet[w], b).ok
      PROVE  ImportBundleOutcome(wallet[w], b).wallet.utxos = wallet[w].utxos
  <2> DEFINE p == Decode(b.tlv)
             inner == Import(wallet[w], p, b.tapd, b.anchorState)
             outcome == ImportBundleOutcome(wallet[w], b)
             i == b.header.id
             compared == /\ i \in DOMAIN inner.wallet.utxos
                         /\ inner.wallet.proofs[i].history = b.history
                         /\ inner.wallet.utxos[i].anchorState = b.anchorState
  <2>1. GoodWallet(wallet[w], made)
    BY <1>1 DEF WInv
  <2>2. CASE ~BundleValid(b) \/ b.history # WalletHistory(p)
    BY <2>2 DEF ImportBundleOutcome, Refuse
  <2>3. CASE BundleValid(b) /\ b.history = WalletHistory(p) /\ ~inner.ok
    <3>1. outcome = inner
      BY <2>3 DEF ImportBundleOutcome
    <3>2. inner.wallet = wallet[w]
      BY <2>1, <2>3, ImportOutcome
    <3> QED
      BY <3>1, <3>2
  <2>4. CASE BundleValid(b) /\ b.history = WalletHistory(p) /\ inner.ok
    <3>1. outcome = [inner EXCEPT !.ok = compared]
      BY <2>4 DEF ImportBundleOutcome
    <3>2. inner = [wallet |-> inner.wallet, ok |-> inner.ok]
      BY DEF Import, Return, Refuse, Commit
    <3> HIDE DEF inner, compared, outcome
    <3>3. outcome.wallet = inner.wallet /\ outcome.ok = compared
      BY <3>1, <3>2
    <3>4. ~compared
      BY <1>1, <3>3 DEF outcome
    <3>5. i = ProofId(p)
      BY <2>4 DEF BundleValid, HeaderOf
    <3>6. \/ /\ inner.wallet.utxos = Put(wallet[w].utxos, i, Utxo(p, b.anchorState))
             /\ inner.wallet.proofs = Put(wallet[w].proofs, i, StoredProof(p, b.tapd))
          \/ inner.wallet.utxos = wallet[w].utxos
      BY <2>1, <2>4, <3>5, ImportOutcome DEF inner
    <3>7. inner.wallet.utxos = wallet[w].utxos
      BY <2>4, <3>4, <3>6 DEF compared, Put, Utxo, StoredProof
    <3> QED
      BY <3>3, <3>7 DEF outcome
  <2> QED
    BY <2>2, <2>3, <2>4
<1>2. WInv => RefusedImportLeavesBalances
  BY <1>1 DEF RefusedImportLeavesBalances
<1> QED
  BY <1>2, WalletInvariance, PTL

------------------------------------------------------------------------------
(* What was made *)

(* What was made is finite and has amounts, the transfers are of what was  *)
(* made into what was made, and what they made is worth no more than what  *)
(* they took, one input for each of them.                                  *)
MadeInv ==
  /\ IsFiniteSet(made)
  /\ \A p \in made : p.amount \in Nat
  /\ IsFiniteSet(spends)
  /\ \A s \in spends : s[1] \in made /\ s[2] \subseteq made
  /\ \A a : Worth(Offspring, a) <= Transferred(a)

LEMMA IssuanceFields ==
  ASSUME NEW a, NEW k, NEW n
  PROVE  LET p == IssuanceProof(a, k, n)
         IN  /\ p.asset = a /\ p.amount = n /\ p.anchor = <<"issued", a, k, n>>
             /\ ProofId(p) = <<a, <<"issued", a, k, n>>>>
BY DEF IssuanceProof, ProofFile, ProofId

LEMMA TapdFields ==
  ASSUME NEW r
  PROVE  LET p == TapdProof(r)
         IN  /\ p.asset = r.asset /\ p.amount = r.amount /\ p.anchor = r.anchor
             /\ ProofId(p) = <<r.asset, r.anchor>>
BY DEF TapdProof, ProofFile, ProofId

LEMMA TransferFields ==
  ASSUME NEW i, NEW n, NEW k, NEW x
  PROVE  LET p == TransferProof(i, n, k, x)
         IN  /\ p.asset = i.asset /\ p.amount = n
             /\ p.anchor = <<"transfer", i.anchor, k, n, x>>
             /\ ProofId(p) = <<i.asset, <<"transfer", i.anchor, k, n, x>>>>
<1> DEFINE p == ProofFile(i.asset, i.genesis, <<"transfer", i.anchor, k, n, x>>, n, k)
<1>1. /\ p.asset = i.asset /\ p.amount = n /\ p.anchor = <<"transfer", i.anchor, k, n, x>>
      /\ {"network", "type"} \subseteq DOMAIN p /\ {"asset", "amount", "anchor"} \subseteq DOMAIN p
  BY DEF ProofFile
<1>2. TransferProof(i, n, k, x) = [p EXCEPT !.network = i.network, !.type = i.type]
  BY DEF TransferProof
<1> HIDE DEF p
<1> QED
  BY <1>1, <1>2 DEF ProofId

------------------------------------------------------------------------------
(* What sets of proofs are worth *)

LEMMA SumOver ==
  ASSUME NEW U, IsFiniteSet(U), NEW T \in SUBSET U
  PROVE  AmountOf(T) = SumFunctionOnSet([p \in U |-> p.amount], T)
<1> DEFINE f == [p \in T |-> p.amount]
           g == [p \in U |-> p.amount]
<1>1. IsFiniteSet(T) /\ \A p \in T : f[p] = g[p]
  BY FS_Subset
<1>2. AmountOf(T) = SumFunction(f) /\ DOMAIN f = T
  BY DEF AmountOf
<1> HIDE DEF f, g
<1>3. SumFunctionOnSet(f, T) = SumFunctionOnSet(g, T)
  BY <1>1, SumAgrees
<1> QED
  BY <1>2, <1>3 DEF g, SumFunction

LEMMA SumOfOneMore ==
  ASSUME NEW S, IsFiniteSet(S), NEW p, p \notin S, \A q \in S \cup {p} : q.amount \in Int
  PROVE  AmountOf(S \cup {p}) = p.amount + AmountOf(S)
<1> DEFINE U == S \cup {p}
           f == [q \in U |-> q.amount]
<1>1. /\ IsFiniteSet(U) /\ S \in SUBSET U /\ U \in SUBSET U
      /\ \A q \in U : f[q] \in Int
      /\ f[p] = p.amount
  BY FS_AddElement
<1>2. AmountOf(U) = SumFunctionOnSet(f, U) /\ AmountOf(S) = SumFunctionOnSet(f, S)
  BY <1>1, SumOver
<1> HIDE DEF f
<1>3. SumFunctionOnSet(f, S \cup {p}) = f[p] + SumFunctionOnSet(f, S)
  BY <1>1, SumAdd
<1> QED
  BY <1>1, <1>2, <1>3

LEMMA SumIsNat ==
  ASSUME NEW S, IsFiniteSet(S), \A q \in S : q.amount \in Nat
  PROVE  AmountOf(S) \in Nat
<1> DEFINE f == [q \in S |-> q.amount]
<1>1. \A q \in S : f[q] \in Nat
  OBVIOUS
<1>2. AmountOf(S) = SumFunction(f) /\ DOMAIN f = S
  BY DEF AmountOf
<1> HIDE DEF f
<1> QED
  BY <1>1, <1>2, SumNat DEF SumFunction

LEMMA SumOfUnion ==
  ASSUME NEW S, NEW T, IsFiniteSet(S), IsFiniteSet(T), S \cap T = {},
         \A q \in S \cup T : q.amount \in Int
  PROVE  AmountOf(S \cup T) = AmountOf(S) + AmountOf(T)
<1> DEFINE U == S \cup T
           f == [q \in U |-> q.amount]
<1>1. /\ IsFiniteSet(U) /\ S \in SUBSET U /\ T \in SUBSET U /\ U \in SUBSET U
      /\ \A q \in S \cup T : f[q] \in Int
  BY FS_Union
<1>2. /\ AmountOf(U) = SumFunctionOnSet(f, U)
      /\ AmountOf(S) = SumFunctionOnSet(f, S) /\ AmountOf(T) = SumFunctionOnSet(f, T)
  BY <1>1, SumOver
<1> HIDE DEF f
<1>3. SumFunctionOnSet(f, S \cup T) = SumFunctionOnSet(f, S) + SumFunctionOnSet(f, T)
  BY <1>1, SumUnion
<1> QED
  BY <1>2, <1>3

LEMMA SumOfPart ==
  ASSUME NEW S, IsFiniteSet(S), \A q \in S : q.amount \in Nat, NEW T \in SUBSET S
  PROVE  AmountOf(T) <= AmountOf(S)
<1> DEFINE f == [q \in S |-> q.amount]
<1>1. \A q \in S : f[q] \in Nat
  OBVIOUS
<1>2. AmountOf(S) = SumFunctionOnSet(f, S) /\ AmountOf(T) = SumFunctionOnSet(f, T)
  <2>1. S \in SUBSET S
    OBVIOUS
  <2> QED
    BY <2>1, SumOver
<1> HIDE DEF f
<1> QED
  BY <1>1, <1>2, SumMonotone

LEMMA WorthIsNat ==
  ASSUME NEW S, IsFiniteSet(S), \A q \in S : q.amount \in Nat, NEW a
  PROVE  Worth(S, a) \in Nat
<1> DEFINE T == {q \in S : q.asset = a}
<1>1. IsFiniteSet(T) /\ \A q \in T : q.amount \in Nat
  BY FS_Subset
<1>2. Worth(S, a) = AmountOf(T)
  BY DEF Worth
<1> HIDE DEF T
<1> QED
  BY <1>1, <1>2, SumIsNat

(* One proof more is worth its amount in its own asset.                    *)
LEMMA WorthOfOneMore ==
  ASSUME NEW S, IsFiniteSet(S), NEW p, p \notin S, \A q \in S \cup {p} : q.amount \in Nat,
         NEW a
  PROVE  /\ Worth(S, a) \in Nat
         /\ Worth(S \cup {p}, a) = Worth(S, a) + (IF p.asset = a THEN p.amount ELSE 0)
<1> DEFINE T == {q \in S : q.asset = a}
           U == {q \in S \cup {p} : q.asset = a}
<1>1. IsFiniteSet(T) /\ p \notin T
  BY FS_Subset
<1>2. U = (IF p.asset = a THEN T \cup {p} ELSE T)
  OBVIOUS
<1>3. \A q \in T \cup {p} : q.amount \in Nat
  OBVIOUS
<1>4. Worth(S, a) = AmountOf(T) /\ Worth(S \cup {p}, a) = AmountOf(U)
  BY DEF Worth
<1> HIDE DEF T, U
<1>5. AmountOf(T) \in Nat
  BY <1>1, <1>3, SumIsNat
<1>6. AmountOf(T \cup {p}) = p.amount + AmountOf(T)
  BY <1>1, <1>3, SumOfOneMore
<1> QED
  BY <1>2, <1>3, <1>4, <1>5, <1>6

(* A proof added to a set, new or not, adds at most its amount. *)
LEMMA WorthOfOneMoreAtMost ==
  ASSUME NEW S, IsFiniteSet(S), NEW p, \A q \in S \cup {p} : q.amount \in Nat, NEW a
  PROVE  Worth(S \cup {p}, a) <= Worth(S, a) + (IF p.asset = a THEN p.amount ELSE 0)
<1>1. CASE p \notin S
  <2>1. Worth(S, a) \in Nat /\ p.amount \in Nat
    BY WorthIsNat
  <2> QED
    BY <1>1, <2>1, WorthOfOneMore
<1>2. CASE p \in S
  <2>1. S \cup {p} = S /\ Worth(S, a) \in Nat /\ p.amount \in Nat
    BY <1>2, WorthIsNat
  <2> QED
    BY <2>1
<1> QED
  BY <1>1, <1>2

(* What two parts of a set are worth is what the set is worth. *)
LEMMA WorthSplit ==
  ASSUME NEW S, IsFiniteSet(S), \A q \in S : q.amount \in Nat, NEW a
  PROVE  \A T : Worth(S, a) = Worth(S \cap T, a) + Worth(S \ T, a)
<1> TAKE T
<1> DEFINE I == {q \in S \cap T : q.asset = a}
           D == {q \in S \ T : q.asset = a}
           U == {q \in S : q.asset = a}
<1>1. /\ IsFiniteSet(I) /\ IsFiniteSet(D) /\ I \cap D = {} /\ U = I \cup D
      /\ \A q \in I \cup D : q.amount \in Int
  BY FS_Subset
<1>2. /\ Worth(S, a) = AmountOf(U) /\ Worth(S \cap T, a) = AmountOf(I)
      /\ Worth(S \ T, a) = AmountOf(D)
  BY DEF Worth
<1> HIDE DEF I, D, U
<1> QED
  BY <1>1, <1>2, SumOfUnion

LEMMA WorthOfPart ==
  ASSUME NEW S, IsFiniteSet(S), \A q \in S : q.amount \in Nat, NEW T \in SUBSET S, NEW a
  PROVE  Worth(T, a) <= Worth(S, a)
<1>1. S \cap T = T /\ IsFiniteSet(T) /\ IsFiniteSet(S \ T)
  BY FS_Subset
<1>2. Worth(T, a) \in Nat /\ Worth(S \ T, a) \in Nat
  BY <1>1, WorthIsNat
<1>3. Worth(S, a) = Worth(S \cap T, a) + Worth(S \ T, a)
  BY WorthSplit
<1>4. Worth(S, a) = Worth(T, a) + Worth(S \ T, a)
  BY <1>1, <1>3
<1> QED
  BY <1>2, <1>4

------------------------------------------------------------------------------
(* Steps that make proofs *)

(* The outputs of a transfer are the receiver's proof, and the change      *)
(* unless there is none: together they add at most the worth of the input. *)
LEMMA OutputsAreWorthTheInput ==
  ASSUME NEW S, IsFiniteSet(S), \A q \in S : q.amount \in Nat,
         NEW input, input.amount \in Nat, NEW n \in Nat, n <= input.amount, NEW k,
         NEW outputs, outputs = {TransferProof(input, n, k, 0)} \cup Change(input, n)
  PROVE  /\ IsFiniteSet(outputs) /\ \A q \in outputs : q.amount \in Nat
         /\ \A a : Worth(S \cup outputs, a) <=
                     Worth(S, a) + (IF input.asset = a THEN input.amount ELSE 0)
<1> DEFINE r == TransferProof(input, n, k, 0)
           c == TransferProof(input, input.amount - n, input.key, 1)
           T == S \cup {r}
<1>1. /\ r.asset = input.asset /\ r.amount = n
      /\ c.asset = input.asset /\ c.amount = input.amount - n
      /\ input.amount - n \in Nat
  BY TransferFields
<1>2. outputs = (IF input.amount = n THEN {r} ELSE {r} \cup {c})
  BY DEF Change
<1> HIDE DEF r, c
<1>3. IsFiniteSet({r}) /\ IsFiniteSet({r} \cup {c}) /\ IsFiniteSet(T)
  BY FS_Singleton, FS_AddElement
<1>4. \A q \in T \cup {c} : q.amount \in Nat
  BY <1>1
<1>5. ASSUME NEW a
      PROVE  /\ Worth(T, a) <= Worth(S, a) + (IF input.asset = a THEN n ELSE 0)
             /\ Worth(T \cup {c}, a) <=
                  Worth(S, a) + (IF input.asset = a THEN input.amount ELSE 0)
  <2>1. Worth(T, a) <= Worth(S, a) + (IF r.asset = a THEN r.amount ELSE 0)
    BY <1>4, WorthOfOneMoreAtMost
  <2>2. Worth(T \cup {c}, a) <= Worth(T, a) + (IF c.asset = a THEN c.amount ELSE 0)
    <3> HIDE DEF T
    <3> QED
      BY <1>3, <1>4, WorthOfOneMoreAtMost
  <2>3. IsFiniteSet(T \cup {c})
    BY <1>3, FS_AddElement
  <2>4. Worth(S, a) \in Nat /\ Worth(T, a) \in Nat /\ Worth(T \cup {c}, a) \in Nat
    <3> HIDE DEF T
    <3> QED
      BY <1>3, <1>4, <2>3, WorthIsNat
  <2> HIDE DEF T
  <2> QED
    BY <1>1, <2>1, <2>2, <2>4
<1>6. S \cup ({r} \cup {c}) = T \cup {c}
  OBVIOUS
<1> HIDE DEF T
<1> QED
  BY <1>1, <1>2, <1>3, <1>4, <1>5, <1>6 DEF T

LEMMA SumOverTransfers ==
  ASSUME NEW U, IsFiniteSet(U), NEW T \in SUBSET U
  PROVE  SumFunction([s \in T |-> s[1].amount]) =
           SumFunctionOnSet([s \in U |-> s[1].amount], T)
<1> DEFINE f == [s \in T |-> s[1].amount]
           g == [s \in U |-> s[1].amount]
<1>1. IsFiniteSet(T) /\ \A s \in T : f[s] = g[s]
  BY FS_Subset
<1>2. DOMAIN f = T
  OBVIOUS
<1> HIDE DEF f, g
<1>3. SumFunctionOnSet(f, T) = SumFunctionOnSet(g, T)
  BY <1>1, SumAgrees
<1> QED
  BY <1>2, <1>3 DEF f, g, SumFunction

(* A transfer that was not made before takes its input once more. *)
LEMMA TransferredGrows ==
  ASSUME MadeInv, NEW s, s \notin spends, s[1].amount \in Nat,
         spends' = spends \cup {s}, NEW a
  PROVE  /\ Transferred(a) \in Nat
         /\ Transferred(a)' =
              Transferred(a) + (IF s[1].asset = a THEN s[1].amount ELSE 0)
<1> DEFINE U == spends \cup {s}
           D == {t \in spends : t[1].asset = a}
           E == {t \in U : t[1].asset = a}
           f == [t \in U |-> t[1].amount]
<1>1. /\ IsFiniteSet(U) /\ D \in SUBSET U /\ E \in SUBSET U /\ IsFiniteSet(D)
      /\ s \notin D /\ E = (IF s[1].asset = a THEN D \cup {s} ELSE D)
      /\ f[s] = s[1].amount /\ \A t \in D \cup {s} : f[t] \in Nat
  BY FS_AddElement, FS_Subset DEF MadeInv
<1>2. Transferred(a) = SumFunctionOnSet(f, D)
  <2> HIDE DEF U
  <2>1. SumFunction([t \in D |-> t[1].amount]) = SumFunctionOnSet(f, D)
    <3> HIDE DEF D
    <3> QED
      BY <1>1, SumOverTransfers
  <2> QED
    BY <2>1 DEF Transferred
<1>3. Transferred(a)' = SumFunctionOnSet(f, E)
  <2>1. SumFunction([t \in E |-> t[1].amount]) = SumFunctionOnSet(f, E)
    <3> HIDE DEF E, U
    <3> QED
      BY <1>1, SumOverTransfers
  <2> QED
    BY <2>1 DEF Transferred
<1> HIDE DEF U, D, E, f
<1>4. SumFunctionOnSet(f, D) \in Nat
  BY <1>1, SumNat
<1>5. SumFunctionOnSet(f, D \cup {s}) = f[s] + SumFunctionOnSet(f, D)
  <2>1. \A t \in D \cup {s} : f[t] \in Int
    BY <1>1
  <2> QED
    BY <1>1, <2>1, SumAdd
<1> QED
  BY <1>1, <1>2, <1>3, <1>4, <1>5

(* Proofs that are issued or brought in come from no transfer. *)
LEMMA MakeKeeps ==
  ASSUME MadeInv, NEW S, IsFiniteSet(S), \A p \in S : p.amount \in Nat,
         made' = made \cup S, UNCHANGED spends
  PROVE  MadeInv'
<1>1. UNCHANGED Offspring /\ \A a : Transferred(a)' = Transferred(a)
  BY DEF Offspring, Transferred
<1>2. IsFiniteSet(made') /\ \A p \in made' : p.amount \in Nat
  BY FS_Union DEF MadeInv
<1>3. IsFiniteSet(spends') /\ \A s \in spends' : s[1] \in made' /\ s[2] \subseteq made'
  BY DEF MadeInv
<1>4. \A a : Worth(Offspring', a) <= Transferred(a)'
  BY <1>1 DEF MadeInv
<1> QED
  BY <1>2, <1>3, <1>4 DEF MadeInv, Worth

(* A transfer makes no more of its input than it takes, and one that was   *)
(* made before makes nothing new.                                          *)
LEMMA TransferKeeps ==
  ASSUME MadeInv, NEW input \in made, NEW n \in Nat, n <= input.amount, NEW k,
         NEW outputs, outputs = {TransferProof(input, n, k, 0)} \cup Change(input, n),
         made' = made \cup outputs, spends' = spends \cup {<<input, outputs>>}
  PROVE  MadeInv'
<1> DEFINE step == <<input, outputs>>
<1>1. input.amount \in Nat /\ step[1] = input /\ step[2] = outputs
  BY DEF MadeInv
<1>2. spends' = spends \cup {step}
  OBVIOUS
<1> HIDE DEF step
<1>3. Offspring \subseteq made /\ Offspring' = Offspring \cup outputs
  BY <1>1, <1>2 DEF MadeInv, Offspring
<1>4. IsFiniteSet(Offspring) /\ \A p \in Offspring : p.amount \in Nat
  BY <1>3, FS_Subset DEF MadeInv
<1>5. /\ IsFiniteSet(outputs) /\ \A q \in outputs : q.amount \in Nat
      /\ \A a : Worth(Offspring \cup outputs, a) <=
                  Worth(Offspring, a) + (IF input.asset = a THEN input.amount ELSE 0)
  BY <1>1, <1>4, OutputsAreWorthTheInput
<1>6. IsFiniteSet(made') /\ \A p \in made' : p.amount \in Nat
  BY <1>5, FS_Union DEF MadeInv
<1>7. IsFiniteSet(spends')
  <2>1. IsFiniteSet(spends) /\ IsFiniteSet({step})
    BY FS_Singleton DEF MadeInv
  <2> QED
    BY <1>2, <2>1, FS_Union
<1>8. \A s \in spends' : s[1] \in made' /\ s[2] \subseteq made'
  BY <1>1, <1>2 DEF MadeInv
<1>9. ASSUME NEW a PROVE Worth(Offspring', a) <= Transferred(a)'
  <2>1. Worth(Offspring, a) <= Transferred(a)
    BY DEF MadeInv
  <2>2. CASE step \in spends
    <3>1. spends' = spends
      BY <1>2, <2>2
    <3>2. Offspring' = Offspring /\ Transferred(a)' = Transferred(a)
      BY <3>1 DEF Offspring, Transferred
    <3> QED
      BY <2>1, <3>2
  <2>3. CASE step \notin spends
    <3>1. /\ Transferred(a) \in Nat
          /\ Transferred(a)' =
               Transferred(a) + (IF input.asset = a THEN input.amount ELSE 0)
      BY <1>1, <1>2, <2>3, TransferredGrows
    <3>2. Worth(Offspring, a) \in Nat /\ Worth(Offspring \cup outputs, a) \in Nat
      <4>1. IsFiniteSet(Offspring \cup outputs)
        BY <1>4, <1>5, FS_Union
      <4> QED
        BY <1>4, <1>5, <4>1, WorthIsNat
    <3>3. Worth(Offspring \cup outputs, a) <=
            Worth(Offspring, a) + (IF input.asset = a THEN input.amount ELSE 0)
      BY <1>5
    <3>4. Worth(Offspring', a) = Worth(Offspring \cup outputs, a)
      BY <1>3
    <3> QED
      BY <1>1, <2>1, <3>1, <3>2, <3>3, <3>4
  <2> QED
    BY <2>2, <2>3
<1> QED
  BY <1>6, <1>7, <1>8, <1>9 DEF MadeInv, Worth

(* No operation makes more than a transfer takes, or an issuance, a tapd   *)
(* file or a courier brings in.                                            *)
LEMMA MadeStepKeeps ==
  ASSUME WInv, MadeInv, WalletStep
  PROVE  MadeInv'
<1>1. ASSUME UNCHANGED <<made, spends>> PROVE MadeInv'
  BY <1>1, MakeKeeps, FS_EmptySet
<1>2. ASSUME NEW w \in Wallets, NEW a, NEW k, NEW n \in Issues, Issue(w, a, k, n)
      PROVE  MadeInv'
  <2> DEFINE p == IssuanceProof(a, k, n)
  <2>1. made' = made \cup {p} /\ UNCHANGED spends
    BY <1>2 DEF Issue, Make
  <2>2. p.amount \in Nat
    BY IssuanceFields, WalletAssumption
  <2> HIDE DEF p
  <2> QED
    BY <2>1, <2>2, MakeKeeps, FS_Singleton
<1>3. ASSUME NEW w \in Wallets, NEW a, NEW n \in Amounts, NEW k, NEW crashed \in BOOLEAN,
             SendLocalTransfer(w, a, n, k, crashed)
      PROVE  MadeInv'
  <2>1. PICK i \in SpendableFor(wallet[w], a, n) :
          LET input == wallet[w].proofs[i].proof
              outputs == {TransferProof(input, n, k, 0)} \cup Change(input, n)
          IN  made' = made \cup outputs /\ spends' = spends \cup {<<input, outputs>>}
    BY <1>3 DEF SendLocalTransfer, Make
  <2> DEFINE input == wallet[w].proofs[i].proof
  <2>2. GoodWallet(wallet[w], made)
    BY DEF WInv
  <2>3. /\ i \in DOMAIN wallet[w].proofs
        /\ wallet[w].utxos[i].header = HeaderOf(input)
        /\ wallet[w].utxos[i].header.amount >= n
    BY <2>2 DEF GoodWallet, WalletValid, SpendableFor, Spendable
  <2>4. input \in made /\ n <= input.amount /\ n \in Nat
    <3>1. input \in made
      BY <2>2, <2>3 DEF GoodWallet
    <3>2. input.amount \in Nat /\ n \in Nat
      BY <3>1, WalletAssumption DEF MadeInv
    <3>3. wallet[w].utxos[i].header.amount = input.amount
      BY <2>3 DEF HeaderOf
    <3> QED
      BY <2>3, <3>1, <3>2, <3>3
  <2> HIDE DEF input
  <2>5. /\ made' = made \cup ({TransferProof(input, n, k, 0)} \cup Change(input, n))
        /\ spends' = spends \cup {<<input, {TransferProof(input, n, k, 0)} \cup Change(input, n)>>}
    BY <2>1 DEF input
  <2> QED
    BY <2>4, <2>5, TransferKeeps
<1>4. ASSUME NEW w \in Wallets, NEW r \in TapdImports, ImportTapdProofFile(w, r)
      PROVE  MadeInv'
  <2> DEFINE p == TapdProof(r)
             outcome == Import(wallet[w], p, r.tapd, "Confirmed")
  <2>1. made' = made \cup (IF outcome.ok THEN {p} ELSE {}) /\ UNCHANGED spends
    BY <1>4 DEF ImportTapdProofFile, Make
  <2>2. p.amount \in Nat
    BY TapdFields, WalletAssumption
  <2> HIDE DEF p, outcome
  <2> QED
    BY <2>1, <2>2, MakeKeeps, FS_Singleton, FS_EmptySet
<1>5. ASSUME NEW b \in Arriving, NEW w \in Wallets, ImportBundle(w, b) PROVE MadeInv'
  <2> DEFINE S == {Decode(b.tlv)} \cap Rewritten
  <2>1. made' = made \cup S /\ UNCHANGED spends
    BY <1>5 DEF ImportBundle, Make
  <2>2. IsFiniteSet(S) /\ \A q \in S : q.amount \in Nat
    BY RewrittenAreFiles, FS_Singleton, FS_Subset
  <2> HIDE DEF S
  <2> QED
    BY <2>1, <2>2, MakeKeeps
<1>6. CASE \E w \in Wallets :
             \/ \E p \in tlvs : ImportProofFile(w, p)
             \/ InitWallet(w)
             \/ \E x \in Watched, s \in States : UpdateAnchorState(w, x, s)
             \/ \E p \in made : ExportProofFile(w, ProofId(p))
  BY <1>1, <1>6 DEF ImportProofFile, InitWallet, UpdateAnchorState, ExportProofFile
<1> QED
  BY <1>2, <1>3, <1>4, <1>5, <1>6 DEF WalletStep

LEMMA MadeInvariance == FlowSpec => [](WInv /\ MadeInv)
<1>1. FlowInit => MadeInv
  <2>1. ASSUME NEW a PROVE Worth({}, a) = 0 /\ SumFunction([s \in {} |-> s[1].amount]) = 0
    <3> DEFINE f == [p \in {} |-> p.amount]
               g == [s \in {} |-> s[1].amount]
    <3>1. Worth({}, a) = SumFunction(f) /\ DOMAIN f = {} /\ DOMAIN g = {}
      <4>1. {p \in {} : p.asset = a} = {}
        OBVIOUS
      <4> QED
        BY <4>1 DEF Worth, AmountOf
    <3> HIDE DEF f, g
    <3>2. SumFunction(f) = 0 /\ SumFunction(g) = 0
      BY <3>1, SumEmpty DEF SumFunction
    <3> QED
      BY <3>1, <3>2 DEF g
  <2>2. ASSUME Init PROVE MadeInv
    <3>1. made = {} /\ spends = {}
      BY <2>2 DEF Init
    <3>2. Offspring = {}
      BY <3>1 DEF Offspring
    <3>3. ASSUME NEW a PROVE Worth(Offspring, a) <= Transferred(a)
      <4>1. {t \in spends : t[1].asset = a} = {}
        BY <3>1
      <4>2. Transferred(a) = 0
        BY <2>1, <4>1 DEF Transferred
      <4> QED
        BY <2>1, <3>2, <4>2
    <3> QED
      BY <3>1, <3>3, FS_EmptySet DEF MadeInv
  <2> QED
    BY <2>2 DEF FlowInit
<1>2. WInv /\ MadeInv /\ [FlowNext]_allVars => MadeInv'
  <2>1. ASSUME MadeInv, UNCHANGED vars PROVE MadeInv'
    BY <2>1, MakeKeeps, FS_EmptySet DEF vars
  <2> QED
    BY <2>1, MadeStepKeeps DEF FlowNext, FundingStep, FundChannel, allVars
<1> QED
  BY <1>1, <1>2, WalletInvariance, PTL DEF FlowSpec

------------------------------------------------------------------------------
(* The channel store *)

LEMMA StoreValidity == FlowSpec => []StoreValid(channels, spent)
<1>1. FlowInit => StoreValid(channels, spent)
  <2>1. ASSUME FundingInit PROVE StoreValid(channels, spent)
    <3>1. DOMAIN channels = {} /\ DOMAIN spent = {}
      BY <2>1 DEF FundingInit
    <3> QED
      BY <3>1 DEF StoreValid
  <2> QED
    BY <2>1 DEF FlowInit
<1>2. StoreValid(channels, spent) /\ [FlowNext]_allVars => StoreValid(channels, spent)'
  <2>1. ASSUME StoreValid(channels, spent), UNCHANGED fundingVars
        PROVE  StoreValid(channels, spent)'
    <3>1. channels' = channels /\ spent' = spent
      BY <2>1 DEF fundingVars
    <3>2. StoreValid(channels', spent')
      BY <2>1, <3>1
    <3> QED
      BY <3>2
  <2>2. ASSUME NEW r, NEW local, NEW remote, FundChannel(r, local, remote)
        PROVE  StoreValid(channels, spent)'
    <3>1. StoreValid(channels', spent')
      BY <2>2 DEF FundChannel
    <3> QED
      BY <3>1
  <2> QED
    BY <2>1, <2>2 DEF FlowNext, FundingStep, allVars
<1> QED
  BY <1>1, <1>2, PTL DEF FlowSpec

(* The wallets and the channel store are at every step ones that load and  *)
(* save_atomic accept: what an import inserts before validate runs is      *)
(* valid, whichever proof a courier delivers, and fund_channel keeps the   *)
(* clone it changed only if no proof backs two channels, or one channel    *)
(* twice.                                                                  *)
THEOREM StoresStayLoadable == FlowSpec => []StoresLoadable
<1>1. WInv /\ StoreValid(channels, spent) => StoresLoadable
  BY DEF WInv, GoodWallet, StoresLoadable, WalletsLoadable
<1> QED
  BY <1>1, WalletInvariance, StoreValidity, PTL

(* The proofs of a list without repetitions are worth its total, and its   *)
(* ids name them.                                                          *)
LEMMA WorthOfList ==
  ASSUME MadeInv, NEW s \in Seq(made), IsInjective(Ids(s)),
         NEW R, R = {s[i] : i \in DOMAIN s}
  PROVE  R \in SUBSET made /\ Names(R, Ids(s)) /\ AmountOf(R) = Total(s)
<1> DEFINE D == DOMAIN s
           f == [i \in D |-> s[i].amount]
           g == [p \in made |-> p.amount]
<1>1. IsFiniteSet(D) /\ \A i \in D : s[i] \in made
  BY LenProperties, FS_Interval
<1>2. R \in SUBSET made
  BY <1>1
<1>3. Names(R, Ids(s))
  <2>1. DOMAIN Ids(s) = D /\ \A i \in D : Ids(s)[i] = ProofId(s[i])
    BY DEF Ids
  <2> HIDE DEF D
  <2>2. R = {s[i] : i \in D}
    BY DEF D
  <2>3. {ProofId(p) : p \in R} = ToSet(Ids(s))
    <3>1. ToSet(Ids(s)) = {ProofId(s[i]) : i \in D}
      BY <2>1 DEF ToSet
    <3> QED
      BY <2>2, <3>1
  <2>4. ASSUME NEW p \in R, NEW q \in R, ProofId(p) = ProofId(q) PROVE p = q
    <3>1. PICK i \in D, j \in D : p = s[i] /\ q = s[j]
      BY <2>2
    <3> QED
      BY <2>1, <2>4, <3>1 DEF IsInjective
  <2> QED
    BY <2>3, <2>4 DEF Names
<1>4. \A i, j \in D : s[i] = s[j] => i = j
  BY DEF IsInjective, Ids
<1>5. \A i \in D : g[s[i]] \in Int /\ f[i] = g[s[i]]
  BY <1>1 DEF MadeInv
<1>6. Total(s) = SumFunction(f) /\ DOMAIN f = D
  BY DEF Total
<1>7. AmountOf(R) = SumFunctionOnSet(g, R)
  BY <1>2, SumOver DEF MadeInv
<1>8. R = {s[i] : i \in D}
  OBVIOUS
<1> HIDE DEF f, g, D
<1>9. SumFunctionOnSet(f, D) = SumFunctionOnSet(g, {s[i] : i \in D})
  BY <1>1, <1>4, <1>5, SumReindex
<1> QED
  BY <1>2, <1>3, <1>6, <1>7, <1>8, <1>9 DEF SumFunction

LEMMA SetOfConcat ==
  ASSUME NEW S, NEW s \in Seq(S), NEW t \in Seq(S)
  PROVE  /\ ToSet(s \o t) = ToSet(s) \cup ToSet(t)
         /\ IsInjective(s \o t) => ToSet(s) \cap ToSet(t) = {}
<1> DEFINE u == s \o t
           m == Len(s)
           n == Len(t)
<1>1. /\ m \in Nat /\ DOMAIN s = 1 .. m /\ n \in Nat /\ DOMAIN t = 1 .. n
      /\ DOMAIN u = 1 .. m + n
      /\ \A i \in 1 .. m + n : u[i] = IF i <= m THEN s[i] ELSE t[i - m]
  BY LenProperties, ConcatProperties
<1> HIDE DEF m, n, u
<1>2. \A i \in 1 .. m : i \in 1 .. m + n /\ u[i] = s[i]
  BY <1>1
<1>3. \A i \in 1 .. n : m + i \in 1 .. m + n /\ u[m + i] = t[i] /\ m + i \notin 1 .. m
  BY <1>1
<1>4. \A i \in 1 .. m + n : i \notin 1 .. m => i - m \in 1 .. n
  BY <1>1
<1>5. ToSet(u) = ToSet(s) \cup ToSet(t)
  <2>1. \A x \in ToSet(u) : x \in ToSet(s) \cup ToSet(t)
    BY <1>1, <1>2, <1>4 DEF ToSet
  <2>2. \A x \in ToSet(s) \cup ToSet(t) : x \in ToSet(u)
    BY <1>1, <1>2, <1>3 DEF ToSet
  <2> QED
    BY <2>1, <2>2
<1>6. ASSUME IsInjective(u), NEW i \in 1 .. m, NEW j \in 1 .. n, s[i] = t[j] PROVE FALSE
  BY <1>1, <1>2, <1>3, <1>6 DEF IsInjective
<1>7. IsInjective(u) => ToSet(s) \cap ToSet(t) = {}
  BY <1>1, <1>6 DEF ToSet
<1> QED
  BY <1>5, <1>7 DEF u

(* A channel is what fund_channel makes of two lists of proofs that were   *)
(* made, all of one asset and one genesis, none of them twice in a list.   *)
FundedWith(ch, local, remote) ==
  /\ ch.localProofs = Ids(local) /\ ch.remoteProofs = Ids(remote)
  /\ ch.localBalance = Total(local) /\ ch.remoteBalance = Total(remote)
  /\ ch.total = ch.localBalance + ch.remoteBalance
  /\ IsInjective(Ids(local)) /\ IsInjective(Ids(remote))
  /\ \A i \in DOMAIN local :
       local[i].asset = ch.request.asset /\ local[i].genesis = ch.genesis
  /\ \A i \in DOMAIN remote :
       remote[i].asset = ch.request.asset /\ remote[i].genesis = ch.genesis

ChannelInv ==
  /\ IsFiniteSet(DOMAIN channels)
  /\ \A c \in DOMAIN channels : \E local, remote \in Seq(made) :
       FundedWith(channels[c], local, remote)

LEMMA FundedKeeps ==
  ASSUME WInv, ChannelInv, AssetsPresent, NEW r \in Request,
         NEW local \in InputLists, NEW remote \in InputLists, FundChannel(r, local, remote)
  PROVE  ChannelInv'
<1> DEFINE inputs == Inputs(local, remote)
           id == ChannelId(r, Total(local), Total(remote), Ids(inputs))
           ch == Channel(id, r, Head(inputs).genesis, local, remote)
<1>1. Fundable(r, local, remote) /\ channels' = Put(channels, id, ch) /\ made' = made
  BY DEF FundChannel, vars
<1>2. local \in Seq(made) /\ remote \in Seq(made)
  <2>1. ASSUME NEW s \in InputLists PROVE s \in Seq(made)
    <3>1. PICK m \in 0 .. MaxInputs : s \in [1 .. m -> tlvs]
      BY DEF InputLists, SeqOf
    <3>2. m \in Nat /\ s \in [1 .. m -> made]
      BY <3>1, FundingAssumption DEF WInv
    <3> QED
      BY <3>2
  <2> QED
    BY <2>1
<1>3. /\ IsInjective(Ids(local)) /\ IsInjective(Ids(remote))
      /\ \A i \in DOMAIN local : local[i].asset = r.asset
      /\ \A i \in DOMAIN remote : remote[i].asset = r.asset
  <2>1. InputsValid(r.asset, local) /\ InputsValid(r.asset, remote)
    BY <1>1 DEF Fundable
  <2>2. r.asset # None
    BY DEF Request, AssetsPresent
  <2>3. \A p : VerifySemanticAncestry(p, ForAsset(r.asset)) => p.asset = r.asset
    <3>1. ForAsset(r.asset)["asset"] = r.asset
      BY DEF ForAsset, DefaultContext
    <3> HIDE DEF ForAsset
    <3>2. ASSUME NEW p, VerifySemanticAncestry(p, ForAsset(r.asset)) PROVE p.asset = r.asset
      <4>1. Expected(ForAsset(r.asset)["asset"], p["asset"])
        BY <3>2 DEF VerifySemanticAncestry
      <4> QED
        BY <2>2, <3>1, <4>1 DEF Expected
    <3> QED
      BY <3>2
  <2> QED
    BY <2>1, <2>3 DEF InputsValid
<1>4. /\ \A i \in DOMAIN local : local[i].genesis = Head(inputs).genesis
      /\ \A i \in DOMAIN remote : remote[i].genesis = Head(inputs).genesis
  <2> DEFINE m == Len(local)
             n == Len(remote)
  <2>1. /\ m \in Nat /\ DOMAIN local = 1 .. m /\ n \in Nat /\ DOMAIN remote = 1 .. n
        /\ DOMAIN inputs = 1 .. m + n
        /\ \A i \in 1 .. m + n : inputs[i] = IF i <= m THEN local[i] ELSE remote[i - m]
    BY <1>2, LenProperties, ConcatProperties DEF Inputs
  <2>2. inputs # <<>> /\ SharedGenesis(inputs)
    BY <1>1 DEF Fundable
  <2>3. Head(inputs) = inputs[1] /\ 1 \in DOMAIN inputs
    BY <1>2, <2>2 DEF Inputs
  <2> HIDE DEF m, n, inputs
  <2>4. \A i \in DOMAIN inputs : inputs[i].genesis = Head(inputs).genesis
    BY <2>2, <2>3 DEF SharedGenesis
  <2>5. \A i \in 1 .. m : i \in DOMAIN inputs /\ inputs[i] = local[i]
    BY <2>1
  <2>6. \A i \in 1 .. n : m + i \in DOMAIN inputs /\ inputs[m + i] = remote[i]
    BY <2>1
  <2> QED
    BY <2>1, <2>4, <2>5, <2>6
<1>5. FundedWith(ch, local, remote)
  <2>1. /\ ch.localProofs = Ids(local) /\ ch.remoteProofs = Ids(remote)
        /\ ch.localBalance = Total(local) /\ ch.remoteBalance = Total(remote)
        /\ ch.total = Total(local) + Total(remote)
        /\ ch.request = r /\ ch.genesis = Head(inputs).genesis
    BY DEF Channel
  <2> HIDE DEF ch
  <2> QED
    BY <1>3, <1>4, <2>1 DEF FundedWith
<1>6. /\ DOMAIN channels' = DOMAIN channels \cup {id}
      /\ \A c \in DOMAIN channels' : channels'[c] = IF c = id THEN ch ELSE channels[c]
  <2> HIDE DEF ch, id
  <2> QED
    BY <1>1 DEF Put
<1>7. IsFiniteSet(DOMAIN channels')
  BY <1>6, FS_AddElement DEF ChannelInv
<1> HIDE DEF ch, id
<1>8. ASSUME NEW c \in DOMAIN channels'
      PROVE  \E l, m \in Seq(made) : FundedWith(channels'[c], l, m)
  BY <1>2, <1>5, <1>6, <1>8 DEF ChannelInv
<1> QED
  BY <1>1, <1>7, <1>8 DEF ChannelInv, FundedWith

LEMMA MadeGrows ==
  ASSUME WalletStep
  PROVE  made \subseteq made'
BY DEF WalletStep, ImportBundle, Issue, SendLocalTransfer, ImportProofFile, InitWallet,
       ImportTapdProofFile, UpdateAnchorState, ExportProofFile, Make

LEMMA ChannelInvariance == AssetsPresent /\ FlowSpec => []ChannelInv
<1> SUFFICES ASSUME AssetsPresent PROVE FlowSpec => []ChannelInv
  OBVIOUS
<1>1. FlowInit => ChannelInv
  <2>1. ASSUME FundingInit PROVE DOMAIN channels = {}
    BY <2>1 DEF FundingInit
  <2> QED
    BY <2>1, FS_EmptySet DEF FlowInit, ChannelInv
<1>2. WInv /\ ChannelInv /\ [FlowNext]_allVars => ChannelInv'
  <2>1. ASSUME ChannelInv, UNCHANGED fundingVars, made \subseteq made' PROVE ChannelInv'
    <3>1. channels' = channels
      BY <2>1 DEF fundingVars
    <3>2. \A s \in Seq(made) : s \in Seq(made')
      <4>1. ASSUME NEW s \in Seq(made) PROVE s \in Seq(made')
        <5>1. Len(s) \in Nat /\ s \in [1 .. Len(s) -> made']
          BY <2>1, LenProperties
        <5> QED
          BY <5>1
      <4> QED
        BY <4>1
    <3>3. ASSUME NEW c \in DOMAIN channels'
          PROVE  \E l, m \in Seq(made') : FundedWith(channels'[c], l, m)
      <4>1. PICK l \in Seq(made), m \in Seq(made) : FundedWith(channels'[c], l, m)
        BY <2>1, <3>1 DEF ChannelInv
      <4> QED
        BY <3>2, <4>1
    <3>4. IsFiniteSet(DOMAIN channels')
      BY <2>1, <3>1 DEF ChannelInv
    <3> QED
      BY <3>3, <3>4 DEF ChannelInv, FundedWith
  <2> QED
    BY <2>1, MadeGrows, FundedKeeps DEF FlowNext, FundingStep, allVars, vars
<1> QED
  BY <1>1, <1>2, WalletInvariance, PTL DEF FlowSpec

(* The proofs fund_channel took back the channel: the ids of both sides    *)
(* are distinct, so no proof is on both.                                   *)
Backing(ch, local, remote) ==
  /\ Names(local, ch.localProofs) /\ Names(remote, ch.remoteProofs)
  /\ local \cap remote = {}
  /\ ch.localBalance = AmountOf(local) /\ ch.remoteBalance = AmountOf(remote)
  /\ ch.total = ch.localBalance + ch.remoteBalance
  /\ ToSet(ProofsOf(ch)) = ToSet(ch.localProofs) \cup ToSet(ch.remoteProofs)
  /\ \A p \in local \cup remote : p.asset = ch.request.asset /\ p.genesis = ch.genesis

LEMMA ChannelBacking ==
  ASSUME MadeInv, ChannelInv, StoreValid(channels, spent), NEW c \in DOMAIN channels
  PROVE  \E local, remote \in SUBSET made : Backing(channels[c], local, remote)
<1> DEFINE ch == channels[c]
           Q == {ProofId(q) : q \in made}
<1>1. PICK l \in Seq(made), m \in Seq(made) : FundedWith(ch, l, m)
  BY DEF ChannelInv
<1>2. IsInjective(ProofsOf(ch))
  BY DEF StoreValid
<1> HIDE DEF ch
<1> DEFINE L == {l[i] : i \in DOMAIN l}
           R == {m[i] : i \in DOMAIN m}
<1>3. IsInjective(Ids(l)) /\ IsInjective(Ids(m))
  BY <1>1 DEF FundedWith
<1>4. /\ L \in SUBSET made /\ Names(L, Ids(l)) /\ AmountOf(L) = Total(l)
      /\ R \in SUBSET made /\ Names(R, Ids(m)) /\ AmountOf(R) = Total(m)
  BY <1>3, WorthOfList
<1>5. ASSUME NEW s \in Seq(made) PROVE Ids(s) \in Seq(Q)
  <2>1. Len(s) \in Nat /\ DOMAIN s = 1 .. Len(s) /\ \A i \in 1 .. Len(s) : s[i] \in made
    BY LenProperties
  <2>2. Ids(s) \in [1 .. Len(s) -> Q]
    BY <2>1 DEF Ids
  <2> QED
    BY <2>1, <2>2
<1>6. ch.localProofs \in Seq(Q) /\ ch.remoteProofs \in Seq(Q)
  BY <1>1, <1>5 DEF FundedWith
<1>7. /\ ToSet(ProofsOf(ch)) = ToSet(ch.localProofs) \cup ToSet(ch.remoteProofs)
      /\ ToSet(ch.localProofs) \cap ToSet(ch.remoteProofs) = {}
  <2> HIDE DEF Q
  <2> QED
    BY <1>2, <1>6, SetOfConcat DEF ProofsOf
<1>8. \A p \in L \cup R : p.asset = ch.request.asset /\ p.genesis = ch.genesis
  BY <1>1 DEF FundedWith
<1> HIDE DEF L, R
<1>9. Names(L, ch.localProofs) /\ Names(R, ch.remoteProofs)
  BY <1>1, <1>4 DEF FundedWith
<1>10. L \cap R = {}
  <2>1. /\ \A p \in L : ProofId(p) \in ToSet(ch.localProofs)
        /\ \A p \in R : ProofId(p) \in ToSet(ch.remoteProofs)
    BY <1>9 DEF Names
  <2> QED
    BY <1>7, <2>1
<1>11. Backing(ch, L, R)
  BY <1>1, <1>4, <1>7, <1>8, <1>9, <1>10 DEF Backing, FundedWith
<1> QED
  BY <1>4, <1>11 DEF ch

(* Each channel holds exactly what the proofs it was funded with are       *)
(* worth, each side what that side put in, all of the channel's asset and  *)
(* genesis and none of them on both sides, whatever else was made or       *)
(* brought in under the same ids.                                          *)
THEOREM ChannelsStayBacked == AssetsPresent /\ FlowSpec => []ChannelsBacked
<1> SUFFICES ASSUME AssetsPresent PROVE FlowSpec => []ChannelsBacked
  OBVIOUS
<1>1. MadeInv /\ ChannelInv /\ StoreValid(channels, spent) => ChannelsBacked
  BY ChannelBacking DEF ChannelsBacked, Backing
<1>2. FlowSpec => [](WInv /\ MadeInv) /\ []ChannelInv /\ []StoreValid(channels, spent)
  BY MadeInvariance, ChannelInvariance, StoreValidity
<1> QED
  BY <1>1, <1>2, PTL

------------------------------------------------------------------------------
(* Conservation across wallets and channels *)

(* The proofs behind a channel's total are among those its ids name.       *)
Behind(ch, B) ==
  /\ B \in SUBSET made
  /\ AmountOf(B) = ch.total
  /\ \A p \in B : ProofId(p) \in ToSet(ProofsOf(ch)) /\ p.asset = ch.request.asset

LEMMA TotalOfChannel ==
  ASSUME MadeInv, ChannelInv, StoreValid(channels, spent), NEW c \in DOMAIN channels
  PROVE  \E B : Behind(channels[c], B)
<1> DEFINE ch == channels[c]
<1>1. PICK L \in SUBSET made, R \in SUBSET made : Backing(ch, L, R)
  BY ChannelBacking
<1> HIDE DEF ch
<1>2. IsFiniteSet(L) /\ IsFiniteSet(R) /\ \A q \in L \cup R : q.amount \in Int
  BY FS_Subset DEF MadeInv
<1>3. AmountOf(L \cup R) = AmountOf(L) + AmountOf(R)
  BY <1>1, <1>2, SumOfUnion DEF Backing
<1>4. AmountOf(L \cup R) = ch.total
  BY <1>1, <1>3 DEF Backing
<1>5. \A p \in L \cup R : ProofId(p) \in ToSet(ProofsOf(ch)) /\ p.asset = ch.request.asset
  BY <1>1 DEF Backing, Names
<1>6. Behind(ch, L \cup R)
  BY <1>4, <1>5 DEF Behind
<1> QED
  BY <1>6 DEF ch

(* What the channels of an asset hold is worth no more than the proofs of  *)
(* that asset that were put into channels: no id is in two channels.       *)
LEMMA TotalOfChannels ==
  ASSUME MadeInv, ChannelInv, StoreValid(channels, spent), NEW a
  PROVE  ChannelTotal(a) <= Worth(Funded, a)
<1> DEFINE D == {d \in DOMAIN channels : channels[d].request.asset = a}
           P == [c \in DOMAIN channels |-> CHOOSE B : Behind(channels[c], B)]
           f == [p \in made |-> p.amount]
           g == [c \in D |-> channels[c].total]
           S == {p \in Funded : p.asset = a}
           T == UNION {P[c] : c \in D}
<1>1. IsFiniteSet(D)
  BY FS_Subset DEF ChannelInv
<1>2. \A c \in D : Behind(channels[c], P[c])
  BY TotalOfChannel
<1>3. ASSUME NEW c \in D
      PROVE  IsFiniteSet(P[c]) /\ P[c] \in SUBSET made /\ g[c] = SumFunctionOnSet(f, P[c])
  <2>1. g[c] = AmountOf(P[c]) /\ P[c] \in SUBSET made
    BY <1>2 DEF Behind
  <2>2. IsFiniteSet(made)
    BY DEF MadeInv
  <2> HIDE DEF P, g
  <2> QED
    BY <2>1, <2>2, SumOver, FS_Subset
<1>4. \A c \in D : \A x \in P[c] : f[x] \in Int
  <2>1. \A x \in made : f[x] \in Int
    BY DEF MadeInv
  <2> HIDE DEF P, f, D
  <2> QED
    BY <1>3, <2>1
<1>5. \A c, d \in D : c # d => P[c] \cap P[d] = {}
  <2> HIDE DEF P
  <2> QED
    BY <1>2 DEF Behind, StoreValid
<1>6. T \subseteq S
  <2> HIDE DEF P
  <2> QED
    BY <1>2 DEF Behind, Funded
<1>7. ChannelTotal(a) = SumFunction(g) /\ DOMAIN g = D
  BY DEF ChannelTotal
<1>8. /\ IsFiniteSet(made) /\ S \in SUBSET made /\ Worth(Funded, a) = AmountOf(S)
      /\ \A p \in S : p.amount \in Nat
  BY DEF Worth, MadeInv, Funded
<1> HIDE DEF D, P, g, S
<1>9. SumFunctionOnSet(g, D) = SumFunctionOnSet(f, UNION {P[c] : c \in D})
  <2> HIDE DEF f
  <2> QED
    BY <1>1, <1>3, <1>4, <1>5, SumOfSums
<1> HIDE DEF T
<1>10. AmountOf(T) = SumFunctionOnSet(f, T)
  BY <1>6, <1>8, SumOver
<1>11. AmountOf(T) <= AmountOf(S)
  BY <1>6, <1>8, FS_Subset, SumOfPart
<1> QED
  BY <1>7, <1>8, <1>9, <1>10, <1>11 DEF SumFunction, T

LEMMA TotalsAreInt ==
  ASSUME MadeInv, ChannelInv, StoreValid(channels, spent), NEW a
  PROVE  ChannelTotal(a) \in Int /\ Transferred(a) \in Int
<1> DEFINE D == {d \in DOMAIN channels : channels[d].request.asset = a}
           g == [c \in D |-> channels[c].total]
           U == {t \in spends : t[1].asset = a}
           f == [t \in U |-> t[1].amount]
<1>1. IsFiniteSet(D) /\ IsFiniteSet(U)
  BY FS_Subset DEF ChannelInv, MadeInv
<1>2. ASSUME NEW c \in D PROVE g[c] \in Int
  <2>1. PICK B : Behind(channels[c], B)
    BY TotalOfChannel
  <2>2. IsFiniteSet(B) /\ \A q \in B : q.amount \in Nat
    BY <2>1, FS_Subset DEF Behind, MadeInv
  <2>3. AmountOf(B) \in Nat /\ g[c] = AmountOf(B)
    BY <2>1, <2>2, SumIsNat DEF Behind
  <2> QED
    BY <2>3
<1>3. \A t \in U : f[t] \in Int
  BY DEF MadeInv
<1>4. ChannelTotal(a) = SumFunction(g) /\ DOMAIN g = D
  BY DEF ChannelTotal
<1>5. Transferred(a) = SumFunction(f) /\ DOMAIN f = U
  BY DEF Transferred
<1> HIDE DEF D, g, U, f
<1> QED
  BY <1>1, <1>2, <1>3, <1>4, <1>5, SumInt DEF SumFunction

(* Value appears to grow by repeated use only: what wallets present as     *)
(* spendable and channels hold of an asset, the proofs used more than once *)
(* included, exceeds what issuances, tapd files and couriers brought in by *)
(* no more than those repeated uses are worth, wherever a command crashes. *)
THEOREM FlowStaysConserved == AssetsPresent /\ FlowSpec => []FlowConserved
<1> SUFFICES ASSUME AssetsPresent PROVE FlowSpec => []FlowConserved
  OBVIOUS
<1>1. ASSUME WInv, MadeInv, ChannelInv, StoreValid(channels, spent), NEW a
      PROVE  Worth(HeldSpendable, a) + ChannelTotal(a) <= Worth(Origins, a) + Reused(a)
  <2> DEFINE H == HeldSpendable
             F == Funded
             P == Spent
             W(S) == Worth(S, a)
  <2>1. H \in SUBSET made /\ F \in SUBSET made /\ P \in SUBSET made /\ Offspring \in SUBSET made
    BY <1>1 DEF WInv, GoodWallet, WalletValid, HeldSpendable, Spendable, Funded, Spent,
                Offspring, MadeInv
  <2>2. IsFiniteSet(made) /\ \A q \in made : q.amount \in Nat
    BY <1>1 DEF MadeInv
  <2>3. ChannelTotal(a) <= W(F) /\ W(Offspring) <= Transferred(a)
    BY <1>1, TotalOfChannels DEF MadeInv
  <2>4. /\ Origins = made \ Offspring
        /\ Reused(a) = W(H \cap (P \cup F)) + W(F \cap P) + (Transferred(a) - W(P))
    BY DEF Origins, Reused
  <2> HIDE DEF H, F, P
  <2>5. ASSUME NEW S \in SUBSET made
        PROVE  /\ W(S) \in Nat
               /\ \A T : W(S) = W(S \cap T) + W(S \ T)
               /\ \A T : W(S \cap T) \in Nat /\ W(S \ T) \in Nat
               /\ \A T \in SUBSET S : W(T) <= W(S)
    <3>1. IsFiniteSet(S) /\ \A q \in S : q.amount \in Nat
      BY <2>2, FS_Subset
    <3>2. \A T : /\ IsFiniteSet(S \cap T) /\ \A q \in S \cap T : q.amount \in Nat
                 /\ IsFiniteSet(S \ T) /\ \A q \in S \ T : q.amount \in Nat
      BY <3>1, FS_Subset
    <3>3. \A T : Worth(S \cap T, a) \in Nat /\ Worth(S \ T, a) \in Nat
      BY <3>2, WorthIsNat
    <3>4. Worth(S, a) \in Nat
      BY <3>1, WorthIsNat
    <3>5. \A T : Worth(S, a) = Worth(S \cap T, a) + Worth(S \ T, a)
      BY <3>1, WorthSplit
    <3>6. \A T \in SUBSET S : Worth(T, a) <= Worth(S, a)
      BY <3>1, WorthOfPart
    <3> QED
      BY <3>3, <3>4, <3>5, <3>6
  <2> DEFINE M == made
             rest == M \ P
             kept == H \ (P \cup F)
             unused == F \ P
  <2>6. W(M) = W(Offspring) + W(Origins)
    <3>1. M \cap Offspring = Offspring
      BY <2>1
    <3>2. W(M) = W(M \cap Offspring) + W(M \ Offspring)
      BY <2>5
    <3> QED
      BY <2>4, <3>1, <3>2
  <2>7. W(M) = W(P) + W(rest)
    <3>1. M \cap P = P
      BY <2>1
    <3>2. W(M) = W(M \cap P) + W(M \ P)
      BY <2>5
    <3> QED
      BY <3>1, <3>2
  <2>8. W(kept) + W(unused) <= W(rest)
    <3>1. rest \cap unused = unused /\ kept \in SUBSET (rest \ unused)
      BY <2>1
    <3>2. rest \in SUBSET made /\ rest \ unused \in SUBSET made
      BY <2>1
    <3>3. W(rest) = W(rest \cap unused) + W(rest \ unused)
      BY <2>5, <3>2
    <3>4. W(kept) <= W(rest \ unused)
      BY <2>5, <3>1, <3>2
    <3>5. kept \in SUBSET made /\ unused \in SUBSET made
      BY <2>1
    <3>6. W(kept) \in Nat /\ W(unused) \in Nat /\ W(rest \ unused) \in Nat /\ W(rest) \in Nat
      BY <2>5, <3>2, <3>5
    <3> HIDE DEF W, rest, kept, unused
    <3> QED
      BY <3>1, <3>3, <3>4, <3>6
  <2>9. W(H) = W(H \cap (P \cup F)) + W(kept) /\ W(F) = W(F \cap P) + W(unused)
    BY <2>1, <2>5
  <2>10. /\ W(M) \in Nat /\ W(Offspring) \in Nat /\ W(Origins) \in Nat /\ W(P) \in Nat
         /\ W(rest) \in Nat /\ W(kept) \in Nat /\ W(unused) \in Nat /\ W(F) \in Nat
         /\ W(H) \in Nat /\ W(H \cap (P \cup F)) \in Nat /\ W(F \cap P) \in Nat
    BY <2>1, <2>4, <2>5
  <2>11. ChannelTotal(a) \in Int /\ Transferred(a) \in Int
    BY <1>1, TotalsAreInt
  <2> HIDE DEF W, rest, kept, unused, M
  <2>12. W(H) + ChannelTotal(a) <= W(Origins) + Reused(a)
    BY <2>3, <2>4, <2>6, <2>7, <2>8, <2>9, <2>10, <2>11
  <2> QED
    BY <2>12 DEF W, H
<1>2. WInv /\ MadeInv /\ ChannelInv /\ StoreValid(channels, spent) => FlowConserved
  BY <1>1 DEF FlowConserved
<1>3. FlowSpec => [](WInv /\ MadeInv) /\ []ChannelInv /\ []StoreValid(channels, spent)
  BY MadeInvariance, ChannelInvariance, StoreValidity
<1> QED
  BY <1>2, <1>3, PTL
==============================================================================
