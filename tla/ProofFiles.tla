----------------------------- MODULE ProofFiles -----------------------------
(***************************************************************************)
(* A proof file and its bounded verification                               *)
(* (src/crates/tap-ldk-core/src/proof.rs), the tapd proof file that may    *)
(* accompany it, and the courier bundle that carries both                  *)
(* (src/crates/tap-ldk-core/src/proof_courier.rs).                         *)
(*                                                                         *)
(* A hash is modelled by what is hashed, so that equal digests mean equal  *)
(* content.  An outpoint is any value; Malformed stands for the text that  *)
(* parse_outpoint refuses.                                                 *)
(***************************************************************************)
EXTENDS Integers, Sequences, FiniteSets

CONSTANTS
  None,        \* Option::None
  ZeroId,      \* Bytes32::ZERO as an asset id
  Malformed    \* an outpoint that does not parse

ZeroHash == <<>>

AssetTypes == {"Normal", "Collectible"}
Scopes == {"BoundedAnchorOnly", "SemanticAncestry"}

(* derive_hash_sum_root of a single leaf *)
RootOf(asset, key, amount) ==
  [hash |-> <<asset, key, amount>>, sum |-> amount]

(* ProofFile, as the wallet, the funding flow and the close build it. *)
ProofFile(asset, genesis, anchor, amount, key) ==
  [version |-> 0, asset |-> asset, genesis |-> genesis, anchor |-> anchor,
   amount |-> amount, key |-> key, root |-> RootOf(asset, key, amount),
   scope |-> "SemanticAncestry", network |-> "Regtest", type |-> "Normal"]

(* The TLV record types of the file: every one is required by decode.      *)
FieldTypes == DOMAIN ProofFile(ZeroId, None, None, 0, None)

(* encode: a stream with one record per field and no other. *)
Encode(p) == [fields |-> p, unknown |-> {}]

(* decode: reject_unknown_required refuses an unknown type that is even;   *)
(* an unknown odd type is dropped.                                         *)
Decodes(stream) ==
  /\ \A t \in stream.unknown : t % 2 = 1
  /\ FieldTypes \subseteq DOMAIN stream.fields
  /\ stream.fields.scope \in Scopes
  /\ stream.fields.network = "Regtest"
Decode(stream) == [t \in FieldTypes |-> stream.fields[t]]

(* proof_id, proof_id_for, funding_proof_id *)
ProofId(p) == <<p.asset, p.anchor>>

------------------------------------------------------------------------------
(* ProofValidationContext *)

DefaultContext ==
  [network |-> "Regtest", type |-> "Normal", asset |-> None, amount |-> None,
   key |-> None, genesis |-> None, anchor |-> None, stale |-> None,
   tapd |-> None]

ForAnyAsset(asset) == DefaultContext
ForAsset(asset) == [DefaultContext EXCEPT !.asset = asset]

ForClose(asset, amount, key, genesis, anchor) ==
  [DefaultContext EXCEPT !.asset = asset, !.amount = amount, !.key = key,
                         !.genesis = genesis, !.anchor = anchor]

(* for_tapd_import expects the digest of the very summary it is given, so  *)
(* the digest check of validate_tapd_ancestry cannot fail through it.      *)
ForTapdImport(summary) == [DefaultContext EXCEPT !.tapd = summary]

ContextFor(tapd) == IF tapd = None THEN DefaultContext ELSE ForTapdImport(tapd)

Expected(expectation, actual) == expectation = None \/ expectation = actual

(* validate_tapd_ancestry: each step of the file is complete, and the leaf *)
(* of the last one is the asset, amount, owner and genesis of the proof.   *)
TapdAncestry(p, tapd) ==
  /\ \A i \in DOMAIN tapd.steps :
       /\ tapd.steps[i].version \in {0, 1}
       /\ tapd.steps[i].complete
  /\ tapd.leaf # None
  /\ tapd.leaf = [asset |-> p.asset, type |-> p.type, amount |-> p.amount,
                  key |-> p.key, genesis |-> p.genesis]

(* verify_semantic_ancestry *)
VerifySemanticAncestry(p, context) ==
  /\ p.version = 0
  /\ p.scope = "SemanticAncestry"
  /\ p.network = context.network
  /\ p.type = context.type
  /\ p.asset # ZeroId
  /\ p.amount # 0
  /\ p.root.sum = p.amount
  /\ p.root.hash # ZeroHash
  /\ Malformed \notin {p.genesis, p.anchor}
  /\ p.genesis # p.anchor
  /\ p.root = RootOf(p.asset, p.key, p.amount)
  /\ \A f \in {"asset", "amount", "key", "genesis", "anchor"} :
       Expected(context[f], p[f])
  /\ context.stale = None \/ p.anchor # context.stale
  /\ context.tapd # None => TapdAncestry(p, context.tapd)

------------------------------------------------------------------------------
(* ProofCourierBundle *)

HeaderOf(p) ==
  [id |-> ProofId(p), asset |-> p.asset, amount |-> p.amount, key |-> p.key,
   genesis |-> p.genesis, anchor |-> p.anchor]

(* wallet_proof_history_metadata: the three ids are functions of the proof. *)
WalletHistory(p) == [output |-> ProofId(p), transition |-> Encode(p)]

Bundle(p, tapd, anchorState) ==
  [version |-> 1, transport |-> "file", header |-> HeaderOf(p),
   anchorState |-> anchorState, history |-> WalletHistory(p),
   tlv |-> Encode(p), digest |-> Encode(p), tapd |-> tapd, tapdDigest |-> tapd]

(* ProofCourierBundle::validate *)
BundleWithoutDigests(b) ==
  /\ b.version = 1 /\ b.transport = "file"
  /\ Decodes(b.tlv)
  /\ b.header = HeaderOf(Decode(b.tlv))
  /\ VerifySemanticAncestry(Decode(b.tlv), ContextFor(b.tapd))
BundleValid(b) ==
  /\ b.version = 1 /\ b.transport = "file"
  /\ b.digest = b.tlv
  /\ Decodes(b.tlv)
  /\ b.header = HeaderOf(Decode(b.tlv))
  /\ b.tapdDigest = b.tapd
  /\ VerifySemanticAncestry(Decode(b.tlv), ContextFor(b.tapd))

==============================================================================
