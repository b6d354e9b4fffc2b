---------------------------- MODULE PeerMessages -----------------------------
(***************************************************************************)
(* The peer messages of src/crates/tap-ldk-core/src/asset_peer_message.rs  *)
(* and their encoding as a TLV stream (src/crates/tap-ldk-core/src/        *)
(* tlv.rs).  A message is a record of its fields, its kind included; a     *)
(* stream is the sequence of its records [type, value].  That a value has  *)
(* the length its type asks for is left out: both ends write it with this  *)
(* code.                                                                   *)
(***************************************************************************)
EXTENDS ProofChunks

(* The fields in the order of their TLV types 1, 3, 5, ..., 37. *)
Fields ==
  <<"kind", "channel", "asset", "amount", "digest", "index", "count", "bytes",
    "last", "fundingBlob", "accept", "reason", "rfq", "msat", "expiry",
    "context", "htlcBlob", "quote", "alias">>

TypeId(i) == 2 * i - 1

ChunkFields == {"digest", "index", "count", "bytes", "last"}

MessageKinds ==
  {"TxAssetInputProof", "TxAssetOutputProof", "AssetFundingCreated",
   "AssetFundingAccepted", "RfqRequest", "RfqAccept", "RfqReject", "AssetHtlcBlob"}

(* The fields of each variant of AssetPeerMessage. *)
RequiredFields(kind) ==
  CASE kind \in {"TxAssetInputProof", "TxAssetOutputProof"} ->
         ChunkFields \cup {"channel", "asset", "amount"}
    [] kind = "AssetFundingCreated"  -> {"channel", "fundingBlob"}
    [] kind = "AssetFundingAccepted" -> {"channel", "accept"}
    [] kind = "RfqRequest"    -> {"rfq", "asset", "amount", "context"}
    [] kind = "RfqAccept"     -> {"rfq", "quote", "msat", "expiry", "alias"}
    [] kind = "RfqReject"     -> {"rfq", "reason"}
    [] kind = "AssetHtlcBlob" -> {"asset", "amount", "rfq", "context", "htlcBlob"}

OptionalFields(kind) == IF kind = "AssetFundingAccepted" THEN {"reason"} ELSE {}

(* encode: the records are sorted by their types before they are written. *)
Encode(m) ==
  LET present == SelectSeq([i \in DOMAIN Fields |-> i], LAMBDA i : Fields[i] \in DOMAIN m)
  IN  [n \in DOMAIN present |-> [type |-> TypeId(present[n]), value |-> m[Fields[present[n]]]]]

(* ensure_sorted_unique *)
SortedUnique(stream) ==
  \A i, j \in DOMAIN stream : i < j => stream[i].type < stream[j].type

(* reject_unknown_required: the known types are odd, so every even one. *)
NoUnknownRequired(stream) == \A i \in DOMAIN stream : stream[i].type % 2 = 1

(* The BTreeMap of a stream's fields. *)
FieldsIn(stream) ==
  {Fields[i] : i \in {j \in DOMAIN Fields : \E n \in DOMAIN stream : stream[n].type = TypeId(j)}}
FieldValue(stream, field) ==
  stream[CHOOSE n \in DOMAIN stream :
           \E i \in DOMAIN Fields : Fields[i] = field /\ stream[n].type = TypeId(i)].value

(* decode returns Ok. *)
Decodable(stream) ==
  /\ SortedUnique(stream) /\ NoUnknownRequired(stream)
  /\ "kind" \in FieldsIn(stream)
  /\ LET kind == FieldValue(stream, "kind")
     IN  kind \in MessageKinds /\ RequiredFields(kind) \subseteq FieldsIn(stream)

(* decode: fields of other kinds are dropped. *)
Decode(stream) ==
  LET kind == FieldValue(stream, "kind")
      fields == {"kind"} \cup RequiredFields(kind)
                  \cup (OptionalFields(kind) \cap FieldsIn(stream))
  IN  [f \in fields |-> FieldValue(stream, f)]

(* chunk_records and parse_chunk *)
ChunkOf(m) == [f \in ChunkFields |-> m[f]]

==============================================================================
