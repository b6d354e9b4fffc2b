------------------------ MODULE LightningLabsFunding -------------------------
(***************************************************************************)
(* The channel a Lightning Labs counterparty has funded, read from its     *)
(* funding and commitment blobs (src/crates/tap-ldk-core/src/              *)
(* lightning_labs_blob.rs and lightning_labs_funding.rs).  A blob is a     *)
(* function on the TLV types it carries, named by their field; a list is   *)
(* the sequence of its items.  The digest of bytes is what they encode.    *)
(***************************************************************************)
EXTENDS LightningLabsRfq, Sequences, Functions

CONSTANTS
  MaxOutputs,   \* MAX_OUTPUTS (2048 in the code)
  MaxHtlcs      \* MAX_HTLCS (483 in the code)

ASSUME BlobAssumption == MaxOutputs \in Nat /\ MaxHtlcs \in Nat

------------------------------------------------------------------------------
(* Blobs *)

(* decode_stream, required_record and reject_unsupported *)
Carries(record, required, optional) ==
  required \subseteq DOMAIN record /\ DOMAIN record \subseteq required \cup optional

(* parse_asset_output *)
OutputDecodes(o) == Carries(o, {"asset", "amount", "proof"}, {})

TotalAmount(outputs) == SumFunction([i \in DOMAIN outputs |-> outputs[i].amount])

(* parse_asset_output_list *)
OutputListDecodes(outputs) ==
  /\ Len(outputs) <= MaxOutputs
  /\ \A i \in DOMAIN outputs : OutputDecodes(outputs[i])
  /\ TotalAmount(outputs) <= U64Max

(* parse_htlc_asset_output, of htlc indexes and output lists *)
HtlcsDecode(htlcs) ==
  /\ Len(htlcs) <= MaxHtlcs
  /\ \A i \in DOMAIN htlcs : OutputListDecodes(htlcs[i].outputs)
  /\ SumFunction([i \in DOMAIN htlcs |-> TotalAmount(htlcs[i].outputs)]) <= U64Max

(* parse_tap_leaf: the length is given twice. *)
TapLeafDecodes(leaf) == leaf.declaredLen = leaf.scriptLen

(* parse_aux_leaves; of the HTLCs' leaves only the number is read. *)
AuxLeavesDecode(leaves) ==
  /\ Carries(leaves, {}, {"local", "remote", "outgoing", "incoming"})
  /\ \A f \in DOMAIN leaves \cap {"local", "remote"} : TapLeafDecodes(leaves[f])
  /\ \A f \in DOMAIN leaves \cap {"outgoing", "incoming"} : Len(leaves[f]) <= MaxHtlcs

(* decode_funding_blob *)
FundingDecodes(b) ==
  /\ Carries(b, {"funded", "decimals"}, {"group"})
  /\ OutputListDecodes(b.funded)

(* decode_commitment_blob *)
CommitmentDecodes(b) ==
  /\ Carries(b, {"local", "remote", "outgoing", "incoming", "leaves"}, {"stxo"})
  /\ OutputListDecodes(b.local) /\ OutputListDecodes(b.remote)
  /\ HtlcsDecode(b.outgoing) /\ HtlcsDecode(b.incoming)
  /\ AuxLeavesDecode(b.leaves)

------------------------------------------------------------------------------
(* The funding state *)

(* single_output: it looks at the first of the outputs, whatever follows. *)
FirstOutputGood(outputs) ==
  outputs # <<>> /\ outputs[1].amount # 0 /\ outputs[1].proof # <<>>

(* build_state_from_fixture returns Ok.  Assets in HTLCs are in no balance, *)
(* so a commitment with one is refused.                                     *)
FundingStateBuilt(f, c) ==
  /\ FirstOutputGood(f.funded) /\ FirstOutputGood(c.local) /\ FirstOutputGood(c.remote)
  /\ c.local[1].asset = f.funded[1].asset
  /\ c.remote[1].asset = f.funded[1].asset
  /\ TotalAmount(c.local) + TotalAmount(c.remote) = TotalAmount(f.funded)

(* derive_interop_id *)
InteropId(asset, total, local, remote, f, c) == <<asset, total, local, remote, f, c>>

(* build_state_from_fixture *)
FundingState(f, c) ==
  LET asset == f.funded[1].asset
      total == TotalAmount(f.funded)
      local == TotalAmount(c.local)
      remote == TotalAmount(c.remote)
  IN  [id |-> InteropId(asset, total, local, remote, f, c), asset |-> asset,
       total |-> total, local |-> local, remote |-> remote, funding |-> f, commitment |-> c]

(* LightningLabsFundingInteropState::validate and its binding id *)
FundingStateValid(s) ==
  /\ s.asset # Btc
  /\ s.total # 0
  /\ s.local + s.remote <= U64Max /\ s.local + s.remote = s.total
  /\ s.id = InteropId(s.asset, s.total, s.local, s.remote, s.funding, s.commitment)

(* run_lightning_labs_funding_interop_fixture_smoke returns Ok, with the   *)
(* state in a new store.                                                   *)
FundingAccepted(f, c) ==
  /\ FundingDecodes(f) /\ CommitmentDecodes(c)
  /\ FundingStateBuilt(f, c)
  /\ FundingStateValid(FundingState(f, c))

(* report_from_state *)
FundingReport(f, c) ==
  LET s == FundingState(f, c)
  IN  [channel |-> s.id, asset |-> s.asset, local |-> s.local, remote |-> s.remote]

==============================================================================
