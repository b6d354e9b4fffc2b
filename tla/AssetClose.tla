----------------------------- MODULE AssetClose -----------------------------
(***************************************************************************)
(* Cooperative closes of src/crates/tap-ldk-core/src/asset_close.rs over   *)
(* the commitment store: a close is built from the state of a channel,     *)
(* recorded in the close store and handed, as one proof file per side, to  *)
(* the wallets.  Nothing ties the moment a close is recorded to the moment *)
(* it was built, and nothing in the commitment store says that a channel   *)
(* has been closed.                                                        *)
(*                                                                         *)
(* The close store lives in memory only: it ends with the process.  What a *)
(* wallet has imported stays.                                              *)
(***************************************************************************)
EXTENDS AssetCommitment, ProofFiles, FiniteSetsExt

CONSTANTS
  Asset,       \* the asset of the channels
  CloseKeys,   \* the pairs of local and remote script keys of a close
  Moves        \* the pairs of amounts an update moves, to remote and back

ASSUME CloseAssumption == Asset # ZeroId /\ Moves \subseteq Deltas \X Deltas

VARIABLES
  drafts,   \* closes built by cooperative_close
  closes,   \* NativeAssetCloseStore: close id -> close
  claimed   \* side -> the close proofs its wallet has imported

closeVars == <<drafts, closes, claimed>>

Sides == {"local", "remote"}

------------------------------------------------------------------------------
(* Replay of a fixed list of records, all anchors confirmed *)

Engine(seen, outputs, explained) ==
  INSTANCE ProofHistory WITH
    Records <- {}, Anchors <- {}, states <- EmptyMap, failed <- FALSE,
    policy <- [anchors |-> EmptyMap, acceptPending |-> FALSE],
    seen <- seen, outputs <- outputs, explained <- explained

Refused == [ok |-> FALSE, seen |-> {}, outputs |-> EmptyMap, explained |-> {}]
Started == [Refused EXCEPT !.ok = TRUE]

(* One turn of the loop of replay_with_anchor_policy. *)
Accepts(h, r) ==
  /\ Engine(h.seen, h.outputs, h.explained)!Identified(r)
  /\ Engine(h.seen, h.outputs, h.explained)!InputsAllowed(r)
  /\ Engine(h.seen, h.outputs, h.explained)!OutputsAllowed(r)
  /\ Engine(h.seen, h.outputs, h.explained)!Balanced(r)
  /\ Engine(h.seen, h.outputs, h.explained)!OneAsset(r)
  /\ Engine(h.seen, h.outputs, h.explained)!OutputsNew(r)

Turn(h, r) ==
  IF ~h.ok \/ ~Accepts(h, r) THEN Refused
  ELSE [ok |-> TRUE, seen |-> h.seen \cup {r.id},
        outputs |-> Engine(h.seen, h.outputs, h.explained)!OutputsAfter(r),
        explained |-> Engine(h.seen, h.outputs, h.explained)!ExplainedAfter(r)]

(* ProofHistoryEngine::replay: any refusal refuses the whole history.  (h  *)
(* is bound to a value so that TLC evaluates each turn once.)              *)
Replay(records) ==
  LET after[n \in 0..Len(records)] ==
        IF n = 0 THEN Started
        ELSE CHOOSE next \in {Turn(h, records[n]) : h \in {after[n - 1]}} : TRUE
  IN  after[Len(records)]

HistoryRecord(id, kind, inputs, outputs) ==
  [id |-> id, kind |-> kind, inputs |-> inputs, outputs |-> outputs,
   wellFormed |-> TRUE]
HistoryOutput(id, amount, anchor, state) ==
  [id |-> id, asset |-> Asset, amount |-> amount, anchor |-> anchor,
   state |-> state]

(* The channel output before a close or a recovery: an issuance of the     *)
(* whole channel, locked into it.                                          *)
ChannelOutput(prior) == <<"channel output", prior>>
PriorRecords(name, c, total, prior) ==
  << HistoryRecord(<<"prior input", name>>, "Issuance", <<>>,
       <<HistoryOutput(<<"prior input", name>>, total, c, "Accepted")>>),
     HistoryRecord(<<"prior channel", name>>, "ChannelFunding",
       <<<<"prior input", name>>>>,
       <<HistoryOutput(ChannelOutput(prior), total, c, "ChannelLocked")>>) >>

------------------------------------------------------------------------------
(* A close *)

CloseGenesis == <<"close genesis", Asset>>

(* close_anchor_outpoint *)
AnchorWithoutNumber(c, side, number, amount, key) ==
  <<"close", c, side, amount, key>>
AnchorWithoutAmount(c, side, number, amount, key) ==
  <<"close", c, side, number, key>>
CloseAnchor(c, side, number, amount, key) ==
  <<"close", c, side, number, amount, key>>

(* The outpoints of a close are Some, and they are formatted as            *)
(* parse_outpoint reads them.                                              *)
ASSUME AnchorAssumption ==
  /\ CloseGenesis # Malformed
  /\ \A c \in Channels, side \in Sides, n, a \in Amount, keys \in CloseKeys :
       CloseAnchor(c, side, n, a, keys[side]) \notin {None, Malformed}

(* build_close_proof; the amount is not zero *)
CloseProof(c, side, number, amount, key) ==
  ProofFile(Asset, CloseGenesis, CloseAnchor(c, side, number, amount, key),
            amount, key)

(* close_id: the keys are not part of it. *)
CloseId(cl) == <<cl.channel, cl.number, cl.amount, cl.prior>>

(* close_proof_history_metadata_from_parts *)
ClosedOutput(id, side) == <<"closed", id, side>>
ExportOutputUnsided(id, side, p) == <<"exported", id>>
ExportOutput(id, side, p) == <<"exported", id, side, p>>

SwappedCloseOf(c, st, keys) ==
  LET parts == [channel |-> c, number |-> st.number, total |-> st.total,
                amount |-> [local |-> st.remote, remote |-> st.local],
                prior |-> st.latest, key |-> keys]
  IN  [id |-> CloseId(parts), parts |-> parts,
       proof |-> [s \in Sides |->
                    CloseProof(c, s, st.number, parts.amount[s], keys[s])],
       status |-> "CooperativeClosed", force |-> "Deferred",
       sweep |-> "NotAttempted"]
(* close_from_state: every digest of the record is a function of the rest. *)
CloseOf(c, st, keys) ==
  LET parts == [channel |-> c, number |-> st.number, total |-> st.total,
                amount |-> [local |-> st.local, remote |-> st.remote],
                prior |-> st.latest, key |-> keys]
  IN  [id |-> CloseId(parts), parts |-> parts,
       proof |-> [s \in Sides |->
                    CloseProof(c, s, st.number, parts.amount[s], keys[s])],
       status |-> "CooperativeClosed", force |-> "Deferred",
       sweep |-> "NotAttempted"]

(* validate_close_proof, on a record or on a proof a wallet exports *)
CloseProofValid(cl, side, p) ==
  LET x == cl.parts
  IN  VerifySemanticAncestry(p,
        ForClose(Asset, x.amount[side], x.key[side], CloseGenesis,
                 CloseAnchor(x.channel, side, x.number, x.amount[side], x.key[side])))

(* close_proof_history_records *)
CloseRecords(cl) ==
  LET x == cl.parts
      closed(s) == HistoryOutput(ClosedOutput(cl.id, s), cl.proof[s].amount,
                                 cl.proof[s].anchor, "Closed")
      exported(s) ==
        HistoryRecord(<<"export", cl.id, s>>, "ProofExport",
          <<ClosedOutput(cl.id, s)>>,
          <<HistoryOutput(ExportOutput(cl.id, s, cl.proof[s]), cl.proof[s].amount,
                          cl.proof[s].anchor, "Accepted")>>)
  IN  PriorRecords(<<"close", cl.id>>, x.channel, x.total, x.prior)
        \o << HistoryRecord(<<"close", cl.id>>, "CooperativeClose",
                            <<ChannelOutput(x.prior)>>,
                            <<closed("local"), closed("remote")>>),
              exported("local"), exported("remote") >>

(* validate_close_proof_history, validate_exported_close_explanation: the  *)
(* export of each side explains its proof and comes from its closed output *)
(* alone.                                                                  *)
CloseHistoryValid(cl) ==
  LET h == Replay(CloseRecords(cl))
  IN  h.ok /\ \A s \in Sides :
        LET o == ExportOutput(cl.id, s, cl.proof[s])
        IN  /\ o \in h.explained
            /\ h.outputs[o].kind = "ProofExport"
            /\ h.outputs[o].amount = cl.proof[s].amount
            /\ h.outputs[o].anchor = cl.proof[s].anchor
            /\ h.outputs[o].prior = {ClosedOutput(cl.id, s)}

(* validate_ldk_close_allocation: the fork asks for two payouts that add   *)
(* up to the channel, at the commitment number the caller calls latest.    *)
AllocationValid(cl, latestSafe) ==
  /\ cl.parts.number = latestSafe
  /\ cl.parts.amount.local + cl.parts.amount.remote = cl.parts.total

(* NativeAssetClose::validate.  The number the allocation is checked       *)
(* against is the record's own.                                            *)
CloseValid(cl) ==
  /\ cl.parts.amount.local + cl.parts.amount.remote = cl.parts.total
  /\ cl.status = "CooperativeClosed"
  /\ cl.force # "Deferred" => cl.sweep # "Failed"
  /\ \A s \in Sides : CloseProofValid(cl, s, cl.proof[s])
  /\ CloseHistoryValid(cl)
  /\ AllocationValid(cl, cl.parts.number)
  /\ cl.id = CloseId(cl.parts)

(* NativeAssetCloseStore::validate *)
CloseStoreValid(store) ==
  \A i \in DOMAIN store : i = store[i].id /\ CloseValid(store[i])

------------------------------------------------------------------------------
(* Actions *)

CloseInit ==
  /\ drafts = {}
  /\ closes = EmptyMap
  /\ claimed = [s \in Sides |-> {}]

(* cooperative_close: an empty side refuses it. *)
CooperativeClose(c, keys) ==
  /\ ~saving
  /\ c \in DOMAIN mem
  /\ mem[c].local # 0 /\ mem[c].remote # 0
  /\ LET cl == CloseOf(c, mem[c], keys)
     IN  /\ AllocationValid(cl, mem[c].number)
         /\ CloseValid(cl)
         /\ drafts' = drafts \cup {cl}
  /\ UNCHANGED <<vars, closes, claimed>>

(* record_close *)
RecordClose(cl) ==
  /\ cl.id \notin DOMAIN closes
  /\ LET next == Put(closes, cl.id, cl)
     IN  CloseStoreValid(next) /\ closes' = next
  /\ UNCHANGED <<vars, drafts, claimed>>

(* A wallet accepts a close proof: it verifies, and no other proof is held *)
(* under its id (import_verified_proof_with_tapd).                         *)
Claimable(side, p) ==
  /\ VerifySemanticAncestry(p, DefaultContext)
  /\ \A q \in claimed[side] : ProofId(q) = ProofId(p) => q = p

(* The owners import their proofs, and what each wallet exports is checked *)
(* against the record again.                                               *)
ClaimClose(id) ==
  LET p == closes[id].proof
  IN  /\ \A side \in Sides :
           /\ Claimable(side, p[side])
           /\ CloseProofValid(closes[id], side, Decode(Encode(p[side])))
      /\ claimed' = [side \in Sides |-> claimed[side] \cup {p[side]}]
      /\ UNCHANGED <<vars, drafts, closes>>

(* The process ends: the closes go with it. *)
RestartAfterClose ==
  /\ Restart
  /\ drafts' = {} /\ closes' = EmptyMap
  /\ UNCHANGED claimed

(* The steps that add a close or a claim, and the others. *)
NewCloseStep ==
  \/ \E c \in Channels, keys \in CloseKeys : CooperativeClose(c, keys)
  \/ \E id \in DOMAIN closes : ClaimClose(id)

CloseStep == (\E cl \in drafts : RecordClose(cl)) \/ RestartAfterClose

(* The steps of the commitment store, all but its restart. *)
StoreStep ==
  /\ \/ \E c \in Channels : InitializeChannel(c)
     \/ \E c \in Channels, m \in Moves, k \in Nonces :
          BuildUpdate(c, m[1], m[2], k)
     \/ \E r \in requests : ApplyUpdate(r)
     \/ SaveWriteTemp
     \/ SaveRename
  /\ UNCHANGED closeVars

------------------------------------------------------------------------------
(* Properties *)

(* Every channel with two non-empty sides can be closed in every state the *)
(* store can reach: the close built from it passes the ancestry check of   *)
(* both proofs, the replay of its five records and the fork's allocation   *)
(* check.                                                                  *)
CloseNeverStuck ==
  \A c \in DOMAIN mem, keys \in CloseKeys :
    (mem[c].local # 0 /\ mem[c].remote # 0) => CloseValid(CloseOf(c, mem[c], keys))

CommittedAt(st, n) ==
  IF n = st.number THEN [local |-> st.local, remote |-> st.remote]
  ELSE [local |-> st.commitments[n].local, remote |-> st.commitments[n].remote]

(* A recorded close pays out the balances the store committed to at its    *)
(* own number, which need not be the latest one any more when the close is *)
(* recorded; number 0 is the funding.                                      *)
ClosePaysCommitted ==
  \A id \in DOMAIN closes :
    LET x == closes[id].parts
        st == mem[x.channel]
    IN  /\ x.channel \in DOMAIN mem /\ x.number <= st.number
        /\ x.amount = IF x.number = 0
             THEN [local |-> LocalFunding[x.channel], remote |-> RemoteFunding[x.channel]]
             ELSE CommittedAt(st, x.number)

(* What the documentation asks of a close: what it pays out when it is     *)
(* recorded is what the latest commitment of its channel holds.            *)
ClosePaysLatest ==
  [][\A id \in DOMAIN closes' \ DOMAIN closes :
       LET x == closes'[id].parts
       IN  x.amount = [local |-> mem[x.channel].local,
                       remote |-> mem[x.channel].remote]]_<<vars, closeVars>>

(* Whatever a wallet holds from earlier closes, closes of commitments lost *)
(* in a crash included, it can import its proof of every recorded close:   *)
(* no two different close proofs have one proof id.                        *)
CloseClaimable ==
  \A id \in DOMAIN closes, side \in Sides :
    Claimable(side, closes[id].proof[side])

(* A close proof of another commitment of the channel, older or newer, is  *)
(* refused for a recorded close, also when it carries the same balance to  *)
(* the same key.                                                           *)
ObsoleteProofRefused ==
  \A id \in DOMAIN closes, d \in drafts, side \in Sides :
    /\ d.parts.channel = closes[id].parts.channel
    /\ d.parts.number # closes[id].parts.number
    => ~CloseProofValid(closes[id], side, d.proof[side])

==============================================================================
