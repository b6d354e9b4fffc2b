---------------------------- MODULE AssetRecovery ----------------------------
(***************************************************************************)
(* Recovery of src/crates/tap-ldk-core/src/asset_recovery.rs: checkpoints  *)
(* of a channel taken at six stages and checked against the stores a       *)
(* restarted process loads, and recovery of the ownership of the channel's *)
(* asset proof after a unilateral close.                                   *)
(***************************************************************************)
EXTENDS AssetClose

CONSTANT TakenStages  \* the stages at which checkpoints are taken

Stages == {"Funding", "QuoteAccepted", "HtlcAdded", "CommitmentSigned",
           "Settled", "ClosePrepared"}

ASSUME RecoveryAssumption == TakenStages \subseteq Stages

VARIABLE checkpoints  \* checkpoints written by this and earlier processes

------------------------------------------------------------------------------
(* Checkpoints *)

(* NativeAssetClosePreparation: its digest is that of the other fields. *)
Preparation(c, st) ==
  [channel |-> c, number |-> st.number, local |-> st.local,
   remote |-> st.remote, total |-> st.total, prepared |-> TRUE]

PreparationValid(p) == p.prepared /\ p.local + p.remote = p.total

(* The records a checkpoint of a stage refers to, by the store that holds  *)
(* them, as recover_after_quote_acceptance, recover_after_htlc_add,        *)
(* recover_after_commitment_sign and recover_after_settlement set them.    *)
RefersTo(stage) ==
  CASE stage = "QuoteAccepted" -> {"rfq"}
    [] stage \in {"HtlcAdded", "CommitmentSigned"} -> {"rfq", "htlc"}
    [] stage = "Settled" -> {"rfq", "htlc", "payment"}
    [] OTHER -> {}

(* NativeAssetRecoveryCheckpoint::new *)
SwappedCheckpoint(stage, c, st) ==
  [stage |-> stage, channel |-> c, number |-> st.number, local |-> st.remote,
   remote |-> st.local, total |-> st.total, refers |-> RefersTo(stage),
   preparation |-> IF stage = "ClosePrepared" THEN Preparation(c, st) ELSE None]
Checkpoint(stage, c, st) ==
  [stage |-> stage, channel |-> c, number |-> st.number, local |-> st.local,
   remote |-> st.remote, total |-> st.total, refers |-> RefersTo(stage),
   preparation |-> IF stage = "ClosePrepared" THEN Preparation(c, st) ELSE None]

CheckpointValid(cp) ==
  /\ cp.local + cp.remote = cp.total
  /\ cp.stage = "ClosePrepared" =>
       cp.preparation # None /\ PreparationValid(cp.preparation)

OtherStores == {"rfq", "htlc", "payment"}

(* The other stores a restarted process gives to the recovery: one that is *)
(* not given, one loaded from a file that lacks the record the checkpoint  *)
(* refers to, or one that holds it.                                        *)
Holdings == [OtherStores -> {"absent", "lacks", "holds"}]

Missing == [rfq |-> "MissingRfqStore", htlc |-> "MissingHtlcStore",
            payment |-> "MissingPaymentStore"]
Unknown == [rfq |-> "UnknownQuote", htlc |-> "UnknownHtlc",
            payment |-> "UnknownPayment"]

(* The check of one of the records: what follows it, or its refusal.       *)
AfterRecord(store, cp, others, next) ==
  IF store \notin cp.refers \/ others[store] = "holds" THEN next
  ELSE IF others[store] = "absent" THEN Missing[store] ELSE Unknown[store]

(* recover_native_asset_checkpoint against the commitment store s and the  *)
(* other stores: the first check that fails decides.                       *)
RecoveryOutcome(cp, s, others) ==
  IF ~CheckpointValid(cp) THEN "Invalid"
  ELSE IF cp.channel \notin DOMAIN s THEN "UnknownChannel"
  ELSE IF s[cp.channel].number # cp.number THEN "StaleCheckpoint"
  ELSE IF \/ s[cp.channel].local # cp.local
          \/ s[cp.channel].remote # cp.remote
          \/ s[cp.channel].total # cp.total THEN "RecoveredStateMismatch"
  ELSE AfterRecord("rfq", cp, others,
         AfterRecord("htlc", cp, others,
           AfterRecord("payment", cp, others, "Recovered")))

------------------------------------------------------------------------------
(* Ownership of the asset proof after a unilateral close *)

SpendKinds == {"Commitment", "SecondLevelHtlc", "FinalSweep"}

(* recovery_anchor_outpoint, recovery_script_key *)
RecoveryAnchor(c, st, kind) == <<"recovery", kind, c, st.number>>

(* TaprootAssetProofOwnershipState and the expectation it is held against. *)
(* The digests of the handoff and of the sweep output follow from the rest.*)
Ownership(c, number, kind, btc, asset, st) ==
  [channel |-> c, number |-> number, kind |-> kind, btc |-> btc,
   asset |-> asset, sum |-> st.total]
Expectation(c, st, kind) ==
  [channel |-> c, number |-> st.number, kind |-> kind, sum |-> st.total]

(* A state is Some. *)
ASSUME OwnershipAssumption ==
  \A c \in Channels, n, t \in Amount, kind \in SpendKinds :
    Ownership(c, n, kind, TRUE, TRUE, [total |-> t]) # None

(* External (the rust-lightning fork): a state that recovers the bitcoin   *)
(* and not the asset proof cannot be built.                                *)
OwnershipBuilt(o) == ~(o.btc /\ ~o.asset)

(* External: validate_asset_proof_ownership_recovery. *)
OwnershipAccepted(o, e) ==
  /\ o # None
  /\ o.channel = e.channel /\ o.number = e.number
  /\ o.kind = e.kind /\ o.sum = e.sum
  /\ o.asset

(* recovery_proof_history_metadata, recovery_terminal_transition_kind *)
UnilateralOutput(c, kind) == <<"unilateral output", c, kind>>
RecoveredOutput(c, kind) ==
  IF kind = "Commitment" THEN UnilateralOutput(c, kind)
  ELSE <<"recovered output", c, kind>>
TerminalKind(kind) ==
  CASE kind = "Commitment" -> "UnilateralClose"
    [] kind = "SecondLevelHtlc" -> "SecondLevelHtlc"
    [] kind = "FinalSweep" -> "Sweep"
TerminalState(kind) == IF kind = "FinalSweep" THEN "Swept" ELSE "Closed"

(* recovery_proof_history_records *)
RecoveryRecords(c, st, kind) ==
  PriorRecords(<<"recovery", c, kind>>, c, st.total, st.latest)
    \o << HistoryRecord(<<"unilateral close", c, kind>>, "UnilateralClose",
            <<ChannelOutput(st.latest)>>,
            <<HistoryOutput(UnilateralOutput(c, kind), st.total,
                            RecoveryAnchor(c, st, kind), "Closed")>>) >>
    \o IF kind = "Commitment" THEN <<>>
       ELSE << HistoryRecord(<<"recovery", c, kind>>, TerminalKind(kind),
                 <<UnilateralOutput(c, kind)>>,
                 <<HistoryOutput(RecoveredOutput(c, kind), st.total,
                                 RecoveryAnchor(c, st, kind), TerminalState(kind))>>) >>

(* validate_recovery_proof_history *)
RecoveryHistoryValid(c, st, kind) ==
  LET h == Replay(RecoveryRecords(c, st, kind))
      o == RecoveredOutput(c, kind)
  IN  /\ h.ok /\ o \in h.explained
      /\ h.outputs[o].kind = TerminalKind(kind)
      /\ h.outputs[o].state = TerminalState(kind)
      /\ h.outputs[o].amount = st.total
      /\ h.outputs[o].anchor = RecoveryAnchor(c, st, kind)

(* recover_asset_proof_ownership *)
OwnershipRecovered(c, st, kind) ==
  LET o == Ownership(c, st.number, kind, TRUE, TRUE, st)
  IN  /\ OwnershipBuilt(o)
      /\ OwnershipAccepted(o, Expectation(c, st, kind))
      /\ RecoveryHistoryValid(c, st, kind)

(* missing_proof_ownership_refused, stale_proof_ownership_refused (with a  *)
(* saturating subtraction: at number 0 the state is not stale) and         *)
(* btc_only_sweep_refused_as_asset_recovery                                *)
MissingRefused(c, st, kind) ==
  ~OwnershipAccepted(None, Expectation(c, st, kind))
StaleRefused(c, st, kind) ==
  LET stale == IF st.number = 0 THEN 0 ELSE st.number - 1
  IN  ~OwnershipAccepted(Ownership(c, stale, kind, TRUE, TRUE, st),
                         Expectation(c, st, kind))
BtcOnlyRefused(c, st, kind) ==
  ~OwnershipBuilt(Ownership(c, st.number, kind, TRUE, FALSE, st))

------------------------------------------------------------------------------
(* Actions *)

RecoveryInit == checkpoints = {}

(* A checkpoint of the state in memory; safe notes whether the file holds  *)
(* that state.                                                             *)
TakeCheckpoint(stage, c) ==
  /\ ~saving /\ c \in DOMAIN mem
  /\ CheckpointValid(Checkpoint(stage, c, mem[c]))
  /\ checkpoints' = checkpoints \cup
       {[checkpoint |-> Checkpoint(stage, c, mem[c]),
         safe |-> c \in DOMAIN disk /\ disk[c] = mem[c]]}
  /\ UNCHANGED <<vars, closeVars>>

RecoveryStep ==
  \E stage \in TakenStages, c \in Channels : TakeCheckpoint(stage, c)

------------------------------------------------------------------------------
(* Properties *)

(* A checkpoint of a state that had reached the file never misleads,       *)
(* across any crash: once the channel has moved on it is refused as stale, *)
(* whatever the other stores hold, and until then the commitment store     *)
(* never refuses it, so that it recovers with exactly the other stores     *)
(* that hold its records.  (Those files are saved apart: one that is older *)
(* than the checkpoint makes the recovery an error that names the record.) *)
SafeCheckpointRecovers ==
  \A e \in checkpoints, others \in Holdings :
    LET cp == e.checkpoint
        outcome == RecoveryOutcome(cp, mem, others)
    IN  e.safe =>
          IF mem[cp.channel].number # cp.number THEN outcome = "StaleCheckpoint"
          ELSE IF \A store \in cp.refers : others[store] = "holds"
            THEN outcome = "Recovered"
          ELSE \E store \in cp.refers : outcome \in {Missing[store], Unknown[store]}

==============================================================================
