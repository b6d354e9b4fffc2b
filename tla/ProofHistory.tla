---------------------------- MODULE ProofHistory ----------------------------
(***************************************************************************)
(* ProofHistoryEngine::replay_with_anchor_policy of                        *)
(* src/crates/tap-ldk-core/src/proof.rs: one call replays a list of        *)
(* transition records in order, keeps every output it has made, the state  *)
(* of every output and the outputs that still explain a balance, and stops *)
(* with an error at the first record it cannot accept.                     *)
(*                                                                         *)
(* The caller chooses the records and their order.  Records stands for all *)
(* of them; a record's field wellFormed abstracts the checks on single     *)
(* fields (empty ids, zero transition id, anchor syntax, root of the       *)
(* output), which depend on nothing but the record.                        *)
(***************************************************************************)
EXTENDS Integers, FiniteSets, Functions

CONSTANTS
  Records,    \* the records a history may contain
  Anchors,    \* anchor outpoints
  U64Max      \* the largest AssetAmount

AnchorStates == {"Unknown", "Pending", "Confirmed", "Stale", "Reorged"}

Kinds == {"Issuance", "Split", "Transfer", "ChannelFunding",
          "CommitmentUpdate", "CooperativeClose", "UnilateralClose",
          "SecondLevelHtlc", "Sweep", "ProofExport"}

(* The states a record can give an output; all four explain a balance      *)
(* (can_explain_balance), so every output made enters explanations.        *)
ResultingStates == {"Accepted", "ChannelLocked", "Closed", "Swept"}

ASSUME RecordAssumption ==
  /\ U64Max \in Nat
  /\ \A r \in Records :
       /\ r.kind \in Kinds
       /\ IsFiniteSet(DOMAIN r.outputs)
       /\ \A i \in DOMAIN r.outputs :
            /\ r.outputs[i].anchor \in Anchors
            /\ r.outputs[i].amount \in 0 .. U64Max

VARIABLES
  policy,     \* the call's ProofAnchorPolicy
  seen,       \* seen_records
  outputs,    \* output id -> what made it, with the inputs it came from
  states,     \* output id -> its state, "Spent" once consumed
  explained,  \* keys of explanations (its values are those of outputs)
  failed      \* the call has returned an error, and with it nothing else

vars == <<policy, seen, outputs, states, explained, failed>>

------------------------------------------------------------------------------
(* What a kind may consume and produce *)

ExportedStates == ResultingStates

(* allows_input_state *)
InputStates ==
  [k \in Kinds |->
     CASE k = "Issuance" -> {}
       [] k \in {"Split", "Transfer", "ChannelFunding"} -> {"Accepted"}
       [] k \in {"CommitmentUpdate", "CooperativeClose", "UnilateralClose"} ->
            {"ChannelLocked"}
       [] k \in {"SecondLevelHtlc", "Sweep"} -> {"Closed"}
       [] k = "ProofExport" -> ExportedStates]

(* allows_output_state *)
OutputState ==
  [k \in Kinds |->
     CASE k \in {"Issuance", "Split", "Transfer", "ProofExport"} -> "Accepted"
       [] k \in {"ChannelFunding", "CommitmentUpdate"} -> "ChannelLocked"
       [] k \in {"CooperativeClose", "UnilateralClose", "SecondLevelHtlc"} ->
            "Closed"
       [] k = "Sweep" -> "Swept"]

(* consumes_inputs: every kind but issuance, export included. *)
ConsumesButExport(kind) == kind \notin {"Issuance", "ProofExport"}
Consumes(kind) == kind # "Issuance"

(* accepts_anchor_state *)
AcceptsUnlessReorged(state) == state # "Reorged"
AcceptsAnchorState(state) ==
  state = "Confirmed" \/ (state = "Pending" /\ policy.acceptPending)

------------------------------------------------------------------------------
(* The checks on one record *)

InputIds(r) == Range(r.inputs)
OutputIds(r) == {r.outputs[i].id : i \in DOMAIN r.outputs}

OutputTotal(r) == SumFunction([i \in DOMAIN r.outputs |-> r.outputs[i].amount])
InputTotal(r) == SumFunction([o \in InputIds(r) |-> outputs[o].amount])

(* validate_record_identity *)
Identified(r) ==
  /\ r.wellFormed
  /\ r.id \notin seen
  /\ r.kind = "Issuance" <=> InputIds(r) = {}
  /\ OutputIds(r) # {}

(* validate_inputs: an input must have been made before, in a state the    *)
(* kind allows.  The state looked at is the one it was made with.          *)
InputsAllowed(r) ==
  /\ IsInjective(r.inputs)
  /\ \A o \in InputIds(r) :
       o \in DOMAIN outputs /\ outputs[o].state \in InputStates[r.kind]

(* validate_outputs *)
OutputsAllowed(r) ==
  /\ \A i, j \in DOMAIN r.outputs :
       r.outputs[i].id = r.outputs[j].id => i = j
  /\ \A i \in DOMAIN r.outputs :
       /\ r.outputs[i].state = OutputState[r.kind]
       /\ r.outputs[i].amount # 0
  /\ OutputTotal(r) <= U64Max

BalancedUnlessSplit(r) ==
  r.kind \notin {"Issuance", "Split"} => InputTotal(r) = OutputTotal(r)
Balanced(r) == r.kind # "Issuance" => InputTotal(r) = OutputTotal(r)

OneAsset(r) ==
  \A o, p \in InputIds(r), i \in DOMAIN r.outputs :
    outputs[o].asset = outputs[p].asset /\ r.outputs[i].asset = outputs[o].asset

OutputsNew(r) == OutputIds(r) \cap DOMAIN outputs = {}

OutputsAnchored(r) ==
  \A i \in DOMAIN r.outputs :
    AcceptsAnchorState(policy.anchors[r.outputs[i].anchor])

Replayable(r) ==
  /\ Identified(r)
  /\ InputsAllowed(r)
  /\ OutputsAllowed(r)
  /\ Balanced(r)
  /\ OneAsset(r)
  /\ OutputsNew(r)
  /\ OutputsAnchored(r)

------------------------------------------------------------------------------
(* Actions *)

Init ==
  /\ policy \in [anchors : [Anchors -> AnchorStates], acceptPending : BOOLEAN]
  /\ seen = {}
  /\ outputs = [o \in {} |-> o]
  /\ states = [o \in {} |-> o]
  /\ explained = {}
  /\ failed = FALSE

(* The explanation the engine stores for output i of record r. *)
Explanation(r, i) ==
  [record |-> r.id, kind |-> r.kind, asset |-> r.outputs[i].asset,
   amount |-> r.outputs[i].amount, anchor |-> r.outputs[i].anchor,
   state |-> r.outputs[i].state, prior |-> InputIds(r)]

IndexOf(r, o) == CHOOSE i \in DOMAIN r.outputs : r.outputs[i].id = o

(* The maps of the engine after it has accepted record r. *)
SpentBy(r) == IF Consumes(r.kind) THEN InputIds(r) ELSE {}

OutputsAfter(r) ==
  [o \in DOMAIN outputs \cup OutputIds(r) |->
     IF o \in OutputIds(r) THEN Explanation(r, IndexOf(r, o)) ELSE outputs[o]]

ExplainedAfter(r) == (explained \ SpentBy(r)) \cup OutputIds(r)

(* The loop body accepts the next record. *)
ReplayRecord(r) ==
  /\ ~failed
  /\ Replayable(r)
  /\ outputs' = OutputsAfter(r)
  /\ states' = [o \in DOMAIN states \cup OutputIds(r) |->
                  IF o \in OutputIds(r) THEN r.outputs[IndexOf(r, o)].state
                  ELSE IF o \in SpentBy(r) THEN "Spent" ELSE states[o]]
  /\ explained' = ExplainedAfter(r)
  /\ seen' = seen \cup {r.id}
  /\ UNCHANGED <<policy, failed>>

(* The loop body refuses the next record: the call returns the error and   *)
(* drops all it has built, the inputs already marked spent included.       *)
RefuseRecord(r) ==
  /\ ~failed
  /\ ~Replayable(r)
  /\ failed' = TRUE
  /\ outputs' = [o \in {} |-> o]
  /\ states' = [o \in {} |-> o]
  /\ explained' = {}
  /\ seen' = {}
  /\ UNCHANGED policy

Next == \E r \in Records : ReplayRecord(r) \/ RefuseRecord(r)

Spec == Init /\ [][Next]_vars

------------------------------------------------------------------------------
(* Properties *)

Ids == UNION {OutputIds(r) : r \in Records}

(* The three maps of the engine stay in step (explanations, states and     *)
(* outputs are separate maps updated at different places).                 *)
TypeOK ==
  /\ policy \in [anchors : [Anchors -> AnchorStates], acceptPending : BOOLEAN]
  /\ seen \subseteq {r.id : r \in Records}
  /\ DOMAIN outputs \subseteq Ids
  /\ DOMAIN states = DOMAIN outputs
  /\ \A o \in DOMAIN outputs :
       /\ outputs[o].state \in ResultingStates
       /\ outputs[o].prior \subseteq DOMAIN outputs
       /\ states[o] \in {"Spent", outputs[o].state}
  /\ explained \subseteq DOMAIN outputs
  /\ failed \in BOOLEAN

(* The records that consumed output o. *)
Consumers(o) ==
  {outputs[p].record : p \in {q \in DOMAIN outputs : o \in outputs[q].prior}}

(* An output is not both spendable and spent: what explains a balance is   *)
(* exactly what no record has consumed, whatever the kinds on the way, and *)
(* output_state calls exactly the others spent.                            *)
ExplainedIffUnspent ==
  \A o \in DOMAIN outputs :
    /\ o \in explained <=> Consumers(o) = {}
    /\ states[o] = "Spent" <=> Consumers(o) # {}

AssetsIssued == {outputs[o].asset : o \in DOMAIN outputs}

Total(S, a) ==
  SumFunction([o \in {p \in S : outputs[p].asset = a} |-> outputs[o].amount])

Issued == {o \in DOMAIN outputs : outputs[o].kind = "Issuance"}

Linear == \A o \in DOMAIN outputs : Cardinality(Consumers(o)) <= 1

(* When no output is consumed twice, replay neither creates nor destroys   *)
(* an asset: per asset, the balances explained at the end of any sequence  *)
(* of splits, transfers, channel steps and exports add up to the issuance. *)
LinearHistoryConserves ==
  Linear => \A a \in AssetsIssued : Total(explained, a) = Total(Issued, a)

(* The same without the proviso that no output is consumed twice: the sum  *)
(* of valid outputs never exceeds what was issued.                         *)
ExplainedWithinIssued ==
  \A a \in AssetsIssued : Total(explained, a) <= Total(Issued, a)

(* No output is accepted whose own anchor, or that of any output it comes  *)
(* from, is unknown, stale or reorged, or pending without the caller's     *)
(* consent, and its lineage is of one asset.                               *)
AncestryAccepted ==
  \A o \in DOMAIN outputs :
    /\ \/ policy.anchors[outputs[o].anchor] = "Confirmed"
       \/ policy.anchors[outputs[o].anchor] = "Pending" /\ policy.acceptPending
    /\ \A p \in outputs[o].prior : outputs[p].asset = outputs[o].asset

==============================================================================
