-------------------------- MODULE OnchainLifecycle --------------------------
(***************************************************************************)
(* The reports of src/crates/tap-ldk-core/src/onchain_lifecycle.rs: events *)
(* of the on-chain life of a channel, the observations a chain watcher, a  *)
(* sweeper or a wallet monitor makes of them, and the callbacks a regtest  *)
(* chain gives for the observations.  Each layer refers to the one below   *)
(* by id and repeats parts of it; tables say which kinds belong together.  *)
(*                                                                         *)
(* A report is built once and never altered, so the digest each entry      *)
(* carries over its own fields is left out.                                *)
(***************************************************************************)
EXTENDS Integers, Sequences, FiniteSets

CONSTANTS
  NoValue,   \* Option::None
  U32Max     \* the largest block height

------------------------------------------------------------------------------
(* Events *)

CloseKinds == {"CooperativeCloseLocal", "CooperativeCloseRemote"}
RecoveryKinds == {"UnilateralCommitment", "SecondLevelHtlcSuccess",
                  "SecondLevelHtlcTimeout", "FinalSweep"}
RefusalKinds == {"FailedSweep", "BtcOnlySweepRefusal",
                 "StaleProofOwnershipRefusal", "MissingProofOwnershipRefusal"}
EventKinds == CloseKinds \cup RecoveryKinds \cup RefusalKinds \cup {"RestartRecovery"}

(* OnchainLifecycleEventKind::required_status *)
RequiredStatus(kind) ==
  CASE kind \in CloseKinds -> "ProofExported"
    [] kind \in RecoveryKinds -> "AssetProofRecovered"
    [] kind \in RefusalKinds -> "Refused"
    [] OTHER -> "Restarted"

RequiresProofHistory == EventKinds \ RefusalKinds
RequiresProofHandoff == CloseKinds \cup RecoveryKinds
RequiresSweepOutput == RecoveryKinds

(* OnchainLifecycleEvent::new *)
NewEvent(kind, channel, amount) ==
  [kind |-> kind, status |-> RequiredStatus(kind), channel |-> channel,
   amount |-> amount, history |-> NoValue, handoff |-> NoValue,
   wallet |-> NoValue, monitor |-> NoValue, sweep |-> NoValue,
   reason |-> NoValue]

(* event_id_for *)
EventId(e) == <<e.kind, e.channel, e.amount>>

(* OnchainLifecycleEvent::validate *)
EventValid(e) ==
  /\ e.amount # 0
  /\ e.status = RequiredStatus(e.kind)
  /\ e.kind \in RequiresProofHistory => e.history # NoValue
  /\ e.kind \in RequiresProofHandoff => e.handoff # NoValue
  /\ e.kind \in RequiresSweepOutput => e.sweep # NoValue
  /\ e.kind = "RestartRecovery" => NoValue \notin {e.wallet, e.monitor}
  /\ e.status = "Refused" <=> e.reason # NoValue

DistinctIds(items, Id(_)) ==
  \A i, j \in DOMAIN items : Id(items[i]) = Id(items[j]) => i = j

(* OnchainLifecycleReport::new and validate: the summary flags are         *)
(* computed from the events, so only the events can be refused.            *)
ReportValid(events) ==
  /\ events # <<>>
  /\ \A i \in DOMAIN events : EventValid(events[i])
  /\ DistinctIds(events, EventId)

HasStatus(events, kind, status) ==
  \E i \in DOMAIN events : events[i].kind = kind /\ events[i].status = status

(* The eight summary flags *)
Summary(events) ==
  [exported |-> \A k \in CloseKinds : HasStatus(events, k, "ProofExported"),
   recovered |-> {k \in RecoveryKinds : HasStatus(events, k, "AssetProofRecovered")},
   refused |-> {k \in {"FailedSweep", "BtcOnlySweepRefusal"} :
                  HasStatus(events, k, "Refused")},
   restarted |-> HasStatus(events, "RestartRecovery", "Restarted")]

------------------------------------------------------------------------------
(* Observations *)

(* observation_kind_for_event *)
ObservationKind(kind) ==
  CASE kind \in CloseKinds -> "CooperativeCloseAnchor"
    [] kind = "UnilateralCommitment" -> "UnilateralCommitmentAnchor"
    [] kind \in {"SecondLevelHtlcSuccess", "SecondLevelHtlcTimeout"} ->
         "SecondLevelHtlcAnchor"
    [] kind = "FinalSweep" -> "FinalSweepAnchor"
    [] kind = "StaleProofOwnershipRefusal" -> "StaleProofOwnershipAnchor"
    [] kind = "RestartRecovery" -> "RestartEvidence"
    [] OTHER -> kind

(* matches_lifecycle_kind *)
MatchesEventKind(okind, kind) ==
  CASE okind = "CooperativeCloseAnchor" -> kind \in CloseKinds
    [] okind = "UnilateralCommitmentAnchor" -> kind = "UnilateralCommitment"
    [] okind = "SecondLevelHtlcAnchor" ->
         kind \in {"SecondLevelHtlcSuccess", "SecondLevelHtlcTimeout"}
    [] okind = "FinalSweepAnchor" -> kind = "FinalSweep"
    [] okind = "StaleProofOwnershipAnchor" -> kind = "StaleProofOwnershipRefusal"
    [] okind = "RestartEvidence" -> kind = "RestartRecovery"
    [] OTHER -> kind = okind

ObservationKinds == {ObservationKind(k) : k \in EventKinds}
Sources == {"ChainWatcher", "Sweeper", "WalletMonitor"}
AnchorStatesSeen == {"Unknown", "Pending", "Confirmed", "Stale", "Reorged"}

(* OnchainLifecycleObservationKind::required_source *)
RequiredSource(okind) ==
  CASE okind \in {"FinalSweepAnchor", "FailedSweep", "BtcOnlySweepRefusal"} -> "Sweeper"
    [] okind \in {"MissingProofOwnershipRefusal", "RestartEvidence"} -> "WalletMonitor"
    [] OTHER -> "ChainWatcher"

(* OnchainLifecycleObservationKind::required_status *)
ObservedStatus(okind) ==
  CASE okind = "CooperativeCloseAnchor" -> "ProofExported"
    [] okind \in {"UnilateralCommitmentAnchor", "SecondLevelHtlcAnchor",
                  "FinalSweepAnchor"} -> "AssetProofRecovered"
    [] okind = "RestartEvidence" -> "Restarted"
    [] OTHER -> "Refused"

RequiresAnchorOutpoint ==
  {"CooperativeCloseAnchor", "UnilateralCommitmentAnchor", "SecondLevelHtlcAnchor",
   "FinalSweepAnchor", "StaleProofOwnershipAnchor"}
ObservesSweepOutput == {"FinalSweepAnchor", "FailedSweep", "BtcOnlySweepRefusal"}

(* validate_anchor_state *)
AnchorUnlessReorged(okind, state) == state # "Reorged"
AnchorStateAllowed(okind, state) ==
  CASE okind = "FailedSweep" -> state # "Confirmed"
    [] okind = "BtcOnlySweepRefusal" -> TRUE
    [] okind = "StaleProofOwnershipAnchor" -> state \in {"Stale", "Reorged"}
    [] okind = "MissingProofOwnershipRefusal" -> state = "Unknown"
    [] OTHER -> state = "Confirmed"

(* observation_id_for: the anchor state and the height are not part of it. *)
ObservationId(o) == <<o.kind, o.source, o.event>>

OrElse(value, default) == IF value = NoValue THEN default ELSE value

(* OnchainLifecycleObservation::new with the evidence that                 *)
(* bounded_chain_observation_for_event adds                                *)
SweepFromEventOnly(e, okind, source, state) ==
  [event |-> EventId(e), eventKind |-> e.kind, eventStatus |-> e.status,
   source |-> source, kind |-> okind, channel |-> e.channel,
   amount |-> e.amount, anchorState |-> state,
   outpoint |-> IF okind \in RequiresAnchorOutpoint THEN EventId(e) ELSE NoValue,
   sweep |-> IF okind \in ObservesSweepOutput THEN e.sweep ELSE NoValue,
   wallet |-> OrElse(e.wallet, EventId(e)),
   monitor |-> OrElse(e.monitor, EventId(e)),
   reason |-> IF e.status = "Refused" THEN OrElse(e.reason, e.kind) ELSE NoValue]
ObservationOf(e, okind, source, state) ==
  [event |-> EventId(e), eventKind |-> e.kind, eventStatus |-> e.status,
   source |-> source, kind |-> okind, channel |-> e.channel,
   amount |-> e.amount, anchorState |-> state,
   outpoint |-> IF okind \in RequiresAnchorOutpoint THEN EventId(e) ELSE NoValue,
   sweep |-> IF okind \in ObservesSweepOutput
             THEN OrElse(e.sweep, EventId(e)) ELSE NoValue,
   wallet |-> OrElse(e.wallet, EventId(e)),
   monitor |-> OrElse(e.monitor, EventId(e)),
   reason |-> IF e.status = "Refused" THEN OrElse(e.reason, e.kind) ELSE NoValue]

(* bounded_chain_observation_for_event *)
BoundedObservation(e) ==
  LET okind == ObservationKind(e.kind)
      state == CASE okind \in {"FailedSweep", "MissingProofOwnershipRefusal"} -> "Unknown"
                 [] okind = "StaleProofOwnershipAnchor" -> "Stale"
                 [] OTHER -> "Confirmed"
  IN  ObservationOf(e, okind, RequiredSource(okind), state)

(* OnchainLifecycleObservation::validate *)
ObservationValid(o) ==
  /\ o.amount # 0
  /\ o.source = RequiredSource(o.kind)
  /\ MatchesEventKind(o.kind, o.eventKind)
  /\ o.eventStatus = ObservedStatus(o.kind)
  /\ AnchorStateAllowed(o.kind, o.anchorState)
  /\ o.kind \in RequiresAnchorOutpoint => o.outpoint # NoValue
  /\ o.kind \in ObservesSweepOutput => o.sweep # NoValue
  /\ o.kind = "RestartEvidence" => NoValue \notin {o.wallet, o.monitor}
  /\ o.eventStatus = "Refused" <=> o.reason # NoValue

(* OnchainLifecycleChainObservationReport::validate *)
ObservationReportValid(events, obs) ==
  /\ ReportValid(events)
  /\ obs # <<>>
  /\ DistinctIds(obs, ObservationId)
  /\ \A i \in DOMAIN obs :
       /\ ObservationValid(obs[i])
       /\ \E j \in DOMAIN events :
            LET e == events[j]
            IN  /\ EventId(e) = obs[i].event
                /\ e.kind = obs[i].eventKind /\ e.status = obs[i].eventStatus
                /\ e.channel = obs[i].channel /\ e.amount = obs[i].amount

Observes(o, e) == o.event = EventId(e)

(* all_lifecycle_events_observed *)
AllObserved(events, obs) ==
  \A i \in DOMAIN events : \E j \in DOMAIN obs : Observes(obs[j], events[i])

(* confirmed_recovery_observed *)
RecoveryConfirmed(events, obs) ==
  \A i \in DOMAIN events :
    events[i].status # "Refused" =>
      \E j \in DOMAIN obs :
        Observes(obs[j], events[i]) /\ obs[j].anchorState = "Confirmed"

(* refusal_observations_present *)
RefusalsPresent(events, obs) ==
  \A i \in DOMAIN events :
    events[i].status = "Refused" =>
      \E j \in DOMAIN obs :
        /\ Observes(obs[j], events[i])
        /\ obs[j].eventStatus = "Refused" /\ obs[j].reason # NoValue

(* restart_observation_present *)
RestartPresent(obs) ==
  \E j \in DOMAIN obs :
    /\ obs[j].kind = "RestartEvidence" /\ obs[j].anchorState = "Confirmed"
    /\ NoValue \notin {obs[j].wallet, obs[j].monitor}

------------------------------------------------------------------------------
(* Callbacks *)

(* OnchainLifecycleLiveRegtestChainSnapshot::validate, with a saturating   *)
(* sum                                                                     *)
SnapshotValid(s) ==
  LET sum == s.start + s.mined
  IN  /\ s.mined # 0
      /\ s.observed >= IF sum > U32Max THEN U32Max ELSE sum

(* callback_kind_for_observation *)
CallbackKind(o) ==
  CASE o.kind = "FinalSweepAnchor" -> "SweeperAnchor"
    [] o.kind \in {"FailedSweep", "BtcOnlySweepRefusal"} -> "SweeperRefusal"
    [] o.kind = "MissingProofOwnershipRefusal" -> "WalletMonitorRefusal"
    [] o.kind = "RestartEvidence" -> "WalletMonitorRestart"
    [] OTHER -> "ChainWatcherAnchor"

(* OnchainLifecycleLiveRegtestCallbackKind::matches_observation *)
MatchesUnlessFailed(ckind, o) ==
  CASE ckind = "ChainWatcherAnchor" ->
         /\ o.source = "ChainWatcher"
         /\ o.kind \in RequiresAnchorOutpoint \ {"FinalSweepAnchor"}
    [] ckind = "SweeperAnchor" -> o.source = "Sweeper" /\ o.kind = "FinalSweepAnchor"
    [] ckind = "SweeperRefusal" ->
         o.source = "Sweeper" /\ o.kind = "BtcOnlySweepRefusal"
    [] ckind = "WalletMonitorRefusal" ->
         o.source = "WalletMonitor" /\ o.kind = "MissingProofOwnershipRefusal"
    [] ckind = "WalletMonitorRestart" ->
         o.source = "WalletMonitor" /\ o.kind = "RestartEvidence"
MatchesObservation(ckind, o) ==
  CASE ckind = "ChainWatcherAnchor" ->
         /\ o.source = "ChainWatcher"
         /\ o.kind \in RequiresAnchorOutpoint \ {"FinalSweepAnchor"}
    [] ckind = "SweeperAnchor" -> o.source = "Sweeper" /\ o.kind = "FinalSweepAnchor"
    [] ckind = "SweeperRefusal" ->
         o.source = "Sweeper" /\ o.kind \in {"FailedSweep", "BtcOnlySweepRefusal"}
    [] ckind = "WalletMonitorRefusal" ->
         o.source = "WalletMonitor" /\ o.kind = "MissingProofOwnershipRefusal"
    [] ckind = "WalletMonitorRestart" ->
         o.source = "WalletMonitor" /\ o.kind = "RestartEvidence"

(* OnchainLifecycleLiveRegtestCallback::new; live_regtest_callback_id_for *)
CallbackOf(o, s) ==
  [callback |-> CallbackKind(o), observation |-> ObservationId(o),
   event |-> o.event, source |-> o.source, kind |-> o.kind,
   height |-> s.observed, block |-> s.best]
CallbackId(cb) == cb

Binds(cb, o) ==
  /\ cb.observation = ObservationId(o) /\ cb.event = o.event
  /\ cb.source = o.source /\ cb.kind = o.kind
  /\ MatchesObservation(cb.callback, o)

(* OnchainLifecycleLiveRegtestCallbackReport::validate *)
CallbackReportValid(events, obs, s, cbs) ==
  /\ ObservationReportValid(events, obs)
  /\ SnapshotValid(s)
  /\ cbs # <<>>
  /\ DistinctIds(cbs, CallbackId)
  /\ \A i \in DOMAIN cbs :
       /\ cbs[i].height = s.observed /\ cbs[i].block = s.best
       /\ \E j \in DOMAIN obs :
            /\ Binds(cbs[i], obs[j])
            /\ obs[j].eventStatus = "AssetProofRecovered" =>
                 obs[j].anchorState = "Confirmed"

(* live_regtest_callbacks_bound *)
CallbacksBound(obs, cbs) ==
  \A j \in DOMAIN obs : \E i \in DOMAIN cbs : Binds(cbs[i], obs[j])

(* from_chain_observation_report *)
CallbacksOf(obs, s) == [j \in DOMAIN obs |-> CallbackOf(obs[j], s)]

==============================================================================
