-------------------------- MODULE ChannelLifecycle --------------------------
(***************************************************************************)
(* The on-chain life of channels: the commitment store, its closes and     *)
(* checkpoints, and the lifecycle report that run_onchain_lifecycle_smoke  *)
(* (src/crates/tap-ldk-core/src/onchain_lifecycle.rs) builds, last of all, *)
(* from a recorded close and from the recovery of a channel; then the      *)
(* observations that watchers add to it.                                   *)
(*                                                                         *)
(* The code makes the close and the recovery in two commitment stores of   *)
(* its own.  Here the close is any that is recorded, of any commitment,    *)
(* and the recovery is of any channel in the memory of this process or in  *)
(* the file, so that the two need not agree on the state of a channel.     *)
(***************************************************************************)
EXTENDS AssetRecovery, OnchainLifecycle

CONSTANTS
  Snapshots,         \* chain snapshots a regtest node may give
  Watched,           \* the kinds of events that watchers report on
  MaxArtifacts,      \* bound on closes built, proofs claimed, checkpoints
                     \* and reports
  MaxObservations    \* bound on the observations of one report

ASSUME LifecycleAssumption ==
  Watched \subseteq EventKinds /\ MaxArtifacts \in Nat /\ MaxObservations \in Nat

VARIABLES
  events,         \* the events of the lifecycle report, <<>> before it
  observations    \* the observations of the accepted observation report

lifecycleVars == <<events, observations>>
allVars == <<vars, closeVars, checkpoints, lifecycleVars>>

------------------------------------------------------------------------------
(* The report *)

(* cooperative_close_event *)
CloseEvent(kind, side, cl) ==
  [NewEvent(kind, cl.parts.channel, cl.parts.amount[side]) EXCEPT
     !.history = ExportOutput(cl.id, side, cl.proof[side]),
     !.handoff = <<side, cl.proof[side]>>, !.wallet = <<side, cl.proof[side]>>,
     !.monitor = <<"allocation", cl.parts>>]

(* recovery_event *)
RecoveryEvent(kind, spend, c, st) ==
  [NewEvent(kind, c, st.total) EXCEPT
     !.history = RecoveredOutput(c, spend), !.handoff = <<"handoff", spend, c, st>>,
     !.monitor = Ownership(c, st.number, spend, TRUE, TRUE, st),
     !.sweep = <<"sweep", spend, c, st>>]

(* refusal_event *)
RefusalEvent(kind, c, total) == [NewEvent(kind, c, total) EXCEPT !.reason = kind]

(* restart_event *)
RestartEvent(c, cl, st) ==
  [NewEvent("RestartRecovery", cl.parts.channel, cl.parts.total) EXCEPT
     !.history = ExportOutput(cl.id, "local", cl.proof["local"]),
     !.wallet = <<"wallets", cl.proof>>,
     !.monitor = <<"monitor", cl.parts,
                   Ownership(c, st.number, "Commitment", TRUE, TRUE, st),
                   RecoveredOutput(c, "Commitment")>>]

(* restart_after_close_matches: the close read back from the close store   *)
(* is the one recorded, and a new wallet of each owner, having imported    *)
(* the proof of its side, holds what the close pays it.                    *)
RestartMatches(cl) ==
  /\ closes[cl.id] = cl
  /\ \A s \in Sides :
       LET p == Decode(Encode(cl.proof[s]))
       IN  /\ VerifySemanticAncestry(p, DefaultContext)
           /\ p.asset = Asset /\ p.amount = cl.parts.amount[s]

(* failed_sweep_gate *)
FailedSweepGate == "Failed"

(* normal_btc_restart_round_trips: what the BTC-only smoke run leaves, as  *)
(* serde writes and reads it, a skipped field coming back as its default.  *)
BtcSmokeState == [payment |-> "settled", bobRestarts |-> 1]
BtcSmokeDefault == [payment |-> NoValue, bobRestarts |-> 0]
SkippedFields == {}
BtcRestartUnaffected ==
  LET loaded == [f \in DOMAIN BtcSmokeState |->
                   IF f \in SkippedFields THEN BtcSmokeDefault[f]
                   ELSE BtcSmokeState[f]]
  IN  /\ loaded.payment = BtcSmokeState.payment
      /\ loaded.bobRestarts = BtcSmokeState.bobRestarts

(* What require_lifecycle_evidence asks of the close and of the recovery,  *)
(* and the recoveries that the recovery matrix itself cannot do without.   *)
Evidence(c, cl, st) ==
  /\ CloseHistoryValid(cl)
  /\ \A s \in Sides : CloseProofValid(cl, s, Decode(Encode(cl.proof[s])))
  /\ RestartMatches(cl)
  /\ FailedSweepGate # "Recovered"
  /\ BtcRestartUnaffected
  /\ \A kind \in SpendKinds : OwnershipRecovered(c, st, kind)
  /\ MissingRefused(c, st, "Commitment")
  /\ StaleRefused(c, st, "Commitment")
  /\ BtcOnlyRefused(c, st, "FinalSweep")

(* run_onchain_lifecycle_smoke *)
LifecycleEvents(c, cl, st) ==
  << CloseEvent("CooperativeCloseLocal", "local", cl),
     CloseEvent("CooperativeCloseRemote", "remote", cl),
     RecoveryEvent("UnilateralCommitment", "Commitment", c, st),
     RecoveryEvent("SecondLevelHtlcSuccess", "SecondLevelHtlc", c, st),
     RecoveryEvent("SecondLevelHtlcTimeout", "SecondLevelHtlc", c, st),
     RecoveryEvent("FinalSweep", "FinalSweep", c, st),
     RefusalEvent("FailedSweep", cl.parts.channel, cl.parts.total),
     RefusalEvent("BtcOnlySweepRefusal", c, st.total),
     RefusalEvent("StaleProofOwnershipRefusal", c, st.total),
     RefusalEvent("MissingProofOwnershipRefusal", c, st.total),
     RestartEvent(c, cl, st) >>

(* run_chain_watcher_lifecycle_smoke *)
BoundedObservations(evs) == [i \in DOMAIN evs |-> BoundedObservation(evs[i])]

------------------------------------------------------------------------------
(* Actions *)

LifecycleInit ==
  /\ Init /\ CloseInit /\ RecoveryInit
  /\ events = <<>> /\ observations = <<>>

(* The report of the close id and of the recovery of c from the store s.   *)
RunLifecycle(id, s, c) ==
  LET cl == closes[id]
  IN  /\ Evidence(c, cl, s[c])
      /\ ReportValid(LifecycleEvents(c, cl, s[c]))
      /\ events' = LifecycleEvents(c, cl, s[c])
      /\ UNCHANGED <<vars, closeVars, checkpoints, observations>>

(* A watcher observes an event in some anchor state, under a kind and as a *)
(* source of its choice; the report with the new observation must be one   *)
(* that OnchainLifecycleChainObservationReport::new accepts.               *)
Observe(e, okind, source, state) ==
  LET next == Append(observations, ObservationOf(e, okind, source, state))
  IN  /\ e.kind \in Watched
      /\ Len(observations) < MaxObservations
      /\ ObservationReportValid(events, next)
      /\ observations' = next
      /\ UNCHANGED <<vars, closeVars, checkpoints, events>>

Artifacts ==
  Cardinality(drafts) + Cardinality(claimed["local"]) + Cardinality(checkpoints)

LifecycleNext ==
  \/ /\ events = <<>>
     /\ StoreStep \/ CloseStep
     /\ UNCHANGED <<checkpoints, lifecycleVars>>
  \/ /\ events = <<>> /\ Artifacts < MaxArtifacts
     /\ \/ NewCloseStep /\ UNCHANGED <<checkpoints, lifecycleVars>>
        \/ RecoveryStep /\ UNCHANGED lifecycleVars
        \/ \E id \in DOMAIN closes, s \in {mem, disk} :
             \E c \in DOMAIN s : RunLifecycle(id, s, c)
  \/ \E i \in DOMAIN events, source \in Sources, state \in AnchorStatesSeen :
       \E okind \in {k \in ObservationKinds : MatchesEventKind(k, events[i].kind)} :
         Observe(events[i], okind, source, state)

LifecycleSpec == LifecycleInit /\ [][LifecycleNext]_allVars

------------------------------------------------------------------------------
(* Properties *)

(* However late a close was recorded, and wherever the channel recovered   *)
(* stands, provided it has been updated: the evidence of close, restart    *)
(* and recovery is there; the event report and the bounded observation     *)
(* report derived from it are accepted, with every summary flag set; and   *)
(* so is, for every valid chain snapshot, the callback report, which binds *)
(* every observation.                                                      *)
LifecycleReportsBuild ==
  \A id \in DOMAIN closes, s \in {mem, disk} : \A c \in DOMAIN s :
    s[c].number > 0 /\ events = <<>> =>
      LET evs == LifecycleEvents(c, closes[id], s[c])
          obs == BoundedObservations(evs)
      IN  /\ Evidence(c, closes[id], s[c])
          /\ ReportValid(evs)
          /\ Summary(evs) = [exported |-> TRUE, recovered |-> RecoveryKinds,
                             refused |-> {"FailedSweep", "BtcOnlySweepRefusal"},
                             restarted |-> TRUE]
          /\ ObservationReportValid(evs, obs)
          /\ AllObserved(evs, obs) /\ RecoveryConfirmed(evs, obs)
          /\ RefusalsPresent(evs, obs) /\ RestartPresent(obs)
          /\ \A snap \in {sn \in Snapshots : SnapshotValid(sn)} :
               /\ CallbackReportValid(evs, obs, snap, CallbacksOf(obs, snap))
               /\ CallbacksBound(obs, CallbacksOf(obs, snap))

(* An observed event counts: in an accepted report, whatever the watchers  *)
(* reported and in whatever anchor states, an event that is not a refusal  *)
(* is observed confirmed, and a refusal with its reason.  So a report that *)
(* observes everything cannot hide an unconfirmed recovery.                *)
ObservedCounts ==
  \A i \in DOMAIN events :
    (\E j \in DOMAIN observations : Observes(observations[j], events[i])) =>
      /\ RecoveryConfirmed(<<events[i]>>, observations)
      /\ RefusalsPresent(<<events[i]>>, observations)

(* Every accepted observation report gets, for a chain snapshot that has   *)
(* mined a block, a callback report that is accepted and binds all of it.  *)
CallbacksCoverObservations ==
  observations # <<>> =>
    \A s \in Snapshots :
      LET cbs == CallbacksOf(observations, s)
      IN  /\ CallbackReportValid(events, observations, s, cbs) <=> SnapshotValid(s)
          /\ CallbacksBound(observations, cbs)

==============================================================================
