---------------------------- MODULE CommitmentLog ----------------------------
(***************************************************************************)
(* What a commitment store promises its caller, without numbers, nonces,   *)
(* revocations, signatures or proof history: each channel has a log of     *)
(* balance pairs that starts with the funding balances, every entry shares *)
(* out the same total, entries are only ever appended, Persist makes the   *)
(* whole log durable and a restart returns exactly to what was persisted.  *)
(***************************************************************************)
EXTENDS Integers, Sequences

CONSTANTS Channels, LocalFunding, RemoteFunding

VARIABLES log, durable

vars == <<log, durable>>

Total(c) == LocalFunding[c] + RemoteFunding[c]

Funding(c) == [local |-> LocalFunding[c], remote |-> RemoteFunding[c]]

(* The ways to share the total of channel c. *)
Shares(c) == {[local |-> l, remote |-> Total(c) - l] : l \in 0 .. Total(c)}

Init ==
  /\ log = [c \in Channels |-> <<>>]
  /\ durable = [c \in Channels |-> <<>>]

Open(c) ==
  /\ log[c] = <<>>
  /\ log' = [log EXCEPT ![c] = <<Funding(c)>>]
  /\ UNCHANGED durable

Commit(c) ==
  /\ log[c] # <<>>
  /\ \E b \in Shares(c) : log' = [log EXCEPT ![c] = Append(log[c], b)]
  /\ UNCHANGED durable

Persist ==
  /\ durable' = log
  /\ UNCHANGED log

Restart ==
  /\ log' = durable
  /\ UNCHANGED durable

Next ==
  \/ \E c \in Channels : Open(c) \/ Commit(c)
  \/ Persist
  \/ Restart

Spec == Init /\ [][Next]_vars

==============================================================================
