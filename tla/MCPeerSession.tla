---------------------------- MODULE MCPeerSession ----------------------------
(* Proofs of seven chunks each, as many as the smoke test's proofs have. *)
EXTENDS PeerSession

CONSTANTS in, out

MCInputProof == [i \in 1 .. 7 |-> <<in, i>>]
MCOutputProof == [i \in 1 .. 7 |-> <<out, i>>]

==============================================================================
