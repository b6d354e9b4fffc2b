-------------------------- MODULE MCAssetCommitment --------------------------
(* Small instances of AssetCommitment for TLC. *)
EXTENDS AssetCommitment, TLC

CONSTANTS c1, c2

(* c1 can move value both ways; c2 has an empty remote side. *)
MCLocalFunding == [c \in Channels |-> IF c = c1 THEN 1 ELSE 2]
MCRemoteFunding == [c \in Channels |-> IF c = c1 THEN 1 ELSE 0]

NonceSymmetry == Permutations(Nonces)

==============================================================================
