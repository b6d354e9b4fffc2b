------------------------- MODULE MCChannelLifecycle -------------------------
(* One channel that updates, crashes, closes and is observed. *)
EXTENDS ChannelLifecycle, TLC

CONSTANTS c1, ka, kb

MCLocalFunding == [c \in Channels |-> 2]
MCRemoteFunding == [c \in Channels |-> 1]

MCMoves == {<<1, 0>>, <<0, 0>>}

MCCloseKeys == {[local |-> ka, remote |-> kb], [local |-> kb, remote |-> kb]}

(* A good snapshot, one without a block, one that is behind, and one at    *)
(* the top of the height range.                                            *)
MCSnapshots ==
  { [start |-> 1, mined |-> 1, observed |-> 2, best |-> "hash"],
    [start |-> 1, mined |-> 0, observed |-> 2, best |-> "hash"],
    [start |-> 1, mined |-> 2, observed |-> 2, best |-> "hash"],
    [start |-> U32Max, mined |-> 1, observed |-> U32Max, best |-> "hash"] }

NonceSymmetry == Permutations(Nonces)

==============================================================================
