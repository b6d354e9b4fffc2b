-------------------------- MODULE MCChannelFunding --------------------------
(* Two wallets, one ticker, one foreign asset from a tapd proof file, and a *)
(* store for up to two channels.                                            *)
EXTENDS ChannelFunding, TLC

CONSTANTS A, T, k, x

Leaf == [asset |-> T, type |-> "Normal", amount |-> 1, key |-> k,
         genesis |-> Genesis(T)]
Tapd == [steps |-> <<[version |-> 0, complete |-> TRUE]>>, leaf |-> Leaf]

TapdRequest(tapd, amount) ==
  [asset |-> T, genesis |-> Genesis(T), anchor |-> x, amount |-> amount,
   key |-> k, tapd |-> tapd]

(* A good file, and one for each way a file or a request can be wrong. *)
MCTapdImports ==
  { TapdRequest(Tapd, 1),
    TapdRequest(Tapd, 2),
    TapdRequest([Tapd EXCEPT !.leaf = None], 1),
    TapdRequest([Tapd EXCEPT !.steps[1].complete = FALSE], 1),
    TapdRequest([Tapd EXCEPT !.leaf.type = "Collectible"], 1) }

MCWatched == {IssuanceProof(A, k, 2).anchor}

(* The issued proof with a smaller amount: it has the id of the genuine.   *)
MCRewritten == {ProofFile(A, Genesis(A), IssuanceProof(A, k, 2).anchor, 1, k)}

(* The hypothesis of ChannelFundingProofs. *)
ASSUME AssetAssumption == AssetsPresent

Interchangeable == Permutations(Wallets)

==============================================================================
