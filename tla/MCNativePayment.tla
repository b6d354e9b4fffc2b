--------------------------- MODULE MCNativePayment ---------------------------
(* One channel of asset a, funded 2 and 1, and quotes for 1 and 2 of a and  *)
(* for 1 of b: a quote that can be paid, one that can be paid only once,    *)
(* and one for an asset the channel does not hold.                          *)
EXTENDS NativePayment, TLC

CONSTANTS c1, a, b

MCLocalFunding == [c \in Channels |-> 2]
MCRemoteFunding == [c \in Channels |-> 1]
MCAssetOf == [c \in Channels |-> a]
MCDeals == {[asset |-> a, amount |-> 1], [asset |-> a, amount |-> 2],
            [asset |-> b, amount |-> 1]}
MCSeedOf == [x \in MCDeals \X {t + QuoteTtl : t \in Times} \X Domains |-> 1]
PaymentSymmetry ==
  Permutations(Domains) \cup Permutations(Hashes) \cup Permutations(Nonces)

==============================================================================
