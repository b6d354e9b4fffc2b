----------------------- MODULE MCLightningLabsPayment -----------------------
(* Two deals of one peer and one context that differ in their amount, at   *)
(* the oracle's fixed rate; quotes and invoices that end at one of two     *)
(* times; both replay domains probe from the same alias.                   *)
EXTENDS LightningLabsPayment, TLC

CONSTANTS peer, usd, context

MsatPerUnit == 2

Deal(amount) ==
  [peer |-> peer, asset |-> usd, amount |-> amount, msat |-> amount * MsatPerUnit,
   context |-> context]
MCDeals == {Deal(1), Deal(2)}

MCSeedOf == [x \in Deals \X Expiries \X Domains |-> 1]

(* A good pair of blobs, and pairs that are refused: for a record that is  *)
(* missing or unknown, too many outputs, an overflow, an HTLC, another      *)
(* asset, an output without a proof, and a leaf with two lengths.           *)
Output(asset, amount, proof) == [asset |-> asset, amount |-> amount, proof |-> proof]
Good(amount) == Output(usd, amount, <<"proof">>)
Funding(outputs) == [funded |-> outputs, decimals |-> 0]
Commitment(local, remote) ==
  [local |-> local, remote |-> remote, outgoing |-> <<>>, incoming |-> <<>>,
   leaves |-> [local |-> [declaredLen |-> 1, scriptLen |-> 1], outgoing |-> <<"leaf">>]]
Balances == Commitment(<<Good(1), Good(1)>>, <<Good(1)>>)
Fixture(f, c) == [funding |-> f, commitment |-> c]

MCFixtures ==
  { Fixture(Funding(<<Good(3)>>), Balances),
    Fixture([funded |-> <<Good(3)>>], Balances),
    Fixture(Funding(<<Good(3)>>), [f \in DOMAIN Balances \cup {"other"} |-> Balances.local]),
    Fixture(Funding(<<Good(1), Good(1), Good(1)>>), Balances),
    Fixture(Funding(<<Good(U64Max), Good(1)>>), Balances),
    Fixture(Funding(<<Good(3)>>),
            [Commitment(<<Good(1)>>, <<Good(1)>>) EXCEPT
               !.outgoing = <<[index |-> 0, outputs |-> <<Good(1)>>]>>]),
    Fixture(Funding(<<Good(3)>>), Commitment(<<Good(2)>>, <<Output(Btc, 1, <<"proof">>)>>)),
    Fixture(Funding(<<Output(usd, 3, <<>>)>>), Balances),
    Fixture(Funding(<<Good(3)>>), [Balances EXCEPT !.leaves.local.declaredLen = 2]) }

ASSUME TermsAssumption ==
  DealTerms /\ DealFields /\ AbsentIsNoValue /\ WholeRates /\ NoBitcoinDeals /\ BlobAmounts

DomainSymmetry == Permutations(Domains)

==============================================================================
