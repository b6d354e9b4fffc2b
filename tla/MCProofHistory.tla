--------------------------- MODULE MCProofHistory ---------------------------
(* A catalogue of records for ProofHistory: one asset carried through its   *)
(* whole life along two competing branches, a second asset, and one record  *)
(* for each way a record can be wrong.                                      *)
EXTENDS ProofHistory, Sequences

CONSTANTS A, B, here, there

Out(id, asset, amount, anchor, state) ==
  [id |-> id, asset |-> asset, amount |-> amount, anchor |-> anchor,
   state |-> state]

Rec(id, kind, inputs, outs) ==
  [id |-> id, kind |-> kind, wellFormed |-> TRUE, inputs |-> inputs,
   outputs |-> outs]

Lifecycle ==
  { Rec("issue", "Issuance", <<>>, <<Out("a0", A, 2, here, "Accepted")>>),
    Rec("split", "Split", <<"a0">>,
        <<Out("a1", A, 1, here, "Accepted"), Out("a2", A, 1, there, "Accepted")>>),
    Rec("transfer", "Transfer", <<"a1">>, <<Out("a3", A, 1, there, "Accepted")>>),
    Rec("fund", "ChannelFunding", <<"a1", "a2">>,
        <<Out("ch0", A, 2, here, "ChannelLocked")>>),
    Rec("commit", "CommitmentUpdate", <<"ch0">>,
        <<Out("ch1", A, 2, here, "ChannelLocked")>>),
    Rec("close", "CooperativeClose", <<"ch1">>,
        <<Out("cl1", A, 1, here, "Closed"), Out("cl2", A, 1, there, "Closed")>>),
    Rec("force", "UnilateralClose", <<"ch0">>, <<Out("cl3", A, 2, here, "Closed")>>),
    Rec("htlc", "SecondLevelHtlc", <<"cl3">>, <<Out("cl4", A, 2, here, "Closed")>>),
    Rec("sweep", "Sweep", <<"cl4">>, <<Out("sw", A, 2, there, "Swept")>>),
    Rec("export", "ProofExport", <<"sw">>, <<Out("e1", A, 2, here, "Accepted")>>),
    Rec("exportClose", "ProofExport", <<"cl1">>,
        <<Out("e2", A, 1, there, "Accepted")>>) }

Refused ==
  { Rec("other", "Issuance", <<>>, <<Out("b0", B, 1, here, "Accepted")>>),
    Rec("mixed", "Transfer", <<"a1", "b0">>,
        <<Out("m1", A, 2, here, "Accepted")>>),
    Rec("split", "Transfer", <<"b0">>, <<Out("b1", B, 1, here, "Accepted")>>),
    Rec("inflate", "Split", <<"a2">>,
        <<Out("i1", A, 1, here, "Accepted"), Out("i2", A, 1, here, "Accepted")>>),
    Rec("twice", "Transfer", <<"a2", "a2">>,
        <<Out("t1", A, 2, here, "Accepted")>>),
    Rec("unlock", "Transfer", <<"ch0">>, <<Out("u1", A, 2, here, "Accepted")>>),
    Rec("misstate", "Transfer", <<"b0">>, <<Out("s1", B, 1, here, "Spent")>>),
    Rec("zero", "Split", <<"b0">>,
        <<Out("z1", B, 1, here, "Accepted"), Out("z2", B, 0, here, "Accepted")>>),
    Rec("overflow", "Issuance", <<>>,
        <<Out("o1", B, 2, here, "Accepted"), Out("o2", B, 3, here, "Accepted")>>),
    [Rec("malformed", "Issuance", <<>>, <<Out("f1", B, 1, here, "Accepted")>>)
       EXCEPT !.wellFormed = FALSE] }

MCRecords == Lifecycle \cup Refused

==============================================================================
