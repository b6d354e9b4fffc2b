--------------------------- MODULE MCTapCommitment ---------------------------
(* Trees of three levels. Assets of two ids, in a group or not, whose keys   *)
(* differ in the parity only, of amounts 0 to 2, and a collectible.  Cases    *)
(* of up to two inputs and two splits of an asset of amount 1 or 2.           *)
EXTENDS TapVmCase

Key(x, parity) == [x |-> x, parity |-> parity]
Asset(version, asset, type, amount, key, group) ==
  [version |-> version, asset |-> asset, type |-> type, genesis |-> asset,
   amount |-> amount, key |-> key, group |-> group]

MCAssets ==
  {Asset(1, "A", "Normal", 1, Key("x", 2), <<>>),
   Asset(1, "A", "Normal", 1, Key("x", 3), <<>>),
   Asset(1, "A", "Normal", 0, Key("y", 2), <<>>),
   Asset(0, "A", "Normal", 2, Key("y", 2), <<>>),
   Asset(1, "A", "Normal", 1, Key("x", 2), <<"g">>),
   Asset(1, "B", "Normal", 2, Key("x", 2), <<"g">>),
   Asset(1, "B", "Collectible", 1, Key("y", 2), <<>>)}

MCKeyOf ==
  [h \in {<<"A">>, <<"B">>, <<"g">>, <<"x">>, <<"y">>, <<"A", "x">>, <<"B", "x">>} |->
     CASE h = <<"A">> -> <<0, 0, 0>> [] h = <<"B">> -> <<0, 0, 1>>
       [] h = <<"g">> -> <<1, 0, 0>> [] h = <<"x">> -> <<0, 1, 0>>
       [] h = <<"y">> -> <<0, 1, 1>> [] h = <<"A", "x">> -> <<1, 1, 0>>
       [] h = <<"B", "x">> -> <<1, 0, 1>>]

MCTreeLeaves == {Leaf(<<"v">>, 0), Leaf(<<"v">>, 1), Leaf(<<>>, 1)}

VmAsset(type, amount, key, witnesses, root) ==
  [version |-> 1, scriptVersion |-> 0, type |-> type, wellFormed |-> TRUE,
   amount |-> amount, key |-> key, witnesses |-> witnesses, root |-> root]

SplitRoot(sum) == [hash |-> "r", sum |-> sum]
Unwitnessed(amount) == VmAsset(0, amount, Key("x", 2), <<>>, <<>>)

MCTopAssets ==
  {Unwitnessed(0), Unwitnessed(1), VmAsset(1, 2, Key("x", 2), <<>>, <<>>),
   VmAsset(0, 1, Key("x", 2), <<>>, <<SplitRoot(2)>>),
   VmAsset(0, 0, Key("x", 3), <<>>, <<SplitRoot(2)>>)}

Prev(out) == [out |-> out, asset |-> "A", key |-> "x"]
VmWitness(prev, stack, split) == [prev |-> prev, stack |-> stack, split |-> split]

MCVmInputs ==
  {[prev |-> Prev("o1"), asset |-> Unwitnessed(1)],
   [prev |-> Prev("o2"), asset |-> Unwitnessed(1)],
   [prev |-> Prev("o2"), asset |-> VmAsset(1, 1, Key("x", 2), <<>>, <<>>)]}

MCVmWitnesses ==
  {VmWitness(ZeroPrevId, <<>>, <<>>),
   VmWitness(Prev("o1"), << <<"signature">> >>, <<>>),
   VmWitness(Prev("o2"),
             << <<"preimage", [op |-> "hash160", hash |-> "preimage"], "control block">> >>, <<>>),
   VmWitness(Prev("o2"), << <<"zeros">> >>, <<>>),
   VmWitness(Prev("o1"), <<>>, <<>>)}

Split(index, amount, value, sum) ==
  LET commitment == [proof |-> Compress(Proof(Tree(NoLeaves), <<0, 0, 0>>)),
                     rootAsset |-> VmAsset(0, 1, Key("x", 2), <<>>, <<SplitRoot(sum)>>)]
  IN  [key |-> [index |-> index, asset |-> "A", key |-> Key("x", 3), amount |-> amount],
       value |-> [index |-> index,
                  asset |-> VmAsset(0, value, Key("x", 2),
                                    <<VmWitness(ZeroPrevId, <<>>, <<commitment>>)>>, <<>>)]]

MCVmSplits ==
  {Split(0, 1, 1, 2), Split(1, 1, 1, 2), Split(1, 1, 2, 2), 
   Split(0, 0, 0, 2), Split(1, 2, 2, 2)}

==============================================================================
