---------------------------- MODULE TapCommitment ----------------------------
(***************************************************************************)
(* The commitment of a Taproot output to a list of assets (src/crates/     *)
(* tap-ldk-core/src/taproot_commitment.rs): a tree of assets per group or  *)
(* asset id, and a tree of those trees.  Beside it, one tree on its own    *)
(* that is changed by insert and delete.                                   *)
(***************************************************************************)
EXTENDS Mssmt, SequencesExt

CONSTANTS
  Assets,        \* TapAssets; a script key is [x, parity], no group is <<>>
  KeyOf,         \* SHA-256 of what a tree key is made of: an injection into Keys
  TreeLeaves,    \* leaves a caller may insert into the tree
  MaxLeaves,     \* bound on the leaves of the tree
  MaxAssets      \* bound on the length of a list

ASSUME TapCommitmentAssumption ==
  /\ MaxLeaves \in Nat /\ MaxAssets \in Nat
  /\ \A h \in DOMAIN KeyOf : KeyOf[h] \in Keys
  /\ \A g, h \in DOMAIN KeyOf : KeyOf[g] = KeyOf[h] => g = h
  /\ \A leaf \in TreeLeaves : leaf = Leaf(leaf.value, leaf.sum) /\ leaf.sum \in 0 .. MaxSum

VARIABLES
  tree,     \* an MssmtTree
  assets    \* the list handed to TapCommitment::from_assets

treesVars == <<tree, assets>>

------------------------------------------------------------------------------
(* AssetCommitment *)

(* tap_commitment_key and asset_commitment_key; x_only_key drops the parity. *)
TapKey(a) == IF a.group # <<>> THEN KeyOf[<<a.group[1]>>] ELSE KeyOf[<<a.asset>>]
AssetKey(a) ==
  IF a.group # <<>> THEN KeyOf[<<a.asset, a.key.x>>] ELSE KeyOf[<<a.key.x>>]

(* What is hashed for them is in KeyOf; an amount is a u64. *)
ASSUME AssetsAssumption ==
  \A a \in Assets :
    /\ TapKey(a) \in Keys /\ AssetKey(a) \in Keys
    /\ a.amount \in 0 .. MaxSum

(* asset_leaf *)
LeafWithoutParity(a) == Leaf(<<[a EXCEPT !.key = a.key.x]>>, a.amount)
AssetLeaf(a) == Leaf(<<a>>, a.amount)

Group(list, k) == {i \in DOMAIN list : TapKey(list[i]) = k}
TapKeys(list) == {TapKey(list[i]) : i \in DOMAIN list}

(* The leaves AssetCommitment::new makes of the assets of one tap key. *)
AssetLeaves(list, k) ==
  [key \in {AssetKey(list[i]) : i \in Group(list, k)} |->
     AssetLeaf(list[CHOOSE i \in Group(list, k) : AssetKey(list[i]) = key])]

(* AssetCommitment::new succeeds. *)
AssetsCommittable(list, k) ==
  /\ \A i, j \in Group(list, k) :
       /\ list[i].type = list[j].type
       /\ AssetKey(list[i]) = AssetKey(list[j]) => i = j
  /\ Rebuildable(AssetLeaves(list, k))

Newest(versions) == CHOOSE v \in versions : \A w \in versions : w <= v

(* asset_commitment_root_identifier: the root's two children are hashed    *)
(* again, with the tap key.                                                *)
RootIdentifier(k, t) ==
  [tapKey |-> k, left |-> RootChild(t, 0).hash, right |-> RootChild(t, 1).hash,
   sum |-> Root(t).sum]

(* AssetCommitment::new *)
AssetRoot(list, k) ==
  LET t == Tree(AssetLeaves(list, k))
  IN  [version |-> Newest({list[i].version : i \in Group(list, k)}),
       identifier |-> RootIdentifier(k, t), sum |-> Root(t).sum]

------------------------------------------------------------------------------
(* TapCommitment *)

(* tap_commitment_leaf *)
TapLeaf(list, k) == Leaf(<<AssetRoot(list, k)>>, AssetRoot(list, k).sum)

TapLeaves(list) == [k \in TapKeys(list) |-> TapLeaf(list, k)]

(* from_assets succeeds. *)
Committable(list) ==
  /\ \A k \in TapKeys(list) : AssetsCommittable(list, k)
  /\ Rebuildable(TapLeaves(list))

(* The version of the commitment: the one given, or else the newest of the *)
(* assets' and 0 when there is none.                                       *)
TapVersion(given, list) ==
  IF given # <<>> THEN given[1]
  ELSE Newest({0} \cup {AssetRoot(list, k).version : k \in TapKeys(list)})

(* tap_leaf_script: the order of the version and the marker tells version  *)
(* 2 from the older ones.                                                  *)
TapLeafScript(version, root) ==
  IF version = 2 THEN <<"taproot-assets:194243", version, root>>
  ELSE <<version, "taproot-assets", root>>

(* tapscript_root: the hash of the leaf, or of the sorted pair of the leaf *)
(* and its sibling; a sibling equal to the leaf is an error.               *)
TapscriptRoot(given, list, sibling) ==
  LET leaf == <<TapLeafScript(TapVersion(given, list), Root(Tree(TapLeaves(list))))>>
  IN  {leaf} \cup ToSet(sibling)

------------------------------------------------------------------------------
(* Actions *)

NoLeaves == [k \in {} |-> k]

TreesInit == tree = Tree(NoLeaves) /\ assets = <<>>

(* insert, and delete as the insertion of an empty leaf: the tree stays as *)
(* it was when the new one cannot be built.                                *)
Insert(key, leaf) ==
  LET leaves == Inserted(tree.leaves, key, leaf)
  IN  /\ Cardinality(DOMAIN leaves) <= MaxLeaves
      /\ Rebuildable(leaves)
      /\ tree' = Tree(leaves)
      /\ UNCHANGED assets

Delete(key) == Insert(key, EmptyLeaf)

(* The caller adds an asset to its list. *)
AddAsset(a) ==
  /\ Len(assets) < MaxAssets
  /\ assets' = Append(assets, a)
  /\ UNCHANGED tree

(* The tree and the list have nothing in common: a behaviour uses one. *)
TreesNext ==
  \/ /\ assets = <<>>
     /\ \E key \in Keys : (\E leaf \in TreeLeaves : Insert(key, leaf)) \/ Delete(key)
  \/ /\ tree.leaves = NoLeaves
     /\ \E a \in Assets : AddAsset(a)

TreesSpec == TreesInit /\ [][TreesNext]_treesVars

------------------------------------------------------------------------------
(* Properties *)

(* Proofs are exact: after any insertions and deletions the proof of a key *)
(* survives its compression, and verifies against the root for the leaf    *)
(* the tree holds there, or for the empty leaf where it holds none, and    *)
(* for no other leaf; the root's sum is that of the leaves.                *)
ProofsExact ==
  /\ Root(tree).sum = SumFunction([key \in DOMAIN tree.leaves |-> tree.leaves[key].sum])
  /\ \A key \in Keys :
       LET compressed == Compress(Proof(tree, key))
       IN  /\ CompressedValid(compressed)
           /\ \A leaf \in TreeLeaves \cup {EmptyLeaf} :
                Verify(Decompress(compressed), key, leaf, Root(tree))
                  <=> leaf = Get(tree.leaves, key, EmptyLeaf)

Variants(list) ==
  {[list EXCEPT ![i] = a] : i \in DOMAIN list, a \in Assets}
    \cup {RemoveAt(list, i) : i \in DOMAIN list} \cup {Append(list, a) : a \in Assets}
    \cup {Reverse(list)}

(* The output commits to exactly its assets: a list that differs in one    *)
(* asset, in the parity of a key, in a group, a version or an amount, has  *)
(* another root, and a list in another order the same one, whether or not  *)
(* the output has another script; and the root carries the amounts' sum.   *)
TapRootBindsAssets ==
  LET roots(list) == <<TapscriptRoot(<<>>, list, <<>>),
                       TapscriptRoot(<<2>>, list, << <<"other", "script">> >>)>>
      own == roots(assets)
  IN  Committable(assets) =>
        /\ Root(Tree(TapLeaves(assets))).sum =
             SumFunction([i \in DOMAIN assets |-> assets[i].amount])
        /\ \A other \in Variants(assets) :
             Committable(other) =>
               LET theirs == roots(other)
               IN  \A i \in {1, 2} : theirs[i] = own[i] <=> ToSet(other) = ToSet(assets)

==============================================================================
