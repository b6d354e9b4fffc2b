-------------------------------- MODULE Mssmt --------------------------------
(***************************************************************************)
(* The merkle-sum sparse tree of src/crates/tap-ldk-core/src/mssmt.rs: its *)
(* levels, its proofs and their compression.  A hash is what is hashed.  A *)
(* key is the sequence of its bits, a prefix the sequence of the first of  *)
(* them (the code sets the others to zero).                                *)
(***************************************************************************)
EXTENDS Integers, Sequences, FiniteSets, Functions

CONSTANTS
  Levels,   \* MAX_TREE_LEVELS: the bits of a key (256 in the code)
  MaxSum    \* the largest sum (u64::MAX in the code)

ASSUME MssmtAssumption == Levels \in Nat \ {0} /\ MaxSum \in Nat

Keys == [1 .. Levels -> {0, 1}]

------------------------------------------------------------------------------
(* Nodes *)

(* MssmtLeaf, whose value is a sequence *)
Leaf(value, sum) == [value |-> value, sum |-> sum]
EmptyLeaf == Leaf(<<>>, 0)

(* MssmtLeaf::node *)
LeafNode(leaf) == [hash |-> [value |-> leaf.value, sum |-> leaf.sum], sum |-> leaf.sum]

(* branch_node; a sum over MaxSum is its error. *)
BranchNode(left, right) ==
  LET sum == left.sum + right.sum
  IN  [hash |-> [left |-> left.hash, right |-> right.hash, sum |-> sum], sum |-> sum]

(* empty_tree: the node of an empty subtree at each level, the root's is 0. *)
EmptyTree[d \in 0 .. Levels] ==
  IF d = Levels THEN LeafNode(EmptyLeaf)
  ELSE BranchNode(EmptyTree[d + 1], EmptyTree[d + 1])

------------------------------------------------------------------------------
(* MssmtTree *)

Get(f, k, default) == IF k \in DOMAIN f THEN f[k] ELSE default

(* The parents of a level's nodes, the ones of empty subtrees left out. *)
Parents(below, d) ==
  LET child(p, bit) == Get(below, Append(p, bit), EmptyTree[d + 1])
      node(p) == BranchNode(child(p, 0), child(p, 1))
      prefixes == {SubSeq(k, 1, d) : k \in DOMAIN below}
  IN  [p \in {q \in prefixes : node(q) # EmptyTree[d]} |-> node(p)]

(* rebuild: the levels over a map from keys to leaves. *)
LevelsOf(leaves) ==
  LET level[d \in 0 .. Levels] ==
        IF d = Levels THEN [k \in DOMAIN leaves |-> LeafNode(leaves[k])]
        ELSE Parents(level[d + 1], d)
  IN  level

(* rebuild returns AmountOverflow at the first branch that does not fit. *)
Rebuildable(leaves) ==
  LET level == LevelsOf(leaves)
  IN  \A d \in 0 .. Levels - 1 : \A p \in DOMAIN level[d] : level[d][p].sum <= MaxSum

(* MssmtTree::new and a successful rebuild *)
Tree(leaves) == [leaves |-> leaves, levels |-> LevelsOf(leaves)]

Root(tree) == Get(tree.levels[0], <<>>, EmptyTree[0])

(* root_children *)
RootChild(tree, bit) == Get(tree.levels[1], <<bit>>, EmptyTree[1])

(* insert: an empty leaf removes the key. *)
Inserted(leaves, key, leaf) ==
  IF leaf = EmptyLeaf THEN [k \in DOMAIN leaves \ {key} |-> leaves[k]]
  ELSE [k \in DOMAIN leaves \cup {key} |-> IF k = key THEN leaf ELSE leaves[k]]

------------------------------------------------------------------------------
(* MssmtProof: the siblings of the nodes on the way, the leaf's first *)

(* sibling_prefix *)
SiblingPrefix(key, d) == Append(SubSeq(key, 1, d), 1 - key[d + 1])

Proof(tree, key) ==
  [i \in 1 .. Levels |->
     LET d == Levels - i
     IN  Get(tree.levels[d + 1], SiblingPrefix(key, d), EmptyTree[d + 1])]

(* root_for *)
RootFor(siblings, key, leaf) ==
  LET above[i \in 0 .. Levels] ==
        IF i = 0 THEN LeafNode(leaf)
        ELSE IF key[Levels - i + 1] = 0 THEN BranchNode(above[i - 1], siblings[i])
        ELSE BranchNode(siblings[i], above[i - 1])
  IN  above[Levels]

(* verify *)
Verify(siblings, key, leaf, root) == RootFor(siblings, key, leaf) = root

------------------------------------------------------------------------------
(* MssmtCompressedProof: a bit for each sibling that is an empty subtree's, *)
(* and the other siblings in order                                         *)

Unset(bits, upTo) == Cardinality({i \in 1 .. upTo : ~bits[i]})

(* The siblings at the bits that are not set, in order. *)
Kept(siblings, bits) ==
  [j \in 1 .. Unset(bits, Levels) |->
     siblings[CHOOSE i \in 1 .. Levels : ~bits[i] /\ Unset(bits, i) = j]]

Compressed(siblings, bits) == [bits |-> bits, nodes |-> Kept(siblings, bits)]

CompressZeroSums(siblings) ==
  Compressed(siblings, [i \in 1 .. Levels |-> siblings[i].sum = 0])
Compress(siblings) ==
  Compressed(siblings, [i \in 1 .. Levels |-> siblings[i] = EmptyTree[Levels - i + 1]])

(* What decode and decompress accept. *)
CompressedValid(c) == Len(c.bits) = Levels /\ Unset(c.bits, Levels) = Len(c.nodes)

Decompress(c) ==
  [i \in 1 .. Levels |->
     IF c.bits[i] THEN EmptyTree[Levels - i + 1] ELSE c.nodes[Unset(c.bits, i)]]

==============================================================================
