------------------------- MODULE ProofReceiptProofs --------------------------
(***************************************************************************)
(* What happens to a proof that is received: its chunks are reassembled    *)
(* (ProofReassembler), its records replayed (ProofHistory), and the trees, *)
(* outputs and transitions it carries verified (TapVmCase).                *)
(*                                                                         *)
(* Reassembly, for every set of chunks a peer may send, of any number of   *)
(* proofs of any length.  push returns a proof whenever a new index fills  *)
(* the reassembler, and nothing resets it.  That it returns only one needs *)
(* RInv: the held indices stay below the announced count, so a full        *)
(* reassembler holds all of them and no index is ever new again.           *)
(*                                                                         *)
(* Replay, for every list of records: the maps the engine keeps in step,   *)
(* that what explains a balance is what nothing has consumed, that no      *)
(* accepted lineage rests on a refused anchor or changes its asset, and    *)
(* that a linear history conserves every asset.  All follow from the shape *)
(* of the ancestry: what a record consumes has been made before it, what   *)
(* it makes has not.  So an output gets no consumer when it is made, and a *)
(* consumer later only with a step that also marks it spent.               *)
(*                                                                         *)
(* Trees, of any depth and with any leaves.  A level leaves out the nodes  *)
(* of empty subtrees and get_or_empty puts them back, so every node above  *)
(* the leaves is the branch of its two children (NodeIsBranch).  Along a   *)
(* key that makes a tree's proof lead to its root; and since a hash names  *)
(* what was hashed, the sum included, no other leaf leads there            *)
(* (RootBindsLeaf).  A compressed proof leaves out only what decompressing *)
(* puts back (CompressionExact).                                           *)
(*                                                                         *)
(* Outputs, over any list of assets.  Equal roots have equal children, so  *)
(* equal trees (RootBindsLeaves); the leaf of an asset is in the tree of   *)
(* its list, so in that of every list with the same root.                  *)
(*                                                                         *)
(* Transitions, with any number of inputs, witnesses and splits.  There    *)
(* are as many witnesses as inputs and one is found for each of inputs     *)
(* that are all distinct, so no witness is left unchecked; and what the    *)
(* transition makes is worth its inputs in whatever order it is listed.    *)
(***************************************************************************)
EXTENDS ProofHistory, ProofReassembler, TapVmCase, FiniteSums, SequenceTheorems

(* Reassembly *)

HasReturned ==
  /\ first # <<>>
  /\ output = <<first>>
  /\ DOMAIN reassembler.chunks = 0 .. reassembler.count - 1

RInv ==
  /\ arriving \in Peers
  /\ reassembler.count \in Nat
  /\ ReassemblerTypeOK
  /\ output = <<>> \/ HasReturned

------------------------------------------------------------------------------

(* A set of n of the indices below n holds all of them.                    *)
LEMMA FullHoldsAll ==
  ASSUME NEW n \in Nat, NEW S \in SUBSET (0 .. n - 1), Cardinality(S) = n
  PROVE  S = 0 .. n - 1
<1>1. IsFiniteSet(0 .. n - 1) /\ Cardinality(0 .. n - 1) = n
  <2> DEFINE m == n - 1
  <2>1. m \in Int /\ n = m + 1
    OBVIOUS
  <2> HIDE DEF m
  <2>2. IsFiniteSet(0 .. m) /\ Cardinality(0 .. m) = IF 0 > m THEN 0 ELSE m - 0 + 1
    BY <2>1, FS_Interval
  <2>3. IsFiniteSet(0 .. m) /\ Cardinality(0 .. m) = n
    BY <2>1, <2>2
  <2> QED
    BY <2>3 DEF m
<1> QED
  BY <1>1, FS_Subset

(* Storing a chunk adds its index to those held and keeps the reassembler  *)
(* with the chunk's digest and count, which it already had or now takes.   *)
LEMMA StoredShape ==
  ASSUME RInv, NEW c \in arriving, Accepted(reassembler, c)
  PROVE  /\ Stored(reassembler, c).digest = c.digest /\ Stored(reassembler, c).count = c.count
         /\ DOMAIN Stored(reassembler, c).chunks = DOMAIN reassembler.chunks \cup {c.index}
         /\ DOMAIN Stored(reassembler, c).chunks \subseteq 0 .. c.count - 1
         /\ c.count \in Nat \ {0} /\ c.digest # <<>>
         /\ first = <<>> \/ (first = c.digest /\ reassembler.count = c.count)
<1>1. /\ c.digest # <<>> /\ c.index \in Nat /\ c.count \in Nat
      /\ c.count # 0 /\ c.index < c.count
  BY ChunkAssumption DEF RInv, Accepted, WellFormed
<1>2. /\ DOMAIN Stored(reassembler, c).chunks = DOMAIN reassembler.chunks \cup {c.index}
      /\ Stored(reassembler, c).digest = c.digest /\ Stored(reassembler, c).count = c.count
  BY DEF Stored
<1>3. first = <<>> \/ (first = c.digest /\ reassembler.count = c.count)
  BY DEF RInv, ReassemblerTypeOK, Accepted, Belongs
<1>4. DOMAIN reassembler.chunks \subseteq 0 .. c.count - 1
  <2>1. CASE first = <<>>
    BY <2>1, <1>1 DEF RInv, ReassemblerTypeOK
  <2>2. CASE reassembler.count = c.count
    BY <2>2 DEF RInv, ReassemblerTypeOK
  <2> QED
    BY <2>1, <2>2, <1>3
<1>5. c.index \in 0 .. c.count - 1
  BY <1>1
<1> QED
  BY <1>1, <1>2, <1>3, <1>4, <1>5

(* A push keeps the announcement and the held indices together.            *)
LEMMA PushKeepsType ==
  ASSUME RInv, NEW c \in arriving, Push(c)
  PROVE  ReassemblerTypeOK' /\ reassembler'.count \in Nat /\ arriving' \in Peers
<1>1. result' \in {"None", "Incomplete", "Complete", "Refused"} /\ arriving' \in Peers
  BY DEF Push, RInv
<1>2. CASE Accepted(reassembler, c)
  <2>1. reassembler' = Stored(reassembler, c) /\ first' = c.digest
    BY <1>2, StoredShape DEF Push, Pushed, Accepted
  <2> QED
    BY <1>1, <1>2, <2>1, StoredShape DEF ReassemblerTypeOK
<1>3. CASE ~Accepted(reassembler, c)
  <2>1. reassembler' = reassembler
    BY <1>3 DEF Push, Pushed
  <2>2. first' = first
    BY <1>3 DEF Push, Accepted, Belongs, RInv, ReassemblerTypeOK
  <2> QED
    BY <1>1, <2>1, <2>2 DEF RInv, ReassemblerTypeOK
<1> QED
  BY <1>2, <1>3

(* A push returns a proof only if none was returned before.                *)
LEMMA PushReturnsOnce ==
  ASSUME RInv, NEW c \in arriving, Push(c)
  PROVE  output' = <<>> \/ HasReturned'
<1>1. CASE HasReturned
  <2>1. Accepted(reassembler, c) => c.index \in DOMAIN reassembler.chunks
    BY <1>1, StoredShape DEF HasReturned
  <2>2. output' = output
    BY <2>1 DEF Push, Completes, IsNew
  <2>3. first' = first
    BY <1>1 DEF Push, HasReturned
  <2>4. CASE Accepted(reassembler, c)
    <3>1. reassembler' = Stored(reassembler, c)
      BY <2>4 DEF Push, Pushed
    <3>2. reassembler'.count = reassembler.count /\ DOMAIN reassembler'.chunks = DOMAIN reassembler.chunks
      BY <1>1, <2>1, <2>4, <3>1, StoredShape DEF HasReturned
    <3> QED
      BY <1>1, <2>2, <2>3, <3>2 DEF HasReturned
  <2>5. CASE ~Accepted(reassembler, c)
    BY <1>1, <2>2, <2>3, <2>5 DEF Push, Pushed, HasReturned
  <2> QED
    BY <2>4, <2>5
<1>2. CASE output = <<>> /\ Completes(reassembler, c)
  <2>1. Accepted(reassembler, c) /\ Full(Stored(reassembler, c)) /\ Assembled(Stored(reassembler, c)) = c.digest
    BY <1>2 DEF Completes
  <2>2. reassembler' = Stored(reassembler, c) /\ first' = c.digest
    BY <2>1, StoredShape DEF Push, Pushed, Accepted
  <2>3. output' = <<c.digest>>
    <3>1. output' = Append(<<>>, c.digest)
      BY <1>2, <2>1 DEF Push, Incomplete
    <3> QED
      BY <3>1
  <2>4. DOMAIN Stored(reassembler, c).chunks = 0 .. c.count - 1
    <3> DEFINE S == DOMAIN Stored(reassembler, c).chunks
    <3>1. S \in SUBSET (0 .. c.count - 1) /\ Cardinality(S) = c.count /\ c.count \in Nat
      BY <2>1, StoredShape DEF Full
    <3> QED
      BY <3>1, FullHoldsAll
  <2> QED
    BY <2>1, <2>2, <2>3, <2>4, StoredShape DEF HasReturned
<1>3. CASE output = <<>> /\ ~Completes(reassembler, c)
  BY <1>3 DEF Push
<1> QED
  BY <1>1, <1>2, <1>3 DEF RInv

(* Every reachable reassembler satisfies the invariant.                    *)
LEMMA ReassemblerInvariance == ReassemblySpec => []RInv
<1>1. ReassemblyInit => RInv
  BY DEF ReassemblyInit, RInv, ReassemblerTypeOK, Fresh
<1>2. RInv /\ [ReassemblyNext]_reassemblyVars => RInv'
  <2>1. ASSUME RInv, NEW c \in arriving, Push(c) PROVE RInv'
    BY <2>1, PushKeepsType, PushReturnsOnce DEF RInv
  <2>2. ASSUME RInv, UNCHANGED reassemblyVars PROVE RInv'
    BY <2>2 DEF RInv, ReassemblerTypeOK, HasReturned, reassemblyVars
  <2> QED
    BY <2>1, <2>2 DEF ReassemblyNext
<1> QED
  BY <1>1, <1>2, PTL DEF ReassemblySpec

(* The indices a reassembler holds are below the count that was announced  *)
(* with the digest, whatever damaged chunks were pushed.                   *)
THEOREM ReassemblerTypeCorrect == ReassemblySpec => []ReassemblerTypeOK
BY ReassemblerInvariance, PTL DEF RInv

(* However chunks of several proofs and damaged chunks mix, push returns   *)
(* the proof its first chunk announced or none, and returns it once.       *)
THEOREM ReturnsAnnouncedOnce == ReassemblySpec => []OutputIsAnnounced
<1>1. RInv => OutputIsAnnounced
  BY DEF RInv, HasReturned, OutputIsAnnounced
<1> QED
  BY <1>1, ReassemblerInvariance, PTL

------------------------------------------------------------------------------
(* Replay *)

(* One record *)

(* The index the engine stores an output under is an index of that id.     *)
LEMMA IndexOfOutput ==
  ASSUME NEW r, NEW o \in OutputIds(r)
  PROVE  IndexOf(r, o) \in DOMAIN r.outputs /\ r.outputs[IndexOf(r, o)].id = o
BY DEF OutputIds, IndexOf

(* A kind makes outputs in one of the four states that explain a balance.  *)
LEMMA KindsMakeLiveOutputs ==
  \A k \in Kinds : OutputState[k] \in ResultingStates
BY DEF Kinds, OutputState, ResultingStates

(* What an accepted record adds to the engine: outputs nobody has made, in *)
(* a live state, from inputs made before, all of the asset of the outputs, *)
(* and anchored where the policy allows.                                   *)
LEMMA ReplayableRecord ==
  ASSUME NEW r \in Records, Replayable(r)
  PROVE  /\ InputIds(r) \subseteq DOMAIN outputs
         /\ OutputIds(r) # {}
         /\ OutputIds(r) \cap DOMAIN outputs = {}
         /\ r.kind = "Issuance" <=> InputIds(r) = {}
         /\ \A i \in DOMAIN r.outputs :
              /\ r.outputs[i].state \in ResultingStates
              /\ AcceptsAnchorState(policy.anchors[r.outputs[i].anchor])
              /\ \A o \in InputIds(r) : outputs[o].asset = r.outputs[i].asset
BY RecordAssumption, KindsMakeLiveOutputs
   DEF Replayable, Identified, InputsAllowed, OutputsAllowed, OneAsset,
       OutputsNew, OutputsAnchored


(* The three maps after an accepted record, output by output: the new      *)
(* outputs get their explanation and the state they were made in, the old  *)
(* ones keep theirs unless the record consumes them.                       *)
LEMMA MapsAfterRecord ==
  ASSUME TypeOK, NEW r \in Records, ReplayRecord(r)
  PROVE  /\ DOMAIN outputs' = DOMAIN outputs \cup OutputIds(r)
         /\ DOMAIN states' = DOMAIN outputs'
         /\ explained' = (explained \ InputIds(r)) \cup OutputIds(r)
         /\ \A o \in DOMAIN outputs :
              /\ outputs'[o] = outputs[o]
              /\ states'[o] = IF o \in InputIds(r) THEN "Spent" ELSE states[o]
         /\ \A o \in OutputIds(r) :
              \E i \in DOMAIN r.outputs :
                /\ outputs'[o] = Explanation(r, i)
                /\ states'[o] = outputs'[o].state
<1>1. SpentBy(r) = InputIds(r)
  BY ReplayableRecord DEF ReplayRecord, SpentBy, Consumes
<1>2. OutputIds(r) \cap DOMAIN outputs = {} /\ DOMAIN states = DOMAIN outputs
  BY ReplayableRecord DEF ReplayRecord, TypeOK
<1>3. /\ DOMAIN outputs' = DOMAIN outputs \cup OutputIds(r)
      /\ DOMAIN states' = DOMAIN outputs'
  BY <1>2 DEF ReplayRecord, OutputsAfter
<1>4. explained' = (explained \ InputIds(r)) \cup OutputIds(r)
  BY <1>1 DEF ReplayRecord, ExplainedAfter
<1>5. ASSUME NEW o \in DOMAIN outputs
      PROVE  /\ outputs'[o] = outputs[o]
             /\ states'[o] = IF o \in InputIds(r) THEN "Spent" ELSE states[o]
  BY <1>1, <1>2 DEF ReplayRecord, OutputsAfter
<1>6. ASSUME NEW o \in OutputIds(r)
      PROVE  \E i \in DOMAIN r.outputs :
               outputs'[o] = Explanation(r, i) /\ states'[o] = outputs'[o].state
  <2>1. /\ outputs'[o] = Explanation(r, IndexOf(r, o))
        /\ states'[o] = r.outputs[IndexOf(r, o)].state
    BY DEF ReplayRecord, OutputsAfter
  <2>2. IndexOf(r, o) \in DOMAIN r.outputs
    BY IndexOfOutput
  <2> QED BY <2>1, <2>2 DEF Explanation
<1> QED BY <1>3, <1>4, <1>5, <1>6

-----------------------------------------------------------------------------
(* The engine's maps *)

LEMMA InitTyped == Init => TypeOK
BY DEF Init, TypeOK

LEMMA RecordKeepsTypes ==
  ASSUME TypeOK, NEW r \in Records, ReplayRecord(r)
  PROVE  TypeOK'
<1>1. /\ InputIds(r) \subseteq DOMAIN outputs
      /\ OutputIds(r) \cap DOMAIN outputs = {}
  BY ReplayableRecord DEF ReplayRecord
<1>2. OutputIds(r) \subseteq Ids
  BY DEF Ids
<1>3. /\ DOMAIN outputs' \subseteq Ids
      /\ DOMAIN states' = DOMAIN outputs'
      /\ explained' \subseteq DOMAIN outputs'
  BY <1>2, MapsAfterRecord DEF TypeOK
<1>4. seen' \subseteq {rec.id : rec \in Records}
  BY DEF TypeOK, ReplayRecord
<1>5. ASSUME NEW o \in DOMAIN outputs'
      PROVE  /\ outputs'[o].state \in ResultingStates
             /\ outputs'[o].prior \subseteq DOMAIN outputs'
             /\ states'[o] \in {"Spent", outputs'[o].state}
  <2>1. CASE o \in DOMAIN outputs
    BY <2>1, MapsAfterRecord DEF TypeOK
  <2>2. CASE o \in OutputIds(r)
    <3>1. PICK i \in DOMAIN r.outputs :
            outputs'[o] = Explanation(r, i) /\ states'[o] = outputs'[o].state
      BY <2>2, MapsAfterRecord
    <3>2. outputs'[o].state = r.outputs[i].state /\ outputs'[o].prior = InputIds(r)
      BY <3>1 DEF Explanation
    <3>3. r.outputs[i].state \in ResultingStates
      BY ReplayableRecord DEF ReplayRecord
    <3> QED BY <1>1, <3>1, <3>2, <3>3, MapsAfterRecord
  <2> QED BY <2>1, <2>2, MapsAfterRecord
<1>6. /\ policy' \in [anchors : [Anchors -> AnchorStates], acceptPending : BOOLEAN]
      /\ failed' \in BOOLEAN
  BY DEF TypeOK, ReplayRecord
<1> QED BY <1>3, <1>4, <1>5, <1>6 DEF TypeOK

(* A refusal drops everything the call has built. *)
LEMMA RefusalKeepsTypes ==
  ASSUME TypeOK, NEW r \in Records, RefuseRecord(r)
  PROVE  TypeOK' /\ DOMAIN outputs' = {}
BY DEF TypeOK, RefuseRecord

LEMMA StepKeepsTypes == TypeOK /\ [Next]_vars => TypeOK'
<1> SUFFICES ASSUME TypeOK, [Next]_vars PROVE TypeOK'
  OBVIOUS
<1>1. CASE UNCHANGED vars
  BY <1>1 DEF vars, TypeOK
<1>2. CASE Next
  BY <1>2, RecordKeepsTypes, RefusalKeepsTypes DEF Next
<1> QED BY <1>1, <1>2

(* The maps of the engine (outputs, their states, explanations, updated at *)
(* different places of the loop) stay in step through any list of records, *)
(* and every input an output records has been made by the same call.       *)
THEOREM ReplayTypeCorrect == Spec => []TypeOK
BY InitTyped, StepKeepsTypes, PTL DEF Spec

-----------------------------------------------------------------------------
(* What explains a balance *)

(* The consumers of an output after an accepted record: the earlier ones,  *)
(* and the record itself if the output is among its inputs.                *)
LEMMA ConsumersAfterRecord ==
  ASSUME TypeOK, NEW r \in Records, ReplayRecord(r), NEW o
  PROVE  Consumers(o)' # {} <=> Consumers(o) # {} \/ o \in InputIds(r)
<1>1. Consumers(o) # {} <=> \E p \in DOMAIN outputs : o \in outputs[p].prior
  BY DEF Consumers
<1>2. Consumers(o)' # {} <=> \E p \in DOMAIN outputs' : o \in outputs'[p].prior
  BY DEF Consumers
<1>3. ASSUME NEW p \in OutputIds(r) PROVE outputs'[p].prior = InputIds(r)
  <2>1. PICK i \in DOMAIN r.outputs : outputs'[p] = Explanation(r, i)
    BY MapsAfterRecord
  <2> QED BY <2>1 DEF Explanation
<1>4. OutputIds(r) # {}
  BY ReplayableRecord DEF ReplayRecord
<1> QED BY <1>1, <1>2, <1>3, <1>4, MapsAfterRecord

LEMMA RecordKeepsExplained ==
  ASSUME TypeOK, ExplainedIffUnspent, NEW r \in Records, ReplayRecord(r)
  PROVE  ExplainedIffUnspent'
<1> SUFFICES ASSUME NEW o \in DOMAIN outputs'
             PROVE  /\ o \in explained' <=> Consumers(o)' = {}
                    /\ states'[o] = "Spent" <=> Consumers(o)' # {}
  BY DEF ExplainedIffUnspent
<1>1. Consumers(o)' # {} <=> Consumers(o) # {} \/ o \in InputIds(r)
  BY ConsumersAfterRecord
<1>2. OutputIds(r) \cap DOMAIN outputs = {} /\ InputIds(r) \subseteq DOMAIN outputs
  BY ReplayableRecord DEF ReplayRecord
<1>3. CASE o \in DOMAIN outputs
  BY <1>1, <1>2, <1>3, MapsAfterRecord DEF ExplainedIffUnspent
<1>4. CASE o \in OutputIds(r)
  <2>1. Consumers(o) = {}
    BY <1>2, <1>4 DEF TypeOK, Consumers
  <2>2. outputs'[o].state \in ResultingStates /\ states'[o] = outputs'[o].state
    BY <1>4, RecordKeepsTypes, MapsAfterRecord DEF TypeOK
  <2>3. states'[o] # "Spent"
    BY <2>2 DEF ResultingStates
  <2> QED BY <1>1, <1>2, <1>4, <2>1, <2>3, MapsAfterRecord
<1> QED BY <1>3, <1>4, MapsAfterRecord

(* An output is never both spendable and spent: through any list of        *)
(* records, in any order and of any kinds, the explanations are exactly    *)
(* the outputs that no accepted record has consumed, and output_state      *)
(* calls exactly the others spent.                                         *)
THEOREM ExplainsOnlyUnspent == Spec => []ExplainedIffUnspent
<1>1. Init => ExplainedIffUnspent
  BY DEF Init, ExplainedIffUnspent
<1>2. TypeOK /\ ExplainedIffUnspent /\ [Next]_vars => ExplainedIffUnspent'
  <2> SUFFICES ASSUME TypeOK, ExplainedIffUnspent, [Next]_vars
               PROVE  ExplainedIffUnspent'
    OBVIOUS
  <2>1. CASE UNCHANGED vars
    BY <2>1 DEF vars, ExplainedIffUnspent, Consumers
  <2>2. ASSUME NEW r \in Records, RefuseRecord(r) PROVE ExplainedIffUnspent'
    BY <2>2, RefusalKeepsTypes DEF ExplainedIffUnspent
  <2>3. CASE Next
    BY <2>2, <2>3, RecordKeepsExplained DEF Next
  <2> QED BY <2>1, <2>3
<1> QED BY <1>1, <1>2, ReplayTypeCorrect, PTL DEF Spec

-----------------------------------------------------------------------------
(* The lineage of an output *)

LEMMA RecordKeepsAncestry ==
  ASSUME TypeOK, AncestryAccepted, NEW r \in Records, ReplayRecord(r)
  PROVE  AncestryAccepted'
<1> SUFFICES ASSUME NEW o \in DOMAIN outputs'
             PROVE  /\ AcceptsAnchorState(policy.anchors[outputs'[o].anchor])
                    /\ \A p \in outputs'[o].prior :
                         outputs'[p].asset = outputs'[o].asset
  BY DEF AncestryAccepted, AcceptsAnchorState, ReplayRecord
<1>1. CASE o \in DOMAIN outputs
  <2>1. outputs[o].prior \subseteq DOMAIN outputs
    BY <1>1 DEF TypeOK
  <2>2. /\ AcceptsAnchorState(policy.anchors[outputs[o].anchor])
        /\ \A p \in outputs[o].prior : outputs[p].asset = outputs[o].asset
    BY <1>1 DEF AncestryAccepted, AcceptsAnchorState
  <2>3. outputs'[o] = outputs[o] /\ \A p \in outputs[o].prior : outputs'[p] = outputs[p]
    BY <1>1, <2>1, MapsAfterRecord
  <2> QED BY <2>2, <2>3
<1>2. CASE o \in OutputIds(r)
  <2>1. PICK i \in DOMAIN r.outputs : outputs'[o] = Explanation(r, i)
    BY <1>2, MapsAfterRecord
  <2>2. /\ outputs'[o].anchor = r.outputs[i].anchor
        /\ outputs'[o].asset = r.outputs[i].asset
        /\ outputs'[o].prior = InputIds(r)
    BY <2>1 DEF Explanation
  <2>3. /\ AcceptsAnchorState(policy.anchors[r.outputs[i].anchor])
        /\ InputIds(r) \subseteq DOMAIN outputs
        /\ \A p \in InputIds(r) : outputs[p].asset = r.outputs[i].asset
    BY ReplayableRecord DEF ReplayRecord
  <2> QED BY <2>2, <2>3, MapsAfterRecord
<1> QED BY <1>1, <1>2, MapsAfterRecord

(* No output is accepted on an unknown, stale or reorged anchor, or on a   *)
(* pending one without the caller's consent, and every output has the      *)
(* asset of what it comes from: as its ancestors are outputs of the same   *)
(* call, the whole lineage is anchored and of one asset.                   *)
THEOREM LineageAccepted == Spec => []AncestryAccepted
<1>1. Init => AncestryAccepted
  BY DEF Init, AncestryAccepted
<1>2. TypeOK /\ AncestryAccepted /\ [Next]_vars => AncestryAccepted'
  <2> SUFFICES ASSUME TypeOK, AncestryAccepted, [Next]_vars
               PROVE  AncestryAccepted'
    OBVIOUS
  <2>1. CASE UNCHANGED vars
    BY <2>1 DEF vars, AncestryAccepted
  <2>2. ASSUME NEW r \in Records, RefuseRecord(r) PROVE AncestryAccepted'
    BY <2>2, RefusalKeepsTypes DEF AncestryAccepted
  <2>3. CASE Next
    BY <2>2, <2>3, RecordKeepsAncestry DEF Next
  <2> QED BY <2>1, <2>3
<1> QED BY <1>1, <1>2, ReplayTypeCorrect, PTL DEF Spec

-----------------------------------------------------------------------------
(* What the explanations add up to *)

(* The records seen name every output, and the maps are finite. *)
CountInv ==
  /\ IsFiniteSet(DOMAIN outputs) /\ IsFiniteSet(seen)
  /\ \A o \in DOMAIN outputs :
       outputs[o].record \in seen /\ outputs[o].amount \in Nat

(* The members of S of the asset a, and what they are worth, for the maps  *)
(* of any state.                                                           *)
OfAsset(outs, S, a) == {o \in S : outs[o].asset = a}
Worth(outs) == [o \in DOMAIN outs |-> outs[o].amount]

LEMMA TotalIsSum ==
  ASSUME NEW outs, IsFiniteSet(DOMAIN outs), NEW S \in SUBSET DOMAIN outs, NEW a
  PROVE  SumFunction([o \in {p \in S : outs[p].asset = a} |-> outs[o].amount])
           = SumFunctionOnSet(Worth(outs), OfAsset(outs, S, a))
<1> DEFINE T == OfAsset(outs, S, a)
           f == [o \in T |-> outs[o].amount]
<1>1. IsFiniteSet(T)
  BY FS_Subset DEF OfAsset
<1>2. \A o \in T : f[o] = Worth(outs)[o]
  BY DEF OfAsset, Worth
<1>3. SumFunctionOnSet(f, T) = SumFunctionOnSet(Worth(outs), T)
  <2> HIDE DEF f, T
  <2> QED BY <1>1, <1>2, SumAgrees
<1>4. DOMAIN f = T /\ f = [o \in {p \in S : outs[p].asset = a} |-> outs[o].amount]
  BY DEF OfAsset
<1> HIDE DEF f, T
<1> QED BY <1>3, <1>4, Zenon DEF SumFunction, T

(* An accepted record that consumes an output a second time shows in       *)
(* Consumers: in a linear history its inputs still explain a balance.      *)
LEMMA LinearConsumesExplained ==
  ASSUME TypeOK, CountInv, ExplainedIffUnspent, NEW r \in Records, ReplayRecord(r),
         Linear'
  PROVE  Linear /\ InputIds(r) \subseteq explained
<1>1. ASSUME NEW o \in DOMAIN outputs
      PROVE  /\ Consumers(o) \subseteq Consumers(o)' /\ Consumers(o) \subseteq seen
             /\ o \in InputIds(r) => r.id \in Consumers(o)'
             /\ o \in DOMAIN outputs' /\ IsFiniteSet(Consumers(o)')
  <2>1. Consumers(o) \subseteq Consumers(o)'
    <3> SUFFICES ASSUME NEW p \in DOMAIN outputs, o \in outputs[p].prior
                 PROVE  outputs[p].record \in Consumers(o)'
      BY DEF Consumers
    <3>1. p \in DOMAIN outputs' /\ outputs'[p] = outputs[p]
      BY MapsAfterRecord
    <3> QED BY <3>1 DEF Consumers
  <2>2. Consumers(o) \subseteq seen
    BY DEF Consumers, CountInv
  <2>3. ASSUME o \in InputIds(r) PROVE r.id \in Consumers(o)'
    <3>1. PICK p \in OutputIds(r) : TRUE
      BY ReplayableRecord DEF ReplayRecord
    <3>2. PICK i \in DOMAIN r.outputs : outputs'[p] = Explanation(r, i)
      BY MapsAfterRecord
    <3>3. outputs'[p].record = r.id /\ outputs'[p].prior = InputIds(r)
      BY <3>2 DEF Explanation
    <3>4. p \in DOMAIN outputs'
      BY <3>1, MapsAfterRecord
    <3> QED BY <2>3, <3>3, <3>4 DEF Consumers
  <2>4. IsFiniteSet(Consumers(o)')
    <3>1. \A p \in DOMAIN outputs' : outputs'[p].record \in seen \cup {r.id}
      <4> SUFFICES ASSUME NEW p \in OutputIds(r) PROVE outputs'[p].record = r.id
        BY MapsAfterRecord DEF CountInv
      <4>1. PICK i \in DOMAIN r.outputs : outputs'[p] = Explanation(r, i)
        BY MapsAfterRecord
      <4> QED BY <4>1 DEF Explanation
    <3>2. Consumers(o)' \subseteq seen \cup {r.id}
      BY <3>1 DEF Consumers
    <3>3. IsFiniteSet(seen \cup {r.id})
      BY FS_AddElement DEF CountInv
    <3> QED BY <3>2, <3>3, FS_Subset
  <2> QED BY <2>1, <2>2, <2>3, <2>4, MapsAfterRecord
<1>2. Linear
  <2> SUFFICES ASSUME NEW o \in DOMAIN outputs PROVE Cardinality(Consumers(o)) <= 1
    BY DEF Linear
  <2> DEFINE C == Consumers(o)
             D == Consumers(o)'
  <2>1. C \in SUBSET D /\ IsFiniteSet(D) /\ Cardinality(D) <= 1
    BY <1>1 DEF Linear
  <2>2. Cardinality(C) <= Cardinality(D) /\ IsFiniteSet(C)
    <3> HIDE DEF C, D
    <3> QED BY <2>1, FS_Subset
  <2>3. Cardinality(C) \in Nat /\ Cardinality(D) \in Nat
    BY <2>1, <2>2, FS_CardinalityType
  <2> QED BY <2>1, <2>2, <2>3
<1>3. ASSUME NEW o \in InputIds(r) PROVE o \in explained
  <2>1. o \in DOMAIN outputs
    BY ReplayableRecord DEF ReplayRecord
  <2>2. r.id \notin seen
    BY DEF ReplayRecord, Replayable, Identified
  <2>3. Cardinality(Consumers(o)') <= 1
    BY <1>1, <2>1 DEF Linear
  <2>4. \A c \in Consumers(o) : c = r.id
    BY <1>1, <2>1, <2>3, AtMostOne
  <2>5. Consumers(o) = {}
    BY <1>1, <2>1, <2>2, <2>4
  <2> QED BY <2>1, <2>5 DEF ExplainedIffUnspent
<1> QED BY <1>2, <1>3

(* What a record makes is worth the total of its outputs, what it consumes *)
(* the total of its inputs.                                                *)
LEMMA RecordTotals ==
  ASSUME TypeOK, CountInv, NEW r \in Records, ReplayRecord(r)
  PROVE  /\ IsFiniteSet(OutputIds(r))
         /\ \A o \in OutputIds(r) : Worth(outputs')[o] \in Nat
         /\ \A o \in DOMAIN outputs : Worth(outputs')[o] = Worth(outputs)[o]
         /\ SumFunctionOnSet(Worth(outputs'), OutputIds(r)) = OutputTotal(r)
         /\ SumFunctionOnSet(Worth(outputs'), InputIds(r)) = InputTotal(r)
<1> DEFINE W == Worth(outputs')
           f == [i \in DOMAIN r.outputs |-> r.outputs[i].amount]
           h == [i \in DOMAIN r.outputs |-> r.outputs[i].id]
<1>1. IsFiniteSet(DOMAIN r.outputs) /\ \A i \in DOMAIN r.outputs : r.outputs[i].amount \in Nat
  BY RecordAssumption
<1>2. OutputIds(r) = {h[i] : i \in DOMAIN r.outputs}
  BY DEF OutputIds
<1>3. \A i, j \in DOMAIN r.outputs : h[i] = h[j] => i = j
  BY DEF ReplayRecord, Replayable, OutputsAllowed
<1>4. ASSUME NEW i \in DOMAIN r.outputs PROVE W[h[i]] = f[i]
  <2>0. DOMAIN outputs' = DOMAIN outputs \cup OutputIds(r)
    BY MapsAfterRecord
  <2>1. h[i] \in OutputIds(r) /\ h[i] \in DOMAIN outputs'
    BY <1>2, <2>0
  <2>2. IndexOf(r, h[i]) = i
    BY <1>3, <2>1, IndexOfOutput
  <2>3. outputs'[h[i]] = Explanation(r, i)
    <3>1. outputs'[h[i]] = Explanation(r, IndexOf(r, h[i]))
      BY <2>1 DEF ReplayRecord, OutputsAfter
    <3> QED BY <2>2, <3>1
  <2> QED BY <2>1, <2>3 DEF Worth, Explanation
<1>5. \A i \in DOMAIN r.outputs : f[i] \in Nat /\ W[h[i]] \in Int
  BY <1>1, <1>4
<1>6. IsFiniteSet(OutputIds(r)) /\ \A o \in OutputIds(r) : W[o] \in Nat
  <2>1. IsFiniteSet({h[i] : i \in DOMAIN r.outputs})
    <3> HIDE DEF h
    <3> QED BY <1>1, ImageFinite
  <2> QED BY <1>2, <1>4, <1>5, <2>1
<1>7. SumFunctionOnSet(f, DOMAIN r.outputs) = SumFunctionOnSet(W, {h[i] : i \in DOMAIN r.outputs})
  <2> HIDE DEF f, h, W
  <2> QED BY <1>1, <1>3, <1>4, <1>5, SumReindex
<1>8. SumFunctionOnSet(W, OutputIds(r)) = OutputTotal(r)
  BY <1>2, <1>7 DEF OutputTotal, SumFunction
<1>9. ASSUME NEW o \in DOMAIN outputs PROVE W[o] = Worth(outputs)[o]
  BY MapsAfterRecord DEF Worth
<1>10. SumFunctionOnSet(W, InputIds(r)) = InputTotal(r)
  <2> DEFINE g == [o \in InputIds(r) |-> outputs[o].amount]
  <2>1. InputIds(r) \subseteq DOMAIN outputs /\ IsFiniteSet(InputIds(r))
    BY ReplayableRecord, FS_Subset DEF ReplayRecord, CountInv
  <2>2. \A o \in InputIds(r) : W[o] = g[o]
    BY <1>9, <2>1 DEF Worth
  <2>3. SumFunctionOnSet(W, InputIds(r)) = SumFunctionOnSet(g, InputIds(r))
    <3> HIDE DEF g, W
    <3> QED BY <2>1, <2>2, SumAgrees
  <2> QED BY <2>3 DEF InputTotal, SumFunction
<1> QED BY <1>6, <1>8, <1>9, <1>10

(* An accepted record takes out of the explanations what it puts in, asset *)
(* by asset, unless it issues.                                             *)
LEMMA RecordConserves ==
  ASSUME TypeOK, CountInv, NEW r \in Records, ReplayRecord(r),
         InputIds(r) \subseteq explained, NEW a,
         Total(explained, a) = Total(Issued, a)
  PROVE  Total(explained, a)' = Total(Issued, a)'
<1> DEFINE W == Worth(outputs')
           Of(S) == OfAsset(outputs', S, a)
           I == InputIds(r)
           O == OutputIds(r)
<1>1. /\ DOMAIN outputs' = DOMAIN outputs \cup O
      /\ explained' = (explained \ I) \cup O
      /\ \A o \in DOMAIN outputs : outputs'[o] = outputs[o]
  BY MapsAfterRecord
<1>2. /\ explained \subseteq DOMAIN outputs /\ I \subseteq DOMAIN outputs
      /\ O \cap DOMAIN outputs = {} /\ Issued \subseteq DOMAIN outputs
      /\ I \subseteq explained
  BY ReplayableRecord DEF ReplayRecord, TypeOK, Issued
<1>3. ASSUME NEW o \in O
      PROVE  \E i \in DOMAIN r.outputs :
               outputs'[o].kind = r.kind /\ outputs'[o].asset = r.outputs[i].asset
  <2>1. PICK i \in DOMAIN r.outputs : outputs'[o] = Explanation(r, i)
    BY MapsAfterRecord
  <2> QED BY <2>1 DEF Explanation
<1>4. Issued' = Issued \cup {o \in O : r.kind = "Issuance"}
  BY <1>1, <1>3 DEF Issued
<1>5. /\ IsFiniteSet(DOMAIN outputs) /\ IsFiniteSet(DOMAIN outputs')
      /\ IsFiniteSet(O)
  BY <1>1, RecordTotals, FS_Union DEF CountInv
<1>6. \A o \in DOMAIN outputs' : W[o] \in Nat
  BY <1>1, RecordTotals DEF CountInv, Worth
<1>7. ASSUME NEW S \in SUBSET DOMAIN outputs'
      PROVE  IsFiniteSet(Of(S)) /\ SumFunctionOnSet(W, Of(S)) \in Nat
  <2>1. Of(S) \subseteq DOMAIN outputs'
    BY DEF OfAsset
  <2>2. IsFiniteSet(Of(S))
    BY <1>5, <2>1, FS_Subset
  <2> HIDE DEF W, Of
  <2> QED BY <1>6, <2>1, <2>2, SumNat
<1>8. ASSUME NEW S \in SUBSET DOMAIN outputs, NEW T \in SUBSET DOMAIN outputs', S \cap T = {}
      PROVE  SumFunctionOnSet(W, Of(S \cup T)) =
               SumFunctionOnSet(W, Of(S)) + SumFunctionOnSet(W, Of(T))
  <2>1. Of(S \cup T) = Of(S) \cup Of(T) /\ Of(S) \cap Of(T) = {}
    BY <1>8 DEF OfAsset
  <2>2. IsFiniteSet(Of(S)) /\ IsFiniteSet(Of(T))
    BY <1>1, <1>7
  <2>3. \A o \in Of(S) \cup Of(T) : W[o] \in Int
    BY <1>1, <1>6 DEF OfAsset
  <2> HIDE DEF W, Of
  <2> QED BY <2>1, <2>2, <2>3, SumUnion
<1>9. ASSUME NEW S \in SUBSET DOMAIN outputs
      PROVE  SumFunctionOnSet(Worth(outputs), OfAsset(outputs, S, a))
               = SumFunctionOnSet(W, Of(S))
  <2>1. OfAsset(outputs, S, a) = Of(S)
    BY <1>1 DEF OfAsset
  <2>2. IsFiniteSet(Of(S)) /\ \A o \in Of(S) : Worth(outputs)[o] = W[o]
    BY <1>1, <1>7, RecordTotals DEF OfAsset
  <2> HIDE DEF W, Of
  <2> QED BY <2>1, <2>2, SumAgrees
<1>10. SumFunctionOnSet(W, Of(explained)) = SumFunctionOnSet(W, Of(Issued))
  <2>1. Total(explained, a) = SumFunctionOnSet(Worth(outputs), OfAsset(outputs, explained, a))
    BY <1>2, <1>5, TotalIsSum DEF Total
  <2>2. Total(Issued, a) = SumFunctionOnSet(Worth(outputs), OfAsset(outputs, Issued, a))
    BY <1>2, <1>5, TotalIsSum DEF Total
  <2> HIDE DEF W, Of
  <2> QED BY <1>2, <1>9, <2>1, <2>2
<1>11. /\ Total(explained, a)' = SumFunctionOnSet(W, Of(explained'))
       /\ Total(Issued, a)' = SumFunctionOnSet(W, Of(Issued'))
  <2>1. explained' \subseteq DOMAIN outputs' /\ Issued' \subseteq DOMAIN outputs'
    BY <1>1, <1>2 DEF Issued
  <2> QED BY <1>5, <2>1, TotalIsSum DEF Total
<1>12. /\ SumFunctionOnSet(W, Of(explained)) =
             SumFunctionOnSet(W, Of(explained \ I)) + SumFunctionOnSet(W, Of(I))
       /\ SumFunctionOnSet(W, Of(explained')) =
             SumFunctionOnSet(W, Of(explained \ I)) + SumFunctionOnSet(W, Of(O))
  <2>1. /\ (explained \ I) \cup I = explained /\ (explained \ I) \cap I = {}
        /\ (explained \ I) \cap O = {} /\ explained \ I \in SUBSET DOMAIN outputs
        /\ I \in SUBSET DOMAIN outputs' /\ O \in SUBSET DOMAIN outputs'
    BY <1>1, <1>2
  <2> HIDE DEF W, Of, I, O
  <2> QED BY <1>1, <1>8, <2>1
<1>13. CASE r.kind = "Issuance"
  <2>1. I = {} /\ Issued' = Issued \cup O /\ Issued \cap O = {}
    BY <1>2, <1>4, <1>13, ReplayableRecord DEF ReplayRecord
  <2>2. SumFunctionOnSet(W, Of(Issued')) =
          SumFunctionOnSet(W, Of(Issued)) + SumFunctionOnSet(W, Of(O))
    <3>1. Issued \in SUBSET DOMAIN outputs /\ O \in SUBSET DOMAIN outputs'
      BY <1>1, <1>2
    <3> HIDE DEF W, Of, I, O
    <3> QED BY <1>8, <2>1, <3>1
  <2>3. SumFunctionOnSet(W, Of(I)) = 0
    <3>1. Of(I) = {}
      BY <2>1 DEF OfAsset
    <3> HIDE DEF W, Of, I
    <3> QED BY <3>1, SumEmpty
  <2>4. SumFunctionOnSet(W, Of(explained \ I)) \in Nat
    <3>1. explained \ I \in SUBSET DOMAIN outputs'
      BY <1>1, <1>2
    <3> HIDE DEF W, Of, I
    <3> QED BY <1>7, <3>1
  <2> DEFINE e == SumFunctionOnSet(W, Of(explained \ I))
             o == SumFunctionOnSet(W, Of(O))
             s == SumFunctionOnSet(W, Of(Issued))
  <2>5. e \in Nat /\ s = e + 0
    BY <1>10, <1>12, <2>3, <2>4
  <2>6. s = e
    <3> HIDE DEF e, s
    <3> QED BY <2>5
  <2>7. SumFunctionOnSet(W, Of(explained')) = e + o /\ SumFunctionOnSet(W, Of(Issued')) = s + o
    BY <1>12, <2>2
  <2> HIDE DEF e, o, s
  <2> QED BY <1>11, <2>6, <2>7
<1>14. CASE r.kind # "Issuance"
  <2>1. Issued' = Issued
    BY <1>4, <1>14
  <2>2. SumFunctionOnSet(W, I) = SumFunctionOnSet(W, O)
    BY <1>14, RecordTotals DEF ReplayRecord, Replayable, Balanced
  <2>3. PICK o \in I : TRUE
    BY <1>14, ReplayableRecord DEF ReplayRecord
  <2>4. /\ \A p \in I : outputs'[p].asset = outputs'[o].asset
        /\ \A p \in O : outputs'[p].asset = outputs'[o].asset
    <3>1. \A p \in I : outputs[p].asset = outputs[o].asset
      <4>1. PICK q \in O : TRUE
        BY ReplayableRecord DEF ReplayRecord
      <4>2. PICK i \in DOMAIN r.outputs : outputs'[q].asset = r.outputs[i].asset
        BY <1>3, <4>1
      <4> QED BY <2>3, ReplayableRecord DEF ReplayRecord, Replayable, OneAsset
    <3>2. \A p \in O : outputs'[p].asset = outputs[o].asset
      BY <1>3, <2>3, ReplayableRecord DEF ReplayRecord
    <3> QED BY <1>1, <1>2, <2>3, <3>1, <3>2
  <2>5. SumFunctionOnSet(W, Of(I)) = SumFunctionOnSet(W, Of(O))
    <3>1. CASE outputs'[o].asset = a
      <4>1. Of(I) = I /\ Of(O) = O
        BY <2>4, <3>1 DEF OfAsset
      <4> QED BY <2>2, <4>1
    <3>2. CASE outputs'[o].asset # a
      <4>1. Of(I) = {} /\ Of(O) = {}
        BY <2>4, <3>2 DEF OfAsset
      <4> QED BY <4>1
    <3> QED BY <3>1, <3>2
  <2> HIDE DEF W, Of, I, O
  <2> QED BY <1>10, <1>11, <1>12, <2>1, <2>5
<1> QED BY <1>13, <1>14

LInv ==
  CountInv /\ (Linear => \A a : Total(explained, a) = Total(Issued, a))

LEMMA LInvStep == TypeOK /\ ExplainedIffUnspent /\ LInv /\ [Next]_vars => LInv'
<1> SUFFICES ASSUME TypeOK, ExplainedIffUnspent, LInv, [Next]_vars PROVE LInv'
  OBVIOUS
<1>1. CASE UNCHANGED vars
  <2>1. outputs' = outputs /\ seen' = seen /\ explained' = explained
    BY <1>1 DEF vars
  <2>2. CountInv' = CountInv
    BY <2>1 DEF CountInv
  <2>3. Linear' = Linear
    BY <2>1 DEF Linear, Consumers
  <2>4. ASSUME NEW a
        PROVE  Total(explained, a)' = Total(explained, a) /\ Total(Issued, a)' = Total(Issued, a)
    BY <2>1 DEF Total, Issued
  <2> QED BY <2>2, <2>3, <2>4 DEF LInv
<1>2. ASSUME NEW r \in Records, RefuseRecord(r) PROVE LInv'
  <2>1. DOMAIN outputs' = {} /\ seen' = {} /\ explained' = {}
    BY <1>2 DEF RefuseRecord
  <2>2. Issued' = {}
    BY <2>1 DEF Issued
  <2>3. CountInv'
    BY <2>1, FS_EmptySet DEF CountInv
  <2>4. ASSUME NEW a PROVE Total(explained, a)' = Total(Issued, a)'
    BY <2>1, <2>2 DEF Total
  <2> QED BY <2>3, <2>4 DEF LInv
<1>3. ASSUME NEW r \in Records, ReplayRecord(r) PROVE LInv'
  <2>1. CountInv'
    <3>1. IsFiniteSet(DOMAIN outputs') /\ IsFiniteSet(seen')
      <4>1. DOMAIN outputs' = DOMAIN outputs \cup OutputIds(r) /\ seen' = seen \cup {r.id}
        BY <1>3, MapsAfterRecord DEF ReplayRecord
      <4>2. IsFiniteSet(OutputIds(r)) /\ IsFiniteSet(DOMAIN outputs) /\ IsFiniteSet(seen)
        BY <1>3, RecordTotals DEF LInv, CountInv
      <4>3. IsFiniteSet(DOMAIN outputs \cup OutputIds(r))
        BY <4>2, FS_Union
      <4>4. IsFiniteSet(seen \cup {r.id})
        BY <4>2, FS_AddElement
      <4> QED BY <4>1, <4>3, <4>4
    <3>2. ASSUME NEW o \in DOMAIN outputs'
          PROVE  outputs'[o].record \in seen' /\ outputs'[o].amount \in Nat
      <4>1. CASE o \in DOMAIN outputs
        BY <1>3, <4>1, MapsAfterRecord DEF LInv, CountInv, ReplayRecord
      <4>2. CASE o \in OutputIds(r)
        <5>1. PICK i \in DOMAIN r.outputs : outputs'[o] = Explanation(r, i)
          BY <1>3, <4>2, MapsAfterRecord
        <5>2. outputs'[o].record = r.id /\ outputs'[o].amount = r.outputs[i].amount
          BY <5>1 DEF Explanation
        <5>3. r.outputs[i].amount \in Nat
          BY RecordAssumption
        <5> QED BY <1>3, <5>2, <5>3 DEF ReplayRecord
      <4> QED BY <1>3, <4>1, <4>2, MapsAfterRecord
    <3> QED BY <3>1, <3>2 DEF CountInv
  <2>2. ASSUME Linear', NEW a PROVE Total(explained, a)' = Total(Issued, a)'
    <3>1. Linear /\ InputIds(r) \subseteq explained
      BY <1>3, <2>2, LinearConsumesExplained DEF LInv
    <3> QED BY <1>3, <3>1, RecordConserves DEF LInv
  <2> QED BY <2>1, <2>2 DEF LInv
<1> QED BY <1>1, <1>2, <1>3 DEF Next

(* Replay neither creates nor destroys an asset: after any list of splits, *)
(* transfers, channel steps, closes, sweeps and exports that consumes no   *)
(* output twice, the explained outputs of each asset are worth exactly     *)
(* what the issuances of the list made of it.                              *)
THEOREM LinearReplayConserves == Spec => []LinearHistoryConserves
<1>1. Init => LInv
  <2> SUFFICES ASSUME Init PROVE LInv
    OBVIOUS
  <2>1. DOMAIN outputs = {} /\ seen = {} /\ explained = {}
    BY DEF Init
  <2>2. Issued = {}
    BY <2>1 DEF Issued
  <2> QED BY <2>1, <2>2, FS_EmptySet DEF LInv, CountInv
<1>2. LInv => LinearHistoryConserves
  BY DEF LInv, LinearHistoryConserves
<1> QED BY <1>1, <1>2, LInvStep, ReplayTypeCorrect, ExplainsOnlyUnspent, PTL DEF Spec

------------------------------------------------------------------------------
(* Trees: the nodes of empty subtrees, from the leaves up *)

EmptyTo(f, n) ==
  f = [d \in Levels - n .. Levels |->
         IF d = Levels THEN LeafNode(EmptyLeaf) ELSE BranchNode(f[d + 1], f[d + 1])]

LEMMA EmptyExists == \A n \in Nat : \E f : EmptyTo(f, n)
<1> DEFINE N == {n \in Nat : \E f : EmptyTo(f, n)}
<1>1. 0 \in N
  <2> DEFINE f == [d \in Levels - 0 .. Levels |-> LeafNode(EmptyLeaf)]
  <2>1. \A d \in Levels - 0 .. Levels : d = Levels
    BY MssmtAssumption
  <2>2. f = [d \in Levels - 0 .. Levels |->
               IF d = Levels THEN LeafNode(EmptyLeaf) ELSE BranchNode(f[d + 1], f[d + 1])]
    BY <2>1
  <2> HIDE DEF f
  <2> QED BY <2>2 DEF EmptyTo
<1>2. ASSUME NEW n \in Nat, n \in N PROVE n + 1 \in N
  <2>1. PICK f : EmptyTo(f, n)
    BY <1>2
  <2> DEFINE m == Levels - (n + 1)
             g == [d \in m .. Levels |->
                     IF d = Levels THEN LeafNode(EmptyLeaf) ELSE BranchNode(f[d + 1], f[d + 1])]
  <2>2. ASSUME NEW d \in m .. Levels, d # Levels PROVE g[d + 1] = f[d + 1]
    <3>1. d + 1 \in Levels - n .. Levels /\ d + 1 \in m .. Levels
      BY <2>2, MssmtAssumption
    <3>2. f[d + 1] = IF d + 1 = Levels THEN LeafNode(EmptyLeaf)
                     ELSE BranchNode(f[d + 1 + 1], f[d + 1 + 1])
      BY <2>1, <3>1, Zenon DEF EmptyTo
    <3>3. g[d + 1] = IF d + 1 = Levels THEN LeafNode(EmptyLeaf)
                     ELSE BranchNode(f[d + 1 + 1], f[d + 1 + 1])
      BY <3>1, Zenon
    <3> QED BY <3>2, <3>3
  <2>3. g = [d \in m .. Levels |->
               IF d = Levels THEN LeafNode(EmptyLeaf) ELSE BranchNode(g[d + 1], g[d + 1])]
    <3>1. \A d \in m .. Levels :
            (IF d = Levels THEN LeafNode(EmptyLeaf) ELSE BranchNode(f[d + 1], f[d + 1])) =
            (IF d = Levels THEN LeafNode(EmptyLeaf) ELSE BranchNode(g[d + 1], g[d + 1]))
      <4> HIDE DEF g
      <4> QED BY <2>2
    <3> DEFINE h == [d \in m .. Levels |->
               IF d = Levels THEN LeafNode(EmptyLeaf) ELSE BranchNode(g[d + 1], g[d + 1])]
    <3>2. g = h
      <4>1. \A d \in m .. Levels : g[d] = h[d]
        BY <3>1, Zenon
      <4> QED BY <4>1, Zenon
    <3> QED BY <3>2, Zenon
  <2> HIDE DEF g
  <2>4. EmptyTo(g, n + 1)
    BY <2>3, Zenon DEF EmptyTo
  <2> QED BY <2>4
<1> HIDE DEF N
<1>3. \A n \in Nat : n \in N
  BY <1>1, <1>2, NumberInduction
<1> QED
  BY <1>3 DEF N

(* The node of an empty subtree is that of a leaf or of two such subtrees. *)
LEMMA EmptyNodes ==
  /\ EmptyTree[Levels] = LeafNode(EmptyLeaf)
  /\ \A d \in 0 .. Levels - 1 : EmptyTree[d] = BranchNode(EmptyTree[d + 1], EmptyTree[d + 1])
<1>1. PICK f : EmptyTo(f, Levels)
  BY EmptyExists, MssmtAssumption
<1>2. f = [d \in 0 .. Levels |->
            IF d = Levels THEN LeafNode(EmptyLeaf) ELSE BranchNode(f[d + 1], f[d + 1])]
  BY <1>1, MssmtAssumption DEF EmptyTo
<1>3. EmptyTree = [d \in 0 .. Levels |->
            IF d = Levels THEN LeafNode(EmptyLeaf)
            ELSE BranchNode(EmptyTree[d + 1], EmptyTree[d + 1])]
  BY <1>2, Zenon DEF EmptyTree
<1> QED
  <2>1. Levels \in 0 .. Levels
    BY MssmtAssumption
  <2>2. \A d \in 0 .. Levels - 1 : d \in 0 .. Levels /\ d # Levels
    BY MssmtAssumption
  <2>3. EmptyTree[Levels] = LeafNode(EmptyLeaf)
    BY <1>3, <2>1, Zenon
  <2> QED BY <1>3, <2>2, <2>3, Zenon

------------------------------------------------------------------------------
(* The levels of a tree *)

LevelsTo(f, leaves, n) ==
  f = [d \in Levels - n .. Levels |->
         IF d = Levels THEN [k \in DOMAIN leaves |-> LeafNode(leaves[k])]
         ELSE Parents(f[d + 1], d)]

LEMMA LevelsExist == ASSUME NEW leaves PROVE \A n \in Nat : \E f : LevelsTo(f, leaves, n)
<1> DEFINE N == {n \in Nat : \E f : LevelsTo(f, leaves, n)}
           bottom == [k \in DOMAIN leaves |-> LeafNode(leaves[k])]
<1>1. 0 \in N
  <2> DEFINE f == [d \in Levels - 0 .. Levels |-> bottom]
  <2>1. \A d \in Levels - 0 .. Levels : d = Levels
    BY MssmtAssumption
  <2>2. f = [d \in Levels - 0 .. Levels |-> IF d = Levels THEN bottom ELSE Parents(f[d + 1], d)]
    BY <2>1
  <2> HIDE DEF f
  <2> QED BY <2>2 DEF LevelsTo
<1>2. ASSUME NEW n \in Nat, n \in N PROVE n + 1 \in N
  <2>1. PICK f : LevelsTo(f, leaves, n)
    BY <1>2
  <2> DEFINE m == Levels - (n + 1)
             g == [d \in m .. Levels |-> IF d = Levels THEN bottom ELSE Parents(f[d + 1], d)]
  <2>2. ASSUME NEW d \in m .. Levels, d # Levels PROVE g[d + 1] = f[d + 1]
    <3>1. d + 1 \in Levels - n .. Levels /\ d + 1 \in m .. Levels
      BY <2>2, MssmtAssumption
    <3>2. f[d + 1] = IF d + 1 = Levels THEN bottom ELSE Parents(f[d + 1 + 1], d + 1)
      BY <2>1, <3>1, Zenon DEF LevelsTo
    <3>3. g[d + 1] = IF d + 1 = Levels THEN bottom ELSE Parents(f[d + 1 + 1], d + 1)
      BY <3>1, Zenon
    <3> QED BY <3>2, <3>3, Zenon
  <2> DEFINE h == [d \in m .. Levels |-> IF d = Levels THEN bottom ELSE Parents(g[d + 1], d)]
  <2>3. g = h
    <3>1. \A d \in m .. Levels :
            (IF d = Levels THEN bottom ELSE Parents(f[d + 1], d)) =
            (IF d = Levels THEN bottom ELSE Parents(g[d + 1], d))
      <4> HIDE DEF g, bottom
      <4> QED BY <2>2, Zenon
    <3>2. \A d \in m .. Levels : g[d] = h[d]
      BY <3>1, Zenon
    <3> QED BY <3>2, Zenon
  <2> HIDE DEF g
  <2>4. LevelsTo(g, leaves, n + 1)
    BY <2>3, Zenon DEF LevelsTo
  <2> QED BY <2>4
<1> HIDE DEF N
<1>3. \A n \in Nat : n \in N
  BY <1>1, <1>2, NumberInduction
<1> QED
  BY <1>3 DEF N

(* rebuild: the leaves' nodes, and above them the parents of each level.   *)
LEMMA LevelNodes ==
  ASSUME NEW leaves
  PROVE  /\ LevelsOf(leaves)[Levels] = [k \in DOMAIN leaves |-> LeafNode(leaves[k])]
         /\ \A d \in 0 .. Levels - 1 :
              LevelsOf(leaves)[d] = Parents(LevelsOf(leaves)[d + 1], d)
<1> DEFINE L == LevelsOf(leaves)
           Is(f) == f = [d \in 0 .. Levels |->
                IF d = Levels THEN [k \in DOMAIN leaves |-> LeafNode(leaves[k])]
                ELSE Parents(f[d + 1], d)]
<1>1. PICK f : LevelsTo(f, leaves, Levels)
  BY LevelsExist, MssmtAssumption
<1>2. Is(f)
  BY <1>1, MssmtAssumption DEF LevelsTo
<1>3. L = CHOOSE g : Is(g)
  BY Zenon DEF LevelsOf
<1>4. Is(L)
  <2> HIDE DEF L, Is
  <2>1. Is(CHOOSE g : Is(g))
    BY <1>2, Zenon
  <2> QED BY <1>3, <2>1, Zenon
<1> HIDE DEF L
<1>5. Levels \in 0 .. Levels
  BY MssmtAssumption
<1>6. \A d \in 0 .. Levels - 1 : d \in 0 .. Levels /\ d # Levels
  BY MssmtAssumption
<1>7. L[Levels] = [k \in DOMAIN leaves |-> LeafNode(leaves[k])]
  BY <1>4, <1>5, Zenon
<1>8. \A d \in 0 .. Levels - 1 : L[d] = Parents(L[d + 1], d)
  BY <1>4, <1>6, Zenon
<1> QED
  BY <1>7, <1>8 DEF L

------------------------------------------------------------------------------
(* Nodes of a tree *)

PrefixesOf(d) == [1 .. d -> {0, 1}]

NodeAt(leaves, d, p) == Get(LevelsOf(leaves)[d], p, EmptyTree[d])

(* The hash of a node covers its sum. *)
IsNode(n) == n = [hash |-> n.hash, sum |-> n.sum] /\ n.hash.sum = n.sum

LEMMA PrefixSeq ==
  ASSUME NEW d \in Nat, NEW p
  PROVE  p \in PrefixesOf(d) <=> p \in Seq({0, 1}) /\ Len(p) = d
<1>1. ASSUME p \in PrefixesOf(d) PROVE p \in Seq({0, 1}) /\ Len(p) = d
  <2>1. p \in Seq({0, 1})
    BY <1>1, SeqDef DEF PrefixesOf
  <2>2. DOMAIN p = 1 .. d
    BY <1>1 DEF PrefixesOf
  <2> QED BY <2>1, <2>2
<1>2. ASSUME p \in Seq({0, 1}), Len(p) = d PROVE p \in PrefixesOf(d)
  BY <1>2, LenProperties DEF PrefixesOf
<1> QED
  BY <1>1, <1>2

LEMMA LongerPrefix ==
  ASSUME NEW d \in Nat, NEW p \in PrefixesOf(d), NEW b \in {0, 1}
  PROVE  /\ Append(p, b) \in PrefixesOf(d + 1)
         /\ SubSeq(Append(p, b), 1, d) = p
         /\ Append(p, b)[d + 1] = b
<1>1. p \in Seq({0, 1}) /\ Len(p) = d
  BY PrefixSeq
<1> DEFINE s == Append(p, b)
<1>2. /\ s \in Seq({0, 1}) /\ Len(s) = d + 1 /\ s[d + 1] = b
      /\ \A i \in 1 .. d : s[i] = p[i]
  BY <1>1, AppendProperties
<1> HIDE DEF s
<1>3. \A i \in 1 .. d : s[i] \in {0, 1}
  BY <1>2 DEF PrefixesOf
<1> DEFINE t == SubSeq(s, 1, d)
<1>4. /\ t \in Seq({0, 1})
      /\ Len(t) = IF 1 <= d THEN d - 1 + 1 ELSE 0
      /\ \A i \in 1 .. d - 1 + 1 : t[i] = s[1 + i - 1]
  BY <1>3, SubSeqProperties
<1> HIDE DEF t
<1>5. Len(t) = d /\ \A i \in 1 .. d : t[i] = s[i]
  BY <1>4
<1>6. t = p
  BY <1>1, <1>2, <1>4, <1>5, SeqEqual
<1>7. s \in PrefixesOf(d + 1)
  BY <1>2, PrefixSeq
<1> QED
  BY <1>2, <1>6, <1>7 DEF s, t

LEMMA ShorterPrefix ==
  ASSUME NEW d \in Nat, NEW p \in PrefixesOf(d + 1)
  PROVE  /\ SubSeq(p, 1, d) \in PrefixesOf(d)
         /\ p[d + 1] \in {0, 1}
         /\ Append(SubSeq(p, 1, d), p[d + 1]) = p
<1>1. p \in Seq({0, 1}) /\ Len(p) = d + 1
  BY PrefixSeq
<1>2. \A i \in 1 .. d + 1 : p[i] \in {0, 1}
  BY DEF PrefixesOf
<1> DEFINE t == SubSeq(p, 1, d)
<1>3. \A i \in 1 .. d : p[i] \in {0, 1}
  BY <1>2
<1>4. /\ t \in Seq({0, 1})
      /\ Len(t) = IF 1 <= d THEN d - 1 + 1 ELSE 0
      /\ \A i \in 1 .. d - 1 + 1 : t[i] = p[1 + i - 1]
  BY <1>3, SubSeqProperties
<1> HIDE DEF t
<1>5. Len(t) = d /\ \A i \in 1 .. d : t[i] = p[i]
  BY <1>4
<1>6. t \in PrefixesOf(d)
  BY <1>4, <1>5, PrefixSeq
<1>7. p[d + 1] \in {0, 1}
  BY <1>2
<1> DEFINE s == Append(t, p[d + 1])
<1>8. /\ s \in Seq({0, 1}) /\ Len(s) = d + 1 /\ s[d + 1] = p[d + 1]
      /\ \A i \in 1 .. d : s[i] = t[i]
  BY <1>4, <1>5, <1>7, AppendProperties
<1> HIDE DEF s
<1>9. \A i \in 1 .. d + 1 : s[i] = p[i]
  BY <1>5, <1>8
<1>10. s = p
  BY <1>1, <1>8, <1>9, SeqEqual
<1> QED
  BY <1>6, <1>7, <1>10 DEF s, t

(* A node of any level above the leaves is the branch of its children,     *)
(* whether the level holds them or leaves them out.                        *)
LEMMA NodeIsBranch ==
  ASSUME NEW leaves, NEW d \in 0 .. Levels - 1, NEW p \in PrefixesOf(d)
  PROVE  NodeAt(leaves, d, p) = BranchNode(NodeAt(leaves, d + 1, Append(p, 0)),
                                           NodeAt(leaves, d + 1, Append(p, 1)))
<1> DEFINE below == LevelsOf(leaves)[d + 1]
           child(q, bit) == Get(below, Append(q, bit), EmptyTree[d + 1])
           node(q) == BranchNode(child(q, 0), child(q, 1))
           prefixes == {SubSeq(k, 1, d) : k \in DOMAIN below}
<1>1. LevelsOf(leaves)[d] = [q \in {q \in prefixes : node(q) # EmptyTree[d]} |-> node(q)]
  <2>1. LevelsOf(leaves)[d] = Parents(below, d)
    BY LevelNodes
  <2> QED BY <2>1, Zenon DEF Parents
<1>2. node(p) = BranchNode(NodeAt(leaves, d + 1, Append(p, 0)),
                           NodeAt(leaves, d + 1, Append(p, 1)))
  BY DEF NodeAt
<1>3. CASE p \in prefixes /\ node(p) # EmptyTree[d]
  <2> HIDE DEF node, prefixes
  <2>1. NodeAt(leaves, d, p) = node(p)
    BY <1>1, <1>3 DEF NodeAt, Get
  <2> QED BY <1>2, <2>1
<1>4. CASE p \in prefixes /\ node(p) = EmptyTree[d]
  <2> HIDE DEF node, prefixes
  <2>1. NodeAt(leaves, d, p) = EmptyTree[d]
    BY <1>1, <1>4 DEF NodeAt, Get
  <2> QED BY <1>2, <1>4, <2>1
<1>5. CASE p \notin prefixes
  <2>1. NodeAt(leaves, d, p) = EmptyTree[d]
    <3> HIDE DEF node, prefixes
    <3> QED BY <1>1, <1>5 DEF NodeAt, Get
  <2>2. \A b \in {0, 1} : SubSeq(Append(p, b), 1, d) = p
    BY LongerPrefix
  <2>3. \A b \in {0, 1} : Append(p, b) \notin DOMAIN below
    BY <1>5, <2>2
  <2>4. node(p) = BranchNode(EmptyTree[d + 1], EmptyTree[d + 1])
    <3> HIDE DEF below
    <3> QED BY <2>3 DEF Get
  <2>5. node(p) = EmptyTree[d]
    <3> HIDE DEF node
    <3> QED BY <2>4, EmptyNodes
  <2> HIDE DEF node
  <2> QED BY <1>2, <2>1, <2>5
<1> QED
  BY <1>3, <1>4, <1>5

LEMMA BottomNode ==
  ASSUME NEW leaves, NEW k
  PROVE  NodeAt(leaves, Levels, k) = LeafNode(Get(leaves, k, EmptyLeaf))
<1>1. LevelsOf(leaves)[Levels] = [j \in DOMAIN leaves |-> LeafNode(leaves[j])]
  BY LevelNodes
<1>2. EmptyTree[Levels] = LeafNode(EmptyLeaf)
  BY EmptyNodes
<1> QED
  BY <1>1, <1>2, Zenon DEF NodeAt, Get

LEMMA BranchIsNode == ASSUME NEW l, NEW r PROVE IsNode(BranchNode(l, r))
BY DEF IsNode, BranchNode

LEMMA LeafIsNode == ASSUME NEW leaf PROVE IsNode(LeafNode(leaf))
BY DEF IsNode, LeafNode

LEMMA NodesAreNodes ==
  ASSUME NEW leaves, NEW d \in 0 .. Levels, NEW p \in PrefixesOf(d)
  PROVE  IsNode(NodeAt(leaves, d, p))
<1>1. CASE d = Levels
  BY <1>1, BottomNode, LeafIsNode
<1>2. CASE d \in 0 .. Levels - 1
  BY <1>2, NodeIsBranch, BranchIsNode
<1> QED
  BY <1>1, <1>2, MssmtAssumption

(* A branch has one left and one right child. *)
LEMMA BranchBinds ==
  ASSUME NEW l, NEW r, NEW m, NEW s, IsNode(l), IsNode(m), IsNode(r), IsNode(s),
         BranchNode(l, r) = BranchNode(m, s)
  PROVE  l = m /\ r = s
<1>1. l.hash = m.hash /\ r.hash = s.hash
  BY DEF BranchNode
<1> QED
  BY <1>1 DEF IsNode

LEMMA LeafBinds ==
  ASSUME NEW v, NEW s, NEW w, NEW t, LeafNode(Leaf(v, s)) = LeafNode(Leaf(w, t))
  PROVE  Leaf(v, s) = Leaf(w, t)
BY DEF LeafNode, Leaf

------------------------------------------------------------------------------
(* Proofs of a tree *)

LEMMA KeyPrefixes ==
  ASSUME NEW key \in Keys
  PROVE  /\ key = SubSeq(key, 1, Levels) /\ SubSeq(key, 1, 0) = <<>>
         /\ \A d \in 0 .. Levels : SubSeq(key, 1, d) \in PrefixesOf(d)
         /\ \A d \in 0 .. Levels - 1 :
              /\ key[d + 1] \in {0, 1}
              /\ SubSeq(key, 1, d + 1) = Append(SubSeq(key, 1, d), key[d + 1])
<1>1. Levels \in Nat /\ key \in Seq({0, 1}) /\ Len(key) = Levels
  BY MssmtAssumption, PrefixSeq DEF Keys, PrefixesOf
<1>2. \A i \in 1 .. Levels : key[i] \in {0, 1}
  BY DEF Keys
<1>3. key = SubSeq(key, 1, Levels)
  BY <1>1, SubSeqFull
<1>4. SubSeq(key, 1, 0) = <<>>
  BY SubSeqEmpty
<1>5. ASSUME NEW d \in 0 .. Levels
      PROVE  /\ SubSeq(key, 1, d) \in Seq({0, 1}) /\ Len(SubSeq(key, 1, d)) = d
             /\ \A i \in 1 .. d : SubSeq(key, 1, d)[i] = key[i]
  <2>1. d \in Int /\ \A i \in 1 .. d : key[i] \in {0, 1}
    BY <1>1, <1>2
  <2> DEFINE t == SubSeq(key, 1, d)
  <2>2. /\ t \in Seq({0, 1})
        /\ Len(t) = IF 1 <= d THEN d - 1 + 1 ELSE 0
        /\ \A i \in 1 .. d - 1 + 1 : t[i] = key[1 + i - 1]
    BY <2>1, SubSeqProperties
  <2> HIDE DEF t
  <2>3. Len(t) = d /\ \A i \in 1 .. d : t[i] = key[i]
    BY <1>1, <2>2
  <2> QED BY <2>2, <2>3 DEF t
<1>6. ASSUME NEW d \in 0 .. Levels PROVE SubSeq(key, 1, d) \in PrefixesOf(d)
  <2>1. d \in Nat /\ SubSeq(key, 1, d) \in Seq({0, 1}) /\ Len(SubSeq(key, 1, d)) = d
    BY <1>5
  <2> DEFINE t == SubSeq(key, 1, d)
  <2> HIDE DEF t
  <2> QED BY <2>1, PrefixSeq DEF t
<1>7. ASSUME NEW d \in 0 .. Levels - 1
      PROVE  /\ key[d + 1] \in {0, 1}
             /\ SubSeq(key, 1, d + 1) = Append(SubSeq(key, 1, d), key[d + 1])
  <2>1. d \in Nat /\ d \in 0 .. Levels /\ d + 1 \in 1 .. Levels /\ d + 1 \in 0 .. Levels
    BY <1>1
  <2>2. key[d + 1] \in {0, 1}
    BY <1>2, <2>1
  <2> DEFINE s == SubSeq(key, 1, d)
             t == SubSeq(key, 1, d + 1)
             a == Append(s, key[d + 1])
  <2>3. /\ s \in Seq({0, 1}) /\ Len(s) = d /\ \A i \in 1 .. d : s[i] = key[i]
        /\ t \in Seq({0, 1}) /\ Len(t) = d + 1 /\ \A i \in 1 .. d + 1 : t[i] = key[i]
    BY <1>5, <2>1
  <2> HIDE DEF s, t
  <2>4. /\ a \in Seq({0, 1}) /\ Len(a) = d + 1 /\ a[d + 1] = key[d + 1]
        /\ \A i \in 1 .. d : a[i] = s[i]
    BY <2>2, <2>3, AppendProperties
  <2> HIDE DEF a
  <2>5. \A i \in 1 .. d + 1 : a[i] = t[i]
    BY <2>1, <2>3, <2>4
  <2>6. a = t
    BY <2>3, <2>4, <2>5, SeqEqual
  <2> QED BY <2>2, <2>6 DEF a, s, t
<1> QED
  BY <1>3, <1>4, <1>6, <1>7

Step(siblings, key, i, below) ==
  IF key[Levels - i + 1] = 0 THEN BranchNode(below, siblings[i])
  ELSE BranchNode(siblings[i], below)

AboveTo(f, siblings, key, leaf, n) ==
  f = [i \in 0 .. n |-> IF i = 0 THEN LeafNode(leaf) ELSE Step(siblings, key, i, f[i - 1])]

LEMMA AboveExists ==
  ASSUME NEW siblings, NEW key, NEW leaf
  PROVE  \A n \in Nat : \E f : AboveTo(f, siblings, key, leaf, n)
<1> DEFINE N == {n \in Nat : \E f : AboveTo(f, siblings, key, leaf, n)}
           S(i, b) == Step(siblings, key, i, b)
<1>1. 0 \in N
  <2> DEFINE f == [i \in 0 .. 0 |-> LeafNode(leaf)]
  <2>1. f = [i \in 0 .. 0 |-> IF i = 0 THEN LeafNode(leaf) ELSE S(i, f[i - 1])]
    <3>1. \A i \in 0 .. 0 : i = 0
      OBVIOUS
    <3> HIDE DEF S
    <3> QED BY <3>1
  <2> HIDE DEF f
  <2> QED BY <2>1 DEF AboveTo
<1>2. ASSUME NEW n \in Nat, n \in N PROVE n + 1 \in N
  <2>1. PICK f : AboveTo(f, siblings, key, leaf, n)
    BY <1>2
  <2>2. f = [i \in 0 .. n |-> IF i = 0 THEN LeafNode(leaf) ELSE S(i, f[i - 1])]
    BY <2>1 DEF AboveTo
  <2> DEFINE g == [i \in 0 .. n + 1 |-> IF i = 0 THEN LeafNode(leaf) ELSE S(i, f[i - 1])]
             h == [i \in 0 .. n + 1 |-> IF i = 0 THEN LeafNode(leaf) ELSE S(i, g[i - 1])]
  <2> HIDE DEF S
  <2>3. ASSUME NEW i \in 0 .. n + 1, i # 0 PROVE g[i - 1] = f[i - 1]
    <3>1. i - 1 \in 0 .. n /\ i - 1 \in 0 .. n + 1
      BY <2>3
    <3>2. f[i - 1] = IF i - 1 = 0 THEN LeafNode(leaf) ELSE S(i - 1, f[i - 1 - 1])
      BY <2>2, <3>1, Zenon
    <3>3. g[i - 1] = IF i - 1 = 0 THEN LeafNode(leaf) ELSE S(i - 1, f[i - 1 - 1])
      BY <3>1, Zenon
    <3> QED BY <3>2, <3>3, Zenon
  <2>4. \A i \in 0 .. n + 1 : g[i] = h[i]
    <3> SUFFICES ASSUME NEW i \in 0 .. n + 1 PROVE g[i] = h[i]
      OBVIOUS
    <3>1. g[i] = IF i = 0 THEN LeafNode(leaf) ELSE S(i, f[i - 1])
      BY Zenon
    <3>2. h[i] = IF i = 0 THEN LeafNode(leaf) ELSE S(i, g[i - 1])
      BY Zenon
    <3> HIDE DEF g, h
    <3> QED BY <2>3, <3>1, <3>2, Zenon
  <2>5. g = h
    BY <2>4, Zenon
  <2> HIDE DEF g
  <2>6. AboveTo(g, siblings, key, leaf, n + 1)
    BY <2>5, Zenon DEF AboveTo, S
  <2> QED BY <2>6
<1> HIDE DEF N
<1>3. \A n \in Nat : n \in N
  BY <1>1, <1>2, NumberInduction
<1> QED
  BY <1>3 DEF N

(* root_for: the nodes on the way to the root. *)
LEMMA RootForNodes ==
  ASSUME NEW siblings, NEW key, NEW leaf
  PROVE  \E above :
           /\ above[0] = LeafNode(leaf)
           /\ \A i \in 1 .. Levels : above[i] = Step(siblings, key, i, above[i - 1])
           /\ RootFor(siblings, key, leaf) = above[Levels]
<1> DEFINE Is(f) == f = [i \in 0 .. Levels |->
              IF i = 0 THEN LeafNode(leaf)
              ELSE IF key[Levels - i + 1] = 0 THEN BranchNode(f[i - 1], siblings[i])
              ELSE BranchNode(siblings[i], f[i - 1])]
           above == CHOOSE f : Is(f)
<1>1. PICK f : AboveTo(f, siblings, key, leaf, Levels)
  BY AboveExists, MssmtAssumption
<1>2. Is(f)
  BY <1>1, Zenon DEF AboveTo, Step
<1>3. RootFor(siblings, key, leaf) = above[Levels]
  BY Zenon DEF RootFor
<1>4. Is(above)
  <2> HIDE DEF Is
  <2> QED BY <1>2, Zenon
<1> HIDE DEF above
<1>5. 0 \in 0 .. Levels /\ \A i \in 1 .. Levels : i \in 0 .. Levels /\ i # 0
  BY MssmtAssumption
<1>6. above[0] = LeafNode(leaf)
  BY <1>4, <1>5, Zenon
<1>7. \A i \in 1 .. Levels : above[i] = Step(siblings, key, i, above[i - 1])
  BY <1>4, <1>5, Zenon DEF Step
<1> QED
  BY <1>3, <1>6, <1>7

(* The nodes on the way from a leaf of the tree are those of the tree. *)
LEMMA ProofVerifies ==
  ASSUME NEW leaves, NEW key \in Keys
  PROVE  RootFor(Proof(Tree(leaves), key), key, Get(leaves, key, EmptyLeaf)) = Root(Tree(leaves))
<1> DEFINE siblings == Proof(Tree(leaves), key)
           leaf == Get(leaves, key, EmptyLeaf)
           Pre(d) == SubSeq(key, 1, d)
<1>1. PICK above :
        /\ above[0] = LeafNode(leaf)
        /\ \A i \in 1 .. Levels : above[i] = Step(siblings, key, i, above[i - 1])
        /\ RootFor(siblings, key, leaf) = above[Levels]
  BY RootForNodes
<1>2. \A i \in 1 .. Levels :
        siblings[i] = NodeAt(leaves, Levels - i + 1,
                             Append(Pre(Levels - i), 1 - key[Levels - i + 1]))
  BY Zenon DEF Proof, Tree, NodeAt, SiblingPrefix
<1>8. \A d \in 0 .. Levels - 1 :
        /\ Pre(d + 1) = Append(Pre(d), key[d + 1]) /\ key[d + 1] \in {0, 1}
        /\ Pre(d) \in PrefixesOf(d)
  <2>1. \A d \in 0 .. Levels - 1 : d \in 0 .. Levels
    BY MssmtAssumption
  <2> QED BY <2>1, KeyPrefixes, Zenon
<1> HIDE DEF siblings, leaf, Pre
<1> DEFINE N == {i \in Nat : i <= Levels => above[i] = NodeAt(leaves, Levels - i, Pre(Levels - i))}
<1>3. 0 \in N
  <2>1. NodeAt(leaves, Levels, key) = LeafNode(leaf)
    BY BottomNode DEF leaf
  <2>2. Levels - 0 = Levels /\ Pre(Levels) = key
    BY KeyPrefixes, MssmtAssumption DEF Pre
  <2> QED BY <1>1, <2>1, <2>2
<1>4. ASSUME NEW j \in Nat, j \in N PROVE j + 1 \in N
  <2> DEFINE i == j + 1
             d == Levels - i
  <2> SUFFICES ASSUME i <= Levels PROVE above[i] = NodeAt(leaves, d, Pre(d))
    OBVIOUS
  <2>1. /\ i \in 1 .. Levels /\ d \in 0 .. Levels - 1 /\ i - 1 = j /\ j <= Levels
        /\ Levels - j = d + 1
    BY MssmtAssumption
  <2>2. above[j] = NodeAt(leaves, d + 1, Pre(d + 1))
    BY <1>4, <2>1
  <2>3. above[i] = Step(siblings, key, i, above[j])
    BY <1>1, <2>1
  <2>4. siblings[i] = NodeAt(leaves, d + 1, Append(Pre(d), 1 - key[d + 1]))
    BY <1>2, <2>1
  <2>5. /\ Pre(d + 1) = Append(Pre(d), key[d + 1]) /\ key[d + 1] \in {0, 1}
        /\ Pre(d) \in PrefixesOf(d)
    BY <2>1, <1>8
  <2>6. NodeAt(leaves, d, Pre(d)) = BranchNode(NodeAt(leaves, d + 1, Append(Pre(d), 0)),
                                               NodeAt(leaves, d + 1, Append(Pre(d), 1)))
    BY <2>1, <2>5, NodeIsBranch
  <2>7. above[i] = IF key[d + 1] = 0 THEN BranchNode(above[j], siblings[i])
                   ELSE BranchNode(siblings[i], above[j])
    BY <2>3 DEF Step
  <2> HIDE DEF d, i
  <2>8. CASE key[d + 1] = 0
    <3>1. 1 - key[d + 1] = 1
      BY <2>8
    <3> QED BY <2>2, <2>4, <2>5, <2>6, <2>7, <2>8, <3>1, Zenon
  <2>9. CASE key[d + 1] = 1
    <3>1. 1 - key[d + 1] = 0 /\ key[d + 1] # 0
      BY <2>9
    <3> QED BY <2>2, <2>4, <2>5, <2>6, <2>7, <2>9, <3>1, Zenon
  <2> QED BY <2>5, <2>8, <2>9
<1>5. Levels \in N
  <2> HIDE DEF N
  <2> QED BY <1>3, <1>4, NumberInduction, MssmtAssumption
<1>6. above[Levels] = NodeAt(leaves, 0, <<>>)
  <2>1. Levels \in Nat /\ Levels - Levels = 0 /\ Pre(0) = <<>>
    BY KeyPrefixes, MssmtAssumption DEF Pre
  <2> QED BY <1>5, <2>1
<1>7. Root(Tree(leaves)) = NodeAt(leaves, 0, <<>>)
  BY DEF Root, Tree, NodeAt
<1> QED
  BY <1>1, <1>6, <1>7 DEF siblings, leaf

(* The same siblings lead to one root from one leaf only. *)
LEMMA RootBindsLeaf ==
  ASSUME NEW siblings, NEW key, NEW a, NEW b,
         \A i \in 1 .. Levels : IsNode(siblings[i]),
         RootFor(siblings, key, a) = RootFor(siblings, key, b)
  PROVE  LeafNode(a) = LeafNode(b)
<1>1. PICK f :
        /\ f[0] = LeafNode(a)
        /\ \A i \in 1 .. Levels : f[i] = Step(siblings, key, i, f[i - 1])
        /\ RootFor(siblings, key, a) = f[Levels]
  BY RootForNodes
<1>2. PICK g :
        /\ g[0] = LeafNode(b)
        /\ \A i \in 1 .. Levels : g[i] = Step(siblings, key, i, g[i - 1])
        /\ RootFor(siblings, key, b) = g[Levels]
  BY RootForNodes
<1>3. \A i \in 0 .. Levels : IsNode(f[i]) /\ IsNode(g[i])
  BY <1>1, <1>2, LeafIsNode, BranchIsNode DEF Step
<1> DEFINE N == {i \in Nat : i <= Levels /\ f[i] = g[i] => f[0] = g[0]}
<1>4. 0 \in N
  OBVIOUS
<1>5. ASSUME NEW j \in Nat, j \in N PROVE j + 1 \in N
  <2> SUFFICES ASSUME j + 1 <= Levels, f[j + 1] = g[j + 1] PROVE f[j] = g[j]
    BY <1>5, MssmtAssumption
  <2>1. j + 1 \in 1 .. Levels /\ j \in 0 .. Levels /\ j + 1 - 1 = j
    BY MssmtAssumption
  <2>2. Step(siblings, key, j + 1, f[j]) = Step(siblings, key, j + 1, g[j])
    BY <1>1, <1>2, <2>1
  <2>3. IsNode(f[j]) /\ IsNode(g[j]) /\ IsNode(siblings[j + 1])
    BY <1>3, <2>1
  <2> QED BY <2>2, <2>3, BranchBinds DEF Step
<1>6. Levels \in N
  <2> HIDE DEF N
  <2> QED BY <1>4, <1>5, NumberInduction, MssmtAssumption
<1>7. f[Levels] = g[Levels]
  BY <1>1, <1>2
<1> QED
  BY <1>1, <1>2, <1>6, <1>7, MssmtAssumption

------------------------------------------------------------------------------
(* Compressed proofs *)

LEMMA LengthOf ==
  ASSUME NEW n \in Nat, NEW f, f = [i \in 1 .. n |-> f[i]]
  PROVE  Len(f) = n
<1> DEFINE S == {f[i] : i \in 1 .. n}
<1>1. f \in [1 .. n -> S]
  OBVIOUS
<1>2. f \in Seq(S)
  <2> HIDE DEF S
  <2> QED BY <1>1, SeqDef
<1> HIDE DEF S
<1>3. DOMAIN f = 1 .. n
  BY <1>1
<1> QED
  BY <1>2, <1>3

LEMMA UnsetGrows ==
  ASSUME NEW bits, NEW i \in Nat, NEW j \in Nat
  PROVE  /\ Unset(bits, i) \in Nat
         /\ i <= j => Unset(bits, i) <= Unset(bits, j)
         /\ i < j /\ ~bits[j] => Unset(bits, i) < Unset(bits, j)
         /\ i >= 1 /\ ~bits[i] => Unset(bits, i) >= 1
<1> DEFINE U(m) == {x \in 1 .. m : ~bits[x]}
<1>1. ASSUME NEW m \in Nat PROVE IsFiniteSet(U(m)) /\ Cardinality(U(m)) \in Nat
  <2>1. IsFiniteSet(1 .. m)
    BY FS_Interval
  <2> QED BY <2>1, FS_Subset, FS_CardinalityType
<1>2. i <= j => U(i) \subseteq U(j)
  OBVIOUS
<1>3. i <= j => Cardinality(U(i)) <= Cardinality(U(j))
  <2> HIDE DEF U
  <2> QED BY <1>1, <1>2, FS_Subset
<1>4. i < j /\ ~bits[j] => U(i) # U(j)
  OBVIOUS
<1>5. i < j /\ ~bits[j] => Cardinality(U(i)) < Cardinality(U(j))
  <2> HIDE DEF U
  <2>1. U(i) \subseteq U(j) /\ Cardinality(U(i)) = Cardinality(U(j)) => U(i) = U(j)
    BY <1>1, FS_Subset
  <2> QED BY <1>1, <1>2, <1>3, <1>4, <2>1
<1>6. i >= 1 /\ ~bits[i] => U(i) # {}
  OBVIOUS
<1>7. i >= 1 /\ ~bits[i] => Cardinality(U(i)) >= 1
  <2> HIDE DEF U
  <2> QED BY <1>1, <1>6, FS_EmptySet
<1> QED
  BY <1>1, <1>3, <1>5, <1>7 DEF Unset

(* A compressed proof is accepted by decode and decompressed to itself.    *)
LEMMA CompressionExact ==
  ASSUME NEW siblings, siblings = [i \in 1 .. Levels |-> siblings[i]]
  PROVE  CompressedValid(Compress(siblings)) /\ Decompress(Compress(siblings)) = siblings
<1> DEFINE bits == [i \in 1 .. Levels |-> siblings[i] = EmptyTree[Levels - i + 1]]
           nodes == Kept(siblings, bits)
           U(i) == Unset(bits, i)
<1>1. Compress(siblings) = [bits |-> bits, nodes |-> nodes]
  BY Zenon DEF Compress, Compressed
<1>2. \A i \in 1 .. Levels : bits[i] <=> siblings[i] = EmptyTree[Levels - i + 1]
  BY Zenon
<1>3. Levels \in Nat
  BY MssmtAssumption
<1>4. bits = [i \in 1 .. Levels |-> bits[i]]
  BY Zenon
<1> HIDE DEF bits
<1>5. U(Levels) \in Nat
  BY <1>3, UnsetGrows
<1>6. /\ nodes = [j \in 1 .. U(Levels) |-> nodes[j]]
      /\ \A j \in 1 .. U(Levels) :
           nodes[j] = siblings[CHOOSE i \in 1 .. Levels : ~bits[i] /\ U(i) = j]
  <2>1. nodes = [j \in 1 .. U(Levels) |->
                   siblings[CHOOSE i \in 1 .. Levels : ~bits[i] /\ U(i) = j]]
    BY DEF Kept
  <2> DEFINE chosen(j) == siblings[CHOOSE i \in 1 .. Levels : ~bits[i] /\ U(i) = j]
             u == U(Levels)
  <2>2. nodes = [j \in 1 .. u |-> chosen(j)]
    BY <2>1
  <2> HIDE DEF nodes, chosen, u
  <2>3. nodes = [j \in 1 .. u |-> nodes[j]] /\ \A j \in 1 .. u : nodes[j] = chosen(j)
    BY <2>2
  <2> QED BY <2>3 DEF chosen, u
<1> HIDE DEF nodes
<1>7. CompressedValid(Compress(siblings))
  <2>1. Len(bits) = Levels
    BY <1>3, <1>4, LengthOf
  <2>2. Len(nodes) = U(Levels)
    <3> HIDE DEF U
    <3> QED BY <1>5, <1>6, LengthOf
  <2> QED BY <1>1, <2>1, <2>2 DEF CompressedValid
<1>8. ASSUME NEW i \in 1 .. Levels, ~bits[i]
      PROVE  nodes[U(i)] = siblings[i]
  <2>1. U(i) \in 1 .. U(Levels)
    <3>1. i \in Nat /\ i >= 1 /\ i <= Levels
      BY <1>3
    <3>2. U(i) \in Nat /\ U(i) <= U(Levels) /\ U(i) >= 1
      BY <1>3, <1>8, <3>1, UnsetGrows
    <3> HIDE DEF U
    <3> QED BY <1>5, <3>2
  <2> DEFINE k == CHOOSE x \in 1 .. Levels : ~bits[x] /\ U(x) = U(i)
  <2>2. k \in 1 .. Levels /\ ~bits[k] /\ U(k) = U(i)
    BY <1>8, Zenon
  <2>3. nodes[U(i)] = siblings[k]
    BY <1>6, <2>1, Zenon
  <2> HIDE DEF k
  <2>4. k = i
    <3>1. i \in Nat /\ k \in Nat /\ U(i) \in Nat /\ U(k) \in Nat
      BY <1>3, <2>2, UnsetGrows
    <3>2. i < k => U(i) < U(k)
      BY <2>2, <3>1, UnsetGrows
    <3>3. k < i => U(k) < U(i)
      BY <1>8, <3>1, UnsetGrows
    <3> HIDE DEF U
    <3> QED BY <2>2, <3>1, <3>2, <3>3
  <2> QED BY <2>3, <2>4
<1>9. \A i \in 1 .. Levels :
        (IF bits[i] THEN EmptyTree[Levels - i + 1] ELSE nodes[U(i)]) = siblings[i]
  BY <1>2, <1>8, Zenon
<1>10. Decompress(Compress(siblings)) =
         [i \in 1 .. Levels |-> IF bits[i] THEN EmptyTree[Levels - i + 1] ELSE nodes[U(i)]]
  <2>1. Compress(siblings).bits = bits /\ Compress(siblings).nodes = nodes
    BY <1>1
  <2> QED BY <2>1, Zenon DEF Decompress
<1>11. Decompress(Compress(siblings)) = [i \in 1 .. Levels |-> siblings[i]]
  <2> HIDE DEF U
  <2> QED BY <1>9, <1>10
<1> QED
  BY <1>7, <1>11

------------------------------------------------------------------------------
(* The sum of a tree *)

SumsOf(leaves) == [k \in DOMAIN leaves |-> leaves[k].sum]

Under(leaves, d, p) == {k \in DOMAIN leaves : SubSeq(k, 1, d) = p}

(* Finitely many leaves, at keys, with sums that are numbers. *)
GoodLeaves(leaves) ==
  /\ DOMAIN leaves \subseteq Keys /\ IsFiniteSet(DOMAIN leaves)
  /\ \A k \in DOMAIN leaves : leaves[k].sum \in Int

LEMMA NodeSums ==
  ASSUME NEW leaves, GoodLeaves(leaves)
  PROVE  \A d \in 0 .. Levels : \A p \in PrefixesOf(d) :
           NodeAt(leaves, d, p).sum = SumFunctionOnSet(SumsOf(leaves), Under(leaves, d, p))
<1> DEFINE f == SumsOf(leaves)
           N == {n \in Nat : n <= Levels =>
                   \A p \in PrefixesOf(Levels - n) :
                     NodeAt(leaves, Levels - n, p).sum =
                       SumFunctionOnSet(f, Under(leaves, Levels - n, p))}
<1>1. \A k \in DOMAIN leaves : f[k] = leaves[k].sum /\ f[k] \in Int
  BY DEF GoodLeaves, SumsOf
<1>2. \A d, p : Under(leaves, d, p) \subseteq DOMAIN leaves /\ IsFiniteSet(Under(leaves, d, p))
  BY FS_Subset DEF Under, GoodLeaves
<1> HIDE DEF f
<1>3. 0 \in N
  <2> SUFFICES ASSUME NEW p \in PrefixesOf(Levels)
               PROVE  NodeAt(leaves, Levels, p).sum =
                        SumFunctionOnSet(f, Under(leaves, Levels, p))
    BY MssmtAssumption
  <2>1. Under(leaves, Levels, p) = {k \in DOMAIN leaves : k = p}
    BY KeyPrefixes, Zenon DEF Under, GoodLeaves
  <2>2. NodeAt(leaves, Levels, p).sum = IF p \in DOMAIN leaves THEN leaves[p].sum ELSE 0
    <3>1. NodeAt(leaves, Levels, p).sum = Get(leaves, p, EmptyLeaf).sum
      BY BottomNode DEF LeafNode
    <3>2. EmptyLeaf.sum = 0
      BY DEF EmptyLeaf, Leaf
    <3> QED BY <3>1, <3>2, Zenon DEF Get
  <2>3. CASE p \in DOMAIN leaves
    <3>1. Under(leaves, Levels, p) = {} \cup {p}
      BY <2>1, <2>3
    <3>2. SumFunctionOnSet(f, {} \cup {p}) = f[p] + SumFunctionOnSet(f, {})
      <4>1. IsFiniteSet({}) /\ p \notin {} /\ \A x \in {} \cup {p} : f[x] \in Int
        BY <1>1, <2>3, FS_EmptySet
      <4> QED BY <4>1, SumAdd
    <3> QED BY <1>1, <2>2, <2>3, <3>1, <3>2, SumEmpty
  <2>4. CASE p \notin DOMAIN leaves
    <3>1. Under(leaves, Levels, p) = {}
      BY <2>1, <2>4
    <3> QED BY <2>2, <2>4, <3>1, SumEmpty
  <2> QED BY <2>3, <2>4
<1>4. ASSUME NEW n \in Nat, n \in N PROVE n + 1 \in N
  <2> DEFINE d == Levels - (n + 1)
  <2> SUFFICES ASSUME n + 1 <= Levels, NEW p \in PrefixesOf(d)
               PROVE  NodeAt(leaves, d, p).sum = SumFunctionOnSet(f, Under(leaves, d, p))
    OBVIOUS
  <2>1. /\ d \in Nat /\ d \in 0 .. Levels - 1 /\ Levels - n = d + 1 /\ n <= Levels
    BY MssmtAssumption
  <2> HIDE DEF d
  <2> DEFINE l == Append(p, 0)
             r == Append(p, 1)
             L == Under(leaves, d + 1, l)
             R == Under(leaves, d + 1, r)
  <2>2. /\ l \in PrefixesOf(d + 1) /\ SubSeq(l, 1, d) = p /\ l[d + 1] = 0
        /\ r \in PrefixesOf(d + 1) /\ SubSeq(r, 1, d) = p /\ r[d + 1] = 1
    BY <2>1, LongerPrefix
  <2>3. /\ NodeAt(leaves, d + 1, l).sum = SumFunctionOnSet(f, L)
        /\ NodeAt(leaves, d + 1, r).sum = SumFunctionOnSet(f, R)
    BY <1>4, <2>1, <2>2
  <2>4. NodeAt(leaves, d, p).sum = NodeAt(leaves, d + 1, l).sum + NodeAt(leaves, d + 1, r).sum
    <3>1. NodeAt(leaves, d, p) = BranchNode(NodeAt(leaves, d + 1, l), NodeAt(leaves, d + 1, r))
      BY <2>1, NodeIsBranch
    <3> QED BY <3>1 DEF BranchNode
  <2>5. L \cap R = {} /\ Under(leaves, d, p) = L \cup R
    <3>1. ASSUME NEW k \in DOMAIN leaves
          PROVE  /\ k[d + 1] \in {0, 1} /\ SubSeq(k, 1, d) \in PrefixesOf(d)
                 /\ SubSeq(k, 1, d + 1) = Append(SubSeq(k, 1, d), k[d + 1])
      <4>1. k \in Keys /\ d \in 0 .. Levels
        BY <2>1, MssmtAssumption DEF GoodLeaves
      <4> QED BY <2>1, <4>1, KeyPrefixes
    <3>2. ASSUME NEW k \in DOMAIN leaves, NEW b \in {0, 1}
          PROVE  SubSeq(k, 1, d + 1) = Append(p, b) <=> SubSeq(k, 1, d) = p /\ k[d + 1] = b
      <4> DEFINE q == SubSeq(k, 1, d)
                 c == k[d + 1]
      <4>1. /\ SubSeq(Append(q, c), 1, d) = q /\ Append(q, c)[d + 1] = c
            /\ SubSeq(Append(p, b), 1, d) = p /\ Append(p, b)[d + 1] = b
        BY <2>1, <3>1, LongerPrefix
      <4> HIDE DEF q
      <4> QED BY <3>1, <4>1 DEF q
    <3>3. \A k \in DOMAIN leaves : k \in L <=> SubSeq(k, 1, d) = p /\ k[d + 1] = 0
      BY <3>2 DEF Under
    <3>4. \A k \in DOMAIN leaves : k \in R <=> SubSeq(k, 1, d) = p /\ k[d + 1] = 1
      BY <3>2 DEF Under
    <3>5. \A k \in DOMAIN leaves : k \in Under(leaves, d, p) <=> SubSeq(k, 1, d) = p
      BY DEF Under
    <3>6. L \subseteq DOMAIN leaves /\ R \subseteq DOMAIN leaves
          /\ Under(leaves, d, p) \subseteq DOMAIN leaves
      BY <1>2
    <3> HIDE DEF L, R
    <3>7. \A k \in DOMAIN leaves : k[d + 1] \in {0, 1}
      BY <3>1
    <3> QED BY <3>3, <3>4, <3>5, <3>6, <3>7
  <2>6. SumFunctionOnSet(f, L \cup R) = SumFunctionOnSet(f, L) + SumFunctionOnSet(f, R)
    <3>1. IsFiniteSet(L) /\ IsFiniteSet(R) /\ \A x \in L \cup R : f[x] \in Int
      BY <1>1, <1>2
    <3> HIDE DEF L, R
    <3> QED BY <2>5, <3>1, SumUnion
  <2> QED BY <2>3, <2>4, <2>5, <2>6
<1>5. \A n \in Nat : n \in N
  <2> HIDE DEF N
  <2> QED BY <1>3, <1>4, NumberInduction
<1>6. ASSUME NEW d \in 0 .. Levels, NEW p \in PrefixesOf(d)
      PROVE  NodeAt(leaves, d, p).sum = SumFunctionOnSet(f, Under(leaves, d, p))
  <2> DEFINE n == Levels - d
  <2>1. n \in Nat /\ n <= Levels /\ Levels - n = d
    BY MssmtAssumption
  <2>2. n \in N
    BY <1>5, <2>1
  <2> HIDE DEF n
  <2> QED BY <2>1, <2>2
<1> QED
  BY <1>6 DEF f

(* The root carries the sum of the leaves. *)
LEMMA RootSum ==
  ASSUME NEW leaves, GoodLeaves(leaves)
  PROVE  Root(Tree(leaves)).sum = SumFunction(SumsOf(leaves))
<1>1. Root(Tree(leaves)) = NodeAt(leaves, 0, <<>>)
  BY DEF Root, Tree, NodeAt
<1>2. 0 \in 0 .. Levels /\ <<>> \in PrefixesOf(0)
  <2>1. 0 \in Nat /\ <<>> \in Seq({0, 1}) /\ Len(<<>>) = 0
    BY EmptySeq
  <2>2. <<>> \in PrefixesOf(0)
    BY <2>1, PrefixSeq, Zenon
  <2> QED BY <2>2, MssmtAssumption
<1>3. Under(leaves, 0, <<>>) = DOMAIN leaves
  BY KeyPrefixes, Zenon DEF Under, GoodLeaves
<1>4. DOMAIN SumsOf(leaves) = DOMAIN leaves
  BY DEF SumsOf
<1> QED
  BY <1>1, <1>2, <1>3, <1>4, NodeSums DEF SumFunction

------------------------------------------------------------------------------
(* The tree *)

(* The tree is the one of its leaves, which are leaves callers insert.     *)
TreeInv ==
  /\ tree = Tree(tree.leaves)
  /\ DOMAIN tree.leaves \subseteq Keys /\ IsFiniteSet(DOMAIN tree.leaves)
  /\ \A k \in DOMAIN tree.leaves : tree.leaves[k] \in TreeLeaves

LEMMA TreeInvInit == TreesInit => TreeInv
<1> SUFFICES ASSUME TreesInit PROVE TreeInv
  OBVIOUS
<1>1. tree = Tree(NoLeaves)
  BY DEF TreesInit
<1>2. tree.leaves = NoLeaves
  BY <1>1 DEF Tree
<1>3. DOMAIN NoLeaves = {}
  BY DEF NoLeaves
<1> QED
  BY <1>1, <1>2, <1>3, FS_EmptySet DEF TreeInv

LEMMA InsertKeeps ==
  ASSUME TreeInv, NEW key \in Keys, NEW leaf \in TreeLeaves \cup {EmptyLeaf}, Insert(key, leaf)
  PROVE  TreeInv'
<1> DEFINE leaves == Inserted(tree.leaves, key, leaf)
<1>1. tree' = Tree(leaves)
  BY DEF Insert
<1>2. tree'.leaves = leaves
  BY <1>1 DEF Tree
<1>3. CASE leaf = EmptyLeaf
  <2>1. leaves = [k \in DOMAIN tree.leaves \ {key} |-> tree.leaves[k]]
    BY <1>3 DEF Inserted
  <2>2. IsFiniteSet(DOMAIN tree.leaves \ {key})
    BY FS_RemoveElement DEF TreeInv
  <2> HIDE DEF leaves
  <2> QED BY <1>1, <1>2, <2>1, <2>2 DEF TreeInv
<1>4. CASE leaf # EmptyLeaf
  <2>1. leaves = [k \in DOMAIN tree.leaves \cup {key} |->
                    IF k = key THEN leaf ELSE tree.leaves[k]]
    BY <1>4 DEF Inserted
  <2>2. IsFiniteSet(DOMAIN tree.leaves \cup {key})
    BY FS_AddElement DEF TreeInv
  <2> HIDE DEF leaves
  <2> QED BY <1>1, <1>2, <1>4, <2>1, <2>2 DEF TreeInv
<1> QED
  BY <1>3, <1>4

LEMMA TreeInvNext == TreeInv /\ [CaseNext]_allVars => TreeInv'
<1> SUFFICES ASSUME TreeInv, [CaseNext]_allVars PROVE TreeInv'
  OBVIOUS
<1>1. CASE UNCHANGED tree
  BY <1>1 DEF TreeInv
<1>2. CASE TreesNext
  <2>1. ASSUME NEW key \in Keys, NEW leaf \in TreeLeaves, Insert(key, leaf) PROVE TreeInv'
    BY <2>1, InsertKeeps
  <2>2. ASSUME NEW key \in Keys, Delete(key) PROVE TreeInv'
    BY <2>2, InsertKeeps DEF Delete
  <2>3. ASSUME NEW a \in Assets, AddAsset(a) PROVE TreeInv'
    BY <1>1, <2>3 DEF AddAsset
  <2> QED BY <1>2, <2>1, <2>2, <2>3 DEF TreesNext
<1> QED
  BY <1>1, <1>2 DEF CaseNext, allVars, treesVars

LEMMA TreeInvariance == CaseSpec => []TreeInv
<1>1. CaseInit => TreeInv
  BY TreeInvInit DEF CaseInit
<1> QED
  BY <1>1, TreeInvNext, PTL DEF CaseSpec

LEMMA TreeExact ==
  ASSUME TreeInv
  PROVE  ProofsExact
<1> DEFINE leaves == tree.leaves
<1>1. \A leaf \in TreeLeaves \cup {EmptyLeaf} : leaf = Leaf(leaf.value, leaf.sum) /\ leaf.sum \in Int
  BY TapCommitmentAssumption, MssmtAssumption DEF EmptyLeaf, Leaf
<1>2. GoodLeaves(leaves)
  BY <1>1 DEF GoodLeaves, TreeInv
<1>3. Root(tree).sum = SumFunction([k \in DOMAIN leaves |-> leaves[k].sum])
  BY <1>2, RootSum DEF TreeInv, SumsOf
<1>4. ASSUME NEW key \in Keys, NEW leaf \in TreeLeaves \cup {EmptyLeaf}
      PROVE  LET compressed == Compress(Proof(tree, key))
             IN  /\ CompressedValid(compressed)
                 /\ Verify(Decompress(compressed), key, leaf, Root(tree))
                      <=> leaf = Get(leaves, key, EmptyLeaf)
  <2> DEFINE siblings == Proof(tree, key)
             own == Get(leaves, key, EmptyLeaf)
  <2>1. siblings = [i \in 1 .. Levels |-> siblings[i]]
    BY Zenon DEF Proof
  <2>2. CompressedValid(Compress(siblings)) /\ Decompress(Compress(siblings)) = siblings
    <3> HIDE DEF siblings
    <3> QED BY <2>1, CompressionExact
  <2>3. RootFor(siblings, key, own) = Root(tree)
    BY ProofVerifies DEF TreeInv
  <2>4. own \in TreeLeaves \cup {EmptyLeaf}
    BY DEF Get, TreeInv
  <2>5. \A i \in 1 .. Levels : IsNode(siblings[i])
    <3> SUFFICES ASSUME NEW i \in 1 .. Levels PROVE IsNode(siblings[i])
      OBVIOUS
    <3> DEFINE d == Levels - i
               q == SiblingPrefix(key, d)
    <3>1. d \in Nat /\ d \in 0 .. Levels - 1 /\ d \in 0 .. Levels /\ d + 1 \in 0 .. Levels
      BY MssmtAssumption
    <3>2. siblings[i] = NodeAt(leaves, d + 1, q)
      <4>1. tree.levels = LevelsOf(leaves)
        BY DEF TreeInv, Tree
      <4> QED BY <4>1, Zenon DEF Proof, NodeAt
    <3> HIDE DEF d
    <3>3. key[d + 1] \in {0, 1} /\ SubSeq(key, 1, d) \in PrefixesOf(d)
      BY <3>1, KeyPrefixes
    <3>4. q \in PrefixesOf(d + 1)
      <4>1. 1 - key[d + 1] \in {0, 1}
        BY <3>3
      <4> DEFINE b == 1 - key[d + 1]
                 p == SubSeq(key, 1, d)
      <4>2. b \in {0, 1} /\ p \in PrefixesOf(d)
        BY <3>3, <4>1
      <4> HIDE DEF b, p
      <4>3. Append(p, b) \in PrefixesOf(d + 1)
        BY <3>1, <4>2, LongerPrefix
      <4> QED BY <4>3 DEF SiblingPrefix, b, p
    <3> QED BY <3>1, <3>2, <3>4, NodesAreNodes
  <2>6. RootFor(siblings, key, leaf) = Root(tree) => leaf = own
    <3> SUFFICES ASSUME RootFor(siblings, key, leaf) = Root(tree) PROVE leaf = own
      OBVIOUS
    <3> HIDE DEF siblings, own
    <3>1. LeafNode(leaf) = LeafNode(own)
      BY <2>3, <2>5, RootBindsLeaf
    <3>2. leaf = Leaf(leaf.value, leaf.sum) /\ own = Leaf(own.value, own.sum)
      BY <1>1, <2>4
    <3> QED BY <3>1, <3>2, LeafBinds
  <2> HIDE DEF siblings, own
  <2>7. CompressedValid(Compress(siblings)) /\
          (Verify(Decompress(Compress(siblings)), key, leaf, Root(tree)) <=> leaf = own)
    BY <2>2, <2>3, <2>6 DEF Verify
  <2> QED BY <2>7 DEF siblings, own
<1>5. \A key \in Keys :
        LET compressed == Compress(Proof(tree, key))
        IN  /\ CompressedValid(compressed)
            /\ \A leaf \in TreeLeaves \cup {EmptyLeaf} :
                 Verify(Decompress(compressed), key, leaf, Root(tree))
                   <=> leaf = Get(leaves, key, EmptyLeaf)
  BY <1>4, Zenon
<1> QED
  BY <1>3, <1>5, Zenon DEF ProofsExact

(* Proofs are exact for trees of any depth and size, after any insertions  *)
(* and deletions: the compressed proof of a key verifies for the leaf that *)
(* MssmtTree holds there and for no other, and the root's sum is that of   *)
(* the leaves.                                                             *)
THEOREM ProofsStayExact == CaseSpec => []TreeProofsExact
<1>1. TreeInv => TreeProofsExact
  BY TreeExact DEF TreeProofsExact
<1> QED
  BY <1>1, TreeInvariance, PTL

------------------------------------------------------------------------------
(* Two trees with one root *)

LEMMA RootBindsNodes ==
  ASSUME NEW a, NEW b, NodeAt(a, 0, <<>>) = NodeAt(b, 0, <<>>)
  PROVE  \A p \in PrefixesOf(Levels) : NodeAt(a, Levels, p) = NodeAt(b, Levels, p)
<1> DEFINE N == {d \in Nat : d <= Levels =>
                   \A p \in PrefixesOf(d) : NodeAt(a, d, p) = NodeAt(b, d, p)}
<1>1. 0 \in N
  <2>1. \A p \in PrefixesOf(0) : p = <<>>
    BY PrefixSeq, EmptySeq
  <2> QED BY <2>1
<1>2. ASSUME NEW d \in Nat, d \in N PROVE d + 1 \in N
  <2> SUFFICES ASSUME d + 1 <= Levels, NEW p \in PrefixesOf(d + 1)
               PROVE  NodeAt(a, d + 1, p) = NodeAt(b, d + 1, p)
    OBVIOUS
  <2>1. d \in 0 .. Levels - 1 /\ d <= Levels /\ d + 1 \in 0 .. Levels
    BY MssmtAssumption
  <2> DEFINE q == SubSeq(p, 1, d)
  <2>2. q \in PrefixesOf(d) /\ p[d + 1] \in {0, 1} /\ p = Append(q, p[d + 1])
    BY ShorterPrefix
  <2> HIDE DEF q
  <2>3. NodeAt(a, d, q) = NodeAt(b, d, q)
    BY <1>2, <2>1, <2>2
  <2>4. /\ NodeAt(a, d, q) = BranchNode(NodeAt(a, d + 1, Append(q, 0)),
                                        NodeAt(a, d + 1, Append(q, 1)))
        /\ NodeAt(b, d, q) = BranchNode(NodeAt(b, d + 1, Append(q, 0)),
                                        NodeAt(b, d + 1, Append(q, 1)))
    BY <2>1, <2>2, NodeIsBranch
  <2>5. \A bit \in {0, 1} : /\ IsNode(NodeAt(a, d + 1, Append(q, bit)))
                            /\ IsNode(NodeAt(b, d + 1, Append(q, bit)))
    BY <2>1, <2>2, LongerPrefix, NodesAreNodes
  <2>6. \A bit \in {0, 1} : NodeAt(a, d + 1, Append(q, bit)) = NodeAt(b, d + 1, Append(q, bit))
    <3> DEFINE l == NodeAt(a, d + 1, Append(q, 0))
               r == NodeAt(a, d + 1, Append(q, 1))
               m == NodeAt(b, d + 1, Append(q, 0))
               s == NodeAt(b, d + 1, Append(q, 1))
    <3>1. /\ BranchNode(l, r) = BranchNode(m, s)
          /\ IsNode(l) /\ IsNode(r) /\ IsNode(m) /\ IsNode(s)
      BY <2>3, <2>4, <2>5
    <3> HIDE DEF l, r, m, s
    <3>2. l = m /\ r = s
      BY <3>1, BranchBinds
    <3> QED BY <3>2 DEF l, r, m, s
  <2> QED BY <2>2, <2>6
<1>3. Levels \in N
  <2> HIDE DEF N
  <2> QED BY <1>1, <1>2, NumberInduction, MssmtAssumption
<1> QED
  BY <1>3, MssmtAssumption

(* Leaves at keys, none of them the empty one. *)
Filled(leaves) ==
  /\ DOMAIN leaves \subseteq Keys
  /\ \A k \in DOMAIN leaves : \E v, s : leaves[k] = Leaf(<<v>>, s)

LEMMA RootBindsLeaves ==
  ASSUME NEW a, NEW b, Filled(a), Filled(b), Root(Tree(a)) = Root(Tree(b))
  PROVE  DOMAIN a = DOMAIN b /\ \A k \in DOMAIN a : a[k] = b[k]
<1>1. NodeAt(a, 0, <<>>) = NodeAt(b, 0, <<>>)
  BY DEF Root, Tree, NodeAt
<1>2. ASSUME NEW k \in Keys PROVE Get(a, k, EmptyLeaf) = Get(b, k, EmptyLeaf)
  <2>1. k \in PrefixesOf(Levels)
    BY DEF Keys, PrefixesOf
  <2>2. LeafNode(Get(a, k, EmptyLeaf)) = LeafNode(Get(b, k, EmptyLeaf))
    BY <1>1, <2>1, RootBindsNodes, BottomNode
  <2>3. \E v, s : Get(a, k, EmptyLeaf) = Leaf(v, s)
    BY Zenon DEF Get, Filled, EmptyLeaf
  <2>4. \E v, s : Get(b, k, EmptyLeaf) = Leaf(v, s)
    BY Zenon DEF Get, Filled, EmptyLeaf
  <2> QED BY <2>2, <2>3, <2>4, LeafBinds
<1>3. \A v, s : Leaf(<<v>>, s) # EmptyLeaf
  BY DEF Leaf, EmptyLeaf
<1>4. \A k \in DOMAIN a : a[k] # EmptyLeaf
  BY <1>3, Zenon DEF Filled
<1>5. \A k \in DOMAIN b : b[k] # EmptyLeaf
  BY <1>3, Zenon DEF Filled
<1>6. \A k \in Keys : (k \in DOMAIN a <=> k \in DOMAIN b) /\ (k \in DOMAIN a => a[k] = b[k])
  BY <1>2, <1>4, <1>5, Zenon DEF Get
<1> QED
  BY <1>6 DEF Filled

(* Both children of a root give the root. *)
LEMMA ChildrenBindRoot ==
  ASSUME NEW a, NEW b,
         RootChild(Tree(a), 0).hash = RootChild(Tree(b), 0).hash,
         RootChild(Tree(a), 1).hash = RootChild(Tree(b), 1).hash
  PROVE  Root(Tree(a)) = Root(Tree(b))
<1>1. /\ 0 \in 0 .. Levels - 1 /\ 1 \in 0 .. Levels /\ 0 + 1 = 1 /\ 0 \in Nat
  BY MssmtAssumption
<1>2. <<>> \in PrefixesOf(0)
  <2>1. 0 \in Nat /\ <<>> \in Seq({0, 1}) /\ Len(<<>>) = 0
    BY EmptySeq
  <2> QED BY <2>1, PrefixSeq, Zenon
<1>3. \A bit \in {0, 1} : Append(<<>>, bit) = <<bit>> /\ Append(<<>>, bit) \in PrefixesOf(1)
  <2>1. \A bit \in {0, 1} : Append(<<>>, bit) \in PrefixesOf(0 + 1)
    BY <1>1, <1>2, LongerPrefix
  <2>2. \A bit : Append(<<>>, bit) = <<bit>>
    OBVIOUS
  <2> QED BY <1>1, <2>1, <2>2
<1>4. ASSUME NEW leaves, NEW bit \in {0, 1}
      PROVE  /\ RootChild(Tree(leaves), bit) = NodeAt(leaves, 1, Append(<<>>, bit))
             /\ IsNode(RootChild(Tree(leaves), bit))
  <2>1. RootChild(Tree(leaves), bit) = NodeAt(leaves, 1, <<bit>>)
    BY DEF RootChild, Tree, NodeAt
  <2>2. IsNode(NodeAt(leaves, 1, Append(<<>>, bit)))
    BY <1>1, <1>3, NodesAreNodes
  <2> QED BY <1>3, <2>1, <2>2
<1>5. ASSUME NEW leaves
      PROVE  Root(Tree(leaves)) = BranchNode(RootChild(Tree(leaves), 0), RootChild(Tree(leaves), 1))
  <2>1. Root(Tree(leaves)) = NodeAt(leaves, 0, <<>>)
    BY DEF Root, Tree, NodeAt
  <2>2. NodeAt(leaves, 0, <<>>) = BranchNode(NodeAt(leaves, 0 + 1, Append(<<>>, 0)),
                                             NodeAt(leaves, 0 + 1, Append(<<>>, 1)))
    BY <1>1, <1>2, NodeIsBranch
  <2> QED BY <1>1, <1>4, <2>1, <2>2
<1>6. ASSUME NEW bit \in {0, 1}, RootChild(Tree(a), bit).hash = RootChild(Tree(b), bit).hash
      PROVE  RootChild(Tree(a), bit) = RootChild(Tree(b), bit)
  <2> DEFINE x == RootChild(Tree(a), bit)
             y == RootChild(Tree(b), bit)
  <2>1. IsNode(x) /\ IsNode(y) /\ x.hash = y.hash
    BY <1>4, <1>6
  <2> HIDE DEF x, y
  <2>2. x = y
    BY <2>1 DEF IsNode
  <2> QED BY <2>2 DEF x, y
<1> QED
  BY <1>5, <1>6

------------------------------------------------------------------------------
(* The commitment to a list of assets *)

Listed(list) == \A i \in DOMAIN list : list[i] \in Assets

(* The leaf of an asset is at its key: no other asset of the list has it.  *)
LEMMA LeafOfAsset ==
  ASSUME NEW list, Listed(list), NEW k, AssetsCommittable(list, k)
  PROVE  /\ Filled(AssetLeaves(list, k))
         /\ DOMAIN AssetLeaves(list, k) = {AssetKey(list[i]) : i \in Group(list, k)}
         /\ \A i \in Group(list, k) :
              AssetLeaves(list, k)[AssetKey(list[i])] = AssetLeaf(list[i])
<1> DEFINE G == Group(list, k)
           L == AssetLeaves(list, k)
           at(key) == CHOOSE i \in G : AssetKey(list[i]) = key
<1>1. L = [key \in {AssetKey(list[i]) : i \in G} |-> AssetLeaf(list[at(key)])]
  BY Zenon DEF AssetLeaves
<1>2. \A i \in G : i \in DOMAIN list
  BY DEF Group
<1>3. \A i, j \in G : AssetKey(list[i]) = AssetKey(list[j]) => i = j
  BY Zenon DEF AssetsCommittable
<1> HIDE DEF G, L
<1>4. \A i \in G : at(AssetKey(list[i])) = i
  <2> SUFFICES ASSUME NEW i \in G PROVE at(AssetKey(list[i])) = i
    OBVIOUS
  <2>1. at(AssetKey(list[i])) \in G /\ AssetKey(list[at(AssetKey(list[i]))]) = AssetKey(list[i])
    BY Zenon
  <2> HIDE DEF at
  <2> QED BY <1>3, <2>1, Zenon
<1> HIDE DEF at
<1>5. \A i \in G : L[AssetKey(list[i])] = AssetLeaf(list[i])
  <2>1. ASSUME NEW i \in G PROVE L[AssetKey(list[i])] = AssetLeaf(list[i])
    <3>1. AssetKey(list[i]) \in {AssetKey(list[j]) : j \in G}
      OBVIOUS
    <3>2. L[AssetKey(list[i])] = AssetLeaf(list[at(AssetKey(list[i]))])
      BY <1>1, <3>1, Zenon
    <3> QED BY <1>4, <3>2
  <2> QED BY <2>1
<1>6. DOMAIN L = {AssetKey(list[i]) : i \in G}
  BY <1>1
<1>7. DOMAIN L \subseteq Keys
  BY <1>2, <1>6, AssetsAssumption DEF Listed
<1>8. ASSUME NEW key \in DOMAIN L PROVE \E v, s : L[key] = Leaf(<<v>>, s)
  <2>1. PICK i \in G : key = AssetKey(list[i])
    BY <1>6
  <2>2. L[key] = Leaf(<<list[i]>>, list[i].amount)
    BY <1>5, <2>1 DEF AssetLeaf
  <2> QED BY <2>2
<1>9. Filled(L)
  BY <1>7, <1>8 DEF Filled
<1> QED
  BY <1>5, <1>6, <1>9 DEF G, L

LEMMA TapLeavesFilled ==
  ASSUME NEW list, Listed(list)
  PROVE  Filled(TapLeaves(list))
<1>1. \A i \in DOMAIN list : TapKey(list[i]) \in Keys
  BY AssetsAssumption DEF Listed
<1>2. TapKeys(list) \subseteq Keys
  BY <1>1 DEF TapKeys
<1>3. ASSUME NEW k \in TapKeys(list) PROVE TapLeaves(list)[k] = Leaf(<<AssetRoot(list, k)>>, AssetRoot(list, k).sum)
  BY Zenon DEF TapLeaves, TapLeaf
<1>4. DOMAIN TapLeaves(list) = TapKeys(list)
  BY DEF TapLeaves
<1> QED
  BY <1>2, <1>3, <1>4, Zenon DEF Filled

(* One root of two lists: every asset of one is an asset of the other.     *)
LEMMA RootBindsAsset ==
  ASSUME NEW list, NEW other, Listed(list), Listed(other),
         Committable(list), Committable(other),
         Root(Tree(TapLeaves(list))) = Root(Tree(TapLeaves(other)))
  PROVE  ToSet(list) \subseteq ToSet(other)
<1>1. SUFFICES ASSUME NEW i \in DOMAIN list PROVE \E j \in DOMAIN other : other[j] = list[i]
  BY DEF ToSet
<1> DEFINE k == TapKey(list[i])
           key == AssetKey(list[i])
           L == AssetLeaves(list, k)
           M == AssetLeaves(other, k)
<1>2. /\ DOMAIN TapLeaves(list) = DOMAIN TapLeaves(other)
      /\ \A x \in DOMAIN TapLeaves(list) : TapLeaves(list)[x] = TapLeaves(other)[x]
  BY TapLeavesFilled, RootBindsLeaves
<1>3. DOMAIN TapLeaves(list) = TapKeys(list) /\ DOMAIN TapLeaves(other) = TapKeys(other)
  BY DEF TapLeaves
<1>4. k \in TapKeys(list) /\ k \in TapKeys(other) /\ i \in Group(list, k)
  BY <1>2, <1>3 DEF TapKeys, Group
<1>5. TapLeaves(list)[k] = TapLeaf(list, k) /\ TapLeaves(other)[k] = TapLeaf(other, k)
  <2> HIDE DEF k
  <2> QED BY <1>4, Zenon DEF TapLeaves
<1>6. AssetRoot(list, k) = AssetRoot(other, k)
  <2>1. TapLeaf(list, k) = TapLeaf(other, k)
    BY <1>2, <1>3, <1>4, <1>5
  <2>2. \A x, y, s, t : Leaf(<<x>>, s) = Leaf(<<y>>, t) => x = y
    BY DEF Leaf
  <2> HIDE DEF k
  <2> QED BY <2>1, <2>2, Zenon DEF TapLeaf
<1>7. RootIdentifier(k, Tree(L)) = RootIdentifier(k, Tree(M))
  BY <1>6 DEF AssetRoot
<1>8. Root(Tree(L)) = Root(Tree(M))
  <2>1. /\ RootChild(Tree(L), 0).hash = RootChild(Tree(M), 0).hash
        /\ RootChild(Tree(L), 1).hash = RootChild(Tree(M), 1).hash
    <3> HIDE DEF L, M, k
    <3> QED BY <1>7 DEF RootIdentifier
  <2> HIDE DEF L, M
  <2> QED BY <2>1, ChildrenBindRoot
<1>9. AssetsCommittable(list, k) /\ AssetsCommittable(other, k)
  <2> HIDE DEF k
  <2> QED BY <1>4 DEF Committable
<1>10. /\ Filled(L) /\ Filled(M) /\ key \in DOMAIN L /\ L[key] = AssetLeaf(list[i])
       /\ DOMAIN M = {AssetKey(other[j]) : j \in Group(other, k)}
       /\ \A j \in Group(other, k) : M[AssetKey(other[j])] = AssetLeaf(other[j])
  <2>1. /\ Filled(L) /\ DOMAIN L = {AssetKey(list[j]) : j \in Group(list, k)}
        /\ \A j \in Group(list, k) : L[AssetKey(list[j])] = AssetLeaf(list[j])
    <3> HIDE DEF k
    <3> QED BY <1>9, LeafOfAsset
  <2>2. /\ Filled(M) /\ DOMAIN M = {AssetKey(other[j]) : j \in Group(other, k)}
        /\ \A j \in Group(other, k) : M[AssetKey(other[j])] = AssetLeaf(other[j])
    <3> HIDE DEF k
    <3> QED BY <1>9, LeafOfAsset
  <2> HIDE DEF k, L, M
  <2> QED BY <1>4, <2>1, <2>2
<1> HIDE DEF L, M, k
<1>11. key \in DOMAIN M /\ M[key] = AssetLeaf(list[i])
  BY <1>8, <1>10, RootBindsLeaves
<1>12. PICK j \in Group(other, k) : key = AssetKey(other[j])
  BY <1>10, <1>11
<1>13. AssetLeaf(other[j]) = AssetLeaf(list[i])
  BY <1>10, <1>11, <1>12
<1>14. other[j] = list[i]
  BY <1>13 DEF AssetLeaf, Leaf
<1> QED
  BY <1>12, <1>14 DEF Group

(* Lists of the same assets have the same trees, in whatever order.        *)
LEMMA SameAssetsSameTrees ==
  ASSUME NEW list, NEW other, Listed(list), Listed(other),
         Committable(list), Committable(other), ToSet(list) = ToSet(other)
  PROVE  /\ TapKeys(list) = TapKeys(other)
         /\ \A k \in TapKeys(list) : AssetRoot(list, k) = AssetRoot(other, k)
         /\ TapLeaves(list) = TapLeaves(other)
<1>1. /\ \A i \in DOMAIN list : \E j \in DOMAIN other : other[j] = list[i]
      /\ \A j \in DOMAIN other : \E i \in DOMAIN list : list[i] = other[j]
  BY DEF ToSet
<1>2. TapKeys(list) = TapKeys(other)
  BY <1>1 DEF TapKeys
<1>3. ASSUME NEW k \in TapKeys(list) PROVE AssetRoot(list, k) = AssetRoot(other, k)
  <2> DEFINE L == AssetLeaves(list, k)
             M == AssetLeaves(other, k)
             G == Group(list, k)
             H == Group(other, k)
  <2>1. /\ \A i \in G : \E j \in H : other[j] = list[i]
        /\ \A j \in H : \E i \in G : list[i] = other[j]
    BY <1>1 DEF Group
  <2>2. {list[i].version : i \in G} = {other[j].version : j \in H}
    <3> HIDE DEF G, H
    <3> QED BY <2>1
  <2>3. AssetsCommittable(list, k) /\ AssetsCommittable(other, k)
    BY <1>2 DEF Committable
  <2>4. /\ DOMAIN L = {AssetKey(list[i]) : i \in G}
        /\ \A i \in G : L[AssetKey(list[i])] = AssetLeaf(list[i])
        /\ DOMAIN M = {AssetKey(other[j]) : j \in H}
        /\ \A j \in H : M[AssetKey(other[j])] = AssetLeaf(other[j])
    BY <2>3, LeafOfAsset
  <2>5. L = [x \in DOMAIN L |-> L[x]] /\ M = [x \in DOMAIN M |-> M[x]]
    BY DEF AssetLeaves
  <2>6. L = M
    <3> HIDE DEF L, M, G, H
    <3>1. DOMAIN L = DOMAIN M
      BY <2>1, <2>4
    <3>2. ASSUME NEW x \in DOMAIN L PROVE L[x] = M[x]
      <4>1. PICK i \in G : x = AssetKey(list[i])
        BY <2>4
      <4>2. PICK j \in H : other[j] = list[i]
        BY <2>1
      <4> QED BY <2>4, <4>1, <4>2
    <3> QED BY <2>5, <3>1, <3>2, Zenon
  <2> QED BY <2>2, <2>6 DEF AssetRoot
<1>4. \A k \in TapKeys(list) : TapLeaf(list, k) = TapLeaf(other, k)
  BY <1>3 DEF TapLeaf
<1>5. TapLeaves(list) = TapLeaves(other)
  BY <1>2, <1>4 DEF TapLeaves
<1> QED
  BY <1>2, <1>3, <1>5

(* The script root names the tree's root and tells nothing else apart.     *)
LEMMA ScriptRootBinds ==
  ASSUME NEW given, NEW list, NEW other, NEW sibling,
         sibling = <<>> \/ \E x : sibling = <<x>>,
         TapscriptRoot(given, list, sibling) = TapscriptRoot(given, other, sibling)
  PROVE  Root(Tree(TapLeaves(list))) = Root(Tree(TapLeaves(other)))
<1> DEFINE l == TapLeafScript(TapVersion(given, list), Root(Tree(TapLeaves(list))))
           o == TapLeafScript(TapVersion(given, other), Root(Tree(TapLeaves(other))))
<1>1. {<<l>>} \cup ToSet(sibling) = {<<o>>} \cup ToSet(sibling)
  BY Zenon DEF TapscriptRoot
<1>2. ToSet(sibling) = {} \/ \E x : ToSet(sibling) = {x}
  BY DEF ToSet
<1>3. <<l>> = <<o>>
  <2> DEFINE a == <<l>>
             b == <<o>>
             S == ToSet(sibling)
  <2>1. {a} \cup S = {b} \cup S /\ (S = {} \/ \E x : S = {x})
    BY <1>1, <1>2
  <2> HIDE DEF a, b, S
  <2>2. a = b
    BY <2>1
  <2> QED BY <2>2 DEF a, b
<1>4. l = o
  <2> HIDE DEF l, o
  <2> QED BY <1>3
<1>5. \A v, w, r, s : TapLeafScript(v, r) = TapLeafScript(w, s) => r = s
  BY DEF TapLeafScript
<1> QED
  BY <1>4, <1>5

LEMMA SameAssetsSameScript ==
  ASSUME NEW given, NEW list, NEW other, NEW sibling, Listed(list), Listed(other),
         Committable(list), Committable(other), ToSet(list) = ToSet(other)
  PROVE  TapscriptRoot(given, list, sibling) = TapscriptRoot(given, other, sibling)
<1>1. /\ TapKeys(list) = TapKeys(other)
      /\ \A k \in TapKeys(list) : AssetRoot(list, k) = AssetRoot(other, k)
      /\ TapLeaves(list) = TapLeaves(other)
  BY SameAssetsSameTrees
<1>2. {AssetRoot(list, k).version : k \in TapKeys(list)} =
      {AssetRoot(other, k).version : k \in TapKeys(other)}
  BY <1>1
<1>3. TapVersion(given, list) = TapVersion(given, other)
  BY <1>2, Zenon DEF TapVersion
<1> QED
  BY <1>1, <1>3 DEF TapscriptRoot

(* The root of a list carries the sum of its amounts. *)
LEMMA CommitmentSum ==
  ASSUME NEW list, Listed(list), IsFiniteSet(DOMAIN list), Committable(list)
  PROVE  Root(Tree(TapLeaves(list))).sum = SumFunction([i \in DOMAIN list |-> list[i].amount])
<1> DEFINE f == [i \in DOMAIN list |-> list[i].amount]
           K == TapKeys(list)
           P == [k \in K |-> Group(list, k)]
           g == SumsOf(TapLeaves(list))
           tapKey == [i \in DOMAIN list |-> TapKey(list[i])]
<1>1. \A i \in DOMAIN list : f[i] \in Int
  BY AssetsAssumption, TapCommitmentAssumption, MssmtAssumption DEF Listed
<1>2. \A k : Group(list, k) \subseteq DOMAIN list /\ IsFiniteSet(Group(list, k))
  BY FS_Subset DEF Group
<1>3. ASSUME NEW k \in K
      PROVE  /\ GoodLeaves(AssetLeaves(list, k))
             /\ SumFunction(SumsOf(AssetLeaves(list, k))) = SumFunctionOnSet(f, Group(list, k))
  <2> DEFINE L == AssetLeaves(list, k)
             G == Group(list, k)
             s == SumsOf(L)
             h == [i \in DOMAIN list |-> AssetKey(list[i])]
  <2>1. AssetsCommittable(list, k)
    BY DEF Committable
  <2>2. /\ Filled(L) /\ DOMAIN L = {AssetKey(list[i]) : i \in G}
        /\ \A i \in G : L[AssetKey(list[i])] = AssetLeaf(list[i])
    BY <2>1, LeafOfAsset
  <2>3. \A i, j \in G : AssetKey(list[i]) = AssetKey(list[j]) => i = j
    BY <2>1, Zenon DEF AssetsCommittable
  <2>4. G \subseteq DOMAIN list /\ IsFiniteSet(G)
    BY <1>2
  <2>5. DOMAIN s = DOMAIN L /\ \A x \in DOMAIN L : s[x] = L[x].sum
    BY DEF SumsOf
  <2> HIDE DEF L, G, s
  <2>6. DOMAIN L = {h[i] : i \in G} /\ \A i, j \in G : h[i] = h[j] => i = j
    BY <2>2, <2>3, <2>4
  <2>7. \A i \in G : f[i] = s[h[i]] /\ s[h[i]] \in Int
    <3> SUFFICES ASSUME NEW i \in G PROVE f[i] = s[h[i]] /\ s[h[i]] \in Int
      OBVIOUS
    <3>1. i \in DOMAIN list /\ h[i] = AssetKey(list[i]) /\ h[i] \in DOMAIN L
      BY <2>2, <2>4
    <3>2. s[h[i]] = AssetLeaf(list[i]).sum
      BY <2>2, <2>5, <3>1
    <3>3. AssetLeaf(list[i]).sum = list[i].amount
      BY DEF AssetLeaf, Leaf
    <3> QED BY <1>1, <3>1, <3>2, <3>3
  <2> HIDE DEF f, h
  <2>8. SumFunctionOnSet(f, G) = SumFunctionOnSet(s, {h[i] : i \in G})
    BY <2>4, <2>6, <2>7, SumReindex
  <2>9. IsFiniteSet({h[i] : i \in G})
    BY <2>4, ImageFinite
  <2>10. GoodLeaves(L)
    <3>1. \A x \in DOMAIN L : L[x].sum \in Int
      BY <2>5, <2>6, <2>7
    <3>2. IsFiniteSet(DOMAIN L)
      BY <2>6, <2>9
    <3> QED BY <2>2, <3>1, <3>2 DEF GoodLeaves, Filled
  <2>11. SumFunction(s) = SumFunctionOnSet(f, G)
    BY <2>5, <2>6, <2>8 DEF SumFunction
  <2> QED BY <2>10, <2>11 DEF L, G, s
<1>4. ASSUME NEW k \in K PROVE g[k] = SumFunctionOnSet(f, P[k])
  <2>1. g[k] = TapLeaf(list, k).sum
    BY DEF SumsOf, TapLeaves
  <2>2. TapLeaf(list, k).sum = AssetRoot(list, k).sum
    BY DEF TapLeaf, Leaf
  <2>3. AssetRoot(list, k).sum = Root(Tree(AssetLeaves(list, k))).sum
    BY DEF AssetRoot
  <2>4. Root(Tree(AssetLeaves(list, k))).sum = SumFunctionOnSet(f, Group(list, k))
    BY <1>3, RootSum
  <2> QED BY <2>1, <2>2, <2>3, <2>4
<1>5. IsFiniteSet(K)
  <2>1. K = {tapKey[i] : i \in DOMAIN list}
    BY DEF TapKeys
  <2> HIDE DEF tapKey, K
  <2> QED BY <2>1, ImageFinite
<1>6. \A k \in K : g[k] \in Int
  <2> SUFFICES ASSUME NEW k \in K PROVE g[k] \in Int
    OBVIOUS
  <2>1. \A x \in P[k] : f[x] \in Int
    BY <1>1, <1>2
  <2>2. IsFiniteSet(P[k])
    BY <1>2
  <2> HIDE DEF f, P, g
  <2> QED BY <1>4, <2>1, <2>2, SumInt
<1>7. DOMAIN TapLeaves(list) = K /\ DOMAIN g = K
  BY DEF TapLeaves, SumsOf
<1>8. GoodLeaves(TapLeaves(list))
  <2>1. \A k \in K : TapLeaves(list)[k].sum \in Int
    BY <1>6, <1>7 DEF SumsOf
  <2> QED BY <1>5, <1>7, <2>1, TapLeavesFilled DEF GoodLeaves, Filled
<1>9. Root(Tree(TapLeaves(list))).sum = SumFunctionOnSet(g, K)
  BY <1>7, <1>8, RootSum DEF SumFunction
<1>10. UNION {P[k] : k \in K} = DOMAIN list
  BY DEF TapKeys, Group
<1>11. \A c, d \in K : c # d => P[c] \cap P[d] = {}
  BY DEF Group
<1>12. \A c \in K : IsFiniteSet(P[c]) /\ \A x \in P[c] : f[x] \in Int
  BY <1>1, <1>2
<1>13. DOMAIN f = DOMAIN list
  OBVIOUS
<1> HIDE DEF f, K, P, g
<1>14. SumFunctionOnSet(g, K) = SumFunctionOnSet(f, UNION {P[k] : k \in K})
  BY <1>4, <1>5, <1>11, <1>12, SumOfSums
<1> QED
  BY <1>9, <1>10, <1>13, <1>14 DEF SumFunction, f

LEMMA VariantsListed ==
  ASSUME NEW list \in Seq(Assets), NEW other \in Variants(list)
  PROVE  Listed(other)
<1>1. DOMAIN list = 1 .. Len(list) /\ Len(list) \in Nat /\ \A i \in DOMAIN list : list[i] \in Assets
  BY LenProperties, ElementOfSeq
<1>2. CASE \E i \in DOMAIN list, a \in Assets : other = [list EXCEPT ![i] = a]
  BY <1>1, <1>2 DEF Listed
<1>3. CASE \E i \in DOMAIN list : other = RemoveAt(list, i)
  <2>1. PICK i \in DOMAIN list : other = SubSeq(list, 1, i - 1) \o SubSeq(list, i + 1, Len(list))
    BY <1>3 DEF RemoveAt
  <2>2. i \in 1 .. Len(list) /\ i - 1 \in Int /\ i + 1 \in Int
    BY <1>1
  <2>3. SubSeq(list, 1, i - 1) \in Seq(Assets)
    <3>1. \A x \in 1 .. i - 1 : list[x] \in Assets
      BY <1>1, <2>2
    <3> QED BY <2>2, <3>1, SubSeqProperties
  <2>4. SubSeq(list, i + 1, Len(list)) \in Seq(Assets)
    <3>1. \A x \in i + 1 .. Len(list) : list[x] \in Assets
      BY <1>1, <2>2
    <3> QED BY <1>1, <2>2, <3>1, SubSeqProperties
  <2>5. other \in Seq(Assets)
    BY <2>1, <2>3, <2>4, ConcatProperties
  <2> QED BY <2>5, LenProperties, ElementOfSeq DEF Listed
<1>4. CASE \E a \in Assets : other = Append(list, a)
  <2>1. other \in Seq(Assets)
    BY <1>4, AppendProperties
  <2> QED BY <2>1, LenProperties, ElementOfSeq DEF Listed
<1>5. CASE other = Reverse(list)
  BY <1>1, <1>5 DEF Reverse, Listed
<1> QED
  BY <1>2, <1>3, <1>4, <1>5 DEF Variants

ListInv == assets \in Seq(Assets)

LEMMA ListInvariance == CaseSpec => []ListInv
<1>1. CaseInit => ListInv
  BY EmptySeq DEF CaseInit, TreesInit, ListInv
<1>2. ListInv /\ [CaseNext]_allVars => ListInv'
  <2> USE DEF ListInv
  <2> SUFFICES ASSUME assets \in Seq(Assets), [CaseNext]_allVars PROVE assets' \in Seq(Assets)
    OBVIOUS
  <2>1. CASE UNCHANGED assets
    BY <2>1
  <2>2. CASE TreesNext
    <3>1. ASSUME NEW key, NEW leaf, Insert(key, leaf) PROVE assets' \in Seq(Assets)
      BY <3>1 DEF Insert
    <3>2. ASSUME NEW a \in Assets, AddAsset(a) PROVE assets' \in Seq(Assets)
      BY <3>2, AppendProperties DEF AddAsset
    <3> QED BY <2>2, <3>1, <3>2 DEF TreesNext, Delete
  <2> QED BY <2>1, <2>2 DEF CaseNext, allVars, treesVars
<1> QED
  BY <1>1, <1>2, PTL DEF CaseSpec

(* An output binds its assets, however many and in whatever order: a list  *)
(* that differs in one asset, in anything TapCommitment::from_assets hashes *)
(* of it, has another script root, and a list of the same assets the same; *)
(* and the root carries the sum of the amounts.                            *)
THEOREM OutputsStayBound == CaseSpec => []OutputsBindAssets
<1>1. ASSUME assets \in Seq(Assets) PROVE TapRootBindsAssets
  <2> DEFINE other_script == << <<"other", "script">> >>
             roots(list) == <<TapscriptRoot(<<>>, list, <<>>),
                              TapscriptRoot(<<2>>, list, other_script)>>
  <2>1. /\ DOMAIN assets = 1 .. Len(assets) /\ Len(assets) \in Nat
        /\ Listed(assets)
    BY <1>1, LenProperties, ElementOfSeq DEF Listed
  <2>2. IsFiniteSet(DOMAIN assets)
    BY <2>1, FS_Interval
  <2>3. ASSUME Committable(assets)
        PROVE  Root(Tree(TapLeaves(assets))).sum =
                 SumFunction([i \in DOMAIN assets |-> assets[i].amount])
    BY <2>1, <2>2, <2>3, CommitmentSum
  <2>4. ASSUME Committable(assets), NEW other \in Variants(assets), Committable(other),
               NEW i \in {1, 2}
        PROVE  roots(other)[i] = roots(assets)[i] <=> ToSet(other) = ToSet(assets)
    <3>1. Listed(other)
      BY <1>1, VariantsListed
    <3>2. ASSUME NEW given, NEW sibling, sibling = <<>> \/ \E x : sibling = <<x>>
          PROVE  TapscriptRoot(given, other, sibling) = TapscriptRoot(given, assets, sibling)
                   <=> ToSet(other) = ToSet(assets)
      <4>1. ASSUME TapscriptRoot(given, other, sibling) = TapscriptRoot(given, assets, sibling)
            PROVE  ToSet(other) = ToSet(assets)
        <5>1. Root(Tree(TapLeaves(other))) = Root(Tree(TapLeaves(assets)))
          BY <3>2, <4>1, ScriptRootBinds
        <5>2. ToSet(other) \subseteq ToSet(assets)
          BY <2>1, <2>4, <3>1, <5>1, RootBindsAsset
        <5>3. ToSet(assets) \subseteq ToSet(other)
          BY <2>1, <2>4, <3>1, <5>1, RootBindsAsset
        <5> QED BY <5>2, <5>3
      <4>2. ASSUME ToSet(other) = ToSet(assets)
            PROVE  TapscriptRoot(given, other, sibling) = TapscriptRoot(given, assets, sibling)
        BY <2>1, <2>4, <3>1, <4>2, SameAssetsSameScript
      <4> QED BY <4>1, <4>2
    <3>3. CASE i = 1
      BY <3>2, <3>3
    <3>4. CASE i = 2
      BY <3>2, <3>4
    <3> QED BY <3>3, <3>4
  <2> HIDE DEF roots
  <2>5. Committable(assets) =>
          /\ Root(Tree(TapLeaves(assets))).sum =
               SumFunction([i \in DOMAIN assets |-> assets[i].amount])
          /\ \A other \in Variants(assets) :
               Committable(other) =>
                 \A i \in {1, 2} : roots(other)[i] = roots(assets)[i] <=>
                                     ToSet(other) = ToSet(assets)
    BY <2>3, <2>4, Zenon
  <2> QED BY <2>5, Zenon DEF TapRootBindsAssets, roots
<1>2. ListInv => OutputsBindAssets
  BY <1>1 DEF OutputsBindAssets, ListInv
<1> QED
  BY <1>2, ListInvariance, PTL

------------------------------------------------------------------------------
(* The transition of a case *)

GoodCase(c) ==
  /\ c = [asset |-> c.asset, inputs |-> c.inputs, splits |-> c.splits]
  /\ {"amount", "witnesses"} \subseteq DOMAIN c.asset /\ c.asset.amount \in Nat
  /\ c.asset.witnesses \in Seq(VmWitnesses)
  /\ c.inputs \in Seq(VmInputs)
  /\ c.splits \in Seq(VmSplits)

CaseInv == vmCase # <<>> => \E c : vmCase = <<c>> /\ GoodCase(c)

(* A case with one of its fields replaced.                                 *)
LEMMA Replaced ==
  ASSUME NEW c, c = [asset |-> c.asset, inputs |-> c.inputs, splits |-> c.splits]
  PROVE  \A v :
           /\ [c EXCEPT !.asset = v] = [asset |-> v, inputs |-> c.inputs, splits |-> c.splits]
           /\ [c EXCEPT !.inputs = v] = [asset |-> c.asset, inputs |-> v, splits |-> c.splits]
           /\ [c EXCEPT !.splits = v] = [asset |-> c.asset, inputs |-> c.inputs, splits |-> v]
<1> SUFFICES ASSUME NEW e
             PROVE  /\ [c EXCEPT !.asset = e] = [asset |-> e, inputs |-> c.inputs, splits |-> c.splits]
                    /\ [c EXCEPT !.inputs = e] = [asset |-> c.asset, inputs |-> e, splits |-> c.splits]
                    /\ [c EXCEPT !.splits = e] = [asset |-> c.asset, inputs |-> c.inputs, splits |-> e]
  OBVIOUS
<1> DEFINE F == {"asset", "inputs", "splits"}
<1>1. c = [f \in F |-> c[f]] /\ DOMAIN c = F
  OBVIOUS
<1>2. [c EXCEPT !.asset = e] = [asset |-> e, inputs |-> c.inputs, splits |-> c.splits]
  <2>1. [c EXCEPT !.asset = e] = [f \in F |-> IF f = "asset" THEN e ELSE c[f]]
    BY <1>1
  <2> QED BY <2>1
<1>3. [c EXCEPT !.inputs = e] = [asset |-> c.asset, inputs |-> e, splits |-> c.splits]
  <2>1. [c EXCEPT !.inputs = e] = [f \in F |-> IF f = "inputs" THEN e ELSE c[f]]
    BY <1>1
  <2> QED BY <2>1
<1>4. [c EXCEPT !.splits = e] = [asset |-> c.asset, inputs |-> c.inputs, splits |-> e]
  <2>1. [c EXCEPT !.splits = e] = [f \in F |-> IF f = "splits" THEN e ELSE c[f]]
    BY <1>1
  <2> QED BY <2>1
<1> QED
  BY <1>2, <1>3, <1>4

(* What filling in one field of a case makes of it.                        *)
LEMMA FilledIn ==
  ASSUME NEW c, GoodCase(c), NEW e
  PROVE  /\ [c EXCEPT !.inputs = Append(@, e)] =
              [asset |-> c.asset, inputs |-> Append(c.inputs, e), splits |-> c.splits]
         /\ [c EXCEPT !.splits = Append(@, e)] =
              [asset |-> c.asset, inputs |-> c.inputs, splits |-> Append(c.splits, e)]
         /\ [c EXCEPT !.asset.witnesses = Append(@, e)] =
              [asset |-> [c.asset EXCEPT !.witnesses = Append(@, e)],
               inputs |-> c.inputs, splits |-> c.splits]
<1>1. c = [asset |-> c.asset, inputs |-> c.inputs, splits |-> c.splits]
  BY Zenon DEF GoodCase
<1>2. [c EXCEPT !.asset.witnesses = Append(@, e)] =
        [c EXCEPT !.asset = [c.asset EXCEPT !.witnesses = Append(@, e)]]
  BY Zenon
<1>3. \A v : /\ [c EXCEPT !.asset = v] = [asset |-> v, inputs |-> c.inputs, splits |-> c.splits]
            /\ [c EXCEPT !.inputs = v] = [asset |-> c.asset, inputs |-> v, splits |-> c.splits]
            /\ [c EXCEPT !.splits = v] = [asset |-> c.asset, inputs |-> c.inputs, splits |-> v]
  BY <1>1, Replaced, Zenon
<1> QED
  BY <1>2, <1>3, Zenon

LEMMA CaseInvariance == CaseSpec => []CaseInv
<1>1. CaseInit => CaseInv
  BY DEF CaseInit, CaseInv
<1>2. CaseInv /\ [CaseNext]_allVars => CaseInv'
  <2> SUFFICES ASSUME CaseInv, [CaseNext]_allVars PROVE CaseInv'
    OBVIOUS
  <2>1. CASE UNCHANGED vmCase
    BY <2>1 DEF CaseInv
  <2>2. ASSUME NEW a \in TopAssets, Begin(a) PROVE CaseInv'
    <3> DEFINE c == [asset |-> a, inputs |-> <<>>, splits |-> <<>>]
    <3>1. vmCase' = <<c>>
      BY <2>2 DEF Begin
    <3>2. GoodCase(c)
      BY EmptySeq, TapVmCaseAssumption DEF GoodCase
    <3> HIDE DEF c
    <3> QED BY <3>1, <3>2 DEF CaseInv
  <2>3. ASSUME vmCase # <<>>
        PROVE  \E c : vmCase = <<c>> /\ vmCase[1] = c /\ GoodCase(c)
    BY <2>3 DEF CaseInv
  <2>4. ASSUME NEW w \in VmWitnesses, AddWitness(w) PROVE CaseInv'
    <3>1. vmCase # <<>>
      BY <2>4 DEF AddWitness
    <3>2. PICK c : vmCase = <<c>> /\ GoodCase(c)
      BY <2>3, <3>1
    <3> DEFINE top == [c.asset EXCEPT !.witnesses = Append(@, w)]
               d == [asset |-> top, inputs |-> c.inputs, splits |-> c.splits]
    <3>3. vmCase' = <<[c EXCEPT !.asset.witnesses = Append(@, w)]>>
      <4>1. vmCase' = [vmCase EXCEPT ![1].asset.witnesses = Append(@, w)]
        BY <2>4 DEF AddWitness
      <4>2. vmCase = [n \in {1} |-> c]
        BY <3>2
      <4>3. [[n \in {1} |-> c] EXCEPT ![1].asset.witnesses = Append(@, w)] =
              [n \in {1} |-> [c EXCEPT !.asset.witnesses = Append(@, w)]]
        BY Zenon
      <4> DEFINE e == [c EXCEPT !.asset.witnesses = Append(@, w)]
      <4> HIDE DEF e
      <4>4. [n \in {1} |-> e] = <<e>>
        OBVIOUS
      <4> QED BY <4>1, <4>2, <4>3, <4>4, Zenon DEF e
    <3>4. [c EXCEPT !.asset.witnesses = Append(@, w)] = d
      BY <3>2, FilledIn
    <3>5. top.witnesses = Append(c.asset.witnesses, w) /\ top.amount = c.asset.amount
          /\ DOMAIN top = DOMAIN c.asset
      BY <3>2 DEF GoodCase
    <3>6. Append(c.asset.witnesses, w) \in Seq(VmWitnesses)
      BY <3>2, AppendProperties DEF GoodCase
    <3> HIDE DEF top
    <3>7. GoodCase(d)
      BY <3>2, <3>5, <3>6 DEF GoodCase
    <3> HIDE DEF d
    <3> QED BY <3>3, <3>4, <3>7 DEF CaseInv
  <2>5. ASSUME NEW input \in VmInputs, AddInput(input) PROVE CaseInv'
    <3>1. vmCase # <<>>
      BY <2>5 DEF AddInput
    <3>2. PICK c : vmCase = <<c>> /\ GoodCase(c)
      BY <2>3, <3>1
    <3> DEFINE inputs == Append(c.inputs, input)
               d == [asset |-> c.asset, inputs |-> inputs, splits |-> c.splits]
    <3>3. vmCase' = <<[c EXCEPT !.inputs = Append(@, input)]>>
      BY <2>5, <3>2 DEF AddInput
    <3>4. [c EXCEPT !.inputs = Append(@, input)] = d
      BY <3>2, FilledIn
    <3>5. inputs \in Seq(VmInputs)
      BY <3>2, AppendProperties DEF GoodCase
    <3> HIDE DEF inputs
    <3>6. GoodCase(d)
      BY <3>2, <3>5 DEF GoodCase
    <3> HIDE DEF d
    <3> QED BY <3>3, <3>4, <3>6 DEF CaseInv
  <2>6. ASSUME NEW split \in VmSplits, AddSplit(split) PROVE CaseInv'
    <3>1. vmCase # <<>>
      BY <2>6 DEF AddSplit
    <3>2. PICK c : vmCase = <<c>> /\ GoodCase(c)
      BY <2>3, <3>1
    <3> DEFINE splits == Append(c.splits, split)
               d == [asset |-> c.asset, inputs |-> c.inputs, splits |-> splits]
    <3>3. vmCase' = <<[c EXCEPT !.splits = Append(@, split)]>>
      BY <2>6, <3>2 DEF AddSplit
    <3>4. [c EXCEPT !.splits = Append(@, split)] = d
      BY <3>2, FilledIn
    <3>5. splits \in Seq(VmSplits)
      BY <3>2, AppendProperties DEF GoodCase
    <3> HIDE DEF splits
    <3>6. GoodCase(d)
      BY <3>2, <3>5 DEF GoodCase
    <3> HIDE DEF d
    <3> QED BY <3>3, <3>4, <3>6 DEF CaseInv
  <2> QED
    BY <2>1, <2>2, <2>4, <2>5, <2>6 DEF CaseNext, CaseStep, allVars
<1> QED
  BY <1>1, <1>2, PTL DEF CaseSpec

Checked(c, i) ==
  /\ c.asset.witnesses[i].stack # <<>>
  /\ WitnessStack(c.asset.witnesses[i].stack[1])

(* As many witnesses as inputs, and one for each of distinct inputs: none  *)
(* is left unchecked.                                                      *)
LEMMA AllWitnessesChecked ==
  ASSUME NEW c, GoodCase(c), InputsValid(c), Len(c.asset.witnesses) = Len(c.inputs),
         \A m, n \in DOMAIN c.inputs : c.inputs[m].prev = c.inputs[n].prev => m = n,
         NEW i \in DOMAIN c.asset.witnesses
  PROVE  Checked(c, i)
<1> DEFINE N == Len(c.inputs)
           W == c.asset.witnesses
           prev(j) == W[j].prev
           f == [n \in 1 .. N |-> CHOOSE j \in 1 .. N : prev(j) = c.inputs[n].prev /\ Checked(c, j)]
<1>1. N \in Nat /\ DOMAIN c.inputs = 1 .. N /\ DOMAIN W = 1 .. N
  BY LenProperties DEF GoodCase
<1>2. ASSUME NEW n \in 1 .. N
      PROVE  \E j \in 1 .. N : prev(j) = c.inputs[n].prev /\ Checked(c, j)
  <2>1. PICK j \in WitnessFor(c, c.inputs[n]) : Checked(c, j)
    BY <1>1 DEF InputsValid, Checked
  <2>2. j \in DOMAIN W /\ prev(j) = c.inputs[n].prev
    BY <2>1 DEF WitnessFor
  <2> QED BY <1>1, <2>1, <2>2
<1> HIDE DEF N, prev
<1>3. \A n \in 1 .. N : f[n] \in 1 .. N /\ prev(f[n]) = c.inputs[n].prev /\ Checked(c, f[n])
  <2> SUFFICES ASSUME NEW n \in 1 .. N
               PROVE  f[n] \in 1 .. N /\ prev(f[n]) = c.inputs[n].prev /\ Checked(c, f[n])
    OBVIOUS
  <2> DEFINE j == CHOOSE j \in 1 .. N : prev(j) = c.inputs[n].prev /\ Checked(c, j)
  <2>1. j \in 1 .. N /\ prev(j) = c.inputs[n].prev /\ Checked(c, j)
    BY <1>2, Zenon
  <2>2. f[n] = j
    BY Zenon
  <2> HIDE DEF j, f
  <2> QED BY <2>1, <2>2
<1>4. f \in [1 .. N -> 1 .. N]
  <2> DEFINE chosen(n) == CHOOSE j \in 1 .. N : prev(j) = c.inputs[n].prev /\ Checked(c, j)
  <2>2. f = [n \in 1 .. N |-> chosen(n)]
    OBVIOUS
  <2> HIDE DEF f, chosen
  <2>1. f = [n \in 1 .. N |-> f[n]]
    BY <2>2
  <2> HIDE DEF f
  <2> QED BY <1>3, <2>1
<1> HIDE DEF f
<1>5. \A m, n \in 1 .. N : f[m] = f[n] => m = n
  BY <1>1, <1>3
<1>6. f \in Injection(1 .. N, 1 .. N)
  BY <1>4, <1>5 DEF Injection, IsInjective
<1>7. f \in Surjection(1 .. N, 1 .. N)
  BY <1>1, <1>6, FS_Interval, FS_Injection
<1>8. PICK n \in 1 .. N : f[n] = i
  BY <1>1, <1>7 DEF Surjection
<1> QED
  BY <1>3, <1>8

(* What the case makes is worth its inputs, and holds the asset itself.    *)
LEMMA OutputsWorthInputs ==
  ASSUME NEW c, GoodCase(c), TransferValid(c)
  PROVE  /\ SumOf([i \in DOMAIN Outputs(c) |-> Outputs(c)[i].amount]) = InputsTotal(c)
         /\ \E a \in ToSet(Outputs(c)) :
              a.amount = c.asset.amount /\ SameScriptKey(a.key, c.asset.key)
<1>1. CASE c.splits = <<>>
  <2> DEFINE f == [i \in DOMAIN Outputs(c) |-> Outputs(c)[i].amount]
  <2>1. Outputs(c) = <<c.asset>>
    BY <1>1 DEF Outputs
  <2>2. DOMAIN f = {} \cup {1} /\ f[1] = c.asset.amount
    BY <2>1
  <2>3. f[1] \in Int
    BY <2>2 DEF GoodCase
  <2>4. SumOf(f) = SumFunctionOnSet(f, {} \cup {1})
    BY <2>2 DEF SumOf, SumFunction
  <2> HIDE DEF f
  <2>5. SumFunctionOnSet(f, {} \cup {1}) = f[1] + SumFunctionOnSet(f, {})
    <3>1. IsFiniteSet({}) /\ 1 \notin {} /\ \A x \in {} \cup {1} : f[x] \in Int
      BY <2>3, FS_EmptySet
    <3> QED BY <3>1, SumAdd
  <2>6. SumOf(f) = c.asset.amount
    BY <2>2, <2>3, <2>4, <2>5, SumEmpty
  <2>7. c.asset.amount = InputsTotal(c)
    BY <1>1 DEF TransferValid
  <2>8. \E a \in ToSet(Outputs(c)) :
          a.amount = c.asset.amount /\ SameScriptKey(a.key, c.asset.key)
    BY <2>1 DEF ToSet, SameScriptKey
  <2> QED BY <2>6, <2>7, <2>8 DEF f
<1>2. CASE c.splits # <<>>
  <2> DEFINE f == [i \in DOMAIN Outputs(c) |-> Outputs(c)[i].amount]
             g == [n \in DOMAIN c.splits |-> c.splits[n].key.amount]
             id == c.asset.witnesses[1].prev.asset
  <2>1. SplitsValid(c, id)
    BY <1>2 DEF TransferValid
  <2>2. Outputs(c) = [n \in DOMAIN c.splits |-> c.splits[n].value.asset]
    BY <1>2 DEF Outputs
  <2>3. PICK root : \A n \in DOMAIN c.splits : SplitValid(c.splits[n], c.asset, id, root)
    BY <2>1 DEF SplitsValid
  <2>4. \A n \in DOMAIN c.splits :
          /\ c.splits[n].key.amount = c.splits[n].value.asset.amount
          /\ SameScriptKey(c.splits[n].key.key, c.splits[n].value.asset.key)
    BY <2>3, Zenon DEF SplitValid
  <2>5. f = g
    BY <2>2, <2>4
  <2>6. SplitsTotal(c) = SumOf(g) /\ SplitsTotal(c) = InputsTotal(c)
    BY <2>1 DEF SplitsTotal, SplitsValid
  <2>7. PICK n \in DOMAIN c.splits : TopLevelLocator(c.splits[n], c.asset, id)
    BY <2>1 DEF SplitsValid
  <2>8. Outputs(c)[n] \in ToSet(Outputs(c)) /\ Outputs(c)[n] = c.splits[n].value.asset
    BY <2>2 DEF ToSet
  <2>9. /\ c.splits[n].value.asset.amount = c.asset.amount
        /\ SameScriptKey(c.splits[n].value.asset.key, c.asset.key)
    BY <2>4, <2>7 DEF TopLevelLocator, SameScriptKey
  <2> HIDE DEF g
  <2> QED BY <2>5, <2>6, <2>8, <2>9
<1> QED
  BY <1>1, <1>2

(* An accepted transition is authorized and conserves, whatever its number *)
(* of inputs, witnesses and splits and whatever the order they are listed  *)
(* in: TapVmFixtureCase::validate leaves no witness unchecked and makes    *)
(* assets worth its inputs, one of which is the asset itself.              *)
THEOREM TransitionsConserve == CaseSpec => []AcceptedTransitionsConserve
<1>1. ASSUME CaseInv PROVE AcceptedTransitionsConserve
  <2> SUFFICES ASSUME NEW c \in ToSet(vmCase), CaseValid(c),
                      \A m, n \in DOMAIN c.inputs :
                        c.inputs[m].prev = c.inputs[n].prev => m = n
               PROVE  IF c.inputs = <<>> THEN Outputs(c) = <<c.asset>> /\ AmountForType(c.asset)
                      ELSE /\ \A i \in DOMAIN c.asset.witnesses : Checked(c, i)
                           /\ SumOf([i \in DOMAIN Outputs(c) |-> Outputs(c)[i].amount]) =
                                InputsTotal(c)
                           /\ \E a \in ToSet(Outputs(c)) :
                                a.amount = c.asset.amount /\ SameScriptKey(a.key, c.asset.key)
    BY Zenon DEF AcceptedTransitionsConserve, Checked
  <2>1. GoodCase(c)
    <3>1. vmCase # <<>>
      BY DEF ToSet
    <3>2. PICK d : vmCase = <<d>> /\ GoodCase(d)
      BY <1>1, <3>1 DEF CaseInv
    <3>3. c = d
      BY <3>2 DEF ToSet
    <3> QED BY <3>2, <3>3
  <2>2. CASE c.inputs = <<>>
    BY <2>2 DEF CaseValid, GenesisValid, Outputs
  <2>3. CASE c.inputs # <<>>
    <3>1. TransferValid(c)
      BY <2>3 DEF CaseValid
    <3>2. InputsValid(c) /\ Len(c.asset.witnesses) = Len(c.inputs)
      BY <3>1 DEF TransferValid
    <3>3. \A i \in DOMAIN c.asset.witnesses : Checked(c, i)
      BY <2>1, <3>2, AllWitnessesChecked
    <3> QED BY <2>1, <2>3, <3>1, <3>3, OutputsWorthInputs, Zenon
  <2> QED BY <2>2, <2>3
<1> QED
  BY <1>1, CaseInvariance, PTL

==============================================================================
