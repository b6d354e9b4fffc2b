-------------------------- MODULE ProofReassembler --------------------------
(***************************************************************************)
(* One ProofReassembler and the chunks a peer pushes into it: in any       *)
(* order, repeated, of several proofs at once, and damaged.  Nothing       *)
(* resets a reassembler.                                                   *)
(***************************************************************************)
EXTENDS ProofChunks

CONSTANTS
  Peers,     \* sets of chunks a peer may send, each chunk any number of times
  Clean      \* the one of them that is all chunks of one proof

(* A chunk's digest is 32 bytes and its index and count are u32s, whatever *)
(* the peer put into them.                                                 *)
ASSUME ChunkAssumption ==
  \A P \in Peers : \A c \in P :
    c.digest # <<>> /\ c.index \in Nat /\ c.count \in Nat

VARIABLES
  arriving,  \* the chunks this peer sends
  reassembler,         \* the reassembler
  result,    \* how the last push ended
  first,     \* digest of the first chunk that was taken
  output     \* every proof that was returned

reassemblyVars == <<arriving, reassembler, result, first, output>>

ReassemblyInit ==
  /\ arriving \in Peers
  /\ reassembler = Fresh
  /\ result = "None"
  /\ first = <<>>
  /\ output = <<>>

Push(c) ==
  /\ c \in arriving
  /\ reassembler' = Pushed(reassembler, c)
  /\ first' = IF first = <<>> /\ WellFormed(c) THEN c.digest ELSE first
  /\ \/ /\ Completes(reassembler, c)
        /\ result' = "Complete"
        /\ output' = Append(output, Assembled(Stored(reassembler, c)))
     \/ /\ Incomplete(reassembler, c)
        /\ result' = "Incomplete"
        /\ UNCHANGED output
     \/ /\ ~Completes(reassembler, c) /\ ~Incomplete(reassembler, c)
        /\ result' = "Refused"
        /\ UNCHANGED output
  /\ UNCHANGED arriving

ReassemblyNext == \E c \in arriving : Push(c)

ReassemblySpec == ReassemblyInit /\ [][ReassemblyNext]_reassemblyVars

(* Every chunk of the clean peer's proof is sent at least once and arrives. *)
FairSpec == ReassemblySpec /\ \A c \in Clean : WF_reassemblyVars(Push(c))

------------------------------------------------------------------------------
(* Properties *)

(* The chunks held are at indices of the announced proof, whose digest and *)
(* count came together.                                                    *)
ReassemblerTypeOK ==
  /\ reassembler.digest = first
  /\ first = <<>> <=> reassembler.count = 0
  /\ DOMAIN reassembler.chunks \subseteq 0 .. reassembler.count - 1
  /\ result \in {"None", "Incomplete", "Complete", "Refused"}

(* However chunks of two proofs and damaged chunks mix, the one proof a    *)
(* reassembler may return is the one its first chunk announced, and it     *)
(* returns it once.                                                        *)
OutputIsAnnounced == output \in {<<>>, <<first>>}

(* The undamaged chunks of one proof, whatever their order and however     *)
(* often repeated, are reassembled.                                        *)
EventuallyComplete == arriving = Clean => <>(output # <<>>)

==============================================================================
