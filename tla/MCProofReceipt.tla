---------------------------- MODULE MCProofReceipt ----------------------------
(* A receiver of proofs at one of its tasks: chunks are reassembled, trees,  *)
(* outputs and transitions are verified, or records are replayed.  The tasks *)
(* share nothing; an instance of one has the others at their start.          *)
EXTENDS MCProofHistory, MCProofReassembler, MCTapCommitment

VARIABLE task

receiptVars == <<task, vars, reassemblyVars, allVars>>

AnyPolicy == [anchors |-> [a \in Anchors |-> "Confirmed"], acceptPending |-> FALSE]

ReceiptInit ==
  /\ task \in {"reassemble", "verify", "replay"}
  /\ Init /\ ReassemblyInit /\ CaseInit
  /\ task # "replay" => policy = AnyPolicy
  /\ task # "reassemble" => arriving # Clean

ReassembleTask ==
  /\ task = "reassemble" /\ ReassemblyNext
  /\ UNCHANGED <<task, vars, allVars>>

VerifyTask ==
  /\ task = "verify" /\ CaseNext
  /\ UNCHANGED <<task, vars, reassemblyVars>>

ReplayTask ==
  /\ task = "replay" /\ Next
  /\ UNCHANGED <<task, reassemblyVars, allVars>>

ReceiptSpec ==
  /\ ReceiptInit
  /\ [][ReassembleTask \/ VerifyTask \/ ReplayTask]_receiptVars
  /\ \A c \in Clean : WF_reassemblyVars(task = "reassemble" /\ Push(c))

===============================================================================
