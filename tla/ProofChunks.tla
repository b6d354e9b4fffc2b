----------------------------- MODULE ProofChunks -----------------------------
(***************************************************************************)
(* ProofChunk::split and ProofReassembler::push of src/crates/             *)
(* tap-ldk-core/src/asset_peer_message.rs as operators on a reassembler    *)
(* value.  A proof is a non-empty sequence of pieces, one per chunk, and   *)
(* its SHA-256 digest is the sequence itself; <<>> and 0 are the None of a *)
(* reassembler that has seen no chunk.                                     *)
(***************************************************************************)
EXTENDS Integers, Sequences, FiniteSets

(* ProofChunk::split *)
Chunk(proof, index) ==
  [digest |-> proof, index |-> index, count |-> Len(proof),
   bytes |-> proof[index + 1], last |-> index + 1 = Len(proof)]

ChunksOf(proof) == {Chunk(proof, index) : index \in 0 .. Len(proof) - 1}

Fresh == [digest |-> <<>>, count |-> 0, chunks |-> [i \in {} |-> i]]

WellFormed(c) ==
  /\ c.count # 0
  /\ c.index < c.count
  /\ c.last => c.index + 1 = c.count

(* The first chunk fixes digest and count for all others. *)
Belongs(r, c) ==
  /\ r.digest \in {<<>>, c.digest}
  /\ r.count \in {0, c.count}

Accepted(r, c) == WellFormed(c) /\ Belongs(r, c)

Stored(r, c) ==
  [digest |-> c.digest, count |-> c.count,
   chunks |-> [i \in DOMAIN r.chunks \cup {c.index} |->
                 IF i = c.index THEN c.bytes ELSE r.chunks[i]]]

(* The chunk's bytes replace those of an earlier one of its index, although *)
(* the call then ends with DuplicateChunk.                                 *)
Pushed(r, c) == IF Accepted(r, c) THEN Stored(r, c) ELSE r

RepeatsNothing(r, c) == TRUE
IsNew(r, c) == c.index \notin DOMAIN r.chunks

Full(r) == r.digest # <<>> /\ Cardinality(DOMAIN r.chunks) = r.count

Assembled(r) == [i \in 1 .. r.count |-> r.chunks[i - 1]]

(* How push ends: an error is Refused, a digest mismatch included. *)
Incomplete(r, c) == Accepted(r, c) /\ IsNew(r, c) /\ ~Full(Stored(r, c))

CompletesAtLast(r, c) ==
  /\ Accepted(r, c) /\ IsNew(r, c) /\ Full(Stored(r, c)) /\ c.last
  /\ Assembled(Stored(r, c)) = c.digest
Completes(r, c) ==
  /\ Accepted(r, c) /\ IsNew(r, c) /\ Full(Stored(r, c))
  /\ Assembled(Stored(r, c)) = c.digest

==============================================================================
