------------------------- MODULE MCProofReassembler -------------------------
(* Two proofs that share pieces, every chunk of either, and every chunk one *)
(* of whose fields is wrong; or the chunks of one proof of six pieces.      *)
EXTENDS ProofReassembler

CONSTANTS p, q

Damaged(c) ==
  {[c EXCEPT !.index = i] : i \in 0 .. 4} \cup
  {[c EXCEPT !.count = n] : n \in 0 .. 4} \cup
  {[c EXCEPT !.bytes = b] : b \in {p, q}} \cup
  {[c EXCEPT !.last = ~c.last]}

Proofs == {<<p, q, q>>, <<p, q, p>>}

MCClean == ChunksOf(<<p, q, p, q, q, p>>)
MCPeers ==
  {MCClean,
   UNION {{c} \cup Damaged(c) : c \in UNION {ChunksOf(x) : x \in Proofs}}}

==============================================================================
