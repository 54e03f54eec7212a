---------------------------- MODULE MCMerkleTree ----------------------------
(* Leaves, of which every third has the same content. *)
EXTENDS MerkleTree

MCData == [p \in 0..NumLeaves-1 |-> p % 3]
=============================================================================
