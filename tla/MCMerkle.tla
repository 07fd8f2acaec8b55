------------------------------ MODULE MCMerkle ------------------------------
(***************************************************************************)
(* The Merkle trees for TLC: two payloads, so that equal neighbours and    *)
(* equal subtrees occur, and windows of up to three levels of pairs.       *)
(***************************************************************************)
EXTENDS MerkleTrees

CONSTANTS p, q

MCPayloads == {p, q}
=============================================================================
