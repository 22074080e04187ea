------------------------------- MODULE MCPool --------------------------------
(***************************************************************************)
(* Pool on small instances: two workers, and three nonces of which the     *)
(* last one, in the remainder of the division, solves a block, or a single *)
(* nonce, so that one of the two gets a share of none.                     *)
(***************************************************************************)
EXTENDS Pool

WorkerSymmetry == Permutations(Workers)
MCSolutions == {2}
AllKnown == {Workers}
=============================================================================
