------------------------------- MODULE MCMiner --------------------------------
(***************************************************************************)
(* Miner on small instances: three threads, a range they divide unevenly,  *)
(* one with fewer nonces than threads, and the share of no nonces.         *)
(***************************************************************************)
EXTENDS Miner, FiniteSets

CONSTANT MaxSolutions

MCRanges == {[min |-> 0, max |-> 3], [min |-> 2, max |-> 3], NoShare}

MCSolutionSets == {S \in SUBSET (0 .. Word - 1) : Cardinality(S) <= MaxSolutions}
=============================================================================
