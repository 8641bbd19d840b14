---------------------------- MODULE MCCapacity ----------------------------
(* An instance of the admission of sites for TLC.  Sites are only compared. *)
EXTENDS Capacity, TLC

MCSymmetry == Permutations(Sites)
=============================================================================
