------------------------------ MODULE MCPanel ------------------------------
(* Instances of the panel and its worker for TLC. *)
EXTENDS Panel, TLC

\* Operation IDs are interchangeable.
IdSymmetry == Permutations(Ids)
=============================================================================
