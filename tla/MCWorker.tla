------------------------------ MODULE MCWorker ------------------------------
(***************************************************************************)
(* Worker on a small instance: one or two sites, a few operation IDs.      *)
(***************************************************************************)
EXTENDS Worker, TLC

\* Operation IDs and backup IDs are only compared for equality.
IdSymmetry == Permutations(Ids)
=============================================================================
