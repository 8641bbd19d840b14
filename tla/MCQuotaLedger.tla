--------------------------- MODULE MCQuotaLedger ---------------------------
(* Instances of the quota ledger for TLC.  Sites and inodes are only compared. *)
EXTENDS QuotaLedger, TLC

\* What one of the others does while two workers are at work.
MCActs == {<<"inode", 1>>, <<"enforcement", 0>>}

MCSymmetry == Permutations(Sites) \cup Permutations(Nodes)
=============================================================================
