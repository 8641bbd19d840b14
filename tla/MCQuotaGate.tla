---------------------------- MODULE MCQuotaGate ----------------------------
(* Instances of the quota gate for TLC. *)
EXTENDS QuotaGate
=============================================================================
