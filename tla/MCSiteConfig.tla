---------------------------- MODULE MCSiteConfig ----------------------------
(* An instance of the configuration of one site for TLC. *)
EXTENDS SiteConfig
=============================================================================
