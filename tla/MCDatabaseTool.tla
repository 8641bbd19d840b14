-------------------------- MODULE MCDatabaseTool --------------------------
(* Instances of the database tool for TLC. *)
EXTENDS DatabaseTool
=============================================================================
