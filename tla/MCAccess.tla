------------------------------ MODULE MCAccess ------------------------------
EXTENDS Access
ClientSymmetry == Permutations(Clients)
=============================================================================
