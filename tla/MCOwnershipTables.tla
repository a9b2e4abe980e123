------------------------- MODULE MCOwnershipTables -------------------------
(* OwnershipTables on a small instance: two accounts, one reissue.         *)
EXTENDS OwnershipTables
============================================================================
