---------------------------- MODULE MCSetupApp ----------------------------
(* SetupApp on a small instance.                                           *)
EXTENDS SetupApp
============================================================================
