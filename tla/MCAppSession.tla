----------------------------- MODULE MCAppSession -----------------------------
(* AppSession for TLC.  Two accounts on one phone and two functions at work  *)
(* beside the refresh: a request that outlives its session and the sign-in   *)
(* that follows.                                                             *)
EXTENDS AppSession, TLC

=============================================================================
