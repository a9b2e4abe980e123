------------------------------ MODULE MCBleSetup ------------------------------
(* BleSetup for TLC: two lamps and two attempts, so that what the first       *)
(* attempt left behind meets the second one, at another or at the same lamp.  *)
EXTENDS BleSetup
=============================================================================
