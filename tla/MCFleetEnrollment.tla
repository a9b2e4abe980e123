------------------------- MODULE MCFleetEnrollment -------------------------
(* FleetEnrollment on a small instance.                                    *)
EXTENDS FleetEnrollment, TLC

Symmetry == Permutations(Certificate)
============================================================================
