-------------------------- MODULE MCLampCommands --------------------------
(* LampCommands on a small instance: power and colour of two values.       *)
EXTENDS LampCommands, TLC

CONSTANTS power, colour, a, b

TwoFields == {power, colour}
TwoValues == {a, b}
AllDark == (power :> a) @@ (colour :> a)
OnOrBlue == {power :> b, colour :> b}
Symmetry == Permutations(Call) \cup Permutations(Request)
============================================================================
