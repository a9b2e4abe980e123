-------------------------- MODULE CommandRegister --------------------------
(***************************************************************************)
(* What the backend promises about the state of one lamp, whatever         *)
(* conflicts, retries, reports and power cuts lie in between: one register *)
(* that requests change one after the other, each the fields it names, and *)
(* that the lamp follows.  What is shown as applied only moves forward,    *)
(* and the state shown with it is the one asked for then, or later.        *)
(***************************************************************************)
EXTENDS Naturals, Sequences

CONSTANTS
    Field,
    Dark,      \* the state of a lamp that was never commanded
    Patch,
    Request

VARIABLES
    asked,     \* the requests that were accepted, in their order
    applied,   \* how many of them the lamp is shown to have followed
    reported   \* the state it is shown in

rvars == <<asked, applied, reported>>

Changed(base, patch) == [f \in Field |-> IF f \in DOMAIN patch THEN patch[f] ELSE base[f]]

\* The state asked for by the first n requests.
StateAfter(n) == IF n = 0 THEN Dark ELSE asked[n].state

RInit ==
    /\ asked = <<>>
    /\ applied = 0
    /\ reported = Dark

\* A request counts once, however often it is repeated.
Ask(r, p) ==
    /\ \A i \in 1 .. Len(asked) : asked[i].req # r
    /\ asked' = Append(asked, [req |-> r, patch |-> p, state |-> Changed(StateAfter(Len(asked)), p)])
    /\ UNCHANGED <<applied, reported>>

\* The state may be ahead of what is known to be kept, never behind it.
Show(n, m) ==
    /\ applied <= n /\ n <= m
    /\ applied' = n
    /\ reported' = StateAfter(m)
    /\ UNCHANGED asked

RNext ==
    \/ \E r \in Request, p \in Patch : Ask(r, p)
    \/ \E n, m \in 0 .. Len(asked) : Show(n, m)

RSpec == RInit /\ [][RNext]_rvars
=============================================================================
