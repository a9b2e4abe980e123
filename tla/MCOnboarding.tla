--------------------------- MODULE MCOnboarding ---------------------------
(* Onboarding on a small instance.                                         *)
EXTENDS Onboarding, TLC

\* Invocations, accounts, claims, codes and certificates are interchangeable.
Symmetry == Permutations(Owner) \cup Permutations(Code) \cup Permutations(Claim)
            \cup Permutations(Cert) \cup Permutations(Lease) \cup Permutations(Release)

\* States that differ only in what an invocation will not look at any more are
\* explored once: nobody reads a finished finalizeClaim (left or done), reserved
\* after the transition check, seen after the detaching, or the account of a
\* finished releaseDevice.
Remembered(job) ==
    IF job.pc \in Over THEN [NewFinJob EXCEPT !.pc = "done"]
    ELSE [job EXCEPT !.reserved = @ /\ job.pc \in VerifyPc,
                     !.seen = IF job.pc \in {"attach", "detach"} THEN @ ELSE {}]
View ==
    <<now, registry, claims, lock, device, cert, thing, uplinks,
      [l \in Lease |-> Remembered(fin[l])],
      [r \in Release |-> IF rel[r].pc = "done" THEN [rel[r] EXCEPT !.owner = None, !.names = {}]
                         ELSE rel[r]]>>
============================================================================
