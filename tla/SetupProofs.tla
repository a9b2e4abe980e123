---------------------------- MODULE SetupProofs ----------------------------
(***************************************************************************)
(* What holds of SetupApp for any number of accounts, claims, invocations  *)
(* and tries.  The app is one more caller of Onboarding: each of its steps *)
(* is a step of that system or gives a finished invocation a new name, so  *)
(* SystemInv carries over.  LeaseHeld adds what LeaseHasWorker needs: the  *)
(* invocation that a row names is at work on that very claim.              *)
(***************************************************************************)
EXTENDS SetupApp, OnboardingProofs

Holding == VerifyPc \cup {"unwind", "left"}
Leased(c) == claims[c].status = "PROVISIONING"

LeaseHeld ==
    \A c \in Claim : Leased(c) =>
        /\ claims[c].leaseId \in Lease
        /\ fin[claims[c].leaseId].pc \in Holding
        /\ fin[claims[c].leaseId].claim = c

AppInv == AppTypeOK /\ SystemInv /\ LeaseHeld

----------------------------------------------------------------------------
(* The app as a caller of Onboarding.                                      *)
LEMMA ReadClaimStep ==
    ASSUME NEW c \in Claim, NEW k \in Request, NEW t \in Reading, ReadClaim(c, k, t),
           UNCHANGED <<cloud, fin, rel, uplinks>>
    PROVE  OneWrite \/ UNCHANGED svars
<1>1. CASE claims[c].status = "CLAIM_PENDING" /\ ExpireClaim(c, t)
  BY <1>1 DEF OneWrite
<1>2. CASE UNCHANGED tvars
  BY <1>2 DEF svars, tvars, cloud
<1> QED
  BY <1>1, <1>2 DEF ReadClaim

\* A step other than an invocation's writes one row, or is the world's.
Quiet ==
    \/ OneWrite \/ UNCHANGED svars
    \/ \E x \in Cert : FleetStep(x)
    \/ \E m \in uplinks : IngestFirstState(m)

LEMMA ServeFinalizeStep ==
    ASSUME AppTypeOK, NEW t \in Reading, ServeFinalize(t)
    PROVE  Quiet \/ \E l \in Lease, c \in Claim : FinAcquire(l, c, t)
<1>1. CASE UNCHANGED svars
  BY <1>1 DEF Quiet
<1>2. ASSUME NEW c \in Claim, FinalizeRefused(c, t)
      PROVE  Quiet
  <2>1. UNCHANGED <<cloud, fin, rel, uplinks>>
    BY <1>2 DEF FinalizeRefused
  <2>2. CASE claims[c].status = "CLAIM_PENDING" /\ ExpireClaim(c, t)
    BY <2>1, <2>2 DEF OneWrite, Quiet
  <2>3. CASE UNCHANGED tvars
    BY <2>1, <2>3 DEF Quiet, svars, tvars, cloud
  <2> QED
    BY <1>2, <2>2, <2>3 DEF FinalizeRefused
<1> QED
  BY <1>1, <1>2 DEF ServeFinalize, FinalizeStarts

LEMMA AppStepKinds ==
    ASSUME AppTypeOK, [AppNext]_avars
    PROVE  \/ Quiet
           \/ \E l \in Lease, c \in Claim, t \in Reading : FinAcquire(l, c, t)
           \/ \E l \in Lease : FinalizeRuns(l)
           \/ \E l \in Lease : Rename(l)
<1>0. page.claim \in Maybe(Claim) /\ phone.pending \in Maybe(Claim)
  BY DEF AppTypeOK, Page, Phone
<1>1. CASE StartSetup
  <2>1. UNCHANGED <<cloud, fin, rel, uplinks>>
    BY <1>1 DEF StartSetup
  <2>2. CASE UNCHANGED tvars
    BY <2>1, <2>2 DEF Quiet, svars, tvars, cloud
  <2>3. CASE \E c \in Claim, t \in Reading : Created(c, t)
    <3>1. CASE \E c \in Claim, o \in Owner, k \in Code, t \in Reading : CreateClaim(c, o, k, t)
      BY <2>1, <3>1 DEF OneWrite, Quiet
    <3> QED
      BY <2>2, <2>3, <3>1 DEF Created
  <2> QED
    BY <1>1, <2>2, <2>3 DEF StartSetup
<1>2. CASE (User /\ ~StartSetup) \/ PageStep \/ RefreshSession \/ UNCHANGED avars
  BY <1>2 DEF User, PageStep, SetupRejected, WifiConnected, RetryFleetRegistration,
     LeaveProvisioning, Restart, SignOut, StatusTimer, FinalizeTimer, OnResumed, OnStatus,
     OnFinalized, OnError, RefreshSession, avars, Quiet
<1>3. CASE \E k \in Request : CallFails(k)
  BY <1>3 DEF CallFails, Quiet
<1>4. CASE \E t \in Reading : ServeStatus(t)
  <2> PICK t \in Reading : ServeStatus(t)
    BY <1>4
  <2>1. UNCHANGED <<cloud, fin, rel, uplinks>>
    BY DEF ServeStatus
  <2>2. CASE Found(page.claim) /\ ReadClaim(page.claim, "status", t)
    <3>1. page.claim \in Claim
      BY <1>0, <2>2 DEF Found, Maybe
    <3> QED
      BY <2>1, <2>2, <3>1, ReadClaimStep DEF Quiet, Request
  <2>3. CASE UNCHANGED tvars
    BY <2>1, <2>3 DEF Quiet, svars, tvars, cloud
  <2> QED
    BY <2>2, <2>3 DEF ServeStatus
<1>5. CASE \E t \in Reading : ServeResume(t)
  <2> PICK t \in Reading : ServeResume(t)
    BY <1>5
  <2>1. UNCHANGED <<cloud, fin, rel, uplinks>>
    BY DEF ServeResume
  <2>2. CASE Found(phone.pending) /\ ReadClaim(phone.pending, "resume", t)
    <3>1. phone.pending \in Claim
      BY <1>0, <2>2 DEF Found, Maybe
    <3> QED
      BY <2>1, <2>2, <3>1, ReadClaimStep DEF Quiet, Request
  <2>3. CASE UNCHANGED tvars
    BY <2>1, <2>3 DEF Quiet, svars, tvars, cloud
  <2> QED
    BY <2>2, <2>3 DEF ServeResume
<1>6. CASE \E t \in Reading : ServeFinalize(t)
  BY <1>6, ServeFinalizeStep
<1>7. CASE World
  BY <1>7 DEF World, Device, Quiet
<1>8. CASE \E l \in Lease : FinalizeRuns(l) \/ Rename(l)
  BY <1>8
<1> QED
  BY <1>1, <1>2, <1>3, <1>4, <1>5, <1>6, <1>7, <1>8 DEF AppNext, Serve

LEMMA AppStepSystem ==
    ASSUME AppTypeOK, [AppNext]_avars
    PROVE  [SystemNext]_svars \/ \E l \in Lease : Rename(l)
<1>1. \A l \in Lease : FinalizeRuns(l) => FinStep(l)
  BY DEF FinalizeRuns, FinStep
<1>2. \A l \in Lease, c \in Claim, t \in Reading : FinAcquire(l, c, t) => FinStep(l)
  BY DEF FinStep
<1> QED
  BY <1>1, <1>2, AppStepKinds DEF Quiet, SystemNext

LEMMA RenameInv ==
    ASSUME SystemInv, NEW l \in Lease, Rename(l)
    PROVE  SystemInv'
<1>1. /\ fin' = [fin EXCEPT ![l] = NewFinJob]
      /\ UNCHANGED <<now, registry, claims, lock, device, cert, thing, rel, uplinks>>
  BY DEF Rename, tvars, cloud
<1>2. NewFinJob \in FinJob /\ NewFinJob.pc = "new"
  BY DEF NewFinJob, FinJob, FinPc, Over, Maybe
<1>3. SystemTypeOK'
  BY <1>1, <1>2 DEF SystemInv, SystemTypeOK, TypeOK
<1>4. UNCHANGED tvars
  BY <1>1 DEF tvars
<1>5. TablesAgree'
  BY <1>4, NextAgrees DEF SystemInv, SystemTypeOK
<1>6. \A m \in Lease : fin'[m] = fin[m] \/ fin'[m].pc = "new"
  BY <1>1, <1>2 DEF SystemInv, SystemTypeOK
<1>7. JobsKnown'
  BY <1>1, <1>6 DEF SystemInv, JobsKnown
<1>8. Armed'
  <2>1. "new" \notin AuthorizePc
    BY DEF AuthorizePc
  <2> QED
    BY <1>1, <1>6, <2>1 DEF SystemInv, Armed, Worn, Bound, Disabled
<1>9. RuntimeOnlyForBound' /\ ReleasedIsDisarmed'
  BY <1>1 DEF SystemInv, RuntimeOnlyForBound, ReleasedIsDisarmed, Usable, Bound
<1> QED
  BY <1>3, <1>5, <1>7, <1>8, <1>9 DEF SystemInv

LEMMA AppSystemInv ==
    ASSUME AppTypeOK, SystemInv, [AppNext]_avars
    PROVE  SystemInv'
BY AppStepSystem, RenameInv, SystemInvStep

----------------------------------------------------------------------------
(* Leases.                                                                 *)

\* Only an invocation's own steps lease a claim.
LEMMA QuietLeases ==
    ASSUME TypeOK, Quiet
    PROVE  /\ UNCHANGED fin
           /\ \A c \in Claim : Leased(c)' => Leased(c) /\ UNCHANGED claims[c].leaseId
<1> DEFINE Kept == \A c \in Claim : Leased(c)' => Leased(c) /\ UNCHANGED claims[c].leaseId
<1>0. claims \in [Claim -> ClaimRow]
  BY DEF TypeOK
<1>1. ASSUME NEW c \in Claim, NEW row, claims' = [claims EXCEPT ![c] = row],
             row.status # "PROVISIONING"
      PROVE  Kept
  BY <1>0, <1>1 DEF Leased
<1>2. ASSUME UNCHANGED claims PROVE Kept
  BY <1>2 DEF Leased
<1>3. CASE OneWrite
  <2>1. UNCHANGED fin
    BY <1>3 DEF OneWrite
  <2>2. CASE \E c \in Claim, o \in Owner, k \in Code, t \in Reading : CreateClaim(c, o, k, t)
    <3> PICK c \in Claim, o \in Owner, k \in Code, t \in Reading : CreateClaim(c, o, k, t)
      BY <2>2
    <3> DEFINE row == [NoClaimRow EXCEPT !.status = "CLAIM_PENDING", !.ownerId = o,
                          !.nonceHash = NonceFor(o, k), !.expiresAt = t + ClaimTtl]
    <3>1. claims' = [claims EXCEPT ![c] = row] /\ row.status # "PROVISIONING"
      BY DEF CreateClaim, NoClaimRow
    <3> HIDE DEF row
    <3> QED
      BY <1>1, <2>1, <3>1
  <2>3. CASE \E c \in Claim, t \in Reading : ExpireClaim(c, t)
    <3> PICK c \in Claim, t \in Reading : ExpireClaim(c, t)
      BY <2>3
    <3>1. claims' = [claims EXCEPT ![c] = Unleased(claims[c], "EXPIRED")]
      BY DEF ExpireClaim
    <3>2. Unleased(claims[c], "EXPIRED").status # "PROVISIONING"
      BY <1>0, UnleasedType DEF ClaimStatus
    <3> QED
      BY <1>1, <2>1, <3>1, <3>2
  <2>4. CASE \E c \in Claim : SweepClaim(c)
    <3> PICK c \in Claim : SweepClaim(c)
      BY <2>4
    <3> DEFINE row == [Unleased(claims[c], "DELETED") EXCEPT !.expiresAt = 0]
    <3>1. claims' = [claims EXCEPT ![c] = row]
      BY DEF SweepClaim
    <3>2. row.status # "PROVISIONING"
      BY <1>0, UnleasedType DEF ClaimStatus, ClaimRow
    <3> HIDE DEF row
    <3> QED
      BY <1>1, <2>1, <3>1, <3>2
  <2>5. CASE UNCHANGED claims
    BY <1>2, <2>1, <2>5
  <2> QED
    BY <1>3, <2>2, <2>3, <2>4, <2>5 DEF OneWrite, MarkReissueRequired, SweepLock, Reissue, Tick,
       tables
<1>4. CASE \E x \in Cert : FleetStep(x)
  BY <1>2, <1>4 DEF FleetStep, FleetHook, PinCertificate, FleetRegister, DevicePublish, tvars
<1>5. CASE \E m \in uplinks : IngestFirstState(m)
  <2>1. UNCHANGED fin /\ device.claimId \in Claim /\ ApplyFirstState(device.claimId)
    BY <1>5 DEF IngestFirstState
  <2>2. [claims[device.claimId] EXCEPT !.status = "ONLINE"].status # "PROVISIONING"
    BY <1>0, <2>1 DEF ClaimRow
  <2> QED
    BY <1>1, <2>1, <2>2 DEF ApplyFirstState
<1>6. CASE UNCHANGED svars
  BY <1>2, <1>6 DEF svars
<1> QED
  BY <1>3, <1>4, <1>5, <1>6 DEF Quiet

\* A new invocation takes a lease on the claim it works on.
LEMMA AcquireLeases ==
    ASSUME SystemTypeOK, LeaseHeld, NEW l \in Lease, NEW c \in Claim, NEW t \in Reading,
           FinAcquire(l, c, t)
    PROVE  LeaseHeld'
<1>0. claims \in [Claim -> ClaimRow] /\ fin \in [Lease -> FinJob]
  BY DEF SystemTypeOK, TypeOK
<1>1. /\ \A d \in Claim \ {c} : claims'[d] = claims[d]
      /\ claims'[c].leaseId = l
  <2>1. CASE StartLease(c, l, t)
    <3>1. claims' = [claims EXCEPT ![c] = [claims[c] EXCEPT !.status = "PROVISIONING",
                       !.resume = claims[c].status, !.leaseId = l,
                       !.leaseExpiresAt = t + LeaseTtl]]
      BY <2>1 DEF StartLease
    <3>2. [claims[c] EXCEPT !.status = "PROVISIONING", !.resume = claims[c].status,
             !.leaseId = l, !.leaseExpiresAt = t + LeaseTtl].leaseId = l
      BY <1>0, Zenon DEF ClaimRow
    <3> QED
      BY <1>0, <3>1, <3>2, Zenon
  <2>2. CASE RecoverLease(c, l, t)
    <3>1. claims' = [claims EXCEPT ![c] = [claims[c] EXCEPT !.leaseId = l,
                                             !.leaseExpiresAt = t + LeaseTtl]]
      BY <2>2 DEF RecoverLease
    <3>2. [claims[c] EXCEPT !.leaseId = l, !.leaseExpiresAt = t + LeaseTtl].leaseId = l
      BY <1>0, Zenon DEF ClaimRow
    <3> QED
      BY <1>0, <3>1, <3>2, Zenon
  <2> QED
    BY <2>1, <2>2 DEF FinAcquire
<1>2. /\ \A m \in Lease \ {l} : fin'[m] = fin[m]
      /\ fin'[l].pc \in {"registry", "left"} /\ fin'[l].claim = c
      /\ fin[l].pc = "new"
  BY <1>0 DEF FinAcquire, FinAt, FinJob
<1>3. {"registry", "left"} \subseteq Holding /\ "new" \notin Holding
  BY DEF Holding, VerifyPc
<1> QED
  BY <1>1, <1>2, <1>3 DEF LeaseHeld, Leased

\* An invocation keeps the lease while it verifies, and leaves that part of
\* its work by binding the claim or by giving the lease back.
LEMMA RunsLeases ==
    ASSUME SystemTypeOK, JobsKnown, LeaseHeld, NEW l \in Lease, FinalizeRuns(l)
    PROVE  LeaseHeld'
<1> SUFFICES ASSUME NEW d \in Claim, Leased(d)'
             PROVE  /\ claims'[d].leaseId \in Lease
                    /\ fin'[claims'[d].leaseId].pc \in Holding
                    /\ fin'[claims'[d].leaseId].claim = d
  BY DEF LeaseHeld
<1>0. /\ claims \in [Claim -> ClaimRow] /\ fin \in [Lease -> FinJob]
      /\ \A m \in Lease \ {l} : fin'[m] = fin[m]
  BY DEF SystemTypeOK, TypeOK, FinalizeRuns, FinWork, FinRegistry, FinThing, FinPrincipals,
         FinCertificate, FinTransition, FinRead, FinBind, FinFail, FinUnwind, FinPolicies,
         FinAttach, FinDetach, FinConfirm, FinCommit, FinCrash, FinGoto
<1> DEFINE c == fin[l].claim
<1>1. ASSUME Leased(d), UNCHANGED claims[d].leaseId, claims[d].leaseId # l
      PROVE  /\ claims'[d].leaseId \in Lease
             /\ fin'[claims'[d].leaseId].pc \in Holding
             /\ fin'[claims'[d].leaseId].claim = d
  BY <1>0, <1>1 DEF LeaseHeld
<1>2. Leased(d) /\ claims[d].leaseId = l => c = d /\ fin[l].pc \in Holding
  BY DEF LeaseHeld
<1>3. CASE \/ FinRegistry(l) \/ FinThing(l) \/ FinPrincipals(l) \/ FinCertificate(l)
           \/ FinTransition(l) \/ FinFail(l) \/ (FinCrash(l) /\ fin[l].pc \in Holding)
  <2>1. UNCHANGED claims
    BY <1>3 DEF FinRegistry, FinThing, FinPrincipals, FinCertificate, FinTransition, FinRead,
                FinFail, FinCrash, tvars
  <2>2. fin'[l].claim = c /\ fin'[l].pc \in Holding
    <3>1. CASE FinRegistry(l)
      <4> DEFINE job2 == [fin[l] EXCEPT !.pc = "thing", !.cert = registry.latestCertificateId,
                                        !.reserved = (registry.status = "RESERVED")]
      <4>1. CASE FinGoto(l, "unwind")
        BY <1>0, <4>1 DEF FinGoto, FinJob, Holding
      <4>2. CASE fin' = [fin EXCEPT ![l] = job2]
        <5>1. job2.pc = "thing" /\ job2.claim = c
          BY <1>0, Zenon DEF FinJob
        <5> HIDE DEF job2
        <5> QED
          BY <1>0, <4>2, <5>1 DEF Holding, VerifyPc
      <4> QED
        BY <3>1, <4>1, <4>2 DEF FinRegistry
    <3>2. CASE FinThing(l) \/ FinPrincipals(l) \/ FinCertificate(l) \/ FinTransition(l)
      BY <1>0, <3>2 DEF FinThing, FinPrincipals, FinCertificate, FinTransition, FinRead,
                        FinGoto, FinJob, Holding, VerifyPc
    <3>3. CASE FinFail(l)
      BY <1>0, <3>3 DEF FinFail, FinGoto, FinJob, Holding
    <3>4. CASE FinCrash(l) /\ fin[l].pc \in Holding
      BY <1>0, <3>4 DEF FinCrash, FinGoto, FinJob, Holding, VerifyPc, AuthorizePc, Over
    <3> QED
      BY <1>3, <3>1, <3>2, <3>3, <3>4
  <2> QED
    BY <1>1, <1>2, <2>1, <2>2 DEF Leased
<1>4. CASE \/ FinPolicies(l) \/ FinAttach(l) \/ FinDetach(l) \/ FinConfirm(l)
           \/ (FinCrash(l) /\ fin[l].pc \notin Holding)
  <2>1. UNCHANGED claims
    BY <1>4 DEF FinPolicies, FinAttach, FinDetach, FinConfirm, FinCrash, tvars
  <2>2. fin[l].pc \notin Holding
    BY <1>4 DEF FinPolicies, FinAttach, FinDetach, FinConfirm, FinAt, Holding, VerifyPc
  <2> QED
    BY <1>1, <1>2, <2>1, <2>2 DEF Leased
\* What ends the lease leaves no lease in the row.
<1>5. ASSUME c \in Claim, NEW row, claims' = [claims EXCEPT ![c] = row],
             row.status # "PROVISIONING"
      PROVE  Leased(d) /\ UNCHANGED claims[d].leaseId /\ c # d
  BY <1>0, <1>5 DEF Leased
<1>6. CASE \E t \in Reading : FinBind(l, t)
  <2>1. c \in Claim
    BY <1>6 DEF FinBind, FinAt, JobsKnown
  <2>2. \/ claims' = [claims EXCEPT ![c] = BoundClaim(claims[c])]
        \/ claims' = [claims EXCEPT ![c] = Unleased(claims[c], "BOOTSTRAPPED")]
    BY <1>6 DEF FinBind, Bindable, BootstrapFresh, BootstrapResumed
  <2>3. /\ Unleased(claims[c], "BOOTSTRAPPED").status = "BOOTSTRAPPED"
        /\ Unleased(claims[c], "BOOTSTRAPPED") \in ClaimRow
    BY <1>0, <2>1, UnleasedType DEF ClaimStatus
  <2>4. BoundClaim(claims[c]).status = "BOOTSTRAPPED"
    BY <2>3 DEF BoundClaim, ClaimRow
  <2> QED
    BY <1>1, <1>2, <1>5, <2>1, <2>2, <2>3, <2>4
<1>7. CASE FinUnwind(l)
  <2>1. c \in Claim
    BY <1>7 DEF FinUnwind, FinAt, JobsKnown
  <2>2. CASE ReleaseLease(c, l)
    <3>1. claims[c].resume \in {"CLAIM_PENDING", "BOOTSTRAPPED"}
      BY <1>0, <2>1, <2>2 DEF ReleaseLease, ClaimRow
    <3>2. Unleased(claims[c], claims[c].resume).status = claims[c].resume
      BY <1>0, <2>1, <3>1, UnleasedType DEF ClaimStatus
    <3> QED
      BY <1>1, <1>2, <1>5, <2>1, <2>2, <3>1, <3>2 DEF ReleaseLease
  <2>3. CASE ~(Leased(c) /\ claims[c].leaseId = l) /\ UNCHANGED tvars
    BY <1>1, <1>2, <2>3 DEF Leased, tvars
  <2>4. CASE FinGoto(l, "left") /\ UNCHANGED tvars
    <3>1. fin'[l].pc = "left" /\ fin'[l].claim = c
      BY <1>0, <2>4 DEF FinGoto, FinJob
    <3> QED
      BY <1>1, <1>2, <2>4, <3>1 DEF Leased, Holding, tvars
  <2> QED
    BY <1>7, <2>2, <2>3, <2>4 DEF FinUnwind, Leased
<1>8. CASE FinCommit(l)
  <2>1. c \in Claim /\ fin[l].pc \notin Holding
    BY <1>8 DEF FinCommit, FinAt, JobsKnown, Holding, VerifyPc
  <2>2. CASE AuthorizeRuntimeClaim(c, fin[l].cert)
    <3>1. [claims[c] EXCEPT !.status = "RUNTIME_AUTHORIZED"].status # "PROVISIONING"
      BY <1>0, <2>1 DEF ClaimRow
    <3> QED
      BY <1>1, <1>2, <1>5, <2>1, <2>2, <3>1 DEF AuthorizeRuntimeClaim
  <2>3. CASE UNCHANGED tvars
    BY <1>1, <1>2, <2>1, <2>3 DEF Leased, tvars
  <2> QED
    BY <1>8, <2>2, <2>3 DEF FinCommit
<1> QED
  BY <1>3, <1>4, <1>6, <1>7, <1>8 DEF FinalizeRuns, FinWork

LEMMA LeaseHeldStep ==
    ASSUME AppTypeOK, JobsKnown, LeaseHeld, [AppNext]_avars
    PROVE  LeaseHeld'
<1> USE DEF AppTypeOK
<1>1. CASE Quiet
  BY <1>1, QuietLeases DEF LeaseHeld, SystemTypeOK
<1>2. CASE \E l \in Lease : Rename(l)
  <2> PICK l \in Lease : Rename(l)
    BY <1>2
  <2>1. UNCHANGED claims /\ \A m \in Lease \ {l} : fin'[m] = fin[m]
    BY DEF Rename, tvars, SystemTypeOK
  <2>2. \A c \in Claim : claims[c].leaseId # l
    BY DEF Rename
  <2> QED
    BY <2>1, <2>2 DEF LeaseHeld, Leased
<1> QED
  BY <1>1, <1>2, AppStepKinds, AcquireLeases, RunsLeases

----------------------------------------------------------------------------
(* Types of the app.                                                       *)
Calls == [Request -> Call]
AppTyped == page \in Page /\ phone \in Phone /\ call \in Calls /\ job \in Maybe(Lease)

LEMMA FreshTypes ==
    /\ FreshPage \in Page /\ NoPhone \in Phone /\ Silent \in Calls
    /\ None \in Maybe(Lease) /\ None \in Maybe(Claim)
BY AppAssumption DEF FreshPage, NoPhone, Silent, Page, Phone, Calls, Call, Maybe

LEMMA PhoneEdits ==
    ASSUME NEW h \in Phone, NEW c \in Maybe(Claim), NEW d \in Maybe(Claim), NEW e \in Nat,
           NEW b \in BOOLEAN
    PROVE  /\ [h EXCEPT !.pending = c, !.saved = d, !.expiresAt = e, !.fresh = b] \in Phone
           /\ [h EXCEPT !.pending = c, !.saved = d, !.fresh = b, !.expiresAt = e] \in Phone
           /\ [h EXCEPT !.pending = c, !.fresh = b] \in Phone
           /\ [h EXCEPT !.fresh = b] \in Phone
           /\ [h EXCEPT !.saved = c] \in Phone
           /\ [h EXCEPT !.told = c] \in Phone
BY DEF Phone

LEMMA CallEdits ==
    ASSUME NEW calls \in Calls, NEW k \in Request, NEW a \in Call
    PROVE  [calls EXCEPT ![k] = a] \in Calls
BY DEF Calls

LEMMA SendFinalizeType ==
    ASSUME NEW p \in Page, NEW calls \in Calls, SendFinalize(p, calls)
    PROVE  page' \in Page /\ call' \in Calls
<1>1. p.tries \in 0..MaxTries /\ MaxTries \in Nat
  BY AppAssumption DEF Page
<1>2. "sent" \in Call /\ "finalize" \in Request
  BY DEF Call, Request
<1>3. [p EXCEPT !.stage = "wifi-connected", !.retry = TRUE] \in Page
  BY DEF Page
<1>4. p.tries < MaxTries => [p EXCEPT !.stage = "wifi-connected", !.tries = @ + 1] \in Page
  <2> SUFFICES ASSUME p.tries < MaxTries
               PROVE  [p EXCEPT !.stage = "wifi-connected", !.tries = p.tries + 1] \in Page
    OBVIOUS
  <2> DEFINE n == p.tries + 1
  <2>1. n \in 0..MaxTries
    BY <1>1
  <2> HIDE DEF n
  <2>2. [p EXCEPT !.stage = "wifi-connected", !.tries = n] \in Page
    BY <2>1 DEF Page
  <2> QED
    BY <2>2 DEF n
<1> QED
  BY <1>2, <1>3, <1>4, CallEdits DEF SendFinalize

LEMMA PageStepType ==
    ASSUME AppTyped, PageStep
    PROVE  AppTyped'
<1> USE FreshTypes DEF AppTyped
<1>0. /\ \A k \in Request : [call EXCEPT ![k] = "none"] \in Calls
      /\ \A k \in Request : [call EXCEPT ![k] = "sent"] \in Calls
      /\ [Silent EXCEPT !["resume"] = call["resume"]] \in Calls
      /\ {"resume", "status", "finalize"} \subseteq Request
  BY DEF Calls, Call, Request
<1>1. CASE StatusTimer
  <2>1. page' \in Page
    BY <1>1 DEF StatusTimer, Page
  <2> QED
    BY <1>0, <1>1, <2>1 DEF StatusTimer
<1>2. CASE FinalizeTimer
  <2>1. [page EXCEPT !.timer = "none"] \in Page
    BY DEF Page
  <2> QED
    BY <1>2, <2>1, SendFinalizeType DEF FinalizeTimer
<1>3. CASE OnResumed
  <2> DEFINE known == [page EXCEPT !.claim = phone.told, !.tries = 0]
             heard == [call EXCEPT !["resume"] = "none"]
  <2>0. phone.told \in Maybe(Claim) /\ 0 \in 0..MaxTries
    BY AppAssumption DEF Phone
  <2>1. known \in Page /\ heard \in Calls
    BY <1>0, <2>0 DEF Page
  <2>2. phone' \in Phone /\ UNCHANGED job
    BY <1>3, PhoneEdits DEF OnResumed
  <2>3. CASE \E s \in ClaimStatus : SendFinalize([known EXCEPT !.stage = "wifi-connected",
                                             !.retry = (s = "BOOTSTRAPPED" /\ @)], heard)
    <3> PICK s \in ClaimStatus : SendFinalize([known EXCEPT !.stage = "wifi-connected",
                                       !.retry = (s = "BOOTSTRAPPED" /\ @)], heard)
      BY <2>3
    <3> DEFINE b == s = "BOOTSTRAPPED" /\ known.retry
    <3>1. b \in BOOLEAN
      OBVIOUS
    <3> HIDE DEF b, known
    <3>2. [known EXCEPT !.stage = "wifi-connected", !.retry = b] \in Page
      BY <2>1, <3>1 DEF Page
    <3> QED
      BY <2>1, <2>2, <3>2, SendFinalizeType DEF b
  <2>4. CASE page' = [known EXCEPT !.stage = "provisioning", !.timer = "status"] /\ call' = heard
    <3> HIDE DEF known
    <3>1. page' \in Page
      BY <2>1, <2>4 DEF Page, Request
    <3> QED
      BY <2>1, <2>2, <2>4, <3>1
  <2>5. CASE /\ page' = [page EXCEPT !.claim = phone.told, !.stage = "wifi-connected",
                                     !.timer = "status"]
             /\ call' = heard
    <3>1. page' \in Page
      BY <2>0, <2>5 DEF Page, Request
    <3> QED
      BY <2>1, <2>2, <2>5, <3>1
  <2>6. CASE page' = [page EXCEPT !.claim = None] /\ call' = heard
    <3>1. page' \in Page
      BY <2>6 DEF Page
    <3> QED
      BY <2>1, <2>2, <2>6, <3>1
  <2>7. CASE UNCHANGED page /\ call' = heard
    BY <2>1, <2>2, <2>7
  <2> QED
    BY <1>3, <2>3, <2>4, <2>5, <2>6, <2>7 DEF OnResumed, ClaimStatus
<1>4. CASE OnStatus
  <2>1. [call EXCEPT !["status"] = "none"] \in Calls
    BY <1>0
  <2>2. CASE SendFinalize(page, [call EXCEPT !["status"] = "none"])
    BY <1>4, <2>1, <2>2, SendFinalizeType DEF OnStatus
  <2>3. CASE \/ page' = Complete(page)
             \/ page' = [page EXCEPT !.stage = "provisioning", !.timer = "status"]
             \/ page' = [page EXCEPT !.stage = "wifi-connected", !.timer = "status"]
             \/ page' = [page EXCEPT !.stage = "failed"]
    <3>1. Complete(page) \in Page
      BY DEF Page, Complete
    <3>2. page' \in Page
      BY <2>3, <3>1 DEF Page, Request
    <3> QED
      BY <1>4, <2>1, <2>2, <3>2 DEF OnStatus
  <2> QED
    BY <1>4, <2>2, <2>3 DEF OnStatus
<1>5. CASE OnFinalized
  <2>1. page' \in Page
    BY <1>5 DEF OnFinalized, Page, Complete, Request
  <2> QED
    BY <1>0, <1>5, <2>1 DEF OnFinalized
<1>6. CASE \E k \in Request : OnError(k)
  <2> PICK k \in Request : OnError(k)
    BY <1>6
  <2>1. \/ UNCHANGED page
        \/ page' = [page EXCEPT !.stage = "wifi-connected", !.timer = "finalize"]
        \/ page' = [page EXCEPT !.stage = "wifi-connected", !.retry = TRUE]
        \/ page' = [page EXCEPT !.stage = "failed"]
    BY DEF OnError
  <2>2. page' \in Page
    BY <2>1 DEF Page, Request
  <2> QED
    BY <1>0, <2>2 DEF OnError
<1> QED
  BY <1>1, <1>2, <1>3, <1>4, <1>5, <1>6 DEF PageStep

LEMMA PhoneTypes ==
    ASSUME phone \in Phone
    PROVE  /\ Forget \in Phone /\ Reload \in Phone
           /\ \A c, s : Noted(c, s) \in Phone
<1>1. Forget \in Phone
  BY FreshTypes, PhoneEdits DEF Forget
<1>2. Reload \in Phone
  BY <1>1, PhoneEdits DEF Reload, Phone
<1>3. ASSUME NEW c, NEW s PROVE Noted(c, s) \in Phone
  <2>1. (s = "CLAIM_PENDING") \in BOOLEAN
    OBVIOUS
  <2>2. [phone EXCEPT !.fresh = (s = "CLAIM_PENDING")] \in Phone
    BY <2>1, Zenon DEF Phone
  <2> QED
    BY <1>1, <2>2 DEF Noted
<1> QED
  BY <1>1, <1>2, <1>3

LEMMA UserType ==
    ASSUME AppTyped, TypeOK, TypeOK', User
    PROVE  AppTyped'
<1> USE FreshTypes DEF AppTyped
<1>1. CASE StartSetup
  <2> DEFINE held == {[page EXCEPT !.claim = phone'.pending, !.stage = "wifi"],
                      [page EXCEPT !.stage = "failed"]}
  <2>1. phone' \in Phone
    <3>1. CASE phone' = [phone EXCEPT !.saved = phone.pending]
      BY <3>1, PhoneEdits DEF Phone
    <3>2. CASE \E c \in Claim :
                 phone' = [phone EXCEPT !.pending = c, !.saved = c, !.fresh = TRUE,
                                        !.expiresAt = claims'[c].expiresAt]
      <4> PICK c \in Claim :
                 phone' = [phone EXCEPT !.pending = c, !.saved = c, !.fresh = TRUE,
                                        !.expiresAt = claims'[c].expiresAt]
        BY <3>2
      <4>1. c \in Maybe(Claim) /\ claims'[c].expiresAt \in Nat
        BY DEF Maybe, TypeOK, ClaimRow
      <4> QED
        BY <4>1, PhoneEdits
    <3> QED
      BY <1>1, <3>1, <3>2 DEF StartSetup
  <2>2. held \subseteq Page
    <3>1. phone'.pending \in Maybe(Claim)
      BY <2>1 DEF Phone
    <3>2. [page EXCEPT !.claim = phone'.pending, !.stage = "wifi"] \in Page
      BY <3>1 DEF Page
    <3>3. [page EXCEPT !.stage = "failed"] \in Page
      BY DEF Page
    <3> QED
      BY <3>2, <3>3
  <2>3. page' \in held /\ UNCHANGED <<call, job>>
    BY <1>1 DEF StartSetup
  <2> QED
    BY <2>1, <2>2, <2>3
<1>2. CASE SetupRejected
  <2>1. page' \in Page
    BY <1>2 DEF SetupRejected, Page
  <2> QED
    BY <1>2, <2>1, PhoneTypes DEF SetupRejected
<1>3. CASE WifiConnected
  <2>1. 0 \in 0..MaxTries
    BY AppAssumption
  <2>2. page' \in Page
    BY <1>3, <2>1 DEF WifiConnected, Page, Request
  <2> QED
    BY <1>3, <2>2 DEF WifiConnected
<1>4. CASE RetryFleetRegistration
  <2>1. 0 \in 0..MaxTries
    BY AppAssumption
  <2>2. [page EXCEPT !.tries = 0, !.retry = FALSE] \in Page
    BY <2>1 DEF Page
  <2> QED
    BY <1>4, <2>2, SendFinalizeType DEF RetryFleetRegistration
<1>5. CASE LeaveProvisioning \/ SignOut
  BY <1>5 DEF LeaveProvisioning, SignOut
<1>6. CASE Restart
  <2>1. phone' \in Phone
    BY <1>6, PhoneTypes, PhoneEdits DEF Restart
  <2>2. call' \in Calls
    BY <1>6 DEF Restart, Calls, Call
  <2> QED
    BY <1>6, <2>1, <2>2 DEF Restart
<1> QED
  BY <1>1, <1>2, <1>3, <1>4, <1>5, <1>6 DEF User

\* An answer is a status of the claim, or is dropped.
LEMMA AnsweredType ==
    ASSUME AppTyped, NEW k \in Request, NEW c \in Claim, NEW s \in ClaimStatus,
           Answered(k, c, s)
    PROVE  phone' \in Phone /\ call' \in Calls
<1> USE DEF AppTyped
<1>1. CASE Drop(k)
  <2>1. {"none", "dropped"} \subseteq Call
    BY DEF Call
  <2>2. \E a \in {"none", "dropped"} : call' = [call EXCEPT ![k] = a]
    BY <1>1 DEF Drop
  <2> QED
    BY <1>1, <2>1, <2>2, CallEdits DEF Drop
<1>2. CASE /\ call' = [call EXCEPT ![k] = s]
           /\ phone' = [Noted(c, s) EXCEPT !.told = IF k = "resume" THEN c ELSE @]
  <2>1. s \in Call
    BY DEF Call, Answer
  <2>2. Noted(c, s) \in Phone
    BY PhoneTypes
  <2>3. (IF k = "resume" THEN c ELSE Noted(c, s).told) \in Maybe(Claim)
    BY <2>2 DEF Phone, Maybe
  <2> QED
    BY <1>2, <2>1, <2>2, <2>3, CallEdits, PhoneEdits
<1> QED
  BY <1>1, <1>2 DEF Answered

LEMMA ReadClaimType ==
    ASSUME AppTyped, TypeOK, NEW c \in Claim, NEW k \in Request, NEW t \in Reading,
           ReadClaim(c, k, t)
    PROVE  phone' \in Phone /\ call' \in Calls
<1> DEFINE overdue == claims[c].status = "CLAIM_PENDING" /\ Past(claims[c].expiresAt, t)
           s == IF overdue THEN "EXPIRED" ELSE claims[c].status
<1>1. s \in ClaimStatus
  BY DEF TypeOK, ClaimRow, ClaimStatus
<1>2. Answered(k, c, s)
  BY DEF ReadClaim
<1> QED
  BY <1>1, <1>2, AnsweredType

LEMMA ServeType ==
    ASSUME AppTyped, TypeOK, Serve
    PROVE  AppTyped'
<1> USE DEF AppTyped
<1>0. /\ {"resume", "status", "finalize"} \subseteq Request
      /\ \A a \in {"refused", "nothing", "running", "again", "none"} : a \in Call
      /\ page.claim \in Maybe(Claim) /\ phone.pending \in Maybe(Claim)
  BY DEF Request, Call, Answer, Error, ClaimStatus, Page, Phone
<1> PICK t \in Reading : ServeStatus(t) \/ ServeResume(t) \/ ServeFinalize(t)
  BY DEF Serve
<1>1. CASE ServeStatus(t)
  <2>1. CASE Found(page.claim) /\ ReadClaim(page.claim, "status", t)
    <3>1. page.claim \in Claim
      BY <1>0, <2>1 DEF Found, Maybe
    <3> QED
      BY <1>0, <1>1, <2>1, <3>1, ReadClaimType DEF ServeStatus
  <2>2. CASE call' = [call EXCEPT !["status"] = "refused"] /\ UNCHANGED phone
    BY <1>0, <1>1, <2>2, CallEdits DEF ServeStatus
  <2> QED
    BY <1>1, <2>1, <2>2 DEF ServeStatus
<1>2. CASE ServeResume(t)
  <2>1. CASE Found(phone.pending) /\ ReadClaim(phone.pending, "resume", t)
    <3>1. phone.pending \in Claim
      BY <1>0, <2>1 DEF Found, Maybe
    <3> QED
      BY <1>0, <1>2, <2>1, <3>1, ReadClaimType DEF ServeResume
  <2>2. CASE /\ call' = [call EXCEPT !["resume"] = "nothing"]
             /\ phone' \in {phone, Forget}
    BY <1>0, <1>2, <2>2, CallEdits, PhoneTypes DEF ServeResume
  <2>3. CASE Drop("resume")
    <3>1. call' = [call EXCEPT !["resume"] = "none"] /\ UNCHANGED phone
      BY <2>3 DEF Drop
    <3> QED
      BY <1>0, <1>2, <3>1, CallEdits DEF ServeResume
  <2> QED
    BY <1>2, <2>1, <2>2, <2>3 DEF ServeResume
<1>3. CASE ServeFinalize(t)
  <2>1. CASE call' = [call EXCEPT !["finalize"] = "refused"] /\ UNCHANGED <<page, phone, job>>
    BY <1>0, <2>1, CallEdits
  <2>2. ASSUME NEW c \in Claim, FinalizeRefused(c, t) PROVE AppTyped'
    <3>1. UNCHANGED <<page, job>>
      BY <2>2 DEF FinalizeRefused
    <3>2. CASE Answered("finalize", c, claims[c].status)
      <4>1. claims[c].status \in ClaimStatus
        BY DEF TypeOK, ClaimRow
      <4> QED
        BY <1>0, <3>1, <3>2, <4>1, AnsweredType
    <3>3. CASE call' = [call EXCEPT !["finalize"] = "refused"] /\ UNCHANGED phone
      BY <1>0, <3>1, <3>3, CallEdits
    <3> QED
      BY <2>2, <3>2, <3>3 DEF FinalizeRefused
  <2>3. ASSUME NEW c \in Claim, FinalizeStarts(c, t) PROVE AppTyped'
    <3> PICK l \in Lease :
          /\ \/ job' = l /\ call' = IF call["finalize"] = "stale" THEN call
                                    ELSE [call EXCEPT !["finalize"] = "running"]
             \/ UNCHANGED job /\ call' = [call EXCEPT !["finalize"] = "again"]
          /\ UNCHANGED <<page, phone>>
      BY <2>3 DEF FinalizeStarts
    <3>1. job' \in Maybe(Lease)
      BY DEF Maybe
    <3>2. call' \in Calls
      BY <1>0, CallEdits
    <3> QED
      BY <3>1, <3>2
  <2> QED
    BY <1>3, <2>1, <2>2, <2>3 DEF ServeFinalize
<1> QED
  BY <1>1, <1>2, <1>3

LEMMA AppTypeStep ==
    ASSUME AppTypeOK, SystemInv, SystemTypeOK', [AppNext]_avars
    PROVE  AppTypeOK'
<1>0. AppTyped /\ TypeOK /\ TypeOK'
  BY DEF AppTyped, AppTypeOK, SystemTypeOK, Calls
<1>1. SUFFICES AppTyped'
  BY DEF AppTyped, AppTypeOK, Calls
<1>2. CASE User \/ PageStep \/ Serve
  BY <1>0, <1>2, UserType, PageStepType, ServeType
<1>3. CASE RefreshSession
  <2>1. call' \in Calls
    BY <1>0, <1>3 DEF RefreshSession, AppTyped, Calls, Call
  <2> QED
    BY <1>0, <1>3, <2>1, PhoneTypes DEF RefreshSession, AppTyped
<1>4. CASE \E k \in Request : CallFails(k)
  <2>1. "again" \in Call
    BY DEF Call, Answer, Error
  <2>2. call' \in Calls
    BY <1>0, <1>4, <2>1, CallEdits DEF CallFails, AppTyped
  <2> QED
    BY <1>0, <1>4, <2>2, FreshTypes DEF CallFails, AppTyped
<1>5. CASE \E l \in Lease : FinalizeRuns(l)
  <2> PICK l \in Lease : FinalizeRuns(l)
    BY <1>5
  <2>1. UNCHANGED page /\ job' \in {job, None}
    BY DEF FinalizeRuns
  <2>2. CASE UNCHANGED <<call, phone>>
    BY <1>0, <2>1, <2>2, FreshTypes DEF AppTyped
  <2>3. CASE FinAt(l, "commit") /\ Answered("finalize", fin[l].claim, "RUNTIME_AUTHORIZED")
    <3>1. fin[l].claim \in Claim
      BY <2>3 DEF FinAt, SystemInv, JobsKnown
    <3>2. "finalize" \in Request /\ "RUNTIME_AUTHORIZED" \in ClaimStatus
      BY DEF Request, ClaimStatus
    <3> QED
      BY <1>0, <2>1, <2>3, <3>1, <3>2, AnsweredType, FreshTypes DEF AppTyped
  <2>4. CASE UNCHANGED phone /\ \E e \in Error : call' = [call EXCEPT !["finalize"] = e]
    <3>1. "finalize" \in Request /\ Error \subseteq Call
      BY DEF Request, Call, Answer
    <3> QED
      BY <1>0, <2>1, <2>4, <3>1, CallEdits, FreshTypes DEF AppTyped
  <2> QED
    BY <2>2, <2>3, <2>4 DEF FinalizeRuns
<1>6. CASE (\E l \in Lease : Rename(l)) \/ World \/ UNCHANGED avars
  BY <1>0, <1>6 DEF Rename, World, avars, app, AppTyped
<1> QED
  BY <1>2, <1>3, <1>4, <1>5, <1>6 DEF AppNext

----------------------------------------------------------------------------
LEMMA AppInitInv == AppInit => AppInv
<1> SUFFICES ASSUME AppInit PROVE AppInv
  OBVIOUS
<1>1. SystemInv
  BY SystemInitInv DEF AppInit
<1>2. AppTypeOK
  BY <1>1, FreshTypes DEF AppInit, AppTypeOK, SystemInv, Calls
<1>3. LeaseHeld
  BY DEF AppInit, SystemInit, Init, NoClaimRow, LeaseHeld, Leased
<1> QED
  BY <1>1, <1>2, <1>3 DEF AppInv

LEMMA AppInvStep == AppInv /\ [AppNext]_avars => AppInv'
<1> SUFFICES ASSUME AppInv, [AppNext]_avars PROVE AppInv'
  OBVIOUS
<1>1. SystemInv'
  BY AppSystemInv DEF AppInv
<1>2. AppTypeOK'
  BY <1>1, AppTypeStep DEF AppInv, SystemInv
<1>3. LeaseHeld'
  BY LeaseHeldStep DEF AppInv, SystemInv
<1> QED
  BY <1>1, <1>2, <1>3 DEF AppInv

LEMMA AppInvariant == Setup => []AppInv
BY AppInitInv, AppInvStep, PTL DEF Setup

\* The types of the setup app and everything behind it.
THEOREM AppTypeCorrect == Setup => []AppTypeOK
BY AppInvariant, PTL DEF AppInv

\* However many invocations of finalizeClaim the page and its retries start,
\* and however their calls fail: a lease in the table has its worker, or was
\* left by one that died, did not learn of it or could not give it back.
THEOREM LeaseHasWorkerAlways == Setup => []LeaseHasWorker
<1>1. AppInv => LeaseHasWorker
  BY DEF AppInv, LeaseHeld, LeaseHasWorker, Leased, Holding
<1> QED
  BY <1>1, AppInvariant, PTL

\* With the app on top, the four rows still are a behaviour of OwnershipTables,
THEOREM SetupImplementsTables == Setup => Spec
<1>1. AppInit => Init
  BY DEF AppInit, SystemInit
<1>2. AppInv /\ [AppNext]_avars => [Next]_tvars
  <2> SUFFICES ASSUME AppInv, [AppNext]_avars PROVE [Next]_tvars
    OBVIOUS
  <2>1. CASE [SystemNext]_svars
    BY <2>1, StepIsTables DEF AppInv, SystemInv, SystemTypeOK
  <2>2. CASE \E l \in Lease : Rename(l)
    BY <2>2 DEF Rename
  <2> QED
    BY <2>1, <2>2, AppStepSystem DEF AppInv
<1> QED
  BY <1>1, <1>2, AppInvariant, PTL DEF Setup, Spec

\* and only the bound device's certificate can use the runtime topics, whatever
\* the page's retries make overlap.
THEOREM SetupRuntimeOnlyForBound == Setup => []RuntimeOnlyForBound
BY AppInvariant, PTL DEF AppInv, SystemInv

----------------------------------------------------------------------------
(* What the page is told.                                                  *)

\* While the app's start waits for its resume, the page shows nothing yet and
\* has no other request out: a resume never changes the claim that another
\* answer is about.
ResumeFirst ==
    Waits("resume") => page = FreshPage /\ ~Waits("status") /\ ~Waits("finalize")

\* An answer ONLINE on its way to the page is about the page's claim, and true.
HeardOnline ==
    \A k \in {"status", "finalize"} : call[k] = "ONLINE" =>
        page.claim \in Claim /\ claims[page.claim].status = "ONLINE"

PageInv == ResumeFirst /\ HeardOnline

\* The page waits for the invocation whose answer it would take.
JobAwaited == job # None => call["finalize"] \in {"running", "stale"}

\* Nothing but a release takes a claim out of ONLINE, and nobody releases a
\* unit that is being set up: expiry and TTL are gone since the claim was bound.
LEMMA OnlineStays ==
    ASSUME AppTypeOK, SystemInv, [AppNext]_avars, NEW c \in Claim, claims[c].status = "ONLINE"
    PROVE  claims'[c].status = "ONLINE"
<1> DEFINE OnlineStill == claims'[c].status = "ONLINE"
<1>0. claims \in [Claim -> ClaimRow]
  BY DEF AppTypeOK, SystemTypeOK, TypeOK
<1>1. ASSUME NEW d, NEW row, claims' = [claims EXCEPT ![d] = row],
             claims[d].status # "ONLINE" \/ row.status = "ONLINE"
      PROVE  OnlineStill
  BY <1>0, <1>1
<1>2. ASSUME UNCHANGED claims PROVE OnlineStill
  BY <1>2
<1>3. CASE OneWrite
  <2>1. CASE \E d \in Claim, o \in Owner, k \in Code, t \in Reading : CreateClaim(d, o, k, t)
    BY <1>1, <2>1 DEF CreateClaim
  <2>2. CASE \E d \in Claim, t \in Reading : ExpireClaim(d, t)
    BY <1>1, <2>2 DEF ExpireClaim
  <2>3. CASE \E d \in Claim : SweepClaim(d)
    <3> PICK d \in Claim : SweepClaim(d)
      BY <2>3
    <3>1. claims[d].expiresAt # 0
      BY DEF SweepClaim, Past
    <3>2. claims[d].status # "ONLINE"
      BY <3>1 DEF SystemInv, TablesAgree, ClaimShape, Live
    <3> QED
      BY <1>1, <3>2 DEF SweepClaim
  <2> QED
    BY <1>2, <1>3, <2>1, <2>2, <2>3
       DEF OneWrite, MarkReissueRequired, SweepLock, Reissue, Tick, tables
<1>4. CASE \E x \in Cert : FleetStep(x)
  BY <1>2, <1>4 DEF FleetStep, FleetHook, PinCertificate, FleetRegister, DevicePublish, tvars
<1>5. CASE \E m \in uplinks : IngestFirstState(m)
  <2>1. ApplyFirstState(device.claimId)
    BY <1>5 DEF IngestFirstState
  <2> QED
    BY <1>1, <2>1 DEF ApplyFirstState
<1>6. CASE Quiet
  BY <1>2, <1>3, <1>4, <1>5, <1>6 DEF Quiet, svars
<1>7. CASE \E l \in Lease, d \in Claim, t \in Reading : FinAcquire(l, d, t)
  <2> PICK l \in Lease, d \in Claim, t \in Reading : StartLease(d, l, t) \/ RecoverLease(d, l, t)
    BY <1>7 DEF FinAcquire
  <2>1. claims[d].status # "ONLINE"
    BY DEF StartLease, RecoverLease, Startable, Recoverable
  <2> QED
    BY <1>1, <2>1 DEF StartLease, RecoverLease
<1>8. CASE \E l \in Lease : FinalizeRuns(l)
  <2> PICK l \in Lease : FinalizeRuns(l)
    BY <1>8
  <2>1. CASE \E t \in Reading : FinBind(l, t)
    BY <1>1, <2>1 DEF FinBind, Bindable, BootstrapFresh, BootstrapResumed, Resumable
  <2>2. CASE FinUnwind(l)
    BY <1>1, <1>2, <2>2 DEF FinUnwind, ReleaseLease, tvars
  <2>3. CASE FinCommit(l)
    BY <1>1, <1>2, <2>3 DEF FinCommit, AuthorizeRuntimeClaim, Authorizable, tvars
  <2>4. CASE UNCHANGED tvars
    BY <1>2, <2>4 DEF tvars
  <2> QED
    BY <2>1, <2>2, <2>3, <2>4
       DEF FinalizeRuns, FinWork, FinRegistry, FinThing, FinPrincipals, FinCertificate,
           FinTransition, FinRead, FinFail, FinPolicies, FinAttach, FinDetach, FinConfirm, FinCrash
<1>9. CASE \E l \in Lease : Rename(l)
  BY <1>2, <1>9 DEF Rename, tvars
<1> QED
  BY <1>6, <1>7, <1>8, <1>9, AppStepKinds

\* A finalize request that goes out is the only new one, and the page stays
\* with its claim.
LEMMA FinalizeSent ==
    ASSUME NEW p \in Page, NEW calls \in Calls, SendFinalize(p, calls)
    PROVE  /\ page'.claim = p.claim /\ page'.stage \in {p.stage, "wifi-connected"}
           /\ \/ call' = calls
              \/ call' = [calls EXCEPT !["finalize"] = "sent"]
<1>1. /\ [p EXCEPT !.stage = "wifi-connected", !.retry = TRUE].claim = p.claim
      /\ [p EXCEPT !.stage = "wifi-connected", !.retry = TRUE].stage = "wifi-connected"
  BY DEF Page
<1>2. /\ [p EXCEPT !.stage = "wifi-connected", !.tries = @ + 1].claim = p.claim
      /\ [p EXCEPT !.stage = "wifi-connected", !.tries = @ + 1].stage = "wifi-connected"
  BY Zenon DEF Page
<1> QED
  BY <1>1, <1>2 DEF SendFinalize

\* FreshPage shows nothing that asks for anything.
LEMMA FreshAsksNothing ==
    /\ FreshPage.timer = "none" /\ ~FreshPage.retry /\ FreshPage.stage = "idle"
    /\ \A k \in Request : Silent[k] = "none"
BY DEF FreshPage, Silent

\* Whatever the page does, its outstanding requests stay about its claim.
LEMMA PageInvOfPage ==
    ASSUME AppTypeOK, PageInv, PageStep, UNCHANGED claims
    PROVE  PageInv'
<1> USE DEF AppTypeOK
<1>0. /\ call \in Calls /\ page \in Page /\ FreshPage \in Page
      /\ Request = {"resume", "status", "finalize"}
  BY FreshTypes DEF Calls, Request
<1>1. ASSUME NEW k \in {"status", "finalize"}, call'[k] = "ONLINE", call[k] = "ONLINE",
             page'.claim = page.claim
      PROVE  page'.claim \in Claim /\ claims'[page'.claim].status = "ONLINE"
  BY <1>1 DEF PageInv, HeardOnline
<1>2. CASE StatusTimer
  <2>1. page # FreshPage /\ page'.claim = page.claim
    BY <1>0, <1>2, FreshAsksNothing DEF StatusTimer, Page
  <2>2. /\ call'["resume"] = call["resume"] /\ call'["finalize"] = call["finalize"]
        /\ call'["status"] \in {call["status"], "sent"}
    BY <1>0, <1>2 DEF StatusTimer, Calls
  <2> QED
    BY <1>1, <2>1, <2>2 DEF PageInv, ResumeFirst, HeardOnline, Waits
<1>3. CASE FinalizeTimer
  <2> DEFINE p == [page EXCEPT !.timer = "none"]
  <2>1. page # FreshPage /\ p \in Page /\ p.claim = page.claim
    BY <1>0, <1>3, FreshAsksNothing DEF FinalizeTimer, Page
  <2>2. page'.claim = page.claim /\ (call' = call \/ call' = [call EXCEPT !["finalize"] = "sent"])
    BY <1>0, <1>3, <2>1, FinalizeSent DEF FinalizeTimer
  <2>3. /\ call'["resume"] = call["resume"] /\ call'["status"] = call["status"]
        /\ call'["finalize"] \in {call["finalize"], "sent"}
    BY <1>0, <2>2 DEF Calls
  <2> QED
    BY <1>1, <2>1, <2>2, <2>3 DEF PageInv, ResumeFirst, HeardOnline, Waits
<1>4. CASE OnResumed
  <2> DEFINE heard == [call EXCEPT !["resume"] = "none"]
             known == [page EXCEPT !.claim = phone.told, !.tries = 0]
  <2>0. Waits("resume")
    BY <1>4, AppAssumption DEF OnResumed, Waits, ClaimStatus
  <2>1. /\ heard \in Calls /\ heard["resume"] = "none" /\ heard["status"] = "none"
        /\ heard["finalize"] = "none"
    BY <1>0, <2>0 DEF Calls, Call, PageInv, ResumeFirst, Waits
  <2>2. call' = heard \/ call' = [heard EXCEPT !["finalize"] = "sent"]
    BY <1>4 DEF OnResumed, SendFinalize
  <2> HIDE DEF heard
  <2>3. call'["resume"] = "none" /\ call'["status"] = "none" /\ call'["finalize"] # "ONLINE"
    <3>1. CASE call' = heard
      BY <2>1, <3>1, AppAssumption DEF ClaimStatus
    <3>2. CASE call' = [heard EXCEPT !["finalize"] = "sent"]
      BY <2>1, <3>2 DEF Calls, Request
    <3> QED
      BY <2>2, <3>1, <3>2
  <2> QED
    BY <2>3 DEF PageInv, ResumeFirst, HeardOnline, Waits
<1>5. CASE OnStatus
  <2> DEFINE heard == [call EXCEPT !["status"] = "none"]
  <2>1. Waits("status") /\ ~Waits("resume")
    BY <1>5, AppAssumption DEF OnStatus, Waits, ClaimStatus, PageInv, ResumeFirst
  <2>2. heard \in Calls /\ heard["resume"] = "none" /\ heard["status"] = "none"
        /\ heard["finalize"] = call["finalize"]
    BY <1>0, <2>1 DEF Calls, Call, Waits
  <2>3. CASE SendFinalize(page, heard)
    <3> HIDE DEF heard
    <3>1. /\ page'.claim = page.claim
          /\ call' = heard \/ call' = [heard EXCEPT !["finalize"] = "sent"]
      BY <1>0, <2>2, <2>3, FinalizeSent
    <3>2. /\ call'["resume"] = "none" /\ call'["status"] = "none"
          /\ call'["finalize"] \in {call["finalize"], "sent"}
      <4>1. CASE call' = heard
        BY <2>2, <4>1
      <4>2. CASE call' = [heard EXCEPT !["finalize"] = "sent"]
        BY <2>2, <4>2 DEF Calls, Request
      <4> QED
        BY <3>1, <4>1, <4>2
    <3> QED
      BY <1>1, <3>1, <3>2 DEF PageInv, ResumeFirst, HeardOnline, Waits
  <2>4. CASE page'.claim = page.claim /\ call' = heard
    BY <1>1, <2>2, <2>4 DEF PageInv, ResumeFirst, HeardOnline, Waits
  <2>5. CASE call' = Silent
    BY <1>0, <2>5, FreshAsksNothing DEF PageInv, ResumeFirst, HeardOnline, Waits
  <2>6. /\ [page EXCEPT !.stage = "provisioning", !.timer = "status"].claim = page.claim
        /\ [page EXCEPT !.stage = "wifi-connected", !.timer = "status"].claim = page.claim
        /\ [page EXCEPT !.stage = "failed"].claim = page.claim
    BY DEF Page
  <2> QED
    BY <1>5, <2>3, <2>4, <2>5, <2>6 DEF OnStatus
<1>6. CASE OnFinalized
  <2>1. CASE call' = Silent
    BY <1>0, <2>1, FreshAsksNothing DEF PageInv, ResumeFirst, HeardOnline, Waits
  <2>2. CASE /\ call["finalize"] = "RUNTIME_AUTHORIZED"
             /\ page' = [page EXCEPT !.stage = "wifi-connected", !.timer = "status"]
             /\ call' = [call EXCEPT !["finalize"] = "none"]
    <3>1. page'.claim = page.claim
      BY <2>2 DEF Page
    <3>2. /\ call'["resume"] = call["resume"] /\ call'["status"] = call["status"]
          /\ call'["finalize"] = "none"
      BY <1>0, <2>2 DEF Calls
    <3>3. Waits("finalize") /\ ~Waits("resume")
      BY <2>2, AppAssumption DEF Waits, PageInv, ResumeFirst
    <3> QED
      BY <1>1, <3>1, <3>2, <3>3 DEF PageInv, ResumeFirst, HeardOnline, Waits
  <2> QED
    BY <1>6, <2>1, <2>2 DEF OnFinalized
<1>7. CASE \E k \in Request : OnError(k)
  <2> PICK k \in Request : OnError(k)
    BY <1>7
  <2>0. Waits(k)
    BY AppAssumption DEF OnError, Waits, Error
  <2>1. CASE k = "resume" /\ call' = [call EXCEPT !["resume"] = "none"]
    <3>1. /\ call'["resume"] = "none" /\ call'["status"] = call["status"]
          /\ call'["finalize"] = call["finalize"]
      BY <1>0, <2>1 DEF Calls
    <3>2. call["status"] = "none" /\ call["finalize"] = "none"
      BY <2>0, <2>1 DEF PageInv, ResumeFirst, Waits
    <3> QED
      BY <3>1, <3>2 DEF PageInv, ResumeFirst, HeardOnline, Waits
  <2>2. CASE k # "resume" /\ call' = [Silent EXCEPT !["resume"] = call["resume"]]
    <3>1. ~Waits("resume")
      BY <1>0, <2>0, <2>2 DEF PageInv, ResumeFirst
    <3>2. call'["resume"] = "none" /\ call'["status"] = "none" /\ call'["finalize"] = "none"
      BY <1>0, <2>2, <3>1 DEF Silent, Waits
    <3> QED
      BY <3>2 DEF PageInv, ResumeFirst, HeardOnline, Waits
  <2> QED
    BY <2>1, <2>2 DEF OnError
<1> QED
  BY <1>2, <1>3, <1>4, <1>5, <1>6, <1>7 DEF PageStep

LEMMA PageInvOfUser ==
    ASSUME AppTypeOK, PageInv, User, \A c \in Claim : claims[c].status = "ONLINE" =>
                                                      claims'[c].status = "ONLINE"
    PROVE  PageInv'
<1> USE DEF AppTypeOK
<1>0. /\ call \in Calls /\ page \in Page /\ FreshPage \in Page
      /\ Request = {"resume", "status", "finalize"}
  BY FreshTypes DEF Calls, Request
<1>1. CASE call' = Silent
  BY <1>0, <1>1, FreshAsksNothing DEF PageInv, ResumeFirst, HeardOnline, Waits
<1>2. CASE StartSetup \/ SetupRejected \/ LeaveProvisioning \/ SignOut
  BY <1>1, <1>2 DEF StartSetup, SetupRejected, LeaveProvisioning, SignOut
<1>3. CASE Restart
  <2>1. /\ page' = FreshPage /\ call'["status"] = "none" /\ call'["finalize"] = "none"
    BY <1>0, <1>3 DEF Restart, Silent
  <2> QED
    BY <2>1 DEF PageInv, ResumeFirst, HeardOnline, Waits
<1>4. CASE WifiConnected
  <2>1. page # FreshPage /\ page'.claim = page.claim /\ UNCHANGED call
    BY <1>0, <1>4, FreshAsksNothing DEF WifiConnected, Page
  <2> QED
    BY <2>1 DEF PageInv, ResumeFirst, HeardOnline, Waits
<1>5. CASE RetryFleetRegistration
  <2> DEFINE p == [page EXCEPT !.tries = 0, !.retry = FALSE]
  <2>0. page # FreshPage /\ 0 \in 0..MaxTries
    BY <1>5, FreshAsksNothing, AppAssumption DEF RetryFleetRegistration
  <2>1. p \in Page /\ p.claim = page.claim
    BY <1>0, <2>0 DEF Page
  <2>2. page'.claim = page.claim /\ (call' = call \/ call' = [call EXCEPT !["finalize"] = "sent"])
    BY <1>0, <1>5, <2>1, FinalizeSent DEF RetryFleetRegistration
  <2>3. /\ call'["resume"] = call["resume"] /\ call'["status"] = call["status"]
        /\ call'["finalize"] \in {call["finalize"], "sent"}
    BY <1>0, <2>2 DEF Calls
  <2> QED
    BY <2>0, <2>2, <2>3 DEF PageInv, ResumeFirst, HeardOnline, Waits
<1> QED
  BY <1>2, <1>3, <1>4, <1>5 DEF User

\* What the API answers about the page's claim is what the table says.
LEMMA PageInvOfServe ==
    ASSUME AppTypeOK, PageInv, Serve, \A c \in Claim : claims[c].status = "ONLINE" =>
                                                       claims'[c].status = "ONLINE"
    PROVE  PageInv'
<1> USE DEF AppTypeOK
<1>b. \A c \in Claim : claims[c].status = "ONLINE" => claims'[c].status = "ONLINE"
  OBVIOUS
<1>0. /\ call \in Calls /\ page \in Page
      /\ Request = {"resume", "status", "finalize"}
      /\ page.claim \in Maybe(Claim)
  BY DEF Calls, Request, Page
<1>p. UNCHANGED page
  BY DEF Serve, ServeStatus, ServeResume, ServeFinalize, FinalizeRefused, FinalizeStarts
\* An answer to a request k of the page.
<1>1. ASSUME NEW k \in {"status", "finalize"}, Waits(k), NEW a,
             call' = [call EXCEPT ![k] = a],
             a = "ONLINE" => page.claim \in Claim /\ claims[page.claim].status = "ONLINE"
      PROVE  PageInv'
  <2>1. call["resume"] = "none"
    BY <1>1 DEF PageInv, ResumeFirst, Waits
  <2>2. call'["resume"] = "none" /\ \A j \in {"status", "finalize"} :
            call'[j] = IF j = k THEN a ELSE call[j]
    BY <1>0, <1>1, <2>1 DEF Calls
  <2>3. \A j \in {"status", "finalize"} : call'[j] = "ONLINE" =>
            page.claim \in Claim /\ claims[page.claim].status = "ONLINE"
    BY <1>1, <2>2 DEF PageInv, HeardOnline
  <2> QED
    BY <1>p, <2>2, <2>3 DEF PageInv, ResumeFirst, HeardOnline, Waits
\* A status s of claim c, or nothing.
<1>1a. ASSUME NEW k \in {"status", "finalize"}, Waits(k), NEW s, Answered(k, page.claim, s),
              s = "ONLINE" => page.claim \in Claim /\ claims[page.claim].status = "ONLINE"
       PROVE  PageInv'
  BY <1>1, <1>1a DEF Answered, Drop
<1> PICK t \in Reading : ServeStatus(t) \/ ServeResume(t) \/ ServeFinalize(t)
  BY DEF Serve
<1>2. CASE ServeStatus(t)
  <2>0. Waits("status")
    BY <1>2, AppAssumption DEF ServeStatus, Waits
  <2>1. CASE Found(page.claim) /\ ReadClaim(page.claim, "status", t)
    <3> DEFINE a == IF claims[page.claim].status = "CLAIM_PENDING"
                         /\ Past(claims[page.claim].expiresAt, t)
                    THEN "EXPIRED" ELSE claims[page.claim].status
    <3>1. page.claim \in Claim
      BY <1>0, <2>1 DEF Found, Maybe
    <3>2. /\ Answered("status", page.claim, a)
          /\ a = "ONLINE" => claims[page.claim].status = "ONLINE"
      BY <2>1 DEF ReadClaim
    <3> HIDE DEF a
    <3> QED
      BY <1>1a, <2>0, <3>1, <3>2
  <2>2. CASE call' = [call EXCEPT !["status"] = "refused"]
    BY <1>1, <2>0, <2>2
  <2> QED
    BY <1>2, <2>1, <2>2 DEF ServeStatus
<1>3. CASE ServeResume(t)
  <2>1. Waits("resume")
    BY <1>3, AppAssumption DEF ServeResume, Waits
  <2>2. \E a : call' = [call EXCEPT !["resume"] = a]
    BY <1>3 DEF ServeResume, ReadClaim, Answered, Drop
  <2>3. page = FreshPage /\ call'["status"] = "none" /\ call'["finalize"] = "none"
    BY <1>0, <2>1, <2>2 DEF Calls, PageInv, ResumeFirst, Waits
  <2> QED
    BY <1>p, <2>3 DEF PageInv, ResumeFirst, HeardOnline, Waits
<1>4. CASE ServeFinalize(t)
  <2>0. Waits("finalize")
    BY <1>4, AppAssumption DEF ServeFinalize, Waits
  <2>1. CASE call' = [call EXCEPT !["finalize"] = "refused"]
    BY <1>1, <2>0, <2>1
  <2>2. CASE FinalizeStarts(page.claim, t)
    <3>1. CASE UNCHANGED call
      BY <1>p, <1>b, <3>1 DEF PageInv, ResumeFirst, HeardOnline, Waits
    <3>2. CASE \E a \in {"running", "again"} : call' = [call EXCEPT !["finalize"] = a]
      BY <1>1, <2>0, <3>2
    <3> QED
      BY <2>2, <3>1, <3>2 DEF FinalizeStarts
  <2>3. CASE page.claim \in Claim /\ FinalizeRefused(page.claim, t)
    <3>1. CASE Answered("finalize", page.claim, claims[page.claim].status)
      BY <1>1a, <2>0, <2>3, <3>1
    <3>2. CASE call' = [call EXCEPT !["finalize"] = "refused"]
      BY <1>1, <2>0, <3>2
    <3> QED
      BY <2>3, <3>1, <3>2 DEF FinalizeRefused
  <2> QED
    BY <1>4, <2>1, <2>2, <2>3 DEF ServeFinalize
<1> QED
  BY <1>2, <1>3, <1>4

LEMMA PageInvStep == AppInv /\ PageInv /\ JobAwaited /\ [AppNext]_avars => PageInv'
<1> SUFFICES ASSUME AppInv, PageInv, JobAwaited, [AppNext]_avars PROVE PageInv'
  OBVIOUS
<1>a. AppTypeOK /\ SystemInv
  BY DEF AppInv
<1>b. \A c \in Claim : claims[c].status = "ONLINE" => claims'[c].status = "ONLINE"
  BY <1>a, OnlineStays
<1>c. call \in Calls /\ Request = {"resume", "status", "finalize"}
  BY <1>a DEF AppTypeOK, Calls, Request
<1>1. CASE UNCHANGED <<page, call>>
  BY <1>1, <1>b DEF PageInv, ResumeFirst, HeardOnline, Waits
<1>2. CASE PageStep
  <2>1. UNCHANGED claims
    BY <1>2 DEF PageStep, StatusTimer, FinalizeTimer, OnResumed, OnStatus, OnFinalized, OnError,
       svars
  <2> QED
    BY <1>2, <1>a, <2>1, PageInvOfPage
\* A lost or finished request of kind k is answered with something else.
<1>3. ASSUME NEW k \in Request, NEW a, Waits(k), a # "ONLINE", UNCHANGED page,
             call' = [call EXCEPT ![k] = a]
      PROVE  PageInv'
  <2>1. \A j \in Request : call'[j] = IF j = k THEN a ELSE call[j]
    BY <1>3, <1>c DEF Calls
  <2>2. Waits("resume")' => Waits("resume") /\ k = "resume"
    BY <1>3, <1>c, <2>1 DEF Waits, PageInv, ResumeFirst
  <2>3. ResumeFirst'
    BY <1>3, <1>c, <2>1, <2>2 DEF PageInv, ResumeFirst, Waits
  <2>4. HeardOnline'
    BY <1>3, <1>b, <1>c, <2>1 DEF PageInv, HeardOnline
  <2> QED
    BY <2>3, <2>4 DEF PageInv
<1>4. CASE \E k \in Request : CallFails(k)
  <2> PICK k \in Request : CallFails(k)
    BY <1>4
  <2>1. Waits(k) /\ UNCHANGED page /\ call' = [call EXCEPT ![k] = "again"]
    BY AppAssumption DEF CallFails, Asked, Waits
  <2> QED
    BY <1>3, <2>1
<1>5. CASE \E l \in Lease : FinalizeRuns(l)
  <2> PICK l \in Lease : FinalizeRuns(l)
    BY <1>5
  <2>1. UNCHANGED page
    BY DEF FinalizeRuns
  <2>2. \/ UNCHANGED call
        \/ /\ l = job
           /\ \E a \in Error \cup {"RUNTIME_AUTHORIZED", "dropped"} :
                 call' = [call EXCEPT !["finalize"] = a]
    BY DEF FinalizeRuns, Answered, Drop
  <2>3. ASSUME l = job, NEW a \in Error \cup {"RUNTIME_AUTHORIZED", "dropped"},
               call' = [call EXCEPT !["finalize"] = a]
        PROVE  PageInv'
    <3>1. call["finalize"] \in {"running", "stale"} /\ a # "ONLINE"
      BY <2>3, NoneApart DEF JobAwaited, Error
    <3>2. Waits("finalize")
      BY <3>1, AppAssumption DEF Waits
    <3> QED
      BY <1>3, <1>c, <2>1, <2>3, <3>1, <3>2
  <2> QED
    BY <1>1, <2>1, <2>2, <2>3
<1>6. CASE (\E l \in Lease : Rename(l)) \/ World \/ UNCHANGED avars
  BY <1>1, <1>6 DEF Rename, World, avars, app
<1>7. CASE RefreshSession
  <2>1. UNCHANGED <<page, claims>>
    BY <1>7 DEF RefreshSession, svars
  <2>2. \A k \in Request : call'[k] = call[k] \/ (Waits(k) /\ call'[k] = "stale")
    BY <1>7, AppAssumption DEF RefreshSession, Underway, Waits
  <2>3. \A k \in Request : (Waits(k)' <=> Waits(k)) /\ (call'[k] = "ONLINE" => call[k] = "ONLINE")
    BY <2>2 DEF Waits
  <2> QED
    BY <1>c, <2>1, <2>3 DEF PageInv, ResumeFirst, HeardOnline
<1> QED
  BY <1>2, <1>4, <1>5, <1>6, <1>7, <1>a, <1>b, PageInvOfUser, PageInvOfServe DEF AppNext

LEMMA JobAwaitedStep == AppTypeOK /\ JobAwaited /\ [AppNext]_avars => JobAwaited'
<1> SUFFICES ASSUME AppTypeOK, JobAwaited, [AppNext]_avars PROVE JobAwaited'
  OBVIOUS
<1>0. /\ call \in Calls /\ Request = {"resume", "status", "finalize"}
      /\ None \notin {"sent", "running"}
  BY AppAssumption DEF AppTypeOK, Calls, Request
<1>1. CASE job' = None
  BY <1>1 DEF JobAwaited
<1>2. CASE UNCHANGED <<call, job>>
  BY <1>2 DEF JobAwaited
\* An edit of another request, or of a finalize that nobody runs for.
<1>3. ASSUME NEW k \in Request, NEW a, call' = [call EXCEPT ![k] = a], UNCHANGED job,
             k # "finalize" \/ call["finalize"] \notin {"running", "stale"} \/ job = None
      PROVE  JobAwaited'
  BY <1>0, <1>3 DEF JobAwaited, Calls
<1>4. ASSUME NEW p, SendFinalize(p, call), UNCHANGED job PROVE JobAwaited'
  BY <1>0, <1>2, <1>3, <1>4 DEF SendFinalize
<1>5. ASSUME NEW p, NEW k \in Request \ {"finalize"}, UNCHANGED job,
             SendFinalize(p, [call EXCEPT ![k] = "none"])
      PROVE  JobAwaited'
  <2> DEFINE calls == [call EXCEPT ![k] = "none"]
  <2>1. calls \in [Request -> Call] /\ calls["finalize"] = call["finalize"]
    BY <1>0, <1>5 DEF Calls, Call
  <2> HIDE DEF calls
  <2>2. CASE call' = calls
    BY <1>5, <2>1, <2>2 DEF JobAwaited
  <2>3. CASE calls["finalize"] = "none" /\ call' = [calls EXCEPT !["finalize"] = "sent"]
    BY <1>0, <1>5, <2>1, <2>3 DEF JobAwaited
  <2>4. SendFinalize(p, calls)
    BY <1>5 DEF calls
  <2> QED
    BY <2>2, <2>3, <2>4 DEF SendFinalize
<1>6. CASE StatusTimer
  BY <1>0, <1>2, <1>3, <1>6 DEF StatusTimer
<1>7. CASE FinalizeTimer
  BY <1>4, <1>7 DEF FinalizeTimer
<1>8. CASE OnResumed
  BY <1>0, <1>3, <1>5, <1>8 DEF OnResumed
<1>9. CASE OnStatus
  BY <1>0, <1>1, <1>3, <1>5, <1>9 DEF OnStatus
<1>10. CASE \E k \in Request : OnError(k)
  BY <1>0, <1>1, <1>3, <1>10 DEF OnError
<1>11. CASE OnFinalized \/ LeaveProvisioning \/ Restart \/ SignOut
  BY <1>1, <1>11 DEF OnFinalized, LeaveProvisioning, Restart, SignOut
<1>12. CASE RetryFleetRegistration
  BY <1>4, <1>12 DEF RetryFleetRegistration
<1>13. CASE StartSetup \/ SetupRejected \/ WifiConnected \/ World
            \/ (\E l \in Lease : Rename(l)) \/ UNCHANGED avars
  BY <1>2, <1>13 DEF StartSetup, SetupRejected, WifiConnected, World, Rename, avars, app
<1>14. CASE \E k \in Request : CallFails(k)
  BY <1>0, <1>1, <1>3, <1>14 DEF CallFails
<1>15. CASE \E l \in Lease : FinalizeRuns(l)
  BY <1>1, <1>2, <1>15 DEF FinalizeRuns
<1>16. CASE \E t \in Reading : ServeStatus(t)
  BY <1>0, <1>3, <1>16 DEF ServeStatus, ReadClaim, Answered, Drop
<1>17. CASE \E t \in Reading : ServeResume(t)
  BY <1>0, <1>3, <1>17 DEF ServeResume, ReadClaim, Answered, Drop
<1>18. CASE \E t \in Reading : ServeFinalize(t)
  <2> PICK t \in Reading : ServeFinalize(t)
    BY <1>18
  <2>1. call["finalize"] = "sent" \/ (call["finalize"] = "stale" /\ job = None)
    BY DEF ServeFinalize
  <2>2. CASE UNCHANGED job /\ \E a : call' = [call EXCEPT !["finalize"] = a]
    BY <1>0, <1>3, <2>1, <2>2
  <2>3. CASE call' = IF call["finalize"] = "stale" THEN call
                     ELSE [call EXCEPT !["finalize"] = "running"]
    BY <1>0, <2>3 DEF JobAwaited, Calls
  <2> QED
    BY <2>2, <2>3 DEF ServeFinalize, FinalizeRefused, FinalizeStarts, Answered, Drop
<1>19. CASE RefreshSession
  BY <1>0, <1>19 DEF RefreshSession, JobAwaited
<1> QED
  BY <1>6, <1>7, <1>8, <1>9, <1>10, <1>11, <1>12, <1>13, <1>14, <1>15, <1>16, <1>17, <1>18,
     <1>19 DEF AppNext, User, PageStep, Serve

LEMMA PageInvariant == Setup => [](AppInv /\ PageInv /\ JobAwaited)
<1>1. AppInit => PageInv /\ JobAwaited
  BY FreshAsksNothing, AppAssumption DEF AppInit, PageInv, ResumeFirst, HeardOnline, JobAwaited,
     Waits, Request
<1>2. AppInv => AppTypeOK
  BY DEF AppInv
<1> QED
  BY <1>1, <1>2, AppInitInv, AppInvStep, PageInvStep, JobAwaitedStep, PTL DEF Setup

\* CompleteIsOnline: the page shows the end of the setup only on an answer
\* ONLINE to a request it still waits for, and by then its own claim is ONLINE
\* - whatever answers got lost or came late, and however many finalizers ran.
LEMMA CompleteStep ==
    AppInv /\ PageInv /\ [AppNext]_avars
        => [ page'.stage = "complete" /\ page.stage # "complete" =>
               page'.claim # None /\ claims'[page'.claim].status = "ONLINE" ]_avars
<1> SUFFICES ASSUME AppInv, PageInv, AppNext,
                    page'.stage = "complete", page.stage # "complete"
             PROVE  page'.claim # None /\ claims'[page'.claim].status = "ONLINE"
  OBVIOUS
<1> USE DEF AppInv, AppTypeOK
<1>0. call \in Calls /\ page \in Page /\ FreshPage \in Page
  BY FreshTypes DEF Calls
<1>1. ASSUME NEW k \in {"status", "finalize"}, call[k] = "ONLINE", page' = Complete(page),
             UNCHANGED claims
      PROVE  page'.claim # None /\ claims'[page'.claim].status = "ONLINE"
  <2>1. page'.claim = page.claim
    BY <1>0, <1>1 DEF Complete, Page
  <2> QED
    BY <1>1, <2>1, NoneApart DEF PageInv, HeardOnline
\* A finalize request that goes out completes nothing.
<1>2. ASSUME NEW p \in Page, p.stage # "complete", NEW calls \in Calls, SendFinalize(p, calls)
      PROVE  FALSE
  BY <1>2, FinalizeSent
<1>3. CASE OnStatus
  <2>1. [call EXCEPT !["status"] = "none"] \in Calls
    BY <1>0 DEF Calls, Call
  <2>2. \A st \in {"provisioning", "wifi-connected", "failed"} :
            [page EXCEPT !.stage = st, !.timer = "status"].stage = st
            /\ [page EXCEPT !.stage = st].stage = st
    BY <1>0 DEF Page
  <2>3. /\ page' # [page EXCEPT !.stage = "provisioning", !.timer = "status"]
        /\ page' # [page EXCEPT !.stage = "wifi-connected", !.timer = "status"]
        /\ page' # [page EXCEPT !.stage = "failed"]
    BY <2>2
  <2>4. call["status"] = "ONLINE" /\ page' = Complete(page) /\ UNCHANGED claims
    BY <1>0, <1>2, <1>3, <2>1, <2>3 DEF OnStatus, svars
  <2> QED
    BY <1>1, <2>4
<1>4. CASE OnFinalized
  <2>1. page' # [page EXCEPT !.stage = "wifi-connected", !.timer = "status"]
    BY <1>0 DEF Page
  <2>2. call["finalize"] = "ONLINE" /\ page' = Complete(page) /\ UNCHANGED claims
    BY <1>4, <2>1 DEF OnFinalized, svars
  <2> QED
    BY <1>1, <2>2
<1>5. CASE OnResumed
  <2> DEFINE heard == [call EXCEPT !["resume"] = "none"]
             known == [page EXCEPT !.claim = phone.told, !.tries = 0]
  <2>0. phone.told \in Maybe(Claim) /\ 0 \in 0..MaxTries
    BY AppAssumption DEF Phone
  <2>1. known \in Page /\ heard \in Calls /\ known.stage = page.stage
    BY <1>0, <2>0 DEF Page, Calls, Call
  <2>2. /\ page' # [known EXCEPT !.stage = "provisioning", !.timer = "status"]
        /\ page' # [page EXCEPT !.claim = phone.told, !.stage = "wifi-connected",
                                !.timer = "status"]
        /\ page' # [page EXCEPT !.claim = None]
        /\ page' # page
    BY <1>0, <2>1 DEF Page
  <2>3. \E s \in ClaimStatus : SendFinalize([known EXCEPT !.stage = "wifi-connected",
                                             !.retry = (s = "BOOTSTRAPPED" /\ @)], heard)
    BY <1>5, <2>2 DEF OnResumed, ClaimStatus
  <2> PICK s \in ClaimStatus : SendFinalize([known EXCEPT !.stage = "wifi-connected",
                                     !.retry = (s = "BOOTSTRAPPED" /\ @)], heard)
    BY <2>3
  <2> DEFINE b == s = "BOOTSTRAPPED" /\ known.retry
  <2>4. b \in BOOLEAN
    OBVIOUS
  <2> HIDE DEF b, known
  <2>5. /\ [known EXCEPT !.stage = "wifi-connected", !.retry = b] \in Page
        /\ [known EXCEPT !.stage = "wifi-connected", !.retry = b].stage # "complete"
    BY <2>1, <2>4 DEF Page
  <2> QED
    BY <1>2, <2>1, <2>5 DEF b
<1>6. CASE FinalizeTimer
  <2>1. [page EXCEPT !.timer = "none"] \in Page /\ [page EXCEPT !.timer = "none"].stage = page.stage
    BY <1>0 DEF Page
  <2> QED
    BY <1>0, <1>2, <1>6, <2>1 DEF FinalizeTimer
<1>7. CASE RetryFleetRegistration
  <2>0. 0 \in 0..MaxTries
    BY AppAssumption
  <2>1. /\ [page EXCEPT !.tries = 0, !.retry = FALSE] \in Page
        /\ [page EXCEPT !.tries = 0, !.retry = FALSE].stage = page.stage
    BY <1>0, <2>0 DEF Page
  <2> QED
    BY <1>0, <1>2, <1>7, <2>1 DEF RetryFleetRegistration
<1>8. CASE StatusTimer
  <2>1. [page EXCEPT !.timer = "none"].stage = page.stage
    BY <1>0 DEF Page
  <2> QED
    BY <1>8, <2>1 DEF StatusTimer
<1>9. CASE \E k \in Request : OnError(k)
  <2> PICK k \in Request : OnError(k)
    BY <1>9
  <2>1. /\ page' # [page EXCEPT !.stage = "wifi-connected", !.timer = "finalize"]
        /\ page' # [page EXCEPT !.stage = "wifi-connected", !.retry = TRUE]
        /\ page' # [page EXCEPT !.stage = "failed"]
        /\ page' # page
    BY <1>0 DEF Page
  <2> QED
    BY <2>1 DEF OnError
<1>10. CASE StartSetup \/ SetupRejected \/ WifiConnected
  <2>1. \A c : /\ page' # [page EXCEPT !.claim = c, !.stage = "wifi"]
    BY <1>0 DEF Page
  <2>2. page' # [page EXCEPT !.stage = "failed"]
    BY <1>0 DEF Page
  <2>3. page' # [page EXCEPT !.stage = "wifi-connected", !.tries = 0, !.timer = "status"]
    BY <1>0 DEF Page
  <2> QED
    BY <1>10, <2>1, <2>2, <2>3 DEF StartSetup, SetupRejected, WifiConnected
<1>11. CASE LeaveProvisioning \/ Restart \/ SignOut
  BY <1>11, FreshAsksNothing DEF LeaveProvisioning, Restart, SignOut
<1>12. CASE UNCHANGED page
  BY <1>12
<1>13. CASE Serve \/ RefreshSession \/ World
            \/ (\E k \in Request : CallFails(k)) \/ (\E l \in Lease : FinalizeRuns(l) \/ Rename(l))
  BY <1>12, <1>13 DEF Serve, ServeStatus, ServeResume, ServeFinalize, FinalizeRefused,
     FinalizeStarts, RefreshSession, World, CallFails, FinalizeRuns, Rename, app
<1> QED
  BY <1>3, <1>4, <1>5, <1>6, <1>7, <1>8, <1>9, <1>10, <1>11, <1>13 DEF AppNext, User, PageStep

\* CompleteIsOnline: when the page says that the setup is complete, its own
\* claim is ONLINE in the table: the device has reported over its runtime
\* certificate (completeServerRegistration's two callers).
THEOREM CompleteIsAlwaysOnline == Setup => CompleteIsOnline
BY PageInvariant, CompleteStep, PTL DEF Setup, CompleteIsOnline
=============================================================================
