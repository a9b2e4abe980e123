------------------------- MODULE OnboardingProofs -------------------------
(***************************************************************************)
(* What holds of Onboarding for any number of accounts, units' codes,      *)
(* claims, certificates and invocations.                                   *)
(*                                                                         *)
(* SystemInv is the inductive invariant: the rows agree (OwnershipProofs), *)
(* an invocation past its first reads knows its claim and certificate, and *)
(* Armed says what the later steps of an invocation may rely on: whoever   *)
(* is about to arm a certificate works on the one the device is bound to,  *)
(* or on one that is disabled for good, and no other certificate has the   *)
(* runtime policy (so a repeated registration activates none that has).    *)
(***************************************************************************)
EXTENDS Onboarding, OwnershipProofs

JobsKnown ==
    /\ \A l \in Lease :
        /\ fin[l].pc \notin {"new", "done", "left"} => fin[l].claim \in Claim
        /\ fin[l].pc \notin {"new", "done", "left", "registry", "unwind"} => fin[l].cert \in Cert
    /\ \A r \in Release : rel[r].pc # "new" => rel[r].cert \in Cert /\ rel[r].owner \in Owner
    /\ \A c \in Claim : claims[c].status # "ABSENT" => claims[c].ownerId \in Owner
    /\ device.lifecycle # "NONE" => device.certificateId \in Cert

Disabled(x) == cert[x].status = "INACTIVE"
Worn(x) == Bound /\ device.certificateId = x

Armed ==
    /\ \A l \in Lease :
        fin[l].pc \in AuthorizePc => Worn(fin[l].cert) \/ Disabled(fin[l].cert)
    /\ \A r \in Release :
        /\ rel[r].pc \in {"detach", "unbind", "check", "delete", "revoke"} =>
             Disabled(rel[r].cert)
        /\ rel[r].pc \in {"check", "delete", "revoke"} => rel[r].cert \notin thing.principals
    /\ \A x \in Cert : "runtime" \in cert[x].policies => Worn(x) \/ Disabled(x)

SystemInv ==
    /\ SystemTypeOK
    /\ TablesAgree
    /\ JobsKnown
    /\ Armed
    /\ RuntimeOnlyForBound
    /\ ReleasedIsDisarmed

----------------------------------------------------------------------------
(* Every step of the system is a step of the tables, or leaves them alone. *)
LEMMA BoundIsKnown ==
    ASSUME TypeOK, TablesAgree, JobsKnown, Bound
    PROVE  device.certificateId \in Cert /\ device.ownerId \in Owner
<1>1. registry.status \in {"BOOTSTRAPPED", "RUNTIME_AUTHORIZED"}
  BY DEF TypeOK, RegistryRow, RegistryStatus, TablesAgree, SpareAgrees, ReservedAgrees
<1>2. /\ registry.claimId \in Claim /\ Live(registry.claimId)
      /\ registry.certificateId \in Cert
      /\ registry.ownerId = claims[registry.claimId].ownerId
      /\ device.ownerId = registry.ownerId /\ device.certificateId = registry.certificateId
  BY <1>1 DEF TablesAgree, BoundAgrees
<1>3. claims[registry.claimId].status # "ABSENT"
  BY <1>2 DEF Live
<1> QED
  BY <1>2, <1>3 DEF JobsKnown

LEMMA FinTables ==
    ASSUME TypeOK, JobsKnown, NEW l \in Lease, FinStep(l)
    PROVE  [Next]_tvars
<1>1. CASE \E c \in Claim, t \in Reading : FinAcquire(l, c, t)
  BY <1>1 DEF FinAcquire, Next, ClaimStep
<1>2. CASE \E t \in Reading : FinBind(l, t)
  <2>1. fin[l].claim \in Claim /\ fin[l].cert \in Cert
    BY <1>2 DEF FinBind, FinAt, JobsKnown
  <2> QED
    BY <1>2, <2>1 DEF FinBind, Bindable, Next, ClaimStep
<1>3. CASE FinUnwind(l)
  <2>1. fin[l].claim \in Claim
    BY <1>3 DEF FinUnwind, FinAt, JobsKnown
  <2> QED
    BY <1>3, <2>1 DEF FinUnwind, Next, ClaimStep
<1>4. CASE FinCommit(l)
  <2>1. fin[l].claim \in Claim /\ fin[l].cert \in Cert
    BY <1>4 DEF FinCommit, FinAt, JobsKnown
  <2> QED
    BY <1>4, <2>1 DEF FinCommit, Next, ClaimStep
<1>5. CASE \/ FinRegistry(l) \/ FinThing(l) \/ FinPrincipals(l) \/ FinCertificate(l)
           \/ FinTransition(l) \/ FinFail(l) \/ FinPolicies(l) \/ FinAttach(l)
           \/ FinDetach(l) \/ FinConfirm(l) \/ FinCrash(l)
  BY <1>5 DEF FinRegistry, FinThing, FinPrincipals, FinCertificate, FinTransition, FinRead,
              FinFail, FinPolicies, FinAttach, FinDetach, FinConfirm, FinCrash
<1> QED
  BY <1>1, <1>2, <1>3, <1>4, <1>5 DEF FinStep, FinWork

LEMMA RelTables ==
    ASSUME TypeOK, JobsKnown, NEW r \in Release, RelStep(r)
    PROVE  [Next]_tvars
<1>1. CASE RelRevoke(r)
  <2>1. rel[r].owner \in Owner /\ rel[r].cert \in Cert
    BY <1>1 DEF RelRevoke, RelAt, JobsKnown
  <2> QED
    BY <1>1, <2>1 DEF RelRevoke, Next
<1>2. CASE ~RelRevoke(r)
  BY <1>2 DEF RelStep, RelStart, RelPrincipals, RelPolicies, RelDisable, RelDetach,
              RelUnbind, RelCheck, RelDelete, RelCrash
<1> QED
  BY <1>1, <1>2

LEMMA StepIsTables ==
    ASSUME TypeOK, JobsKnown, [SystemNext]_svars
    PROVE  [Next]_tvars
<1>1. CASE OneWrite
  BY <1>1 DEF OneWrite, Next, ClaimStep
<1>2. CASE \E x \in Cert : FleetStep(x)
  <2> PICK x \in Cert : FleetStep(x)
    BY <1>2
  <2>1. CASE \E c \in Claim, t \in Reading : FleetHook(c, x, t)
    <3> PICK c \in Claim, t \in Reading : FleetHook(c, x, t)
      BY <2>1
    <3>1. claims[c].nonceHash \in Nonce
      BY DEF FleetHook, TypeOK, ClaimRow, Maybe
    <3> QED
      BY <3>1 DEF FleetHook, Next, ClaimStep
  <2>2. CASE FleetRegister(x) \/ DevicePublish(x)
    BY <2>2 DEF FleetRegister, DevicePublish
  <2> QED
    BY <2>1, <2>2 DEF FleetStep
<1>3. CASE \E m \in uplinks : IngestFirstState(m)
  BY <1>3 DEF IngestFirstState, Next, ClaimStep
<1>4. CASE UNCHANGED svars
  BY <1>4 DEF svars, tvars
<1> QED
  BY <1>1, <1>2, <1>3, <1>4, FinTables, RelTables DEF SystemNext

----------------------------------------------------------------------------
(* Types.                                                                  *)
LEMMA SystemInitType == SystemInit => SystemTypeOK
<1> SUFFICES ASSUME SystemInit PROVE SystemTypeOK
  OBVIOUS
<1>1. TypeOK
  BY InitType DEF SystemInit
<1>2. NewFinJob \in FinJob
  BY DEF NewFinJob, FinJob, FinPc, Over, Maybe
<1> QED
  BY <1>1, <1>2 DEF SystemInit, SystemTypeOK, CertState, CertStatus, ThingState, RelJob,
                    RelPc, Maybe

\* An invocation of finalizeClaim only writes its own job and policies.
LEMMA FinType ==
    ASSUME SystemTypeOK, JobsKnown, NEW l \in Lease, FinStep(l)
    PROVE  /\ cert' \in [Cert -> CertState] /\ fin' \in [Lease -> FinJob]
           /\ UNCHANGED <<thing, rel, uplinks>>
<1> USE DEF SystemTypeOK
<1>0. /\ \A pc \in FinPc : FinGoto(l, pc) => fin' \in [Lease -> FinJob]
      /\ VerifyPc \subseteq FinPc /\ AuthorizePc \subseteq FinPc
      /\ "unwind" \in FinPc /\ "done" \in FinPc /\ "left" \in FinPc
  BY DEF FinGoto, FinJob, FinPc, Over
<1>1. CASE \E c \in Claim, t \in Reading : FinAcquire(l, c, t)
  <2> PICK c \in Claim, t \in Reading : FinAcquire(l, c, t)
    BY <1>1
  <2> QED
    <3>0. PICK pc \in {"registry", "left"} :
            fin' = [fin EXCEPT ![l] = [@ EXCEPT !.pc = pc, !.claim = c]]
      BY DEF FinAcquire
    <3>1. fin[l] \in FinJob /\ pc \in FinPc /\ c \in Maybe(Claim)
      BY <3>0 DEF FinPc, VerifyPc, Over, Maybe
    <3>2. [fin[l] EXCEPT !.pc = pc, !.claim = c] \in FinJob
      BY <3>1 DEF FinJob
    <3>3. UNCHANGED <<cert, thing, rel, uplinks>>
      BY DEF FinAcquire, cloud
    <3> QED
      BY <3>0, <3>2, <3>3
<1>2. CASE FinRegistry(l)
  <2>1. CASE FinGoto(l, "unwind")
    BY <1>0, <1>2, <2>1 DEF FinRegistry, cloud
  <2>2. CASE fin' = [fin EXCEPT ![l] = [@ EXCEPT !.pc = "thing",
                        !.cert = registry.latestCertificateId,
                        !.reserved = (registry.status = "RESERVED")]]
    <3>1. registry.latestCertificateId \in Maybe(Cert)
      BY DEF TypeOK, RegistryRow
    <3>2. (registry.status = "RESERVED") \in BOOLEAN
      OBVIOUS
    <3>3. [fin[l] EXCEPT !.pc = "thing", !.cert = registry.latestCertificateId,
                         !.reserved = (registry.status = "RESERVED")] \in FinJob
      BY <3>1, <3>2, Zenon DEF FinJob, FinPc, VerifyPc
    <3> QED
      BY <1>2, <2>2, <3>3 DEF FinRegistry, cloud
  <2> QED
    BY <1>2, <2>1, <2>2 DEF FinRegistry
<1>3. CASE FinThing(l) \/ FinPrincipals(l) \/ FinCertificate(l) \/ FinTransition(l)
  <2>1. \A pc, next : \A matches \in BOOLEAN :
          FinRead(l, pc, matches, next) /\ next \in FinPc =>
            fin' \in [Lease -> FinJob] /\ UNCHANGED <<cert, thing, rel, uplinks>>
    BY <1>0 DEF FinRead, cloud
  <2> QED
    BY <1>3, <2>1, <1>0 DEF FinThing, FinPrincipals, FinCertificate, FinTransition, VerifyPc
<1>4. CASE \E t \in Reading : FinBind(l, t)
  BY <1>0, <1>4 DEF FinBind, cloud, AuthorizePc
<1>5. CASE FinFail(l) \/ FinUnwind(l) \/ FinCommit(l) \/ FinCrash(l)
  BY <1>0, <1>5 DEF FinFail, FinUnwind, FinCommit, FinCrash, cloud
<1>6. CASE FinPolicies(l)
  <2>0. cert[fin[l].cert].policies \in SUBSET Policy
    BY <1>6 DEF FinPolicies, FinAt, JobsKnown, CertState
  <2> QED
    <3> DEFINE found == cert[fin[l].cert].policies
               pc == IF found # {} THEN "attach" ELSE "done"
    <3>1. fin[l] \in FinJob /\ found \in SUBSET Policy /\ pc \in FinPc
      BY <2>0 DEF FinPc, AuthorizePc, Over
    <3>2. [fin[l] EXCEPT !.seen = found, !.pc = pc] \in FinJob
      <4> HIDE DEF found, pc
      <4> QED
        BY <3>1 DEF FinJob
    <3>3. /\ fin' = [fin EXCEPT ![l] = [@ EXCEPT !.seen = found, !.pc = pc]]
          /\ UNCHANGED <<cert, thing, rel, uplinks>>
      BY <1>6 DEF FinPolicies, cloud
    <3> QED
      BY <3>2, <3>3
<1>7. CASE FinAttach(l) \/ FinDetach(l)
  BY <1>0, <1>7 DEF FinAttach, FinDetach, CertState, Policy, AuthorizePc
<1>8. CASE FinConfirm(l)
  BY <1>0, <1>8 DEF FinConfirm, cloud, AuthorizePc
<1> QED
  BY <1>1, <1>2, <1>3, <1>4, <1>5, <1>6, <1>7, <1>8 DEF FinStep, FinWork

\* Neither does an invocation of releaseDevice write more than its job, the
\* certificate and the Thing.
LEMMA RelType ==
    ASSUME SystemTypeOK, JobsKnown, NEW r \in Release, RelStep(r)
    PROVE  /\ cert' \in [Cert -> CertState] /\ rel' \in [Release -> RelJob]
           /\ thing' \in ThingState /\ UNCHANGED <<fin, uplinks>>
<1> USE DEF SystemTypeOK
<1>0. \A pc \in RelPc : RelGoto(r, pc) => rel' \in [Release -> RelJob]
  BY DEF RelGoto, RelJob
<1>1. CASE RelStart(r)
  <2>1. device.ownerId \in Maybe(Owner) /\ device.certificateId \in Maybe(Cert)
    BY DEF TypeOK, DeviceRow
  <2> QED
    BY <1>1, <2>1 DEF RelStart, cloud, RelJob, RelPc
<1>2. CASE RelPrincipals(r) \/ RelCheck(r) \/ RelRevoke(r) \/ RelCrash(r)
  BY <1>0, <1>2 DEF RelPrincipals, RelCheck, RelRevoke, RelCrash, cloud, RelPc
<1>3. CASE RelPolicies(r)
  <2>1. cert[rel[r].cert].policies \in SUBSET Policy
    BY <1>3 DEF RelPolicies, RelAt, JobsKnown, CertState
  <2> QED
    BY <1>3, <2>1 DEF RelPolicies, cloud, RelJob, RelPc
<1>4. CASE RelDisable(r)
  BY <1>0, <1>4 DEF RelDisable, CertState, CertStatus, RelPc
<1>5. CASE RelDetach(r)
  <2>1. CASE \E p \in rel[r].names :
               /\ cert' = [cert EXCEPT ![rel[r].cert].policies = @ \ {p}]
               /\ rel' = [rel EXCEPT ![r].names = @ \ {p}]
    <3>0. rel[r].cert \in Cert
      BY <1>5 DEF RelDetach, RelAt, JobsKnown
    <3> PICK p \in rel[r].names :
               /\ cert' = [cert EXCEPT ![rel[r].cert].policies = @ \ {p}]
               /\ rel' = [rel EXCEPT ![r].names = @ \ {p}]
      BY <2>1
    <3>1. cert[rel[r].cert] \in CertState /\ rel[r] \in RelJob
      BY <3>0
    <3>2. [cert[rel[r].cert] EXCEPT !.policies = @ \ {p}] \in CertState
      BY <3>1 DEF CertState
    <3>3. [rel[r] EXCEPT !.names = @ \ {p}] \in RelJob
      BY <3>1 DEF RelJob
    <3>4. cert' \in [Cert -> CertState]
      BY <3>0, <3>2
    <3>5. rel' \in [Release -> RelJob]
      BY <3>3
    <3> QED
      BY <1>5, <3>4, <3>5 DEF RelDetach
  <2>2. CASE RelGoto(r, "unbind") /\ UNCHANGED cert
    BY <1>0, <1>5, <2>2 DEF RelDetach, RelPc
  <2> QED
    BY <1>5, <2>1, <2>2 DEF RelDetach
<1>6. CASE RelUnbind(r) \/ RelDelete(r)
  <2>1. thing' \in ThingState
    <3>1. CASE RelUnbind(r)
      BY <3>1 DEF RelUnbind, ThingState
    <3>2. CASE RelDelete(r)
      <4>1. [exists |-> FALSE, owner |-> None, principals |-> {}] \in ThingState
        BY DEF ThingState, Maybe
      <4> QED
        BY <3>2, <4>1 DEF RelDelete
    <3> QED
      BY <1>6, <3>1, <3>2
  <2> QED
    BY <1>0, <1>6, <2>1 DEF RelUnbind, RelDelete, RelPc
<1> QED
  BY <1>1, <1>2, <1>3, <1>4, <1>5, <1>6 DEF RelStep

LEMMA SystemNextType ==
    ASSUME SystemTypeOK, JobsKnown, [SystemNext]_svars
    PROVE  SystemTypeOK'
<1>0. TypeOK'
  BY StepIsTables, NextType DEF SystemTypeOK
<1>1. CASE OneWrite
  BY <1>0, <1>1 DEF OneWrite, cloud, SystemTypeOK
<1>2. CASE \E l \in Lease : FinStep(l)
  BY <1>0, <1>2, FinType DEF SystemTypeOK
<1>3. CASE \E r \in Release : RelStep(r)
  BY <1>0, <1>3, RelType DEF SystemTypeOK
<1>4. CASE \E x \in Cert : FleetStep(x)
  <2> PICK x \in Cert : FleetStep(x)
    BY <1>4
  <2>1. registry.ownerId \in Maybe(Owner) /\ cert[x].owner \in Maybe(Owner)
    BY DEF SystemTypeOK, TypeOK, RegistryRow, CertState
  <2>2. CASE \E c \in Claim, t \in Reading : FleetHook(c, x, t)
    <3> DEFINE row == [cert[x] EXCEPT !.allowed = TRUE, !.owner = registry.ownerId]
    <3>1. cert[x] \in CertState /\ cert \in [Cert -> CertState]
      BY DEF SystemTypeOK
    <3>2. row \in CertState
      BY <2>1, <3>1 DEF CertState
    <3>3. cert' = [cert EXCEPT ![x] = row]
      BY <2>2 DEF FleetHook
    <3>4. cert' \in [Cert -> CertState]
      <4> HIDE DEF row
      <4> QED
        BY <3>1, <3>2, <3>3
    <3> QED
      BY <1>0, <2>2, <3>4 DEF FleetHook, SystemTypeOK
  <2>3. CASE FleetRegister(x)
    <3>1. thing' \in ThingState
      BY <2>1, <2>3 DEF FleetRegister, SystemTypeOK, ThingState
    <3>2. cert' \in [Cert -> CertState]
      <4> DEFINE row == [cert[x] EXCEPT !.status = "ACTIVE", !.allowed = FALSE,
                                        !.policies = cert[x].policies \cup {"bootstrap"}]
      <4>1. cert[x] \in CertState /\ cert \in [Cert -> CertState]
        BY DEF SystemTypeOK
      <4>2. row \in CertState
        BY <4>1 DEF CertState, CertStatus, Policy
      <4>3. cert' = [cert EXCEPT ![x] = row]
        BY <2>3 DEF FleetRegister
      <4> HIDE DEF row
      <4> QED
        BY <4>1, <4>2, <4>3
    <3> QED
      BY <1>0, <2>3, <3>1, <3>2 DEF FleetRegister, SystemTypeOK
  <2>4. CASE DevicePublish(x)
    BY <1>0, <2>1, <2>4 DEF DevicePublish, cloud, SystemTypeOK
  <2> QED
    BY <2>2, <2>3, <2>4 DEF FleetStep
<1>5. CASE \E m \in uplinks : IngestFirstState(m)
  BY <1>0, <1>5 DEF IngestFirstState, cloud, SystemTypeOK
<1>6. CASE UNCHANGED svars
  BY <1>0, <1>6 DEF svars, SystemTypeOK
<1> QED
  BY <1>1, <1>2, <1>3, <1>4, <1>5, <1>6 DEF SystemNext

----------------------------------------------------------------------------
(* What the invocations know.                                              *)

\* A claim keeps its account, a device row has a certificate.
LEMMA RowsKnownStep ==
    ASSUME TypeOK, TablesAgree, JobsKnown, [Next]_tvars
    PROVE  /\ \A c \in Claim : claims'[c].status # "ABSENT" => claims'[c].ownerId \in Owner
           /\ device'.lifecycle # "NONE" => device'.certificateId \in Cert
<1> DEFINE Owned(rows) == \A c \in Claim : rows[c].status # "ABSENT" => rows[c].ownerId \in Owner
           Badged(row) == row.lifecycle # "NONE" => row.certificateId \in Cert
<1>0. Owned(claims) /\ Badged(device) /\ claims \in [Claim -> ClaimRow] /\ device \in DeviceRow
  BY DEF JobsKnown, TypeOK
<1>1. ASSUME NEW c \in Claim, NEW row, claims' = [claims EXCEPT ![c] = row],
             claims[c].status # "ABSENT", row.ownerId = claims[c].ownerId
      PROVE  Owned(claims')
  BY <1>0, <1>1
<1>2. \A row, s : Unleased(row, s).ownerId = row.ownerId
  BY DEF Unleased
<1>3. ASSUME NEW c \in Claim, ClaimStep(c)
      PROVE  Owned(claims') /\ Badged(device')
  <2>1. CASE \E o \in Owner, k \in Code, t \in Reading : CreateClaim(c, o, k, t)
    BY <1>0, <2>1 DEF CreateClaim, NoClaimRow
  <2>2. CASE \/ \E t \in Reading : ExpireClaim(c, t)
             \/ \E l \in Lease : ReleaseLease(c, l)
             \/ \E l \in Lease, x \in Cert : BootstrapResumed(c, l, x)
    BY <1>0, <1>1, <1>2, <2>2 DEF ExpireClaim, ReleaseLease, BootstrapResumed, Resumable
  <2>3. CASE \E l \in Lease, t \in Reading : StartLease(c, l, t) \/ RecoverLease(c, l, t)
    <3> PICK l \in Lease, t \in Reading : StartLease(c, l, t) \/ RecoverLease(c, l, t)
      BY <2>3
    <3>1. claims[c].status # "ABSENT" /\ UNCHANGED device
      BY DEF StartLease, Startable, RecoverLease, Recoverable
    <3>2. CASE StartLease(c, l, t)
      <4> DEFINE row == [claims[c] EXCEPT !.status = "PROVISIONING",
                           !.resume = claims[c].status, !.leaseId = l,
                           !.leaseExpiresAt = t + LeaseTtl]
      <4>1. claims' = [claims EXCEPT ![c] = row]
        BY <3>2 DEF StartLease
      <4>2. row.ownerId = claims[c].ownerId
        BY <1>0 DEF ClaimRow
      <4> QED
        BY <1>0, <1>1, <3>1, <4>1, <4>2
    <3>3. CASE RecoverLease(c, l, t)
      <4> DEFINE row == [claims[c] EXCEPT !.leaseId = l, !.leaseExpiresAt = t + LeaseTtl]
      <4>1. claims' = [claims EXCEPT ![c] = row]
        BY <3>3 DEF RecoverLease
      <4>2. row.ownerId = claims[c].ownerId
        BY <1>0 DEF ClaimRow
      <4> QED
        BY <1>0, <1>1, <3>1, <4>1, <4>2
    <3> QED
      BY <3>2, <3>3
  <2>4. CASE \E n \in Nonce, x \in Cert, t \in Reading : PinCertificate(c, n, x, t)
    BY <1>0, <2>4 DEF PinCertificate
  <2>5. CASE \E l \in Lease, x \in Cert, t \in Reading : BootstrapFresh(c, l, x, t)
    BY <1>0, <1>2, <2>5 DEF BootstrapFresh, BoundClaim, Unleased
  <2>6. CASE \E x \in Cert : AuthorizeRuntimeClaim(c, x)
    BY <1>0, <2>6 DEF AuthorizeRuntimeClaim, Authorizable, DeviceRow
  <2>7. CASE ApplyFirstState(c)
    BY <1>0, <2>7 DEF ApplyFirstState, DeviceRow
  <2>8. CASE SweepClaim(c)
    <3>1. claims[c].status # "ABSENT"
      BY <2>8 DEF SweepClaim, Past, TablesAgree, ClaimShape, NoClaimRow
    <3> QED
      BY <1>0, <2>8, <3>1 DEF SweepClaim, Unleased
  <2> QED
    BY <1>3, <2>1, <2>2, <2>3, <2>4, <2>5, <2>6, <2>7, <2>8 DEF ClaimStep
<1>4. CASE \/ \E o \in Owner, k \in Code, t \in Reading : MarkReissueRequired(o, k, t)
           \/ SweepLock \/ (\E k \in Code : Reissue(k)) \/ Tick \/ UNCHANGED tvars
  BY <1>0, <1>4 DEF MarkReissueRequired, SweepLock, Reissue, Tick, tables, tvars
<1>5. CASE \E o \in Owner, x \in Cert : RevokeDevice(o, x)
  <2>1. lock.claimId \in Claim /\ claims[lock.claimId].status # "ABSENT"
    BY <1>5 DEF RevokeDevice, Revocable, TypeOK, LockRow, Maybe
  <2> QED
    BY <1>0, <1>5, <2>1 DEF RevokeDevice, Revocable, DeviceRow
<1> QED
  BY <1>3, <1>4, <1>5 DEF Next

LEMMA JobsKnownStep ==
    ASSUME SystemTypeOK, TablesAgree, JobsKnown, [SystemNext]_svars
    PROVE  JobsKnown'
<1>0. TypeOK /\ fin \in [Lease -> FinJob] /\ rel \in [Release -> RelJob]
  BY DEF SystemTypeOK
<1>1. /\ \A c \in Claim : claims'[c].status # "ABSENT" => claims'[c].ownerId \in Owner
      /\ device'.lifecycle # "NONE" => device'.certificateId \in Cert
  BY <1>0, StepIsTables, RowsKnownStep
<1> DEFINE FinKnown(jobs) == \A l \in Lease :
             /\ jobs[l].pc \notin {"new", "done", "left"} => jobs[l].claim \in Claim
             /\ jobs[l].pc \notin {"new", "done", "left", "registry", "unwind"} => jobs[l].cert \in Cert
           RelKnown(jobs) == \A r \in Release :
             jobs[r].pc # "new" => jobs[r].cert \in Cert /\ jobs[r].owner \in Owner
<1>2. FinKnown(fin) /\ RelKnown(rel)
  BY DEF JobsKnown
<1>3. ASSUME NEW l \in Lease, FinStep(l)
      PROVE  FinKnown(fin')
  <2>1. CASE \E c \in Claim, t \in Reading : FinAcquire(l, c, t)
    BY <1>0, <1>2, <2>1 DEF FinAcquire, FinJob
  <2>2. CASE FinRegistry(l)
    <3>1. CASE FinGoto(l, "unwind")
      BY <1>0, <1>2, <2>2, <3>1 DEF FinRegistry, FinGoto, FinAt, FinJob
    <3>2. CASE ~FinGoto(l, "unwind")
      <4>1. /\ registry.latestCertificateId \in Cert
            /\ fin' = [fin EXCEPT ![l] = [@ EXCEPT !.pc = "thing",
                           !.cert = registry.latestCertificateId,
                           !.reserved = (registry.status = "RESERVED")]]
        BY <1>0, <2>2, <3>2 DEF FinRegistry, TypeOK, RegistryRow, Maybe
      <4>2. /\ \A m \in Lease \ {l} : fin'[m] = fin[m]
            /\ fin'[l].pc = "thing" /\ fin'[l].cert = registry.latestCertificateId
            /\ fin'[l].claim = fin[l].claim
        BY <1>0, <4>1, Zenon DEF FinJob
      <4>3. fin[l].claim \in Claim
        BY <1>2, <2>2 DEF FinRegistry, FinAt
      <4> QED
        BY <1>2, <4>1, <4>2, <4>3
    <3> QED
      BY <3>1, <3>2
  <2>3. CASE FinThing(l) \/ FinPrincipals(l) \/ FinCertificate(l) \/ FinTransition(l)
    BY <1>0, <1>2, <2>3 DEF FinThing, FinPrincipals, FinCertificate, FinTransition, FinRead,
                            FinGoto, FinAt, FinJob
  <2>4. CASE (\E t \in Reading : FinBind(l, t)) \/ FinFail(l)
    BY <1>0, <1>2, <2>4 DEF FinBind, FinFail, FinGoto, FinAt, FinJob, VerifyPc
  <2>5. CASE FinUnwind(l) \/ FinCommit(l) \/ FinCrash(l)
    BY <1>0, <1>2, <2>5 DEF FinUnwind, FinCommit, FinCrash, FinGoto, FinJob, Over
  <2>6. CASE FinPolicies(l)
    BY <1>0, <1>2, <2>6 DEF FinPolicies, FinAt, FinJob
  <2>7. CASE FinAttach(l) \/ FinDetach(l) \/ FinConfirm(l)
    BY <1>0, <1>2, <2>7 DEF FinAttach, FinDetach, FinConfirm, FinGoto, FinAt, FinJob
  <2> QED
    BY <1>3, <2>1, <2>2, <2>3, <2>4, <2>5, <2>6, <2>7 DEF FinStep, FinWork
<1>4. ASSUME NEW r \in Release, RelStep(r)
      PROVE  RelKnown(rel')
  <2>1. CASE RelStart(r)
    <3>1. device.certificateId \in Cert /\ device.ownerId \in Owner
      BY <1>0, <2>1, BoundIsKnown DEF RelStart, Bound
    <3> QED
      BY <1>0, <1>2, <2>1, <3>1 DEF RelStart, RelJob
  <2>2. CASE RelDetach(r) \/ RelPolicies(r)
    <3>1. rel[r].pc # "new" /\ rel[r] \in RelJob
      BY <1>0, <2>2 DEF RelDetach, RelPolicies, RelAt
    <3>2. rel'[r].cert = rel[r].cert /\ rel'[r].owner = rel[r].owner
      <4>1. CASE RelPolicies(r)
        BY <1>0, <4>1 DEF RelPolicies, RelJob
      <4>2. CASE RelDetach(r) /\ RelGoto(r, "unbind")
        BY <1>0, <4>2 DEF RelGoto, RelJob
      <4>3. CASE \E p \in rel[r].names : rel' = [rel EXCEPT ![r].names = @ \ {p}]
        BY <1>0, <4>3 DEF RelJob
      <4> QED
        BY <2>2, <4>1, <4>2, <4>3 DEF RelDetach
    <3>3. \A q \in Release \ {r} : rel'[q] = rel[q]
      BY <1>0, <2>2 DEF RelDetach, RelPolicies, RelGoto
    <3> QED
      BY <1>2, <3>1, <3>2, <3>3
  <2>3. CASE \/ RelPrincipals(r) \/ RelDisable(r) \/ RelUnbind(r)
             \/ RelCheck(r) \/ RelDelete(r) \/ RelRevoke(r) \/ RelCrash(r)
    BY <1>0, <1>2, <2>3 DEF RelPrincipals, RelDisable, RelUnbind, RelCheck, RelDelete,
                            RelRevoke, RelCrash, RelGoto, RelAt, RelJob
  <2> QED
    BY <1>4, <2>1, <2>2, <2>3 DEF RelStep
<1>5. FinKnown(fin')
  <2>1. CASE ~\E l \in Lease : FinStep(l)
    <3>1. UNCHANGED fin
      BY <2>1, RelType DEF SystemNext, OneWrite, FleetStep, FleetHook, FleetRegister,
                       DevicePublish, IngestFirstState, svars
    <3> QED
      BY <1>2, <3>1
  <2> QED
    BY <1>3, <2>1
<1>6. RelKnown(rel')
  <2>1. CASE ~\E r \in Release : RelStep(r)
    <3>1. UNCHANGED rel
      BY <2>1, FinType DEF SystemNext, OneWrite, FleetStep, FleetHook, FleetRegister,
                       DevicePublish, IngestFirstState, svars
    <3> QED
      BY <1>2, <3>1
  <2> QED
    BY <1>4, <2>1
<1> QED
  BY <1>1, <1>5, <1>6 DEF JobsKnown

----------------------------------------------------------------------------
(* Arming and disarming.                                                   *)

RelDisarmed == {"detach", "unbind", "check", "delete", "revoke"}
RelOff == {"check", "delete", "revoke"}

\* A step keeps the three safety conditions if it leaves the binding alone, no
\* disabled certificate comes back, nothing becomes usable but what the device
\* wears, and whoever enters a later stage finds it as Armed describes it.
LEMMA QuietStep ==
    ASSUME SystemTypeOK, JobsKnown, Armed, RuntimeOnlyForBound, ReleasedIsDisarmed,
           device'.certificateId = device.certificateId,
           Bound' <=> Bound,
           device'.lifecycle = "REVOKED" <=> device.lifecycle = "REVOKED",
           \A x \in Cert : Disabled(x) =>
               /\ cert'[x].status = "INACTIVE"
               /\ x \notin thing.principals => x \notin thing'.principals,
           \A x \in Cert : "runtime" \in cert'[x].policies =>
               "runtime" \in cert[x].policies \/ Worn(x) \/ Disabled(x),
           \A l \in Lease : fin'[l].pc \in AuthorizePc =>
               \/ fin[l].pc \in AuthorizePc /\ fin'[l].cert = fin[l].cert
               \/ Worn(fin'[l].cert),
           \A r \in Release : rel'[r].pc \in RelDisarmed =>
               \/ rel[r].pc \in RelDisarmed /\ rel'[r].cert = rel[r].cert
               \/ cert'[rel'[r].cert].status = "INACTIVE",
           \A r \in Release : rel'[r].pc \in RelOff =>
               \/ rel[r].pc \in RelOff /\ rel'[r].cert = rel[r].cert
               \/ rel'[r].cert \notin thing'.principals
    PROVE  Armed' /\ RuntimeOnlyForBound' /\ ReleasedIsDisarmed'
<1>1. \A x : Worn(x) => Bound' /\ device'.certificateId = x
  BY DEF Worn
<1>2. \A l \in Lease : fin'[l].pc \in AuthorizePc =>
        \/ Bound' /\ device'.certificateId = fin'[l].cert
        \/ cert'[fin'[l].cert].status = "INACTIVE"
  <2> TAKE l \in Lease
  <2>1. fin[l].pc \in AuthorizePc =>
          fin[l].cert \in Cert /\ (Worn(fin[l].cert) \/ Disabled(fin[l].cert))
    BY DEF JobsKnown, Armed, AuthorizePc
  <2> QED
    BY <1>1, <2>1
<1>3. \A r \in Release : rel'[r].pc \in RelDisarmed => cert'[rel'[r].cert].status = "INACTIVE"
  <2> TAKE r \in Release
  <2>1. rel[r].pc \in RelDisarmed => rel[r].cert \in Cert /\ Disabled(rel[r].cert)
    BY DEF JobsKnown, Armed, RelDisarmed
  <2> QED
    BY <2>1
<1>4. \A r \in Release : rel'[r].pc \in RelOff => rel'[r].cert \notin thing'.principals
  <2> TAKE r \in Release
  <2>1. rel[r].pc \in RelOff =>
          /\ rel[r].cert \in Cert /\ Disabled(rel[r].cert)
          /\ rel[r].cert \notin thing.principals
    BY DEF JobsKnown, Armed, RelOff
  <2> QED
    BY <2>1
<1>4a. \A x \in Cert : "runtime" \in cert'[x].policies => (Worn(x) \/ Disabled(x))'
  BY <1>1 DEF Armed, Worn, Disabled
<1>5. Armed'
  BY <1>2, <1>3, <1>4, <1>4a DEF Armed, Worn, Disabled, RelDisarmed, RelOff
<1>6. RuntimeOnlyForBound'
  BY <1>4a DEF RuntimeOnlyForBound, Usable, Worn, Disabled
<1>7. ReleasedIsDisarmed'
  <2>1. device.lifecycle = "REVOKED" => device.certificateId \in Cert
    BY DEF JobsKnown
  <2> QED
    BY <2>1 DEF ReleasedIsDisarmed, Disabled
<1> QED
  BY <1>5, <1>6, <1>7

\* finalizeClaim: nothing is armed that the device does not wear.
LEMMA FinArmed ==
    ASSUME SystemTypeOK, TablesAgree, JobsKnown, Armed, RuntimeOnlyForBound,
           ReleasedIsDisarmed, NEW l \in Lease, FinStep(l)
    PROVE  Armed' /\ RuntimeOnlyForBound' /\ ReleasedIsDisarmed'
<1>0. /\ fin \in [Lease -> FinJob] /\ cert \in [Cert -> CertState]
      /\ UNCHANGED <<thing, rel>>
  BY FinType DEF SystemTypeOK
<1>1. CASE \/ \E c \in Claim, t \in Reading : FinAcquire(l, c, t)
           \/ FinRegistry(l) \/ FinThing(l) \/ FinPrincipals(l) \/ FinCertificate(l)
           \/ FinTransition(l) \/ FinFail(l) \/ FinUnwind(l) \/ FinPolicies(l)
           \/ FinConfirm(l) \/ FinCrash(l)
  <2>1. UNCHANGED <<device, cert>>
    BY <1>1 DEF FinAcquire, StartLease, RecoverLease, FinRegistry, FinThing, FinPrincipals,
                FinCertificate, FinTransition, FinRead, FinFail, FinUnwind, ReleaseLease,
                FinPolicies, FinConfirm, FinCrash, cloud, tvars
  <2>2. \A m \in Lease : fin'[m].pc \in AuthorizePc =>
          fin[m].pc \in AuthorizePc /\ fin'[m].cert = fin[m].cert
    <3>1. \A m \in Lease \ {l} : fin'[m] = fin[m]
      BY <1>0, <1>1 DEF FinAcquire, FinRegistry, FinThing, FinPrincipals, FinCertificate,
                  FinTransition, FinRead, FinFail, FinUnwind, FinPolicies, FinConfirm,
                  FinCrash, FinGoto
    <3>2. CASE \E c \in Claim, t \in Reading : FinAcquire(l, c, t)
      <4>1. fin'[l].pc \in {"registry", "left"}
        BY <1>0, <3>2 DEF FinAcquire, FinJob
      <4> QED
        BY <3>1, <4>1 DEF AuthorizePc
    <3>3. CASE FinRegistry(l)
      <4>1. fin'[l].pc \in {"thing", "unwind"}
        <5>1. \/ fin' = [fin EXCEPT ![l].pc = "unwind"]
              \/ fin' = [fin EXCEPT ![l] = [@ EXCEPT !.pc = "thing",
                           !.cert = registry.latestCertificateId,
                           !.reserved = (registry.status = "RESERVED")]]
          BY <3>3, Zenon DEF FinRegistry, FinGoto
        <5>2. l \in DOMAIN fin /\ fin[l] \in FinJob
          BY <1>0
        <5>3. ASSUME NEW job, fin' = [fin EXCEPT ![l] = job]
              PROVE  fin'[l] = job
          BY <5>2, <5>3
        <5>4. "pc" \in DOMAIN fin[l]
          BY <5>2 DEF FinJob
        <5> QED
          BY <5>1, <5>3, <5>4, Zenon
      <4> QED
        BY <3>1, <4>1 DEF AuthorizePc
    <3>4. CASE \/ FinThing(l) \/ FinPrincipals(l) \/ FinCertificate(l) \/ FinTransition(l)
               \/ FinFail(l) \/ FinUnwind(l) \/ FinCrash(l)
      <4>1. fin'[l].pc \in VerifyPc \cup {"unwind", "done", "left"}
        BY <1>0, <3>4 DEF FinThing, FinPrincipals, FinCertificate, FinTransition, FinRead,
                          FinFail, FinUnwind, FinCrash, FinGoto, FinJob, VerifyPc
      <4> QED
        BY <3>1, <4>1 DEF AuthorizePc, VerifyPc
    <3>5. CASE FinPolicies(l) \/ FinConfirm(l)
      <4>1. fin[l].pc \in AuthorizePc /\ fin'[l].cert = fin[l].cert
        <5>1. CASE FinPolicies(l)
          BY <1>0, <5>1 DEF FinPolicies, FinAt, FinJob, AuthorizePc
        <5>2. CASE FinConfirm(l)
          BY <1>0, <5>2 DEF FinConfirm, FinGoto, FinAt, FinJob, AuthorizePc
        <5> QED
          BY <3>5, <5>1, <5>2
      <4> QED
        BY <3>1, <4>1
    <3> QED
      BY <1>1, <3>2, <3>3, <3>4, <3>5
  <2> QED
    BY <1>0, <2>1, <2>2, QuietStep DEF Bound, Disabled, Usable
<1>2. CASE \E t \in Reading : FinBind(l, t)
  <2> PICK t \in Reading : FinBind(l, t)
    BY <1>2
  <2> DEFINE c == fin[l].claim
             x == fin[l].cert
  <2>0. c \in Claim /\ x \in Cert
    BY DEF FinBind, FinAt, JobsKnown
  <2>1. /\ UNCHANGED cert
        /\ fin'[l].cert = x
        /\ \A m \in Lease \ {l} : fin'[m] = fin[m]
    BY <1>0 DEF FinBind, FinGoto, FinJob, cloud
  <2>2. CASE BootstrapResumed(c, l, x)
    <3>1. UNCHANGED device /\ Worn(x)
      BY <2>2 DEF BootstrapResumed, Resumable, Worn, Bound
    <3> QED
      BY <1>0, <2>1, <3>1, QuietStep DEF Bound, Disabled, Usable
  <2>3. CASE BootstrapFresh(c, l, x, t)
    <3>1. /\ ~Bound
          /\ device'.lifecycle = "BOOTSTRAPPED" /\ device'.certificateId = x
      BY <2>3 DEF BootstrapFresh, BoundClaim, Bound
    <3>2. \A m \in Lease : fin'[m].pc \in AuthorizePc =>
            device'.certificateId = fin'[m].cert \/ cert'[fin'[m].cert].status = "INACTIVE"
      BY <2>1, <3>1 DEF Armed, Worn, Disabled
    <3>2a. \A y \in Cert : "runtime" \in cert'[y].policies => cert'[y].status = "INACTIVE"
      BY <2>1, <3>1 DEF Armed, Worn, Disabled
    <3>2b. Bound'
      BY <3>1 DEF Bound
    <3>3. Armed'
      BY <1>0, <2>1, <3>1, <3>2, <3>2a, <3>2b DEF Armed, Worn, Disabled
    <3>4. RuntimeOnlyForBound'
      BY <2>1, <3>1 DEF RuntimeOnlyForBound, Usable
    <3>5. ReleasedIsDisarmed'
      BY <3>1 DEF ReleasedIsDisarmed
    <3> QED
      BY <3>3, <3>4, <3>5
  <2> QED
    BY <2>2, <2>3 DEF FinBind, Bindable
<1>3. CASE FinAttach(l) \/ FinDetach(l)
  <2> DEFINE x == fin[l].cert
  <2>0. fin[l].pc \in AuthorizePc /\ x \in Cert
    BY <1>3 DEF FinAttach, FinDetach, FinAt, AuthorizePc, JobsKnown
  <2>1. /\ UNCHANGED device
        /\ \A y \in Cert : cert'[y].status = cert[y].status
        /\ \A y \in Cert \ {x} : cert'[y] = cert[y]
    BY <1>0, <1>3 DEF FinAttach, FinDetach, tvars, CertState
  <2>2. \A m \in Lease : fin'[m].pc \in AuthorizePc =>
          fin[m].pc \in AuthorizePc /\ fin'[m].cert = fin[m].cert
    BY <1>0, <1>3, <2>0 DEF FinAttach, FinDetach, FinGoto, FinJob
  <2>3. Worn(x) \/ Disabled(x)
    BY <2>0 DEF Armed
  <2>4. \A y \in Cert : "runtime" \in cert'[y].policies =>
          "runtime" \in cert[y].policies \/ Worn(y) \/ Disabled(y)
    BY <2>1, <2>3
  <2> QED
    BY <1>0, <2>1, <2>2, <2>4, QuietStep DEF Bound, Disabled
<1>4. CASE FinCommit(l)
  <2>1. /\ UNCHANGED cert
        /\ device'.certificateId = device.certificateId
        /\ Bound' <=> Bound
        /\ device'.lifecycle = "REVOKED" <=> device.lifecycle = "REVOKED"
    BY <1>0, <1>4 DEF FinCommit, AuthorizeRuntimeClaim, Authorizable, cloud, tvars, Bound,
                      SystemTypeOK, TypeOK, DeviceRow
  <2>2. \A m \in Lease : fin'[m].pc \in AuthorizePc =>
          fin[m].pc \in AuthorizePc /\ fin'[m].cert = fin[m].cert
    BY <1>0, <1>4 DEF FinCommit, FinGoto, FinJob, AuthorizePc
  <2> QED
    BY <1>0, <2>1, <2>2, QuietStep DEF Disabled, Usable
<1> QED
  BY <1>1, <1>2, <1>3, <1>4 DEF FinStep, FinWork

\* releaseDevice: the rows are revoked after the certificate is off.
LEMMA RelArmed ==
    ASSUME SystemTypeOK, TablesAgree, JobsKnown, Armed, RuntimeOnlyForBound,
           ReleasedIsDisarmed, NEW r \in Release, RelStep(r)
    PROVE  Armed' /\ RuntimeOnlyForBound' /\ ReleasedIsDisarmed'
<1> DEFINE x == rel[r].cert
<1>0. /\ rel \in [Release -> RelJob] /\ cert \in [Cert -> CertState]
      /\ thing \in ThingState /\ UNCHANGED fin
  BY RelType DEF SystemTypeOK
<1>1. CASE RelStart(r) \/ RelPrincipals(r) \/ RelPolicies(r) \/ RelCheck(r) \/ RelCrash(r)
  <2>1. UNCHANGED <<device, cert, thing>>
    BY <1>1 DEF RelStart, RelPrincipals, RelPolicies, RelCheck, RelCrash, cloud, tvars
  <2>2. \A q \in Release :
          /\ rel'[q].pc \in RelDisarmed => rel[q].pc \in RelDisarmed /\ rel'[q].cert = rel[q].cert
          /\ rel'[q].pc \in RelOff => rel[q].pc \in RelOff /\ rel'[q].cert = rel[q].cert
    <3>1. \A q \in Release \ {r} : rel'[q] = rel[q]
      BY <1>0, <1>1 DEF RelStart, RelPrincipals, RelPolicies, RelCheck, RelCrash, RelGoto
    <3>2. CASE RelStart(r) \/ RelPrincipals(r) \/ RelPolicies(r) \/ RelCrash(r)
      <4>1. rel'[r].pc \notin RelDisarmed
        <5>1. CASE RelStart(r) \/ RelPolicies(r)
          BY <1>0, <5>1 DEF RelStart, RelPolicies, RelJob, RelDisarmed
        <5>2. CASE RelPrincipals(r) \/ RelCrash(r)
          BY <1>0, <5>2 DEF RelPrincipals, RelCrash, RelGoto, RelJob, RelDisarmed
        <5> QED
          BY <3>2, <5>1, <5>2
      <4> QED
        BY <3>1, <4>1 DEF RelDisarmed, RelOff
    <3>3. CASE RelCheck(r)
      <4>1. rel[r].pc = "check" /\ rel'[r].cert = rel[r].cert
        BY <1>0, <3>3 DEF RelCheck, RelGoto, RelAt, RelJob
      <4> QED
        BY <3>1, <4>1 DEF RelDisarmed, RelOff
    <3> QED
      BY <1>1, <3>2, <3>3
  <2> QED
    BY <1>0, <2>1, <2>2, QuietStep DEF Bound, Disabled, Usable
<1>2. CASE RelDisable(r)
  <2>0. x \in Cert
    BY <1>2 DEF RelDisable, RelAt, JobsKnown
  <2>1. /\ UNCHANGED <<device, thing>>
        /\ cert'[x].status = "INACTIVE"
        /\ \A y \in Cert \ {x} : cert'[y] = cert[y]
    BY <1>0, <1>2, <2>0 DEF RelDisable, tvars, CertState
  <2>2. /\ rel'[r].cert = x /\ rel'[r].pc = "detach"
        /\ \A q \in Release \ {r} : rel'[q] = rel[q]
    BY <1>0, <1>2 DEF RelDisable, RelGoto, RelJob
  <2>3. \A q \in Release : rel'[q].pc \in RelDisarmed =>
          \/ rel[q].pc \in RelDisarmed /\ rel'[q].cert = rel[q].cert
          \/ cert'[rel'[q].cert].status = "INACTIVE"
    BY <2>1, <2>2
  <2>4. \A q \in Release : rel'[q].pc \in RelOff =>
          rel[q].pc \in RelOff /\ rel'[q].cert = rel[q].cert
    BY <2>2 DEF RelOff
  <2>5. \A y \in Cert : "runtime" \in cert'[y].policies => "runtime" \in cert[y].policies
    BY <1>0, <1>2, <2>0 DEF RelDisable, CertState
  <2> QED
    BY <1>0, <2>1, <2>3, <2>4, <2>5, QuietStep DEF Bound, Disabled
<1>3. CASE RelDetach(r)
  <2>0. x \in Cert /\ rel[r].pc = "detach"
    BY <1>3 DEF RelDetach, RelAt, JobsKnown
  <2>1. /\ UNCHANGED <<device, thing>>
        /\ \A y \in Cert : /\ cert'[y].status = cert[y].status
                           /\ cert'[y].policies \subseteq cert[y].policies
    <3>1. CASE UNCHANGED cert
      BY <1>3, <3>1 DEF RelDetach, tvars
    <3>2. CASE \E p \in rel[r].names : cert' = [cert EXCEPT ![x].policies = @ \ {p}]
      <4> PICK p \in rel[r].names : cert' = [cert EXCEPT ![x].policies = @ \ {p}]
        BY <3>2
      <4>1. /\ \A y \in Cert \ {x} : cert'[y] = cert[y]
            /\ cert'[x].status = cert[x].status
            /\ cert'[x].policies = cert[x].policies \ {p}
        BY <1>0, <2>0 DEF CertState
      <4> QED
        BY <1>3, <4>1 DEF RelDetach, tvars
    <3> QED
      BY <1>3, <3>1, <3>2 DEF RelDetach
  <2>2. /\ rel'[r].cert = x /\ rel'[r].pc \in {"detach", "unbind"}
        /\ \A q \in Release \ {r} : rel'[q] = rel[q]
    <3>1. rel[r] \in RelJob /\ r \in DOMAIN rel
      BY <1>0
    <3>2. CASE RelGoto(r, "unbind")
      BY <1>0, <3>1, <3>2 DEF RelGoto, RelJob
    <3>3. CASE \E p \in rel[r].names : rel' = [rel EXCEPT ![r].names = @ \ {p}]
      BY <1>0, <2>0, <3>1, <3>3 DEF RelJob
    <3> QED
      BY <1>3, <3>2, <3>3 DEF RelDetach
  <2>3. \A q \in Release :
          /\ rel'[q].pc \in RelDisarmed => rel[q].pc \in RelDisarmed /\ rel'[q].cert = rel[q].cert
          /\ rel'[q].pc \in RelOff => rel[q].pc \in RelOff /\ rel'[q].cert = rel[q].cert
    BY <2>0, <2>2 DEF RelDisarmed, RelOff
  <2>4. \A y \in Cert : "runtime" \in cert'[y].policies => "runtime" \in cert[y].policies
    BY <2>1
  <2> QED
    BY <1>0, <2>1, <2>3, <2>4, QuietStep DEF Bound, Disabled
<1>4. CASE RelUnbind(r) \/ RelDelete(r)
  <2>1. UNCHANGED <<device, cert>> /\ thing'.principals \subseteq thing.principals
    BY <1>0, <1>4 DEF RelUnbind, RelDelete, tvars, ThingState
  <2>2. /\ rel'[r].cert = x /\ \A q \in Release \ {r} : rel'[q] = rel[q]
        /\ rel[r].pc \in RelDisarmed
    BY <1>0, <1>4 DEF RelUnbind, RelDelete, RelGoto, RelAt, RelJob, RelDisarmed
  <2>3. rel[r].pc \in RelOff \/ x \notin thing'.principals
    BY <1>0, <1>4 DEF RelUnbind, RelDelete, RelAt, RelOff, ThingState
  <2>4. \A q \in Release :
          /\ rel'[q].pc \in RelDisarmed => rel[q].pc \in RelDisarmed /\ rel'[q].cert = rel[q].cert
          /\ rel'[q].pc \in RelOff =>
               \/ rel[q].pc \in RelOff /\ rel'[q].cert = rel[q].cert
               \/ rel'[q].cert \notin thing'.principals
    BY <2>2, <2>3
  <2> QED
    BY <1>0, <2>1, <2>4, QuietStep DEF Bound, Disabled, Usable
<1>5. CASE RelRevoke(r)
  <2>0. /\ x \in Cert /\ Disabled(x) /\ x \notin thing.principals
        /\ UNCHANGED <<cert, thing>>
    BY <1>5 DEF RelRevoke, RelAt, JobsKnown, Armed, cloud
  <2>1. \A q \in Release :
          /\ rel'[q].pc \in RelDisarmed => rel[q].pc \in RelDisarmed /\ rel'[q].cert = rel[q].cert
          /\ rel'[q].pc \in RelOff => rel[q].pc \in RelOff /\ rel'[q].cert = rel[q].cert
    BY <1>0, <1>5 DEF RelRevoke, RelGoto, RelJob, RelDisarmed, RelOff
  <2>2. CASE UNCHANGED tvars
    BY <1>0, <2>0, <2>1, <2>2, QuietStep DEF Bound, Disabled, Usable, tvars
  <2>3. CASE RevokeDevice(rel[r].owner, x)
    <3>1. /\ device.certificateId = x /\ device'.certificateId = x
          /\ device'.lifecycle = "REVOKED"
      BY <2>3 DEF RevokeDevice, Revocable, SystemTypeOK, TypeOK, DeviceRow
    <3>2. \A l \in Lease : fin[l].pc \in AuthorizePc => Disabled(fin[l].cert)
      BY <2>0, <3>1 DEF Armed, Worn
    <3>3. \A q \in Release : rel[q].pc \in RelDisarmed => Disabled(rel[q].cert)
      BY DEF Armed, RelDisarmed
    <3>4. \A q \in Release : rel[q].pc \in RelOff => rel[q].cert \notin thing.principals
      BY DEF Armed, RelOff
    <3>4a. \A y \in Cert : "runtime" \in cert[y].policies => Disabled(y)
      BY <2>0, <3>1 DEF Armed, Worn
    <3>5. Armed'
      BY <1>0, <2>0, <2>1, <3>2, <3>3, <3>4, <3>4a DEF Armed, Disabled, RelDisarmed, RelOff
    <3>6. \A y \in Cert : ~Usable(y)
      BY <2>0, <3>1 DEF RuntimeOnlyForBound, Usable, Disabled
    <3>7. RuntimeOnlyForBound'
      BY <2>0, <3>6 DEF RuntimeOnlyForBound, Usable
    <3>8. ReleasedIsDisarmed'
      BY <2>0, <3>1 DEF ReleasedIsDisarmed, Disabled
    <3> QED
      BY <3>5, <3>7, <3>8
  <2> QED
    BY <1>5, <2>2, <2>3 DEF RelRevoke
<1> QED
  BY <1>1, <1>2, <1>3, <1>4, <1>5 DEF RelStep

\* Fleet provisioning hands out certificates that cannot use the runtime yet.
LEMMA FleetArmed ==
    ASSUME SystemTypeOK, TablesAgree, JobsKnown, Armed, RuntimeOnlyForBound,
           ReleasedIsDisarmed, NEW x \in Cert, FleetStep(x)
    PROVE  Armed' /\ RuntimeOnlyForBound' /\ ReleasedIsDisarmed'
<1>0. /\ cert \in [Cert -> CertState] /\ thing \in ThingState
      /\ UNCHANGED <<device, fin, rel>>
  BY DEF SystemTypeOK, FleetStep, FleetHook, PinCertificate, FleetRegister, DevicePublish,
         tvars
<1>1. CASE \E c \in Claim, t \in Reading : FleetHook(c, x, t)
  <2>1. /\ UNCHANGED thing
        /\ cert'[x].status = cert[x].status /\ cert'[x].policies = cert[x].policies
        /\ \A y \in Cert \ {x} : cert'[y] = cert[y]
    BY <1>0, <1>1 DEF FleetHook, CertState
  <2>2. /\ \A y \in Cert : Disabled(y) => cert'[y].status = "INACTIVE"
        /\ \A y \in Cert : cert'[y].policies = cert[y].policies
    BY <2>1 DEF Disabled
  <2> QED
    BY <1>0, <2>1, <2>2, QuietStep DEF Bound
<1>2. CASE FleetRegister(x)
  <2>1. /\ ~Disabled(x)
        /\ cert'[x].policies = cert[x].policies \cup {"bootstrap"}
        /\ thing'.principals = thing.principals \cup {x}
        /\ \A y \in Cert \ {x} : cert'[y] = cert[y]
    BY <1>0, <1>2 DEF FleetRegister, CertState, Disabled
  <2>2. /\ \A y \in Cert : Disabled(y) =>
             /\ cert'[y].status = "INACTIVE"
             /\ y \notin thing.principals => y \notin thing'.principals
        /\ \A y \in Cert : "runtime" \in cert'[y].policies => "runtime" \in cert[y].policies
    BY <2>1 DEF Disabled
  <2> QED
    BY <1>0, <2>2, QuietStep DEF Bound
<1>3. CASE DevicePublish(x)
  <2>1. UNCHANGED <<cert, thing>>
    BY <1>3 DEF DevicePublish, cloud
  <2> QED
    BY <1>0, <2>1, QuietStep DEF Bound, Disabled, Usable
<1> QED
  BY <1>1, <1>2, <1>3 DEF FleetStep

LEMMA SystemInvStep == SystemInv /\ [SystemNext]_svars => SystemInv'
<1> SUFFICES ASSUME SystemInv, [SystemNext]_svars PROVE SystemInv'
  OBVIOUS
<1> USE DEF SystemInv
<1>1. SystemTypeOK' /\ JobsKnown'
  BY SystemNextType, JobsKnownStep
<1>2. TablesAgree'
  BY StepIsTables, NextAgrees DEF SystemTypeOK
<1>3. Armed' /\ RuntimeOnlyForBound' /\ ReleasedIsDisarmed'
  <2>1. CASE OneWrite \/ UNCHANGED svars
    <3>1. UNCHANGED <<device, cert, thing, fin, rel>>
      BY <2>1 DEF OneWrite, CreateClaim, MarkReissueRequired, ExpireClaim, SweepClaim,
                  SweepLock, Reissue, Tick, tables, cloud, svars
    <3> QED
      BY <3>1, QuietStep DEF Bound, Disabled, Usable
  <2>2. CASE \E m \in uplinks : IngestFirstState(m)
    <3>1. /\ UNCHANGED <<cert, thing, fin, rel>>
          /\ device'.certificateId = device.certificateId
          /\ Bound' <=> Bound
          /\ device'.lifecycle = "REVOKED" <=> device.lifecycle = "REVOKED"
      BY <2>2 DEF IngestFirstState, ApplyFirstState, cloud, Bound, SystemTypeOK, TypeOK,
                  DeviceRow
    <3> QED
      BY <3>1, QuietStep DEF Disabled, Usable
  <2> QED
    BY <2>1, <2>2, FinArmed, RelArmed, FleetArmed DEF SystemNext
<1> QED
  BY <1>1, <1>2, <1>3

LEMMA SystemInitInv == SystemInit => SystemInv
<1> SUFFICES ASSUME SystemInit PROVE SystemInv
  OBVIOUS
<1>1. SystemTypeOK
  BY SystemInitType
<1>2. TablesAgree
  BY InitAgrees DEF SystemInit
<1>3. JobsKnown /\ Armed
  BY DEF SystemInit, Init, JobsKnown, Armed, NewFinJob, NoClaimRow, NoDeviceRow, AuthorizePc
<1>4. RuntimeOnlyForBound /\ ReleasedIsDisarmed
  BY DEF SystemInit, Init, NoDeviceRow, RuntimeOnlyForBound, ReleasedIsDisarmed, Usable
<1> QED
  BY <1>1, <1>2, <1>3, <1>4 DEF SystemInv

----------------------------------------------------------------------------
LEMMA SystemInvariant == System => []SystemInv
BY SystemInitInv, SystemInvStep, PTL DEF System

\* The types of the composed system.
THEOREM SystemTypeCorrect == System => []SystemTypeOK
BY SystemInvariant, PTL DEF SystemInv

\* A certificate with the runtime policy is the bound device's, however the
\* invocations of finalizeClaim and releaseDevice overlap or die.
THEOREM RuntimeOnlyForBoundAlways == System => []RuntimeOnlyForBound
BY SystemInvariant, PTL DEF SystemInv

\* A device row is REVOKED only with its certificate disabled and detached.
THEOREM ReleasedIsDisarmedAlways == System => []ReleasedIsDisarmed
BY SystemInvariant, PTL DEF SystemInv

\* Whatever the callers do is a behaviour of OwnershipTables, so its theorems
\* hold of the system, and the system keeps the promise of UnitOwnership.
THEOREM SystemImplementsTables == System => Spec
<1>1. SystemInit => Init
  BY DEF SystemInit
<1>2. SystemInv /\ [SystemNext]_svars => [Next]_tvars
  BY StepIsTables DEF SystemInv, SystemTypeOK
<1> QED
  BY <1>1, <1>2, SystemInvariant, PTL DEF System, Spec

THEOREM SystemImplementsOwnership == System => OwnsAsPromised
BY SystemImplementsTables, TablesImplementOwnership, PTL

----------------------------------------------------------------------------
(* AuthorizedIsServiceable for any number of accounts, certificates,       *)
(* finalizers and releases: what a finalizer has read stays true until its *)
(* binding is written, and what the binding needs stays true until a       *)
(* release disables the certificate.                                       *)

Authorized == device.lifecycle \in {"RUNTIME_AUTHORIZED", "ACTIVE"}
Alone(x, o) == thing.exists /\ thing.owner = o /\ thing.principals = {x}

\* The reservation a finalizer found is still the unit's.
Current(l) ==
    registry.status = "RESERVED" /\ registry.claimId = fin[l].claim

\* What the reads of verifyBootstrap are worth, at each of its calls.
Ready == {"principals", "certificate", "transition", "bind"}
Checked(pc, x, o) ==
    /\ pc \in {"thing"} \cup Ready => registry.latestCertificateId = x
    /\ pc \in Ready => thing.exists /\ (thing.owner = o \/ ~(thing.principals \subseteq {x}))
    /\ pc \in {"certificate", "transition", "bind"} => Alone(x, o)
    /\ pc \in {"transition", "bind"} => cert[x].status = "ACTIVE"
Verified == \A l \in Lease : Current(l) => Checked(fin[l].pc, fin[l].cert, registry.ownerId)

\* A certificate that no row will ever name again.
Gone(x) ==
    /\ cert[x].status = "INACTIVE" /\ x \notin thing.principals
    /\ registry.latestCertificateId # x
    /\ device.certificateId = x => device.lifecycle = "REVOKED"

\* A Thing is empty only in the middle of a release.
ThingInv ==
    /\ \A x \in thing.principals : cert[x].status \in {"ACTIVE", "INACTIVE"}
    /\ thing.exists /\ thing.principals = {} => Authorized

\* An invocation is about a claim that was created.
ClaimedInv ==
    \A l \in Lease :
        fin[l].pc \notin {"new", "done", "left"} => claims[fin[l].claim].status # "ABSENT"

BootInv ==
    device.lifecycle = "BOOTSTRAPPED" =>
        /\ cert[device.certificateId].status = "ACTIVE"
        /\ Alone(device.certificateId, device.ownerId)
        /\ \A l \in Lease : fin[l].pc = "commit" /\ fin[l].cert = device.certificateId =>
               "runtime" \in cert[device.certificateId].policies

\* A release works on the device, or on what is gone.
ReleaseInv ==
    \A r \in Release : rel[r].pc # "new" =>
        \/ /\ Authorized /\ device.certificateId = rel[r].cert
           /\ rel[r].pc = "revoke" => ~thing.exists
        \/ Gone(rel[r].cert)

\* A release that has come to disabling.
After == {"detach", "unbind", "check", "delete", "revoke", "done"}
Serviceable ==
    Authorized =>
        \/ /\ cert[device.certificateId].status = "ACTIVE"
           /\ "runtime" \in cert[device.certificateId].policies
           /\ Alone(device.certificateId, device.ownerId)
        \/ /\ cert[device.certificateId].status = "INACTIVE"
           /\ \E r \in Release : rel[r].cert = device.certificateId /\ rel[r].pc \in After

ServiceInv == ThingInv /\ ClaimedInv /\ Verified /\ BootInv /\ ReleaseInv /\ Serviceable

----------------------------------------------------------------------------
(* What the tables keep                                                    *)

(* A claim that was created stays so, and a reservation changes its claim  *)
(* only by a new claim.                                                    *)
LEMMA TableKeeps ==
    ASSUME TypeOK, TablesAgree, [Next]_tvars
    PROVE  /\ \A c \in Claim : claims[c].status # "ABSENT" => claims'[c].status # "ABSENT"
           /\ registry'.status = "RESERVED" =>
                \/ /\ registry.status = "RESERVED" /\ registry'.claimId = registry.claimId
                   /\ registry'.ownerId = registry.ownerId
                   /\ registry.latestCertificateId \in {None, registry'.latestCertificateId}
                \/ registry'.claimId \in Claim /\ claims[registry'.claimId].status = "ABSENT"
<1> DEFINE Kept == \A c \in Claim : claims[c].status # "ABSENT" => claims'[c].status # "ABSENT"
           Reserved == registry'.status = "RESERVED" =>
                \/ /\ registry.status = "RESERVED" /\ registry'.claimId = registry.claimId
                   /\ registry'.ownerId = registry.ownerId
                   /\ registry.latestCertificateId \in {None, registry'.latestCertificateId}
                \/ registry'.claimId \in Claim /\ claims[registry'.claimId].status = "ABSENT"
<1>0. claims \in [Claim -> ClaimRow] /\ registry \in RegistryRow
  BY DEF TypeOK
<1>1. ASSUME NEW c \in Claim, NEW row, claims' = [claims EXCEPT ![c] = row], row.status # "ABSENT"
      PROVE  Kept
  BY <1>0, <1>1
<1>2. \A row \in ClaimRow : \A s : Unleased(row, s).status = s
  BY DEF Unleased, ClaimRow
<1>3. ASSUME NEW c \in Claim, ClaimStep(c) PROVE Kept /\ Reserved
  <2>0. claims[c] \in ClaimRow
    BY <1>0
  <2>1. CASE \E o \in Owner, k \in Code, t \in Reading : CreateClaim(c, o, k, t)
    <3>1. registry'.claimId = c /\ claims[c].status = "ABSENT"
      BY <1>0, <2>1 DEF CreateClaim, RegistryRow
    <3>2. Kept
      BY <1>0, <2>1, <3>1 DEF CreateClaim
    <3> QED
      BY <3>1, <3>2
  <2>2. CASE \/ \E t \in Reading : ExpireClaim(c, t)
             \/ \E l \in Lease : ReleaseLease(c, l)
             \/ \E l \in Lease, x \in Cert : BootstrapResumed(c, l, x)
    <3>1. UNCHANGED registry
      BY <2>2 DEF ExpireClaim, ReleaseLease, BootstrapResumed
    <3>2. \E s \in {"EXPIRED", "BOOTSTRAPPED", "CLAIM_PENDING"} :
              claims' = [claims EXCEPT ![c] = Unleased(claims[c], s)]
      <4>1. claims[c].resume \in {None, "CLAIM_PENDING", "BOOTSTRAPPED"}
        BY <2>0 DEF ClaimRow
      <4> QED
        BY <2>2, <4>1 DEF ExpireClaim, ReleaseLease, BootstrapResumed
    <3>3. Kept
      BY <1>1, <1>2, <2>0, <3>2
    <3> QED
      BY <3>1, <3>3
  <2>3. CASE \E l \in Lease, t \in Reading : StartLease(c, l, t) \/ RecoverLease(c, l, t)
    <3> PICK l \in Lease, t \in Reading : StartLease(c, l, t) \/ RecoverLease(c, l, t)
      BY <2>3
    <3>1. UNCHANGED registry
      BY DEF StartLease, RecoverLease
    <3>2. CASE StartLease(c, l, t)
      <4> DEFINE row == [claims[c] EXCEPT !.status = "PROVISIONING", !.resume = claims[c].status,
                           !.leaseId = l, !.leaseExpiresAt = t + LeaseTtl]
      <4>1. claims' = [claims EXCEPT ![c] = row] /\ row.status = "PROVISIONING"
        BY <2>0, <3>2 DEF StartLease, ClaimRow
      <4> QED
        BY <1>1, <3>1, <4>1
    <3>3. CASE RecoverLease(c, l, t)
      <4> DEFINE row == [claims[c] EXCEPT !.leaseId = l, !.leaseExpiresAt = t + LeaseTtl]
      <4>1. claims' = [claims EXCEPT ![c] = row] /\ row.status = "PROVISIONING"
        BY <2>0, <3>3 DEF RecoverLease, Recoverable, ClaimRow
      <4> QED
        BY <1>1, <3>1, <4>1
    <3> QED
      BY <3>2, <3>3
  <2>4. CASE \E n \in Nonce, x \in Cert, t \in Reading : PinCertificate(c, n, x, t)
    BY <1>0, <2>4 DEF PinCertificate, RegistryRow
  <2>5. CASE \E l \in Lease, x \in Cert, t \in Reading : BootstrapFresh(c, l, x, t)
    <3>1. claims' = [claims EXCEPT ![c] = BoundClaim(claims[c])] /\ registry'.status = "BOOTSTRAPPED"
      BY <1>0, <2>5 DEF BootstrapFresh, RegistryRow
    <3>2. BoundClaim(claims[c]).status = "BOOTSTRAPPED"
      BY <2>0 DEF BoundClaim, Unleased, ClaimRow
    <3> QED
      BY <1>1, <3>1, <3>2
  <2>6. CASE \E x \in Cert : AuthorizeRuntimeClaim(c, x)
    BY <1>0, <2>6 DEF AuthorizeRuntimeClaim, RegistryRow, ClaimRow
  <2>7. CASE ApplyFirstState(c)
    BY <1>0, <2>7 DEF ApplyFirstState, ClaimRow
  <2>8. CASE SweepClaim(c)
    <3>1. [Unleased(claims[c], "DELETED") EXCEPT !.expiresAt = 0].status = "DELETED"
      BY <2>0 DEF Unleased, ClaimRow
    <3> QED
      BY <1>1, <2>8, <3>1 DEF SweepClaim
  <2> QED
    BY <1>3, <2>1, <2>2, <2>3, <2>4, <2>5, <2>6, <2>7, <2>8 DEF ClaimStep
<1>4. CASE \/ \E o \in Owner, k \in Code, t \in Reading : MarkReissueRequired(o, k, t)
           \/ SweepLock \/ Tick \/ UNCHANGED tvars
  BY <1>0, <1>4 DEF MarkReissueRequired, SweepLock, Tick, tables, tvars, RegistryRow
<1>5. CASE \E k \in Code : Reissue(k)
  <2>1. registry'.status = "AVAILABLE" /\ UNCHANGED claims
    BY <1>5 DEF Reissue, Stocked, NoRegistryRow
  <2> QED
    BY <2>1
<1>6. CASE \E o \in Owner, x \in Cert : RevokeDevice(o, x)
  <2>1. registry'.status = "REISSUE_REQUIRED"
    BY <1>6 DEF RevokeDevice, NoRegistryRow
  <2>2. Kept
    BY <1>0, <1>6 DEF RevokeDevice, ClaimRow
  <2> QED
    BY <2>1, <2>2
<1> QED
  BY <1>3, <1>4, <1>5, <1>6 DEF Next

----------------------------------------------------------------------------
(* Steps that change nothing of this                                       *)

\* An invocation of finalizeClaim has learnt what the next call relies on.
Learnt(l) ==
    /\ fin'[l].pc \notin {"new", "done", "left"} => claims'[fin'[l].claim].status # "ABSENT"
    /\ Current(l)' => Checked(fin'[l].pc, fin'[l].cert, registry'.ownerId)
    /\ fin'[l].pc = "commit" =>
        \/ "runtime" \in cert[fin'[l].cert].policies
        \/ fin[l].pc = "commit" /\ fin'[l].cert = fin[l].cert
\* An invocation of releaseDevice works on what it did, or on the device.
Follows(r) ==
    /\ rel'[r].pc # "new" =>
        \/ /\ rel[r].pc # "new" /\ rel'[r].cert = rel[r].cert
           /\ rel'[r].pc = "revoke" => rel[r].pc = "revoke" \/ ~thing.exists
        \/ Authorized /\ device.certificateId = rel'[r].cert /\ rel'[r].pc # "revoke"
    /\ rel[r].pc \in After => rel'[r].pc \in After /\ rel'[r].cert = rel[r].cert

(* A step keeps ServiceInv if device, Thing and certificates stay as they  *)
(* are, or nearly so, and every invocation finds what its place promises.  *)
LEMMA Stays ==
    ASSUME SystemInv, SystemInv', ServiceInv, [Next]_tvars,
           thing'.exists = thing.exists, thing'.owner = thing.owner,
           thing'.principals = thing.principals,
           device'.certificateId = device.certificateId, device'.ownerId = device.ownerId,
           \/ device'.lifecycle = device.lifecycle
           \/ device.lifecycle = "RUNTIME_AUTHORIZED" /\ device'.lifecycle = "ACTIVE",
           registry'.latestCertificateId \in {registry.latestCertificateId, None},
           \A x \in Cert : /\ cert'[x].status = cert[x].status
                           /\ cert[x].status = "ACTIVE" /\ "runtime" \in cert[x].policies =>
                                  "runtime" \in cert'[x].policies,
           \A l \in Lease : fin'[l] = fin[l] \/ (Learnt(l) /\ UNCHANGED registry),
           \A r \in Release : rel'[r] = rel[r] \/ Follows(r)
    PROVE  ServiceInv'
<1> USE DEF ServiceInv
<1>0. /\ device.lifecycle # "NONE" => device.certificateId \in Cert
      /\ \A l \in Lease : fin'[l].pc \notin {"new", "done", "left", "registry", "unwind"} => fin'[l].cert \in Cert
      /\ \A l \in Lease : fin[l].pc \notin {"new", "done", "left", "registry", "unwind"} => fin[l].cert \in Cert
      /\ \A l \in Lease : fin[l].pc \notin {"new", "done", "left"} => fin[l].claim \in Claim
      /\ \A r \in Release : rel'[r].pc # "new" => rel'[r].cert \in Cert
      /\ registry.latestCertificateId \in Cert \cup {None} /\ thing.principals \subseteq Cert
      /\ device'.lifecycle = "NONE" <=> device.lifecycle = "NONE"
      /\ device'.lifecycle = "BOOTSTRAPPED" <=> device.lifecycle = "BOOTSTRAPPED"
      /\ device'.lifecycle = "REVOKED" <=> device.lifecycle = "REVOKED"
  BY DEF SystemInv, JobsKnown, SystemTypeOK, TypeOK, RegistryRow, ThingState, Maybe
<1>1. /\ Authorized' <=> Authorized
      /\ device'.lifecycle \in {"RUNTIME_AUTHORIZED", "ACTIVE"} <=> Authorized
  BY DEF Authorized
<1>2. ThingInv'
  BY <1>0, <1>1 DEF ThingInv
<1>3. ClaimedInv'
  BY <1>0, TableKeeps DEF ClaimedInv, Learnt, SystemInv, SystemTypeOK
<1>4. Verified'
  <2> DEFINE Reads == {"thing"} \cup Ready
  <2>1. ASSUME NEW l \in Lease, Current(l)', fin'[l].pc \in Reads
        PROVE  Checked(fin'[l].pc, fin'[l].cert, registry'.ownerId)
    <3>1. CASE fin'[l] = fin[l]
      <4>1. claims[fin[l].claim].status # "ABSENT"
        BY <2>1, <3>1 DEF ClaimedInv, Ready
      <4>2. registry.status = "RESERVED" /\ registry'.claimId = registry.claimId
            /\ registry'.ownerId = registry.ownerId
        BY <2>1, <3>1, <4>1, TableKeeps DEF Current, SystemInv, SystemTypeOK
      <4>3. Current(l)
        BY <2>1, <3>1, <4>2 DEF Current
      <4> QED
        BY <3>1, <4>2, <4>3 DEF Verified
    <3> QED
      BY <2>1, <3>1 DEF Learnt
  <2>2. ASSUME NEW l \in Lease, Current(l)', fin'[l].pc \in Reads
        PROVE  Checked(fin[l].pc, fin[l].cert, registry.ownerId)'
    <3>1. /\ Checked(fin'[l].pc, fin'[l].cert, registry'.ownerId)
          /\ fin'[l].cert \in Cert
      BY <1>0, <2>1, <2>2 DEF Ready
    <3>2. registry.latestCertificateId = fin'[l].cert
      BY <2>2, <3>1 DEF Checked
    <3>3. registry'.latestCertificateId = fin'[l].cert
      <4>1. CASE UNCHANGED registry
        BY <3>2, <4>1
      <4>2. CASE fin'[l] = fin[l]
        <5>1. claims[fin[l].claim].status # "ABSENT"
          BY <2>2, <4>2 DEF ClaimedInv, Ready
        <5>2. registry.latestCertificateId \in {None, registry'.latestCertificateId}
          BY <2>2, <4>2, <5>1, TableKeeps DEF Current, SystemInv, SystemTypeOK
        <5> QED
          BY <3>1, <3>2, <5>2, NoneApart
      <4> QED
        BY <4>1, <4>2
    <3> QED
      BY <1>0, <2>2, <3>1, <3>3 DEF Checked, Alone, Ready
  <2>3. ASSUME NEW l \in Lease, fin'[l].pc \notin Reads
        PROVE  Checked(fin[l].pc, fin[l].cert, registry.ownerId)'
    BY <2>3 DEF Checked, Ready
  <2> QED
    BY <2>2, <2>3 DEF Verified
<1>5. BootInv'
  BY <1>0 DEF BootInv, Alone, Learnt
<1>6. \A x \in Cert : Gone(x) => Gone(x)'
  BY <1>0, NoneApart DEF Gone
<1>7. ReleaseInv'
  <2>1. ASSUME NEW r \in Release, rel'[r].pc # "new", NEW x \in Cert, x = rel'[r].cert
        PROVE  \/ /\ Authorized' /\ device'.certificateId = x
                  /\ rel'[r].pc = "revoke" => ~thing'.exists
               \/ Gone(x)'
    <3>1. \/ /\ Authorized /\ device.certificateId = x
             /\ rel'[r].pc = "revoke" => ~thing.exists
          \/ Gone(x)
      BY <2>1 DEF ReleaseInv, Follows
    <3> QED
      BY <1>1, <1>6, <3>1
  <2> QED
    BY <1>0, <2>1 DEF ReleaseInv, Gone
<1>8. Serviceable'
  BY <1>0, <1>1 DEF Serviceable, Alone, Follows, Authorized
<1> QED
  BY <1>2, <1>3, <1>4, <1>5, <1>7, <1>8

----------------------------------------------------------------------------
(* finalizeClaim                                                           *)

LEMMA FinServes ==
    ASSUME SystemInv, SystemInv', ServiceInv, NEW l \in Lease, FinStep(l)
    PROVE  ServiceInv'
<1> DEFINE c == fin[l].claim
           x == fin[l].cert
<1>0. /\ fin \in [Lease -> FinJob] /\ cert \in [Cert -> CertState]
      /\ UNCHANGED <<thing, rel>> /\ [Next]_tvars /\ TypeOK
      /\ claims \in [Claim -> ClaimRow]
  BY FinType, FinTables DEF SystemInv, SystemTypeOK, TypeOK
<1>1. ASSUME UNCHANGED <<registry, device>>,
             \A y \in Cert : /\ cert'[y].status = cert[y].status
                             /\ "runtime" \in cert[y].policies => "runtime" \in cert'[y].policies,
             \A m \in Lease \ {l} : fin'[m] = fin[m],
             Learnt(l)
      PROVE  ServiceInv'
  BY <1>0, <1>1, Stays
<1>2. CASE \E d \in Claim, t \in Reading : FinAcquire(l, d, t)
  <2> PICK d \in Claim, t \in Reading : FinAcquire(l, d, t)
    BY <1>2
  <2>1. /\ UNCHANGED <<registry, device, cert>>
        /\ claims'[d].status = "PROVISIONING"
    <3>1. CASE StartLease(d, l, t)
      BY <1>0, <3>1 DEF FinAcquire, StartLease, cloud, ClaimRow
    <3>2. CASE RecoverLease(d, l, t)
      BY <1>0, <3>2 DEF FinAcquire, RecoverLease, Recoverable, cloud, ClaimRow
    <3> QED
      BY <3>1, <3>2 DEF FinAcquire
  <2>2. /\ fin'[l].pc \in {"registry", "left"} /\ fin'[l].claim = d
        /\ \A m \in Lease \ {l} : fin'[m] = fin[m]
    BY <1>0 DEF FinAcquire, FinJob
  <2>3. Learnt(l)
    BY <2>1, <2>2 DEF Learnt, Checked, Ready
  <2> QED
    BY <1>1, <2>1, <2>2, <2>3
<1>3. CASE FinRegistry(l)
  <2>1. UNCHANGED <<tvars, cert>> /\ fin[l].pc = "registry"
    BY <1>3 DEF FinRegistry, FinAt, cloud
  <2>2. CASE FinGoto(l, "unwind")
    <3>1. /\ fin'[l].pc = "unwind" /\ fin'[l].claim = c
          /\ \A m \in Lease \ {l} : fin'[m] = fin[m]
      BY <1>0, <2>2 DEF FinGoto, FinJob
    <3>2. Learnt(l)
      BY <2>1, <3>1 DEF Learnt, Checked, Ready, ServiceInv, ClaimedInv, Current, tvars
    <3> QED
      BY <1>1, <2>1, <3>1, <3>2 DEF tvars
  <2>3. CASE ~FinGoto(l, "unwind")
    <3>1. /\ registry.latestCertificateId # None
          /\ fin' = [fin EXCEPT ![l] = [@ EXCEPT !.pc = "thing",
                         !.cert = registry.latestCertificateId,
                         !.reserved = (registry.status = "RESERVED")]]
      BY <1>3, <2>3 DEF FinRegistry
    <3>2. /\ fin'[l].pc = "thing" /\ fin'[l].claim = c
          /\ fin'[l].cert = registry.latestCertificateId
          /\ \A m \in Lease \ {l} : fin'[m] = fin[m]
      BY <1>0, <3>1, Zenon DEF FinJob
    <3>3. Learnt(l)
      BY <2>1, <3>1, <3>2 DEF Learnt, Checked, Ready, ServiceInv, ClaimedInv, Current, tvars
    <3> QED
      BY <1>1, <2>1, <3>2, <3>3 DEF tvars
  <2> QED
    BY <2>2, <2>3
<1>4. CASE FinThing(l) \/ FinPrincipals(l) \/ FinCertificate(l) \/ FinTransition(l)
  <2>1. UNCHANGED <<tvars, cert>>
    BY <1>4 DEF FinThing, FinPrincipals, FinCertificate, FinTransition, FinRead, cloud
  <2>2. /\ fin[l].pc \in {"thing", "principals", "certificate", "transition"}
        /\ fin'[l].claim = c /\ fin'[l].cert = x
        /\ \A m \in Lease \ {l} : fin'[m] = fin[m]
    BY <1>0, <1>4 DEF FinThing, FinPrincipals, FinCertificate, FinTransition, FinRead,
                      FinGoto, FinAt, FinJob
  <2>3. fin'[l].pc \in Ready \cup {"unwind"}
    BY <1>0, <1>4 DEF FinThing, FinPrincipals, FinCertificate, FinTransition, FinRead,
                      FinGoto, FinJob, Ready
  <2>4. ASSUME Current(l)
        PROVE  Checked(fin'[l].pc, x, registry.ownerId)
    <3>1. Checked(fin[l].pc, x, registry.ownerId) /\ claims[c].ownerId = registry.ownerId
      BY <2>4 DEF ServiceInv, Verified, Current, SystemInv, TablesAgree, ReservedAgrees
    <3>2. CASE FinThing(l)
      <4>1. /\ fin[l].pc = "thing"
            /\ \/ fin'[l].pc = "principals" /\ thing.exists /\ thing.owner = claims[c].ownerId
               \/ fin'[l].pc = "unwind"
        BY <1>0, <3>2 DEF FinThing, FinRead, FinGoto, FinAt, FinJob
      <4> QED
        BY <3>1, <4>1 DEF Checked, Ready
    <3>3. CASE FinPrincipals(l)
      <4>1. /\ fin[l].pc = "principals"
            /\ \/ fin'[l].pc = "certificate" /\ thing.principals = {x}
               \/ fin'[l].pc = "unwind"
        BY <1>0, <3>3 DEF FinPrincipals, FinRead, FinGoto, FinAt, FinJob
      <4> QED
        BY <3>1, <4>1 DEF Checked, Ready, Alone
    <3>4. CASE FinCertificate(l)
      <4>1. /\ fin[l].pc = "certificate"
            /\ \/ fin'[l].pc = "transition" /\ cert[x].status = "ACTIVE"
               \/ fin'[l].pc = "unwind"
        BY <1>0, <3>4 DEF FinCertificate, FinRead, FinGoto, FinAt, FinJob
      <4> QED
        BY <3>1, <4>1 DEF Checked, Ready, Alone
    <3>5. CASE FinTransition(l)
      <4>1. fin[l].pc = "transition" /\ fin'[l].pc \in {"bind", "unwind"}
        BY <1>0, <3>5 DEF FinTransition, FinRead, FinGoto, FinAt, FinJob
      <4> QED
        BY <3>1, <4>1 DEF Checked, Ready, Alone
    <3> QED
      BY <1>4, <3>2, <3>3, <3>4, <3>5
  <2>5. Current(l)' => Checked(fin'[l].pc, fin'[l].cert, registry'.ownerId)
    BY <2>1, <2>2, <2>4 DEF Current, tvars
  <2>6. Learnt(l)
    BY <2>1, <2>2, <2>3, <2>5 DEF Learnt, Ready, ServiceInv, ClaimedInv, tvars
  <2> QED
    BY <1>1, <2>1, <2>2, <2>6 DEF tvars
<1>5. CASE \/ FinFail(l) \/ FinUnwind(l) \/ FinCrash(l)
           \/ FinPolicies(l) \/ FinConfirm(l)
           \/ \E t \in Reading : FinBind(l, t) /\ BootstrapResumed(c, l, x)
           \/ FinCommit(l) /\ UNCHANGED tvars
  <2>1. UNCHANGED <<registry, device, cert>>
    BY <1>5 DEF FinFail, FinUnwind, ReleaseLease, FinCrash, FinPolicies, FinConfirm, FinBind,
                BootstrapResumed, FinCommit, cloud, tvars
  <2>2. CASE \/ FinFail(l) \/ FinUnwind(l) \/ FinCrash(l)
             \/ \E t \in Reading : FinBind(l, t) /\ BootstrapResumed(c, l, x)
             \/ FinCommit(l) /\ UNCHANGED tvars
    <3>1. /\ fin'[l].claim = c /\ fin'[l].cert = x
          /\ \/ fin'[l].pc \in {"done", "left"}
             \/ fin'[l].pc = "unwind" /\ fin[l].pc \in VerifyPc
             \/ fin'[l].pc = "policies" /\ fin[l].pc = "bind"
          /\ \A m \in Lease \ {l} : fin'[m] = fin[m]
      BY <1>0, <2>2 DEF FinFail, FinUnwind, FinCrash, FinBind, FinCommit, FinGoto, FinAt, FinJob,
                        VerifyPc
    <3>2. fin'[l].pc \notin {"done", "left"} => c \in Claim /\ claims[c].status # "ABSENT"
      BY <3>1 DEF VerifyPc, ServiceInv, ClaimedInv, SystemInv, JobsKnown
    <3>3. fin'[l].pc \notin {"done", "left"} => claims'[c].status # "ABSENT"
      BY <1>0, <3>2, TableKeeps DEF SystemInv
    <3>4. Learnt(l)
      BY <3>1, <3>3 DEF Learnt, Checked, Ready
    <3> QED
      BY <1>1, <2>1, <3>1, <3>4
  <2>3. CASE FinPolicies(l) \/ FinConfirm(l)
    <3>1. /\ fin'[l].claim = c /\ fin'[l].cert = x /\ fin[l].pc \in {"policies", "confirm"}
          /\ fin'[l].pc \in {"attach", "commit", "done"}
          /\ fin'[l].pc = "commit" => "runtime" \in cert[x].policies
          /\ \A m \in Lease \ {l} : fin'[m] = fin[m]
      <4>1. CASE FinPolicies(l)
        BY <1>0, <4>1 DEF FinPolicies, FinAt, FinJob
      <4>2. CASE FinConfirm(l)
        BY <1>0, <4>2 DEF FinConfirm, FinGoto, FinAt, FinJob
      <4> QED
        BY <2>3, <4>1, <4>2
    <3>2. UNCHANGED claims
      BY <2>3 DEF FinPolicies, FinConfirm, tvars
    <3>3. Learnt(l)
      BY <3>1, <3>2 DEF Learnt, Checked, Ready, ServiceInv, ClaimedInv
    <3> QED
      BY <1>1, <2>1, <3>1, <3>3
  <2> QED
    BY <1>5, <2>2, <2>3
<1>6. CASE FinAttach(l) \/ FinDetach(l)
  <2>1. UNCHANGED tvars /\ x \in Cert /\ fin[l].pc \in {"attach", "detach"}
    BY <1>6 DEF FinAttach, FinDetach, FinAt, SystemInv, JobsKnown
  <2>2. \A y \in Cert : /\ cert'[y].status = cert[y].status
                        /\ "runtime" \in cert[y].policies => "runtime" \in cert'[y].policies
    <3>1. \A y \in Cert \ {x} : cert'[y] = cert[y]
      BY <1>0, <1>6 DEF FinAttach, FinDetach
    <3>2. /\ cert'[x].status = cert[x].status
          /\ cert'[x].policies \in {cert[x].policies, cert[x].policies \cup {"runtime"},
                                    cert[x].policies \ {"bootstrap"}}
      BY <1>0, <1>6, <2>1 DEF FinAttach, FinDetach, CertState
    <3> QED
      BY <3>1, <3>2
  <2>3. /\ fin'[l].claim = c /\ fin'[l].cert = x /\ fin'[l].pc \in {"detach", "confirm"}
        /\ \A m \in Lease \ {l} : fin'[m] = fin[m]
    BY <1>0, <1>6 DEF FinAttach, FinDetach, FinGoto, FinJob
  <2>4. Learnt(l)
    BY <2>1, <2>3 DEF Learnt, Checked, Ready, ServiceInv, ClaimedInv, Current, tvars
  <2> QED
    BY <1>1, <2>1, <2>2, <2>3, <2>4 DEF tvars
<1>7. CASE \E t \in Reading : FinBind(l, t) /\ BootstrapFresh(c, l, x, t)
  <2> PICK t \in Reading : FinBind(l, t) /\ BootstrapFresh(c, l, x, t)
    BY <1>7
  <2>1. /\ Current(l) /\ fin[l].pc = "bind" /\ ~Bound
        /\ claims[c].ownerId = registry.ownerId
    BY DEF FinBind, FinAt, BootstrapFresh, Current, Bound
  <2>2. Alone(x, registry.ownerId) /\ cert[x].status = "ACTIVE"
    BY <2>1 DEF ServiceInv, Verified, Checked
  <2>3. /\ device'.lifecycle = "BOOTSTRAPPED" /\ device'.certificateId = x
        /\ device'.ownerId = registry.ownerId
        /\ registry'.status = "BOOTSTRAPPED"
        /\ registry'.latestCertificateId = registry.latestCertificateId
        /\ UNCHANGED cert
    BY <1>0, <2>1 DEF FinBind, BootstrapFresh, TypeOK, RegistryRow, cloud
  <2>4. /\ fin'[l].claim = c /\ fin'[l].cert = x /\ fin'[l].pc \in {"policies", "unwind"}
        /\ \A m \in Lease \ {l} : fin'[m] = fin[m]
    BY <1>0 DEF FinBind, FinGoto, FinJob
  <2>5. ~Authorized /\ ~Authorized'
    BY <2>1, <2>3 DEF Authorized, Bound
  <2>6. ThingInv'
    BY <1>0, <2>2, <2>3 DEF ServiceInv, ThingInv, Alone
  <2>7. ClaimedInv'
    <3>1. \A m \in Lease : fin'[m].pc \notin {"new", "done", "left"} =>
             /\ fin[m].pc \notin {"new", "done", "left"} /\ fin'[m].claim = fin[m].claim
             /\ fin[m].claim \in Claim
      BY <2>1, <2>4 DEF SystemInv, JobsKnown
    <3> QED
      BY <1>0, <3>1, TableKeeps DEF SystemInv, ServiceInv, ClaimedInv
  <2>8. Verified'
    BY <2>3 DEF Verified, Current
  <2>9. BootInv'
    <3>1. \A m \in Lease : ~(fin'[m].pc = "commit" /\ fin'[m].cert = x)
      BY <2>1, <2>2, <2>4 DEF SystemInv, Armed, AuthorizePc, Worn, Disabled
    <3> QED
      BY <1>0, <2>2, <2>3, <3>1 DEF BootInv, Alone
  <2>10. ReleaseInv'
    <3>1. ASSUME NEW r \in Release, rel[r].pc # "new"
          PROVE  Gone(rel[r].cert)'
      BY <1>0, <2>2, <2>3, <2>5, <3>1 DEF ServiceInv, ReleaseInv, Gone
    <3> QED
      BY <1>0, <3>1 DEF ReleaseInv, Gone
  <2> QED
    BY <2>5, <2>6, <2>7, <2>8, <2>9, <2>10 DEF ServiceInv, Serviceable
<1>8. CASE FinCommit(l) /\ AuthorizeRuntimeClaim(c, x)
  <2>1. /\ fin[l].pc = "commit" /\ device.lifecycle = "BOOTSTRAPPED"
        /\ device.certificateId = x /\ UNCHANGED cert
    BY <1>8 DEF FinCommit, FinAt, AuthorizeRuntimeClaim, Authorizable, cloud
  <2>2. /\ device'.lifecycle = "RUNTIME_AUTHORIZED" /\ device'.certificateId = x
        /\ device'.ownerId = device.ownerId
        /\ registry'.status = "RUNTIME_AUTHORIZED"
        /\ registry'.latestCertificateId = registry.latestCertificateId
    BY <1>0, <1>8, <2>1 DEF AuthorizeRuntimeClaim, TypeOK, DeviceRow, RegistryRow
  <2>3. /\ fin'[l].pc = "done" /\ \A m \in Lease \ {l} : fin'[m] = fin[m]
    BY <1>0, <1>8 DEF FinCommit, FinGoto, FinJob
  <2>4. /\ cert[x].status = "ACTIVE" /\ "runtime" \in cert[x].policies
        /\ Alone(x, device.ownerId)
    BY <2>1 DEF ServiceInv, BootInv
  <2>5. ThingInv'
    BY <1>0, <2>1, <2>4 DEF ServiceInv, ThingInv, Alone
  <2>6. ClaimedInv'
    BY <1>0, <2>3, TableKeeps DEF SystemInv, JobsKnown, ServiceInv, ClaimedInv
  <2>7. Verified' /\ BootInv'
    BY <2>2 DEF Verified, Current, BootInv
  <2>8. ReleaseInv'
    <3>1. ASSUME NEW r \in Release, rel[r].pc # "new"
          PROVE  Gone(rel[r].cert)'
      BY <1>0, <2>1, <2>2, <3>1 DEF ServiceInv, ReleaseInv, Gone, Authorized
    <3> QED
      BY <1>0, <3>1 DEF ReleaseInv, Gone
  <2>9. Serviceable'
    BY <1>0, <2>1, <2>2, <2>4 DEF Serviceable, Alone
  <2> QED
    BY <2>5, <2>6, <2>7, <2>8, <2>9 DEF ServiceInv
<1> QED
  BY <1>2, <1>3, <1>4, <1>5, <1>6, <1>7, <1>8
     DEF FinStep, FinWork, FinBind, Bindable, FinCommit

----------------------------------------------------------------------------
(* releaseDevice                                                           *)

LEMMA RelServes ==
    ASSUME SystemInv, SystemInv', ServiceInv, NEW r \in Release, RelStep(r)
    PROVE  ServiceInv'
<1> DEFINE x == rel[r].cert
<1>0. /\ rel \in [Release -> RelJob] /\ cert \in [Cert -> CertState] /\ thing \in ThingState
      /\ UNCHANGED fin /\ [Next]_tvars /\ TypeOK
  BY RelType, RelTables DEF SystemInv, SystemTypeOK
<1>1. Authorized => registry.status # "RESERVED" /\ device.lifecycle # "BOOTSTRAPPED"
  BY DEF Authorized, SystemInv, TablesAgree, ReservedAgrees, Bound
<1>2. ASSUME UNCHANGED tvars, UNCHANGED thing,
             \A y \in Cert : /\ cert'[y].status = cert[y].status
                             /\ cert[y].status = "ACTIVE" => cert'[y].policies = cert[y].policies,
             \A q \in Release \ {r} : rel'[q] = rel[q],
             Follows(r)
      PROVE  ServiceInv'
  BY <1>0, <1>2, Stays DEF tvars
<1>2a. ASSUME \A q \in Release, y \in Cert : rel'[q].pc # "new" /\ y = rel'[q].cert =>
                 \/ Authorized' /\ device'.certificateId = y
                    /\ (rel'[q].pc = "revoke" => ~thing'.exists)
                 \/ Gone(y)'
       PROVE  ReleaseInv'
  <2>1. \A q \in Release : rel'[q].pc # "new" => rel'[q].cert \in Cert
    BY DEF SystemInv, JobsKnown
  <2> QED
    BY <1>2a, <2>1 DEF ReleaseInv, Gone
<1>3. CASE RelStart(r) \/ RelPrincipals(r) \/ RelPolicies(r)
  <2>1. UNCHANGED <<tvars, cert, thing>>
    BY <1>3 DEF RelStart, RelPrincipals, RelPolicies, cloud
  <2>2. \A q \in Release \ {r} : rel'[q] = rel[q]
    BY <1>0, <1>3 DEF RelStart, RelPrincipals, RelPolicies, RelGoto
  <2>3. Follows(r)
    <3>1. CASE RelStart(r)
      <4>1. /\ rel[r].pc = "new" /\ Authorized
            /\ rel'[r].pc = "principals" /\ rel'[r].cert = device.certificateId
        BY <1>0, <3>1 DEF RelStart, RelAt, RelJob, Authorized
      <4> QED
        BY <4>1 DEF Follows, After
    <3>2. CASE RelPrincipals(r)
      <4>1. /\ rel[r].pc = "principals" /\ rel'[r].cert = x
            /\ rel'[r].pc \in {"policies", "mismatch"}
        BY <1>0, <3>2 DEF RelPrincipals, RelGoto, RelAt, RelJob
      <4> QED
        BY <4>1 DEF Follows, After
    <3>3. CASE RelPolicies(r)
      <4>1. /\ rel[r].pc = "policies" /\ rel'[r].cert = x /\ rel'[r].pc = "disable"
        BY <1>0, <3>3 DEF RelPolicies, RelAt, RelJob
      <4> QED
        BY <4>1 DEF Follows, After
    <3> QED
      BY <1>3, <3>1, <3>2, <3>3
  <2> QED
    BY <1>2, <2>1, <2>2, <2>3
<1>4. CASE \/ RelCheck(r) \/ RelCrash(r)
           \/ RelDelete(r) /\ thing.principals # {}
           \/ RelRevoke(r) /\ UNCHANGED tvars
  <2>1. UNCHANGED <<tvars, cert, thing>>
    BY <1>4 DEF RelCheck, RelCrash, RelDelete, RelRevoke, cloud
  <2>2. /\ rel[r].pc # "new" /\ rel'[r].cert = x /\ rel'[r].pc \in After
        /\ rel'[r].pc = "revoke" => ~thing.exists
        /\ \A q \in Release \ {r} : rel'[q] = rel[q]
    BY <1>0, <1>4 DEF RelCheck, RelCrash, RelDelete, RelRevoke, RelGoto, RelAt, RelJob, After
  <2>3. Follows(r)
    BY <2>2 DEF Follows
  <2> QED
    BY <1>2, <2>1, <2>2, <2>3
<1>5. CASE RelDetach(r)
  <2>0. x \in Cert /\ rel[r].pc = "detach" /\ cert[x].status = "INACTIVE"
    BY <1>5 DEF RelDetach, RelAt, SystemInv, JobsKnown, Armed, Disabled
  <2>1. /\ UNCHANGED <<tvars, thing>>
        /\ \A y \in Cert : /\ cert'[y].status = cert[y].status
                           /\ cert[y].status = "ACTIVE" => cert'[y].policies = cert[y].policies
    <3>1. CASE UNCHANGED cert
      BY <1>5, <3>1 DEF RelDetach
    <3>2. CASE \E p \in rel[r].names : cert' = [cert EXCEPT ![x].policies = @ \ {p}]
      BY <1>0, <1>5, <2>0, <3>2 DEF RelDetach, CertState
    <3> QED
      BY <1>5, <3>1, <3>2 DEF RelDetach
  <2>2. /\ rel'[r].cert = x /\ rel'[r].pc \in {"detach", "unbind"}
        /\ \A q \in Release \ {r} : rel'[q] = rel[q]
    <3>1. CASE RelGoto(r, "unbind")
      BY <1>0, <3>1 DEF RelGoto, RelJob
    <3>2. CASE \E p \in rel[r].names : rel' = [rel EXCEPT ![r].names = @ \ {p}]
      BY <1>0, <2>0, <3>2 DEF RelJob
    <3> QED
      BY <1>5, <3>1, <3>2 DEF RelDetach
  <2>3. Follows(r)
    BY <2>0, <2>2 DEF Follows, After
  <2> QED
    BY <1>2, <2>1, <2>2, <2>3
<1>6. CASE RelDisable(r)
  <2>0. /\ x \in Cert /\ rel[r].pc = "disable"
        /\ UNCHANGED <<tvars, thing>>
    BY <1>6 DEF RelDisable, RelAt, SystemInv, JobsKnown
  <2>1. /\ cert'[x].status = "INACTIVE" /\ cert'[x].policies = cert[x].policies
        /\ \A y \in Cert \ {x} : cert'[y] = cert[y]
    BY <1>0, <1>6, <2>0 DEF RelDisable, CertState
  <2>2. /\ rel'[r].cert = x /\ rel'[r].pc = "detach"
        /\ \A q \in Release \ {r} : rel'[q] = rel[q]
    BY <1>0, <1>6 DEF RelDisable, RelGoto, RelJob
  <2>3. CASE Gone(x)
    <3>1. Follows(r)
      BY <2>0, <2>2 DEF Follows, After
    <3> QED
      BY <1>2, <2>0, <2>1, <2>2, <2>3, <3>1 DEF Gone
  <2>4. CASE Authorized /\ device.certificateId = x
    <3>0. Authorized' /\ device.lifecycle # "NONE"
      BY <2>0, <2>4 DEF Authorized, tvars
    <3>1. ThingInv'
      BY <1>0, <2>0, <2>1, <3>0 DEF ServiceInv, ThingInv, ThingState
    <3>2. ClaimedInv'
      BY <1>0, <2>0 DEF ServiceInv, ClaimedInv, tvars
    <3>3. Verified' /\ BootInv'
      BY <1>0, <1>1, <2>0, <2>4 DEF Verified, Current, BootInv, tvars
    <3>4. ReleaseInv'
      <4>1. ASSUME NEW q \in Release, rel'[q].pc # "new", NEW y \in Cert, y = rel'[q].cert
            PROVE  \/ Authorized /\ device.certificateId = y
                      /\ (rel'[q].pc = "revoke" => ~thing.exists)
                   \/ Gone(y)
        BY <2>2, <2>4, <4>1 DEF ServiceInv, ReleaseInv
      <4>2. \A y \in Cert : Gone(y) => Gone(y)'
        BY <2>0, <2>1 DEF Gone, tvars
      <4> QED
        BY <1>2a, <2>0, <3>0, <4>1, <4>2 DEF tvars
    <3>5. Serviceable'
      BY <2>0, <2>1, <2>2, <2>4 DEF Serviceable, After, tvars
    <3> QED
      BY <3>1, <3>2, <3>3, <3>4, <3>5 DEF ServiceInv
  <2> QED
    BY <2>0, <2>3, <2>4 DEF ServiceInv, ReleaseInv
<1>7. CASE RelUnbind(r)
  <2>0. /\ x \in Cert /\ rel[r].pc = "unbind" /\ cert[x].status = "INACTIVE"
        /\ UNCHANGED <<tvars, cert>>
        /\ thing'.exists = thing.exists /\ thing'.owner = thing.owner
        /\ thing'.principals = thing.principals \ {x}
    BY <1>0, <1>7 DEF RelUnbind, RelAt, SystemInv, JobsKnown, Armed, Disabled, ThingState
  <2>1. /\ rel'[r].cert = x /\ rel'[r].pc = "check"
        /\ \A q \in Release \ {r} : rel'[q] = rel[q]
    BY <1>0, <1>7 DEF RelUnbind, RelGoto, RelJob
  <2>2. CASE Gone(x)
    <3>1. Follows(r)
      BY <2>0, <2>1 DEF Follows, After
    <3>2. thing' = thing
      BY <1>0, <1>7, <2>2 DEF RelUnbind, Gone, ThingState
    <3> QED
      BY <1>2, <2>0, <2>1, <3>1, <3>2
  <2>3. CASE Authorized /\ device.certificateId = x
    <3>0. Authorized'
      BY <2>0, <2>3 DEF Authorized, tvars
    <3>1. ThingInv' /\ ClaimedInv' /\ Verified' /\ BootInv'
      BY <1>0, <1>1, <2>0, <2>3, <3>0
         DEF ServiceInv, ThingInv, ClaimedInv, Verified, Current, BootInv, tvars
    <3>2. ReleaseInv'
      <4>1. ASSUME NEW q \in Release, rel'[q].pc # "new", NEW y \in Cert, y = rel'[q].cert
            PROVE  \/ Authorized /\ device.certificateId = y
                      /\ (rel'[q].pc = "revoke" => ~thing.exists)
                   \/ Gone(y)
        BY <2>1, <2>3, <4>1 DEF ServiceInv, ReleaseInv
      <4>2. \A y \in Cert : Gone(y) => Gone(y)'
        BY <2>0 DEF Gone, tvars
      <4> QED
        BY <1>2a, <2>0, <3>0, <4>1, <4>2 DEF tvars
    <3>3. Serviceable'
      BY <2>0, <2>1, <2>3 DEF Serviceable, After, tvars
    <3> QED
      BY <3>1, <3>2, <3>3 DEF ServiceInv
  <2> QED
    BY <2>0, <2>2, <2>3 DEF ServiceInv, ReleaseInv
<1>8. CASE RelDelete(r) /\ thing.principals = {}
  <2>0. /\ x \in Cert /\ rel[r].pc = "delete" /\ UNCHANGED <<tvars, cert>>
        /\ thing' = [exists |-> FALSE, owner |-> None, principals |-> {}]
    BY <1>8 DEF RelDelete, RelAt, SystemInv, JobsKnown
  <2>1. /\ rel'[r].cert = x /\ rel'[r].pc = "revoke"
        /\ \A q \in Release \ {r} : rel'[q] = rel[q]
    BY <1>0, <1>8 DEF RelDelete, RelGoto, RelJob
  <2>2. thing.exists => Authorized
    BY <1>8 DEF ServiceInv, ThingInv
  <2>3. ThingInv' /\ ClaimedInv'
    BY <1>0, <2>0 DEF ServiceInv, ThingInv, ClaimedInv, tvars
  <2>4. Verified'
    <3>1. \A l \in Lease : Current(l) => fin[l].pc \notin Ready
      BY <1>1, <2>2 DEF ServiceInv, Verified, Current, Checked
    <3>2. \A l \in Lease : Current(l) /\ fin[l].pc = "thing" =>
            registry.latestCertificateId = fin[l].cert
      BY DEF ServiceInv, Verified, Checked
    <3> QED
      BY <1>0, <2>0, <3>1, <3>2 DEF Verified, Current, Checked, Ready, tvars
  <2>5. BootInv'
    BY <1>8, <2>0 DEF ServiceInv, BootInv, Alone, tvars
  <2>6. ReleaseInv'
    <3>1. ASSUME NEW q \in Release, rel'[q].pc # "new", NEW y \in Cert, y = rel'[q].cert
          PROVE  (Authorized /\ device.certificateId = y) \/ Gone(y)
      BY <2>0, <2>1, <3>1 DEF ServiceInv, ReleaseInv
    <3>2. \A y \in Cert : Gone(y) => Gone(y)'
      BY <2>0 DEF Gone, tvars
    <3>3. Authorized => Authorized'
      BY <2>0 DEF Authorized, tvars
    <3> QED
      BY <1>2a, <2>0, <3>1, <3>2, <3>3 DEF tvars
  <2>7. Serviceable'
    <3>1. Authorized => /\ cert[device.certificateId].status = "INACTIVE"
                        /\ \E q \in Release : rel[q].cert = device.certificateId /\ rel[q].pc \in After
      BY <1>8 DEF ServiceInv, Serviceable, Alone
    <3>2. Authorized => \E q \in Release : rel'[q].cert = device.certificateId /\ rel'[q].pc \in After
      BY <2>1, <3>1 DEF After
    <3> QED
      BY <2>0, <3>1, <3>2 DEF Serviceable, Authorized, tvars
  <2> QED
    BY <2>3, <2>4, <2>5, <2>6, <2>7 DEF ServiceInv
<1>9. CASE RelRevoke(r) /\ RevokeDevice(rel[r].owner, x)
  <2>0. /\ x \in Cert /\ rel[r].pc = "revoke" /\ UNCHANGED <<cert, thing>>
        /\ cert[x].status = "INACTIVE" /\ x \notin thing.principals
    BY <1>9 DEF RelRevoke, RelAt, cloud, SystemInv, JobsKnown, Armed, Disabled
  <2>1. /\ rel'[r].cert = x /\ rel'[r].pc = "done"
        /\ \A q \in Release \ {r} : rel'[q] = rel[q]
    BY <1>0, <1>9 DEF RelRevoke, RelGoto, RelJob
  <2>2. /\ Authorized /\ device.certificateId = x
        /\ device'.lifecycle = "REVOKED" /\ device'.certificateId = x
        /\ registry' = NoRegistryRow
    BY <1>0, <1>9 DEF RevokeDevice, Revocable, Authorized, TypeOK, DeviceRow
  <2>3. ~thing.exists
    BY <2>0, <2>2 DEF ServiceInv, ReleaseInv, Gone, Authorized
  <2>4. ThingInv'
    BY <2>0, <2>3 DEF ServiceInv, ThingInv
  <2>5. ClaimedInv'
    BY <1>0, TableKeeps DEF SystemInv, JobsKnown, ServiceInv, ClaimedInv
  <2>6. Verified' /\ BootInv' /\ Serviceable'
    BY <2>2 DEF Verified, Current, BootInv, Serviceable, Authorized, NoRegistryRow
  <2>7. ReleaseInv'
    <3>1. ASSUME NEW q \in Release, rel'[q].pc # "new", NEW y \in Cert, y = rel'[q].cert
          PROVE  y = x \/ Gone(y)
      BY <2>1, <2>2, <3>1 DEF ServiceInv, ReleaseInv
    <3>2. \A y \in Cert : y = x \/ Gone(y) => Gone(y)'
      BY <2>0, <2>2, NoneApart DEF Gone, NoRegistryRow
    <3> QED
      BY <1>2a, <3>1, <3>2
  <2> QED
    BY <2>4, <2>5, <2>6, <2>7 DEF ServiceInv
<1> QED
  BY <1>3, <1>4, <1>5, <1>6, <1>7, <1>8, <1>9 DEF RelStep, RelRevoke

----------------------------------------------------------------------------
(* Fleet provisioning                                                      *)

LEMMA FleetServes ==
    ASSUME SystemInv, SystemInv', ServiceInv, [Next]_tvars, NEW x \in Cert, FleetStep(x)
    PROVE  ServiceInv'
<1>0. /\ cert \in [Cert -> CertState] /\ UNCHANGED <<device, fin, rel>> /\ TypeOK
      /\ registry.latestCertificateId \in Cert \cup {None}
      /\ \A l \in Lease : fin[l].pc \notin {"new", "done", "left", "registry", "unwind"} => fin[l].cert \in Cert
      /\ \A r \in Release : rel[r].pc # "new" => rel[r].cert \in Cert
      /\ device.lifecycle # "NONE" => device.certificateId \in Cert
  BY DEF SystemInv, SystemTypeOK, FleetStep, FleetHook, PinCertificate, FleetRegister,
         DevicePublish, tvars, TypeOK, RegistryRow, Maybe, JobsKnown
<1>1. CASE \E c \in Claim, t \in Reading : FleetHook(c, x, t)
  <2> PICK c \in Claim, t \in Reading : FleetHook(c, x, t)
    BY <1>1
  <2>0. /\ cert[x].status # "INACTIVE" /\ UNCHANGED <<thing, claims>>
        /\ \A y \in Cert : cert'[y].status = cert[y].status
    BY <1>0 DEF FleetHook, PinCertificate, CertState
  <2>1. /\ registry.status = "RESERVED" /\ registry'.latestCertificateId = x
        /\ registry.latestCertificateId \in {None, x}
        /\ registry'.claimId = registry.claimId /\ registry'.ownerId = registry.ownerId
    BY <1>0 DEF FleetHook, PinCertificate, TypeOK, RegistryRow
  <2>2. ~Bound
    BY <2>1 DEF SystemInv, TablesAgree, ReservedAgrees
  <2>3. ThingInv'
    BY <1>0, <2>0 DEF ServiceInv, ThingInv, Authorized, SystemInv, SystemTypeOK, ThingState
  <2>4. ClaimedInv'
    BY <1>0, <2>0 DEF ServiceInv, ClaimedInv
  <2>5. Verified'
    <3>1. ASSUME NEW l \in Lease, Current(l), fin[l].pc \in {"thing"} \cup Ready
          PROVE  /\ Checked(fin[l].pc, fin[l].cert, registry.ownerId)
                 /\ fin[l].cert \in Cert /\ registry'.latestCertificateId = fin[l].cert
      BY <1>0, <2>1, <3>1, NoneApart DEF ServiceInv, Verified, Checked, Ready
    <3> QED
      BY <1>0, <2>0, <2>1, <3>1 DEF Verified, Current, Checked, Ready, Alone
  <2>6. BootInv' /\ Serviceable'
    BY <1>0, <2>2 DEF BootInv, Serviceable, Authorized, Bound
  <2>7. ReleaseInv'
    <3>1. ASSUME NEW r \in Release, rel[r].pc # "new"
          PROVE  Gone(rel[r].cert)'
      BY <1>0, <2>0, <2>1, <2>2, <3>1 DEF ServiceInv, ReleaseInv, Gone, Authorized, Bound
    <3> QED
      BY <1>0, <3>1 DEF ReleaseInv, Gone
  <2> QED
    BY <2>3, <2>4, <2>5, <2>6, <2>7 DEF ServiceInv
<1>2. CASE FleetRegister(x)
  <2>0. /\ cert[x].status # "INACTIVE" /\ cert'[x].status = "ACTIVE" /\ UNCHANGED tvars
        /\ cert[x].policies \subseteq cert'[x].policies
        /\ \A y \in Cert \ {x} : cert'[y] = cert[y]
        /\ thing'.exists /\ thing'.principals = thing.principals \cup {x}
        /\ thing'.owner = cert[x].owner /\ registry.ownerId \in {cert[x].owner, None}
        /\ registry.latestCertificateId = x
    BY <1>0, <1>2 DEF FleetRegister, CertState
  <2>1. Bound => device.certificateId = x /\ device.ownerId = cert[x].owner
    <3>1. ASSUME Bound PROVE registry.status \in {"BOOTSTRAPPED", "RUNTIME_AUTHORIZED"}
      BY <1>0, <3>1 DEF SystemInv, TablesAgree, SpareAgrees, ReservedAgrees, TypeOK,
                        RegistryRow, RegistryStatus
    <3>2. ASSUME Bound PROVE device.certificateId = x /\ device.ownerId = registry.ownerId
      BY <2>0, <3>1, <3>2 DEF SystemInv, TablesAgree, BoundAgrees
    <3> QED
      BY <1>0, <2>0, <3>2, BoundIsKnown, NoneApart DEF SystemInv
  <2>2. registry.status = "RESERVED" => registry.ownerId = cert[x].owner
    BY <2>0, NoneApart DEF SystemInv, JobsKnown, TablesAgree, ReservedAgrees
  <2>3. ThingInv'
    BY <1>0, <2>0 DEF ServiceInv, ThingInv, SystemInv, SystemTypeOK, ThingState
  <2>4. ClaimedInv'
    BY <1>0, <2>0 DEF ServiceInv, ClaimedInv, tvars
  <2>5. Verified'
    <3>1. ASSUME NEW l \in Lease, Current(l), fin[l].pc \in {"thing"} \cup Ready
          PROVE  /\ fin[l].cert = x /\ Checked(fin[l].pc, x, registry.ownerId)
                 /\ registry.ownerId = cert[x].owner
      BY <2>0, <2>2, <3>1 DEF Current, ServiceInv, Verified, Checked
    <3> QED
      BY <1>0, <2>0, <3>1 DEF Verified, Current, Checked, Ready, Alone, tvars
  <2>6. BootInv'
    BY <1>0, <2>0, <2>1 DEF ServiceInv, BootInv, Alone, Bound, tvars
  <2>7. Serviceable'
    BY <1>0, <2>0, <2>1 DEF ServiceInv, Serviceable, Alone, Authorized, Bound, tvars
  <2>8. ReleaseInv'
    <3>1. \A y \in Cert : Gone(y) => Gone(y)'
      BY <2>0 DEF Gone, tvars
    <3>2. ASSUME NEW r \in Release, rel[r].pc # "new", Authorized,
                 device.certificateId = rel[r].cert
          PROVE  rel[r].pc # "revoke"
      BY <2>0, <2>1, <3>2 DEF SystemInv, Armed, Disabled, Authorized, Bound
    <3> QED
      BY <1>0, <2>0, <3>1, <3>2 DEF ServiceInv, ReleaseInv, Authorized, Gone, tvars
  <2> QED
    BY <2>3, <2>4, <2>5, <2>6, <2>7, <2>8 DEF ServiceInv
<1>3. CASE DevicePublish(x)
  <2>1. UNCHANGED <<tvars, cert, thing>>
    BY <1>3 DEF DevicePublish, cloud
  <2> QED
    BY <1>0, <2>1, Stays DEF tvars
<1> QED
  BY <1>1, <1>2, <1>3 DEF FleetStep

----------------------------------------------------------------------------
LEMMA ServiceStep == SystemInv /\ ServiceInv /\ [SystemNext]_svars => ServiceInv'
<1> SUFFICES ASSUME SystemInv, ServiceInv, [SystemNext]_svars PROVE ServiceInv'
  OBVIOUS
<1>0. SystemInv' /\ [Next]_tvars /\ TypeOK
  BY SystemInvStep, StepIsTables DEF SystemInv, SystemTypeOK
<1>1. CASE OneWrite
  <2>1. UNCHANGED <<device, cert, thing, fin, rel>>
    BY <1>1 DEF OneWrite, CreateClaim, MarkReissueRequired, ExpireClaim, SweepClaim, SweepLock,
                Reissue, Tick, tables, cloud
  <2>2. registry'.latestCertificateId \in {registry.latestCertificateId, None}
    <3>1. CASE \E k \in Code : Reissue(k)
      <4>1. \A k : Stocked(k).latestCertificateId = None
        BY DEF Stocked, NoRegistryRow
      <4> QED
        BY <3>1 DEF Reissue, Stocked, NoRegistryRow
    <3>2. CASE ~\E k \in Code : Reissue(k)
      BY <1>0, <1>1, <3>2 DEF OneWrite, CreateClaim, MarkReissueRequired, ExpireClaim, SweepClaim,
                SweepLock, Tick, tables, TypeOK, RegistryRow
    <3> QED
      BY <3>1, <3>2
  <2> QED
    BY <1>0, <2>1, <2>2, Stays
<1>2. CASE \E m \in uplinks : IngestFirstState(m)
  <2>1. /\ UNCHANGED <<cert, thing, fin, rel, registry>>
        /\ device.lifecycle = "RUNTIME_AUTHORIZED" /\ device'.lifecycle = "ACTIVE"
        /\ device'.certificateId = device.certificateId /\ device'.ownerId = device.ownerId
    BY <1>0, <1>2 DEF IngestFirstState, ApplyFirstState, cloud, TypeOK, DeviceRow
  <2> QED
    BY <1>0, <2>1, Stays
<1>3. CASE UNCHANGED svars
  BY <1>0, <1>3, Stays DEF svars
<1> QED
  BY <1>0, <1>1, <1>2, <1>3, FinServes, RelServes, FleetServes DEF SystemNext

LEMMA ServiceStart == SystemInit => ServiceInv
<1> SUFFICES ASSUME SystemInit PROVE ServiceInv
  OBVIOUS
<1>1. /\ device.lifecycle = "NONE" /\ registry.latestCertificateId = None
      /\ registry.status = "AVAILABLE"
      /\ ~thing.exists /\ thing.principals = {}
      /\ \A l \in Lease : fin[l].pc = "new"
      /\ \A r \in Release : rel[r].pc = "new"
  BY DEF SystemInit, Init, Stocked, NoRegistryRow, NoDeviceRow, NewFinJob
<1> QED
  BY <1>1 DEF ServiceInv, ThingInv, ClaimedInv, Verified, Current, BootInv, ReleaseInv,
              Serviceable, Authorized

\* The rows say RUNTIME_AUTHORIZED or ACTIVE only for a device that can work,
\* or that a release has disabled, however finalizers and releases overlap.
THEOREM AuthorizedAlwaysServiceable == System => []AuthorizedIsServiceable
<1>1. Serviceable => AuthorizedIsServiceable
  BY DEF Serviceable, AuthorizedIsServiceable, Authorized, Usable, Alone, After
<1> QED
  BY <1>1, SystemInvariant, ServiceStart, ServiceStep, PTL DEF System, ServiceInv
=============================================================================
