-------------------------- MODULE OwnershipProofs --------------------------
(* What holds of OwnershipTables for any number of accounts, codes, claims *)
(* and certificates, any lifetimes and any clock lag.                      *)
EXTENDS OwnershipTables, TLAPS

USE OwnershipAssumption

----------------------------------------------------------------------------
(* The clock readings a write can carry.                                   *)
LEMMA ReadingNat ==
    ASSUME now \in Nat, NEW t \in Reading
    PROVE  t \in Nat /\ t <= now
BY DEF Reading

(* The absent value is none of the values it stands beside, and a nonce    *)
(* tells its account and its code.                                         *)
LEMMA NoneApart ==
    /\ None \notin Owner /\ None \notin Code /\ None \notin Claim
    /\ None \notin Cert /\ None \notin Lease
    /\ None # "CLAIM_PENDING" /\ None # "BOOTSTRAPPED"
    /\ \A o \in Owner, k \in Code : NonceFor(o, k) # None
    /\ \A o, p \in Owner, j, k \in Code : NonceFor(o, j) = NonceFor(p, k) => j = k
BY OwnershipAssumption DEF NonceFor

(* Rewriting one claim row with a claim row.                               *)
LEMMA RewriteClaim ==
    ASSUME claims \in [Claim -> ClaimRow], NEW c \in Claim, NEW row \in ClaimRow,
           claims' = [claims EXCEPT ![c] = row]
    PROVE  /\ claims' \in [Claim -> ClaimRow]
           /\ claims'[c] = row
           /\ \A d \in Claim \ {c} : claims'[d] = claims[d]
OBVIOUS

(* Rewriting attributes of a claim row: the deadlines, or the lease.       *)
LEMMA RowTimes ==
    ASSUME NEW row \in ClaimRow, NEW a \in Nat, NEW b \in Nat
    PROVE  /\ [row EXCEPT !.expiresAt = b] \in ClaimRow
           /\ [row EXCEPT !.claimExpiresAt = a, !.expiresAt = b] \in ClaimRow
BY DEF ClaimRow

LEMMA RowLease ==
    ASSUME NEW row \in ClaimRow, NEW s \in ClaimStatus, NEW l \in Maybe(Lease), NEW e \in Nat,
           NEW r \in {None, "CLAIM_PENDING", "BOOTSTRAPPED"}
    PROVE  [row EXCEPT !.status = s, !.resume = r, !.leaseId = l, !.leaseExpiresAt = e]
             \in ClaimRow
BY DEF ClaimRow

LEMMA RowFields ==
    ASSUME NEW row \in ClaimRow
    PROVE  /\ row.status \in ClaimStatus /\ row.expiresAt \in Nat /\ row.claimExpiresAt \in Nat
           /\ row.nonceHash \in Maybe(Nonce) /\ row.ownerId \in Maybe(Owner)
BY DEF ClaimRow

(* A reserved unit's registry row.                                         *)
LEMMA ReservedRow ==
    ASSUME NEW row \in RegistryRow, NEW c \in Maybe(Claim), NEW o \in Maybe(Owner),
           NEW n \in Maybe(Nonce), NEW t \in Nat
    PROVE  [row EXCEPT !.status = "RESERVED", !.claimId = c, !.ownerId = o, !.nonceHash = n,
                       !.reservationExpiresAt = t, !.registrationCodeHash = None]
             \in RegistryRow
<1>1. "RESERVED" \in RegistryStatus /\ None \in Maybe(Code)
  BY DEF RegistryStatus, Maybe
<1> QED
  BY <1>1 DEF RegistryRow

(* Taking the lease out of a row.                                          *)
LEMMA UnleasedType ==
    ASSUME NEW row \in ClaimRow, NEW s \in ClaimStatus
    PROVE  /\ Unleased(row, s) \in ClaimRow
           /\ Unleased(row, s).status = s
           /\ Unleased(row, s).resume = None
           /\ Unleased(row, s).ownerId = row.ownerId
           /\ Unleased(row, s).nonceHash = row.nonceHash
           /\ Unleased(row, s).expiresAt = row.expiresAt
           /\ Unleased(row, s).claimExpiresAt = row.claimExpiresAt
BY DEF Unleased, ClaimRow, Maybe

(* Initial states are well typed.                                          *)
LEMMA InitType == Init => TypeOK
<1> SUFFICES ASSUME Init PROVE TypeOK
  OBVIOUS
<1>1. NoClaimRow \in ClaimRow
  BY DEF NoClaimRow, ClaimRow, ClaimStatus, Maybe
<1>2. NoLockRow \in LockRow /\ NoDeviceRow \in DeviceRow
  BY DEF NoLockRow, LockRow, NoDeviceRow, DeviceRow, Lifecycle, Maybe
<1>3. \A k \in Code : Stocked(k) \in RegistryRow
  BY DEF Stocked, NoRegistryRow, RegistryRow, RegistryStatus, Maybe
<1> QED
  BY <1>1, <1>2, <1>3 DEF Init, TypeOK

(* Every step keeps the rows well typed.                                   *)
LEMMA NextType == TypeOK /\ [Next]_tvars => TypeOK'
<1> SUFFICES ASSUME TypeOK, [Next]_tvars PROVE TypeOK'
  OBVIOUS
<1> USE DEF TypeOK
<1>0. \A c \in Claim : claims[c] \in ClaimRow
  OBVIOUS
<1>1. ASSUME NEW c \in Claim, NEW o \in Owner, NEW k \in Code, NEW t \in Reading,
             CreateClaim(c, o, k, t)
      PROVE  TypeOK'
  <2> t + ClaimTtl \in Nat
    BY ReadingNat
  <2>1. [NoClaimRow EXCEPT !.status = "CLAIM_PENDING", !.ownerId = o,
            !.nonceHash = NonceFor(o, k), !.expiresAt = t + ClaimTtl] \in ClaimRow
    BY DEF NoClaimRow, ClaimRow, ClaimStatus, Maybe, NonceFor, Nonce
  <2>2. registry' \in RegistryRow
    <3>1. c \in Maybe(Claim) /\ o \in Maybe(Owner) /\ NonceFor(o, k) \in Maybe(Nonce)
      BY DEF Maybe, NonceFor, Nonce
    <3> QED
      BY <1>1, <3>1, ReservedRow DEF CreateClaim
  <2>3. lock' \in LockRow
    BY <1>1 DEF CreateClaim, LockRow, Maybe
  <2> QED
    BY <1>1, <2>1, <2>2, <2>3, RewriteClaim DEF CreateClaim
<1>2. ASSUME NEW c \in Claim, NEW t \in Reading, ExpireClaim(c, t)
      PROVE  TypeOK'
  BY <1>0, <1>2, UnleasedType, RewriteClaim DEF ExpireClaim, ClaimStatus
<1>3. ASSUME NEW c \in Claim, NEW l \in Lease, NEW t \in Reading,
             StartLease(c, l, t) \/ RecoverLease(c, l, t)
      PROVE  TypeOK'
  <2> t + LeaseTtl \in Nat
    BY ReadingNat
  <2>1. CASE StartLease(c, l, t)
    <3> DEFINE row == [claims[c] EXCEPT !.status = "PROVISIONING", !.resume = claims[c].status,
                           !.leaseId = l, !.leaseExpiresAt = t + LeaseTtl]
    <3>1. row \in ClaimRow
      <4>1. claims[c].status \in {None, "CLAIM_PENDING", "BOOTSTRAPPED"}
        BY <2>1 DEF StartLease, Startable
      <4>2. "PROVISIONING" \in ClaimStatus /\ l \in Maybe(Lease)
        BY DEF ClaimStatus, Maybe
      <4> QED
        BY <1>0, <4>1, <4>2, RowLease
    <3> QED
      BY <2>1, <3>1, RewriteClaim DEF StartLease, Startable
  <2>2. CASE RecoverLease(c, l, t)
    <3> DEFINE row == [claims[c] EXCEPT !.leaseId = l, !.leaseExpiresAt = t + LeaseTtl]
    <3>1. row \in ClaimRow
      BY <1>0 DEF ClaimRow, Maybe
    <3> QED
      BY <2>2, <3>1, RewriteClaim DEF RecoverLease, Recoverable
  <2> QED
    BY <1>3, <2>1, <2>2
<1>4. ASSUME NEW c \in Claim, NEW l \in Lease, ReleaseLease(c, l)
      PROVE  TypeOK'
  <2>1. claims[c].resume \in ClaimStatus
    BY <1>0, <1>4 DEF ReleaseLease, ClaimRow, ClaimStatus
  <2> QED
    BY <1>0, <1>4, <2>1, UnleasedType, RewriteClaim DEF ReleaseLease
<1>5. ASSUME NEW c \in Claim, NEW n \in Nonce, NEW x \in Cert, NEW t \in Reading,
             PinCertificate(c, n, x, t)
      PROVE  TypeOK'
  BY <1>5 DEF PinCertificate, RegistryRow, Maybe
<1>6. ASSUME NEW c \in Claim, NEW l \in Lease, NEW x \in Cert, NEW t \in Reading,
             BootstrapFresh(c, l, x, t)
      PROVE  TypeOK'
  <2>1. [Unleased(claims[c], "BOOTSTRAPPED") EXCEPT
            !.claimExpiresAt = claims[c].expiresAt, !.expiresAt = 0] \in ClaimRow
    <3>1. "BOOTSTRAPPED" \in ClaimStatus /\ claims[c].expiresAt \in Nat
      BY <1>0, RowFields DEF ClaimStatus
    <3>2. Unleased(claims[c], "BOOTSTRAPPED") \in ClaimRow
      BY <1>0, <3>1, UnleasedType
    <3> QED
      BY <3>1, <3>2, RowTimes
  <2>2. registry' \in RegistryRow
    BY <1>6 DEF BootstrapFresh, BoundClaim, RegistryRow, RegistryStatus, Maybe
  <2>3. lock' \in LockRow
    BY <1>6 DEF BootstrapFresh, BoundClaim, LockRow
  <2>4. device' \in DeviceRow
    BY <1>0, <1>6 DEF BootstrapFresh, BoundClaim, DeviceRow, Lifecycle, Maybe, ClaimRow
  <2> QED
    BY <1>6, <2>1, <2>2, <2>3, <2>4, RewriteClaim DEF BootstrapFresh, BoundClaim
<1>7. ASSUME NEW c \in Claim, NEW l \in Lease, NEW x \in Cert, BootstrapResumed(c, l, x)
      PROVE  TypeOK'
  BY <1>0, <1>7, UnleasedType, RewriteClaim DEF BootstrapResumed, ClaimStatus
<1>8. ASSUME NEW c \in Claim, NEW x \in Cert, AuthorizeRuntimeClaim(c, x)
      PROVE  TypeOK'
  <2>1. [claims[c] EXCEPT !.status = "RUNTIME_AUTHORIZED"] \in ClaimRow
    BY <1>0 DEF ClaimRow, ClaimStatus
  <2>2. registry' \in RegistryRow
    BY <1>8 DEF AuthorizeRuntimeClaim, RegistryRow, RegistryStatus
  <2>3. device' \in DeviceRow
    BY <1>8 DEF AuthorizeRuntimeClaim, DeviceRow, Lifecycle
  <2> QED
    BY <1>8, <2>1, <2>2, <2>3, RewriteClaim DEF AuthorizeRuntimeClaim
<1>9. ASSUME NEW c \in Claim, ApplyFirstState(c)
      PROVE  TypeOK'
  <2>1. [claims[c] EXCEPT !.status = "ONLINE"] \in ClaimRow
    BY <1>0 DEF ClaimRow, ClaimStatus
  <2>2. device' \in DeviceRow
    BY <1>9 DEF ApplyFirstState, DeviceRow, Lifecycle
  <2> QED
    BY <1>9, <2>1, <2>2, RewriteClaim DEF ApplyFirstState
<1>10. ASSUME NEW c \in Claim, SweepClaim(c)
       PROVE  TypeOK'
  <2>1. [Unleased(claims[c], "DELETED") EXCEPT !.expiresAt = 0] \in ClaimRow
    <3>1. Unleased(claims[c], "DELETED") \in ClaimRow
      BY <1>0, UnleasedType DEF ClaimStatus
    <3> QED
      BY <3>1, RowTimes
  <2> QED
    BY <1>10, <2>1, RewriteClaim DEF SweepClaim
<1>11. ASSUME NEW o \in Owner, NEW k \in Code, NEW t \in Reading,
              MarkReissueRequired(o, k, t)
       PROVE  TypeOK'
  BY <1>11 DEF MarkReissueRequired, RegistryRow, RegistryStatus, Maybe
<1>12. ASSUME NEW o \in Owner, NEW x \in Cert, RevokeDevice(o, x)
       PROVE  TypeOK'
  <2>1. lock.claimId \in Claim
    BY <1>12 DEF RevokeDevice, Revocable, LockRow, Maybe
  <2>2. [claims[lock.claimId] EXCEPT !.status = "REVOKED"] \in ClaimRow
    BY <1>0, <2>1 DEF ClaimRow, ClaimStatus
  <2>3. NoRegistryRow \in RegistryRow /\ NoLockRow \in LockRow
    BY DEF NoRegistryRow, RegistryRow, RegistryStatus, NoLockRow, LockRow, Maybe
  <2>4. device' \in DeviceRow
    BY <1>12 DEF RevokeDevice, DeviceRow, Lifecycle
  <2> QED
    BY <1>12, <2>1, <2>2, <2>3, <2>4, RewriteClaim DEF RevokeDevice
<1>13. CASE SweepLock
  BY <1>13 DEF SweepLock, NoLockRow, LockRow, Maybe
<1>14. ASSUME NEW k \in Code, Reissue(k)
       PROVE  TypeOK'
  <2>1. PICK x \in {None, registry.latestCertificateId} :
            registry' = [Stocked(k) EXCEPT !.latestCertificateId = x]
    BY <1>14 DEF Reissue
  <2>2. x \in Maybe(Cert)
    BY <2>1 DEF RegistryRow, Maybe
  <2>3. Stocked(k) \in RegistryRow
    BY DEF Stocked, NoRegistryRow, RegistryRow, RegistryStatus, Maybe
  <2>4. registry' \in RegistryRow
    BY <2>1, <2>2, <2>3 DEF RegistryRow
  <2> QED
    BY <1>14, <2>4 DEF Reissue
<1>15. CASE Tick
  BY <1>15 DEF Tick, tables
<1>16. CASE UNCHANGED tvars
  BY <1>16 DEF tvars
<1>17. CASE \E c \in Claim : ClaimStep(c)
  BY <1>17, <1>1, <1>2, <1>3, <1>4, <1>5, <1>6, <1>7, <1>8, <1>9, <1>10 DEF ClaimStep
<1> QED
  BY <1>11, <1>12, <1>13, <1>14, <1>15, <1>16, <1>17 DEF Next

(* In every reachable state each of the four tables holds well-formed rows *)
(* only.                                                                   *)
THEOREM TypeCorrect == Spec => []TypeOK
BY InitType, NextType, PTL DEF Spec

----------------------------------------------------------------------------
(* The parts of TablesAgree in the primed state, from facts about the      *)
(* rows: used by every step below.                                         *)

(* A step that rewrites one claim row and leaves the other three alone.    *)
(* Its row keeps owner and nonce, stays bound if it was bound, and stops   *)
(* waiting only when its time has run out.                                 *)
LEMMA ClaimOnlyStep ==
    ASSUME TypeOK, TablesAgree, NEW c \in Claim, NEW row \in ClaimRow,
           claims' = [claims EXCEPT ![c] = row],
           UNCHANGED <<now, registry, lock, device>>,
           row.ownerId = claims[c].ownerId, row.nonceHash = claims[c].nonceHash,
           ClaimShape(c)',
           Live(c)' <=> Live(c),
           Waiting(c)' => Waiting(c) /\ row.expiresAt = claims[c].expiresAt,
           Waiting(c) => Waiting(c)' \/ Past(claims[c].expiresAt, now),
           row.status \notin {"ABSENT", "REVOKED"},
           Live(c) => \/ row.status = claims[c].status
                      \/ /\ row.status \in {"BOOTSTRAPPED", "PROVISIONING"}
                         /\ claims[c].status \in {"BOOTSTRAPPED", "PROVISIONING"}
    PROVE  TablesAgree'
<1>1. /\ claims'[c] = row
      /\ \A d \in Claim \ {c} : claims'[d] = claims[d]
      /\ \A d \in Claim : claims'[d].ownerId = claims[d].ownerId
                          /\ claims'[d].nonceHash = claims[d].nonceHash
  BY DEF TypeOK
<1>2. \A d \in Claim \ {c} : /\ ClaimShape(d)' <=> ClaimShape(d)
                             /\ Live(d)' <=> Live(d)
                             /\ Waiting(d)' <=> Waiting(d)
  BY <1>1 DEF ClaimShape, Live, Waiting
<1>3. (\A d \in Claim : ClaimShape(d))'
  BY <1>2 DEF TablesAgree
<1>4. SpareAgrees'
  BY DEF TablesAgree, SpareAgrees, Bound, LockStale, Past
<1>5. ReservedAgrees'
  BY <1>1, <1>2 DEF TablesAgree, ReservedAgrees, Bound, Past
<1>6. BoundAgrees'
  BY <1>1, <1>2 DEF TablesAgree, BoundAgrees, Bound
<1>7. StagesAgree'
  BY <1>1, <1>2 DEF TablesAgree, StagesAgree, BoundAgrees, Live
<1>8. OthersOver'
  BY <1>1, <1>2 DEF TablesAgree, OthersOver, Past
<1>9. CodeSpent' /\ CodeSingleUse'
  BY <1>1 DEF TablesAgree, CodeSpent, CodeUnused, CodeSingleUse
<1> QED
  BY <1>3, <1>4, <1>5, <1>6, <1>7, <1>8, <1>9 DEF TablesAgree

LEMMA InitAgrees == Init => TablesAgree
<1> SUFFICES ASSUME Init PROVE TablesAgree
  OBVIOUS
<1>1. PICK k \in Code : registry = Stocked(k)
  BY DEF Init
<1>2. /\ registry.status = "AVAILABLE" /\ registry.registrationCodeHash = k
      /\ registry.claimId = None /\ registry.ownerId = None
  BY <1>1 DEF Stocked, NoRegistryRow
<1>3. \A c \in Claim : claims[c] = NoClaimRow
  BY DEF Init
<1>4. \A c \in Claim : ~Waiting(c) /\ ~Live(c) /\ claims[c].nonceHash = None
  BY <1>3 DEF Waiting, Live, NoClaimRow
<1>5. \A c \in Claim : ClaimShape(c)
  BY <1>3, <1>4 DEF ClaimShape, NoClaimRow
<1>6. SpareAgrees
  BY <1>2 DEF Init, SpareAgrees, Bound, NoDeviceRow, LockStale, NoLockRow
<1>7. ReservedAgrees /\ BoundAgrees /\ StagesAgree
  BY <1>2 DEF ReservedAgrees, BoundAgrees, StagesAgree
<1>8. OthersOver
  BY <1>4 DEF OthersOver
<1>9. CodeSpent /\ CodeSingleUse
  BY <1>2, <1>4, NoneApart DEF CodeSpent, CodeUnused, CodeSingleUse
<1> QED
  BY <1>5, <1>6, <1>7, <1>8, <1>9 DEF TablesAgree

LEMMA ExpireClaimAgrees ==
    ASSUME TypeOK, TablesAgree, NEW c \in Claim, NEW t \in Reading, ExpireClaim(c, t)
    PROVE  TablesAgree'
<1> DEFINE row == Unleased(claims[c], "EXPIRED")
<1>1. claims[c] \in ClaimRow /\ now \in Nat
  BY DEF TypeOK
<1>2. row \in ClaimRow /\ row.status = "EXPIRED" /\ row.ownerId = claims[c].ownerId
      /\ row.nonceHash = claims[c].nonceHash
  BY <1>1, UnleasedType DEF ClaimStatus
<1>3. claims' = [claims EXCEPT ![c] = row] /\ claims'[c] = row
      /\ UNCHANGED <<now, registry, lock, device>>
  BY DEF ExpireClaim, TypeOK
<1>4. Waiting(c) /\ ~Live(c) /\ Past(claims[c].expiresAt, now)
  BY <1>1, ReadingNat DEF ExpireClaim, Waiting, Live, Past, ClaimRow
<1>5. ~Waiting(c)' /\ ~Live(c)' /\ ClaimShape(c)'
  BY <1>2, <1>3 DEF Waiting, Live, ClaimShape
<1> QED
  BY <1>2, <1>3, <1>4, <1>5, ClaimOnlyStep

LEMMA StartLeaseAgrees ==
    ASSUME TypeOK, TablesAgree, NEW c \in Claim, NEW l \in Lease, NEW t \in Reading,
           StartLease(c, l, t)
    PROVE  TablesAgree'
<1> DEFINE row == [claims[c] EXCEPT !.status = "PROVISIONING", !.resume = claims[c].status,
                       !.leaseId = l, !.leaseExpiresAt = t + LeaseTtl]
<1>1. claims[c] \in ClaimRow /\ now \in Nat /\ t + LeaseTtl \in Nat /\ t + LeaseTtl > 0
  BY ReadingNat DEF TypeOK
<1>2. claims[c].status \in {"CLAIM_PENDING", "BOOTSTRAPPED"}
  BY DEF StartLease, Startable
<1>3. row \in ClaimRow
  BY <1>1, <1>2 DEF ClaimRow, ClaimStatus, Maybe
<1>4. /\ row.status = "PROVISIONING" /\ row.resume = claims[c].status
      /\ row.leaseId = l /\ row.leaseExpiresAt > 0
      /\ row.expiresAt = claims[c].expiresAt /\ row.claimExpiresAt = claims[c].claimExpiresAt
      /\ row.ownerId = claims[c].ownerId /\ row.nonceHash = claims[c].nonceHash
  BY <1>1 DEF ClaimRow
<1>5. claims' = [claims EXCEPT ![c] = row] /\ claims'[c] = row
      /\ UNCHANGED <<now, registry, lock, device>>
  BY DEF StartLease, Startable, TypeOK
<1>6. (Live(c)' <=> Live(c)) /\ (Waiting(c)' <=> Waiting(c))
  BY <1>2, <1>4, <1>5 DEF Waiting, Live
<1>7. ClaimShape(c)'
  BY <1>2, <1>4, <1>5, <1>6, NoneApart DEF TablesAgree, ClaimShape
<1> HIDE DEF row
<1> QED
  <2>1. Live(c) => claims[c].status = "BOOTSTRAPPED"
    BY <1>2 DEF Live
  <2> QED
    BY <2>1, <1>3, <1>4, <1>5, <1>6, <1>7, ClaimOnlyStep

LEMMA RecoverLeaseAgrees ==
    ASSUME TypeOK, TablesAgree, NEW c \in Claim, NEW l \in Lease, NEW t \in Reading,
           RecoverLease(c, l, t)
    PROVE  TablesAgree'
<1> DEFINE row == [claims[c] EXCEPT !.leaseId = l, !.leaseExpiresAt = t + LeaseTtl]
<1>1. claims[c] \in ClaimRow /\ now \in Nat /\ t + LeaseTtl \in Nat /\ t + LeaseTtl > 0
  BY ReadingNat DEF TypeOK
<1>2. claims[c].status = "PROVISIONING" /\ claims[c].resume # None
  BY NoneApart DEF RecoverLease, Recoverable
<1>3. row \in ClaimRow
  BY <1>1 DEF ClaimRow, Maybe
<1>4. /\ row.status = claims[c].status /\ row.resume = claims[c].resume
      /\ row.leaseId = l /\ row.leaseExpiresAt > 0
      /\ row.expiresAt = claims[c].expiresAt /\ row.claimExpiresAt = claims[c].claimExpiresAt
      /\ row.ownerId = claims[c].ownerId /\ row.nonceHash = claims[c].nonceHash
  BY <1>1 DEF ClaimRow
<1>5. claims' = [claims EXCEPT ![c] = row] /\ claims'[c] = row
      /\ UNCHANGED <<now, registry, lock, device>>
  BY DEF RecoverLease, Recoverable, TypeOK
<1>6. (Live(c)' <=> Live(c)) /\ (Waiting(c)' <=> Waiting(c))
  BY <1>4, <1>5 DEF Waiting, Live
<1>7. ClaimShape(c)'
  BY <1>2, <1>4, <1>5, <1>6, NoneApart DEF TablesAgree, ClaimShape
<1> HIDE DEF row
<1> QED
  BY <1>2, <1>3, <1>4, <1>5, <1>6, <1>7, ClaimOnlyStep

(* Giving a lease back to a claim, whatever the reason.                    *)
LEMMA UnleaseAgrees ==
    ASSUME TypeOK, TablesAgree, NEW c \in Claim,
           claims[c].status = "PROVISIONING",
           claims' = [claims EXCEPT ![c] = Unleased(claims[c], claims[c].resume)],
           UNCHANGED <<now, registry, lock, device>>
    PROVE  TablesAgree'
<1> DEFINE row == Unleased(claims[c], claims[c].resume)
<1>1. claims[c] \in ClaimRow
  BY DEF TypeOK
<1>2. claims[c].resume \in {"CLAIM_PENDING", "BOOTSTRAPPED"}
  BY <1>1 DEF TablesAgree, ClaimShape, ClaimRow
<1>3. /\ row \in ClaimRow /\ row.status = claims[c].resume
      /\ row.ownerId = claims[c].ownerId /\ row.nonceHash = claims[c].nonceHash
      /\ row.expiresAt = claims[c].expiresAt /\ row.claimExpiresAt = claims[c].claimExpiresAt
  BY <1>1, <1>2, UnleasedType DEF ClaimStatus
<1>4. claims'[c] = row
  BY DEF TypeOK
<1>5. (Live(c)' <=> Live(c)) /\ (Waiting(c)' <=> Waiting(c))
  BY <1>2, <1>3, <1>4 DEF Waiting, Live
<1>6. ClaimShape(c)'
  BY <1>2, <1>3, <1>4, <1>5 DEF TablesAgree, ClaimShape
<1> HIDE DEF row
<1> QED
  <2>1. Live(c) => row.status = "BOOTSTRAPPED"
    BY <1>2, <1>3 DEF Live
  <2>2. row.status \notin {"ABSENT", "REVOKED"}
    BY <1>2, <1>3
  <2>3. claims' = [claims EXCEPT ![c] = row]
    BY DEF row
  <2> QED
    BY <2>1, <2>2, <2>3, <1>3, <1>4, <1>5, <1>6, ClaimOnlyStep

LEMMA SweepClaimAgrees ==
    ASSUME TypeOK, TablesAgree, NEW c \in Claim, SweepClaim(c)
    PROVE  TablesAgree'
<1> DEFINE row == [Unleased(claims[c], "DELETED") EXCEPT !.expiresAt = 0]
<1>1. claims[c] \in ClaimRow
  BY DEF TypeOK
<1>2. /\ row \in ClaimRow /\ row.status = "DELETED"
      /\ row.ownerId = claims[c].ownerId /\ row.nonceHash = claims[c].nonceHash
  BY <1>1 DEF Unleased, ClaimRow, ClaimStatus, Maybe
<1>3. claims' = [claims EXCEPT ![c] = row] /\ claims'[c] = row
      /\ UNCHANGED <<now, registry, lock, device>>
  BY DEF SweepClaim, TypeOK
<1>4. Past(claims[c].expiresAt, now) /\ ~Live(c)
  BY DEF SweepClaim, Past, TablesAgree, ClaimShape
<1>5. ~Waiting(c)' /\ ~Live(c)' /\ ClaimShape(c)'
  BY <1>2, <1>3 DEF Waiting, Live, ClaimShape
<1> HIDE DEF row
<1> QED
  BY <1>2, <1>3, <1>4, <1>5, ClaimOnlyStep

(* A step that rewrites no claim row keeps what is said of claims alone.   *)
LEMMA SameClaims ==
    ASSUME UNCHANGED claims
    PROVE  /\ \A d \in Claim : /\ ClaimShape(d)' <=> ClaimShape(d)
                               /\ Live(d)' <=> Live(d)
                               /\ Waiting(d)' <=> Waiting(d)
           /\ CodeSingleUse' <=> CodeSingleUse
           /\ \A k \in Code : CodeUnused(k)' <=> CodeUnused(k)
BY DEF ClaimShape, Live, Waiting, CodeSingleUse, CodeUnused

(* Time that has passed stays passed.                                      *)
LEMMA TickAgrees ==
    ASSUME TypeOK, TablesAgree, Tick
    PROVE  TablesAgree'
<1>1. now \in Nat /\ now' = now + 1 /\ UNCHANGED <<registry, claims, lock, device>>
  BY DEF Tick, tables, TypeOK
<1>2. \A at \in Nat : Past(at, now) => Past(at, now')
  BY <1>1 DEF Past
<1>3. lock.expiresAt \in Nat /\ registry.reservationExpiresAt \in Nat
  BY DEF TypeOK, LockRow, RegistryRow
<1>4. \A d \in Claim : claims[d].expiresAt \in Nat
  BY DEF TypeOK, ClaimRow
<1>5. SpareAgrees'
  BY <1>1, <1>2, <1>3 DEF TablesAgree, SpareAgrees, Bound, LockStale
<1>6. ReservedAgrees'
  BY <1>1, <1>3, SameClaims DEF TablesAgree, ReservedAgrees, Bound
<1>7. BoundAgrees' /\ StagesAgree'
  BY <1>1, SameClaims DEF TablesAgree, BoundAgrees, StagesAgree, Bound
<1>8. OthersOver'
  BY <1>1, <1>2, <1>4, SameClaims DEF TablesAgree, OthersOver
<1>9. CodeSpent'
  BY <1>1, SameClaims DEF TablesAgree, CodeSpent
<1> QED
  BY <1>1, <1>5, <1>6, <1>7, <1>8, <1>9, SameClaims DEF TablesAgree

LEMMA SweepLockAgrees ==
    ASSUME TypeOK, TablesAgree, SweepLock
    PROVE  TablesAgree'
<1>1. UNCHANGED <<now, registry, claims, device>> /\ lock' = NoLockRow
      /\ Past(lock.expiresAt, now)
  BY DEF SweepLock
<1>2. registry.status \notin {"BOOTSTRAPPED", "RUNTIME_AUTHORIZED"}
  BY <1>1 DEF TablesAgree, BoundAgrees, Past
<1>3. SpareAgrees'
  BY <1>1 DEF TablesAgree, SpareAgrees, Bound, LockStale, NoLockRow
<1>4. ReservedAgrees'
  BY <1>1, SameClaims DEF TablesAgree, ReservedAgrees, Bound, Past
<1>5. BoundAgrees' /\ StagesAgree'
  BY <1>1, <1>2 DEF BoundAgrees, StagesAgree
<1>6. OthersOver' /\ CodeSpent'
  BY <1>1, SameClaims DEF TablesAgree, OthersOver, CodeSpent, Past
<1> QED
  BY <1>1, <1>3, <1>4, <1>5, <1>6, SameClaims DEF TablesAgree

LEMMA PinCertificateAgrees ==
    ASSUME TypeOK, TablesAgree, NEW c \in Claim, NEW n \in Nonce, NEW x \in Cert,
           NEW t \in Reading, PinCertificate(c, n, x, t)
    PROVE  TablesAgree'
<1>1. /\ UNCHANGED <<now, claims, lock, device>>
      /\ registry.status = "RESERVED"
      /\ registry' = [registry EXCEPT !.latestCertificateId = x]
  BY DEF PinCertificate
<1>2. /\ registry'.status = registry.status /\ registry'.claimId = registry.claimId
      /\ registry'.ownerId = registry.ownerId /\ registry'.nonceHash = registry.nonceHash
      /\ registry'.reservationExpiresAt = registry.reservationExpiresAt
      /\ registry'.registrationCodeHash = registry.registrationCodeHash
  BY <1>1 DEF TypeOK, RegistryRow
<1>3. SpareAgrees' /\ BoundAgrees' /\ StagesAgree'
  BY <1>1, <1>2 DEF SpareAgrees, BoundAgrees, StagesAgree
<1>4. ReservedAgrees'
  BY <1>1, <1>2, SameClaims DEF TablesAgree, ReservedAgrees, Bound
<1>5. OthersOver' /\ CodeSpent'
  BY <1>1, <1>2, SameClaims DEF TablesAgree, OthersOver, CodeSpent
<1> QED
  BY <1>1, <1>3, <1>4, <1>5, SameClaims DEF TablesAgree

(* The reservation has run out, so its claim and its lock have too.        *)
LEMMA MarkReissueRequiredAgrees ==
    ASSUME TypeOK, TablesAgree, NEW o \in Owner, NEW k \in Code, NEW t \in Reading,
           MarkReissueRequired(o, k, t)
    PROVE  TablesAgree'
<1>1. /\ UNCHANGED <<now, claims, lock, device>>
      /\ registry.status = "RESERVED"
      /\ registry.registrationCodeHash = None
  BY DEF MarkReissueRequired
<1>2. /\ registry'.status = "REISSUE_REQUIRED" /\ registry'.claimId = None
      /\ registry'.ownerId = None /\ registry'.registrationCodeHash = None
  BY <1>1 DEF MarkReissueRequired, TypeOK, RegistryRow
<1>3. Past(registry.reservationExpiresAt, now)
  <2>1. now \in Nat /\ registry.reservationExpiresAt \in Nat
    BY DEF TypeOK, RegistryRow
  <2>2. t \in Nat /\ t <= now
    BY <2>1, ReadingNat
  <2> QED
    BY <2>1, <2>2 DEF MarkReissueRequired, Past
<1>4. SpareAgrees'
  <2>1. ~Bound /\ (lock = NoLockRow \/
            lock = [claimId |-> registry.claimId,
                    expiresAt |-> registry.reservationExpiresAt, bound |-> FALSE])
    BY <1>1 DEF TablesAgree, ReservedAgrees
  <2>2. LockStale
    BY <1>3, <2>1 DEF LockStale, NoLockRow
  <2> QED
    BY <1>1, <1>2, <2>1, <2>2 DEF SpareAgrees, Bound, LockStale
<1>5. ReservedAgrees' /\ BoundAgrees' /\ StagesAgree'
  BY <1>2 DEF ReservedAgrees, BoundAgrees, StagesAgree
<1>6. OthersOver'
  <2>1. ~Live(registry.claimId)
        /\ (Waiting(registry.claimId) => Past(claims[registry.claimId].expiresAt, now))
    BY <1>1, <1>3 DEF TablesAgree, ReservedAgrees
  <2>2. \A d \in Claim : ~Live(d) /\ (Waiting(d) => Past(claims[d].expiresAt, now))
    BY <2>1 DEF TablesAgree, OthersOver
  <2> QED
    BY <1>1, <2>2, SameClaims DEF OthersOver
<1>7. CodeSpent'
  BY <1>2, NoneApart DEF CodeSpent
<1> QED
  BY <1>1, <1>4, <1>5, <1>6, <1>7, SameClaims DEF TablesAgree

LEMMA ReissueAgrees ==
    ASSUME TypeOK, TablesAgree, NEW k \in Code, Reissue(k)
    PROVE  TablesAgree'
<1>1. /\ UNCHANGED <<now, claims, lock, device>>
      /\ registry.status = "REISSUE_REQUIRED"
      /\ CodeUnused(k)
  BY DEF Reissue
<1>2. /\ registry'.status = "AVAILABLE" /\ registry'.claimId = None
      /\ registry'.ownerId = None /\ registry'.registrationCodeHash = k
  BY DEF Reissue, Stocked, NoRegistryRow
<1>3. registry.claimId = None
  BY <1>1 DEF TablesAgree, SpareAgrees
<1>4. SpareAgrees'
  BY <1>1, <1>2 DEF TablesAgree, SpareAgrees, Bound, LockStale
<1>5. ReservedAgrees' /\ BoundAgrees' /\ StagesAgree'
  BY <1>2 DEF ReservedAgrees, BoundAgrees, StagesAgree
<1>6. OthersOver'
  BY <1>1, <1>2, <1>3, SameClaims DEF TablesAgree, OthersOver
<1>7. CodeSpent'
  BY <1>1, <1>2, SameClaims, NoneApart DEF CodeSpent
<1> QED
  BY <1>1, <1>4, <1>5, <1>6, <1>7, SameClaims DEF TablesAgree

(* The code leaves the registry and one fresh claim takes it.              *)
LEMMA CreateClaimAgrees ==
    ASSUME TypeOK, TablesAgree, NEW c \in Claim, NEW o \in Owner, NEW k \in Code,
           NEW t \in Reading, CreateClaim(c, o, k, t)
    PROVE  TablesAgree'
<1> DEFINE at == t + ClaimTtl
           row == [NoClaimRow EXCEPT !.status = "CLAIM_PENDING", !.ownerId = o,
                       !.nonceHash = NonceFor(o, k), !.expiresAt = at]
<1>1. at \in Nat /\ at > 0
  BY ReadingNat DEF TypeOK
<1>2. /\ row.status = "CLAIM_PENDING" /\ row.ownerId = o /\ row.nonceHash = NonceFor(o, k)
      /\ row.expiresAt = at /\ row.claimExpiresAt = 0
  BY DEF NoClaimRow
<1>3. /\ UNCHANGED <<now, device>>
      /\ claims' = [claims EXCEPT ![c] = row]
      /\ lock' = [claimId |-> c, expiresAt |-> at, bound |-> FALSE]
  BY DEF CreateClaim
<1> HIDE DEF at, row
<1>4. claims'[c] = row /\ \A d \in Claim \ {c} : claims'[d] = claims[d]
  BY <1>3 DEF TypeOK
<1>5. /\ registry.status = "AVAILABLE" /\ registry.claimId = None
      /\ registry.registrationCodeHash = k
  BY DEF CreateClaim
<1>6. /\ registry'.status = "RESERVED" /\ registry'.claimId = c /\ registry'.ownerId = o
      /\ registry'.nonceHash = NonceFor(o, k) /\ registry'.reservationExpiresAt = at
      /\ registry'.registrationCodeHash = None
  BY DEF CreateClaim, TypeOK, RegistryRow, at
<1>7. \A d \in Claim \ {c} : /\ ClaimShape(d)' <=> ClaimShape(d)
                             /\ Live(d)' <=> Live(d)
                             /\ Waiting(d)' <=> Waiting(d)
  BY <1>4 DEF ClaimShape, Live, Waiting
<1>8. Waiting(c)' /\ ~Live(c)' /\ ClaimShape(c)'
  BY <1>1, <1>2, <1>4 DEF Waiting, Live, ClaimShape
<1>9. (\A d \in Claim : ClaimShape(d))'
  BY <1>7, <1>8 DEF TablesAgree
<1>10. ~Bound /\ ~Bound'
  BY <1>3, <1>5 DEF TablesAgree, SpareAgrees, Bound
<1>11. SpareAgrees' /\ BoundAgrees' /\ StagesAgree'
  BY <1>6 DEF SpareAgrees, BoundAgrees, StagesAgree
<1>12. ReservedAgrees'
  BY <1>1, <1>2, <1>3, <1>4, <1>6, <1>8, <1>10 DEF ReservedAgrees
<1>13. OthersOver'
  BY <1>3, <1>4, <1>5, <1>6, <1>7, NoneApart DEF TablesAgree, OthersOver
<1>14. CodeSpent'
  BY <1>6 DEF CodeSpent, NonceFor
<1>15. CodeUnused(k)
  BY <1>5 DEF TablesAgree, CodeSpent
<1>16. CodeSingleUse'
  <2> SUFFICES ASSUME NEW b \in Claim, NEW d \in Claim, NEW p \in Owner, NEW q \in Owner,
                      NEW j \in Code,
                      claims'[b].nonceHash = NonceFor(p, j),
                      claims'[d].nonceHash = NonceFor(q, j), b # d
               PROVE  FALSE
    BY DEF CodeSingleUse
  <2>1. CASE b # c /\ d # c
    BY <2>1, <1>4 DEF TablesAgree, CodeSingleUse
  <2>2. CASE b = c
    <3>1. j = k /\ claims[d].nonceHash = NonceFor(q, k)
      BY <2>2, <1>2, <1>4, NoneApart
    <3> QED
      BY <3>1, <1>15 DEF CodeUnused
  <2>3. CASE d = c
    <3>1. j = k /\ claims[b].nonceHash = NonceFor(p, k)
      BY <2>3, <1>2, <1>4, NoneApart
    <3> QED
      BY <3>1, <1>15 DEF CodeUnused
  <2> QED
    BY <2>1, <2>2, <2>3
<1> QED
  BY <1>9, <1>11, <1>12, <1>13, <1>14, <1>16 DEF TablesAgree

(* Steps that rewrite one claim row without touching owner or nonce.       *)
LEMMA SameNonces ==
    ASSUME TypeOK, NEW c \in Claim, NEW row \in ClaimRow,
           claims' = [claims EXCEPT ![c] = row],
           row.nonceHash = claims[c].nonceHash
    PROVE  /\ CodeSingleUse <=> CodeSingleUse'
           /\ \A k \in Code : CodeUnused(k) <=> CodeUnused(k)'
           /\ claims'[c] = row
           /\ \A d \in Claim \ {c} : /\ claims'[d] = claims[d]
                                     /\ ClaimShape(d)' <=> ClaimShape(d)
                                     /\ Live(d)' <=> Live(d)
                                     /\ Waiting(d)' <=> Waiting(d)
<1>1. claims'[c] = row /\ \A d \in Claim \ {c} : claims'[d] = claims[d]
  BY DEF TypeOK
<1>2. \A d \in Claim : claims'[d].nonceHash = claims[d].nonceHash
  BY <1>1
<1>3. CodeSingleUse <=> CodeSingleUse'
  BY <1>2 DEF CodeSingleUse
<1>4. \A k \in Code : CodeUnused(k) <=> CodeUnused(k)'
  BY <1>2 DEF CodeUnused
<1>5. \A d \in Claim \ {c} : /\ ClaimShape(d)' <=> ClaimShape(d)
                             /\ Live(d)' <=> Live(d)
                             /\ Waiting(d)' <=> Waiting(d)
  BY <1>1 DEF ClaimShape, Live, Waiting
<1> QED
  BY <1>1, <1>3, <1>4, <1>5

(* The binding is written to all four rows at once.                        *)
LEMMA BootstrapFreshAgrees ==
    ASSUME TypeOK, TablesAgree, NEW c \in Claim, NEW l \in Lease, NEW x \in Cert,
           NEW t \in Reading, BootstrapFresh(c, l, x, t)
    PROVE  TablesAgree'
<1> DEFINE row == [Unleased(claims[c], "BOOTSTRAPPED") EXCEPT
                       !.claimExpiresAt = claims[c].expiresAt, !.expiresAt = 0]
<1>1. claims[c] \in ClaimRow
  BY DEF TypeOK
<1>2. /\ row \in ClaimRow /\ row.status = "BOOTSTRAPPED"
      /\ row.ownerId = claims[c].ownerId /\ row.nonceHash = claims[c].nonceHash
      /\ row.expiresAt = 0 /\ row.claimExpiresAt = claims[c].expiresAt
  BY <1>1 DEF Unleased, ClaimRow, ClaimStatus, Maybe
<1>3. UNCHANGED now /\ claims' = [claims EXCEPT ![c] = row]
  BY DEF BootstrapFresh, BoundClaim
<1> HIDE DEF row
<1>4. /\ registry.status = "RESERVED" /\ registry.claimId = c
      /\ registry.ownerId = claims[c].ownerId
      /\ registry.latestCertificateId = x
      /\ claims[c].expiresAt > 0
  BY <1>1 DEF BootstrapFresh, BoundClaim, Ahead, TablesAgree, ClaimShape, Waiting
<1>5. /\ registry'.status = "BOOTSTRAPPED" /\ registry'.claimId = c
      /\ registry'.ownerId = claims[c].ownerId /\ registry'.certificateId = x
      /\ registry'.latestCertificateId = x
      /\ registry'.registrationCodeHash = registry.registrationCodeHash
  BY <1>4 DEF BootstrapFresh, BoundClaim, TypeOK, RegistryRow
<1>6. lock' = [claimId |-> c, expiresAt |-> 0, bound |-> TRUE]
  BY DEF BootstrapFresh, BoundClaim, TypeOK, LockRow
<1>7. device' = [lifecycle |-> "BOOTSTRAPPED", ownerId |-> claims[c].ownerId,
                 claimId |-> c, certificateId |-> x]
  BY DEF BootstrapFresh, BoundClaim
<1>8. claims'[c] = row
      /\ \A d \in Claim \ {c} : /\ claims'[d] = claims[d]
                                /\ ClaimShape(d)' <=> ClaimShape(d)
                                /\ Live(d)' <=> Live(d)
                                /\ Waiting(d)' <=> Waiting(d)
  BY <1>2, <1>3, SameNonces
<1>9. Live(c)' /\ ~Waiting(c)' /\ ClaimShape(c)'
  BY <1>2, <1>4, <1>8 DEF Waiting, Live, ClaimShape
<1>10. (\A d \in Claim : ClaimShape(d))'
  BY <1>8, <1>9 DEF TablesAgree
<1>11. SpareAgrees' /\ ReservedAgrees'
  BY <1>5 DEF SpareAgrees, ReservedAgrees
<1>12. BoundAgrees'
  BY <1>2, <1>5, <1>6, <1>7, <1>8, <1>9 DEF BoundAgrees, Bound
<1>13. StagesAgree'
  BY <1>2, <1>5, <1>7, <1>8 DEF StagesAgree
<1>14. OthersOver'
  BY <1>3, <1>4, <1>5, <1>8 DEF TablesAgree, OthersOver
<1>15. CodeSpent' /\ CodeSingleUse'
  <2>1. registry'.registrationCodeHash = None
    BY <1>4, <1>5 DEF TablesAgree, CodeSpent
  <2> QED
    BY <1>2, <1>3, <1>5, <2>1, SameNonces, NoneApart DEF TablesAgree, CodeSpent
<1> QED
  BY <1>10, <1>11, <1>12, <1>13, <1>14, <1>15 DEF TablesAgree

(* Authorization moves the claim, the device and the registry one stage    *)
(* on.                                                                     *)
LEMMA AuthorizeAgrees ==
    ASSUME TypeOK, TablesAgree, NEW c \in Claim, NEW x \in Cert,
           AuthorizeRuntimeClaim(c, x)
    PROVE  TablesAgree'
<1> DEFINE row == [claims[c] EXCEPT !.status = "RUNTIME_AUTHORIZED"]
<1>1. claims[c] \in ClaimRow
  BY DEF TypeOK
<1>2. /\ row \in ClaimRow /\ row.status = "RUNTIME_AUTHORIZED"
      /\ row.ownerId = claims[c].ownerId /\ row.nonceHash = claims[c].nonceHash
      /\ row.expiresAt = claims[c].expiresAt /\ row.claimExpiresAt = claims[c].claimExpiresAt
  BY <1>1 DEF ClaimRow, ClaimStatus
<1>3. /\ UNCHANGED <<now, lock>> /\ claims' = [claims EXCEPT ![c] = row]
      /\ claims[c].status = "BOOTSTRAPPED"
      /\ registry.status = "BOOTSTRAPPED" /\ registry.claimId = c
      /\ registry' = [registry EXCEPT !.status = "RUNTIME_AUTHORIZED"]
      /\ device' = [device EXCEPT !.lifecycle = "RUNTIME_AUTHORIZED"]
  BY DEF AuthorizeRuntimeClaim, Authorizable
<1> HIDE DEF row
<1>4. /\ registry'.status = "RUNTIME_AUTHORIZED" /\ registry'.claimId = c
      /\ registry'.ownerId = registry.ownerId
      /\ registry'.certificateId = registry.certificateId
      /\ registry'.latestCertificateId = registry.latestCertificateId
      /\ registry'.registrationCodeHash = registry.registrationCodeHash
  BY <1>3 DEF TypeOK, RegistryRow
<1>5. /\ device'.lifecycle = "RUNTIME_AUTHORIZED" /\ device'.claimId = device.claimId
      /\ device'.ownerId = device.ownerId /\ device'.certificateId = device.certificateId
  BY <1>3 DEF TypeOK, DeviceRow
<1>6. claims'[c] = row
      /\ \A d \in Claim \ {c} : /\ claims'[d] = claims[d]
                                /\ ClaimShape(d)' <=> ClaimShape(d)
                                /\ Live(d)' <=> Live(d)
                                /\ Waiting(d)' <=> Waiting(d)
  BY <1>2, <1>3, SameNonces
<1>7. Live(c) /\ Live(c)' /\ ~Waiting(c)'
  BY <1>2, <1>3, <1>6 DEF Waiting, Live
<1>8. ClaimShape(c)'
  BY <1>2, <1>6, <1>7 DEF TablesAgree, ClaimShape
<1>9. SpareAgrees' /\ ReservedAgrees'
  BY <1>4 DEF SpareAgrees, ReservedAgrees
<1>10. BoundAgrees'
  BY <1>2, <1>3, <1>4, <1>5, <1>6, <1>7 DEF TablesAgree, BoundAgrees, Bound
<1>11. StagesAgree'
  BY <1>2, <1>4, <1>5, <1>6 DEF StagesAgree
<1>12. OthersOver'
  BY <1>3, <1>4, <1>6 DEF TablesAgree, OthersOver
<1>13. CodeSpent' /\ CodeSingleUse'
  BY <1>2, <1>3, <1>4, SameNonces DEF TablesAgree, CodeSpent
<1> QED
  BY <1>6, <1>8, <1>9, <1>10, <1>11, <1>12, <1>13 DEF TablesAgree

(* The first state moves the claim and the device; the claim the device    *)
(* row names is the bound one.                                             *)
LEMMA ApplyFirstStateAgrees ==
    ASSUME TypeOK, TablesAgree, NEW c \in Claim, ApplyFirstState(c)
    PROVE  TablesAgree'
<1> DEFINE row == [claims[c] EXCEPT !.status = "ONLINE"]
<1>1. claims[c] \in ClaimRow
  BY DEF TypeOK
<1>2. /\ row \in ClaimRow /\ row.status = "ONLINE"
      /\ row.ownerId = claims[c].ownerId /\ row.nonceHash = claims[c].nonceHash
      /\ row.expiresAt = claims[c].expiresAt /\ row.claimExpiresAt = claims[c].claimExpiresAt
  BY <1>1 DEF ClaimRow, ClaimStatus
<1>3. /\ UNCHANGED <<now, registry, lock>> /\ claims' = [claims EXCEPT ![c] = row]
      /\ claims[c].status = "RUNTIME_AUTHORIZED"
      /\ device.lifecycle = "RUNTIME_AUTHORIZED"
      /\ device' = [device EXCEPT !.lifecycle = "ACTIVE"]
  BY DEF ApplyFirstState
<1> HIDE DEF row
<1>4. Live(c) /\ registry.claimId = c
  BY <1>3 DEF Live, TablesAgree, OthersOver
<1>5. registry.status = "RUNTIME_AUTHORIZED"
  BY <1>3, <1>4 DEF TablesAgree, SpareAgrees, ReservedAgrees, StagesAgree, TypeOK,
     RegistryRow, RegistryStatus, Bound
<1>6. /\ device'.lifecycle = "ACTIVE" /\ device'.claimId = device.claimId
      /\ device'.ownerId = device.ownerId /\ device'.certificateId = device.certificateId
  BY <1>3 DEF TypeOK, DeviceRow
<1>7. claims'[c] = row
      /\ \A d \in Claim \ {c} : /\ claims'[d] = claims[d]
                                /\ ClaimShape(d)' <=> ClaimShape(d)
                                /\ Live(d)' <=> Live(d)
                                /\ Waiting(d)' <=> Waiting(d)
  BY <1>2, <1>3, SameNonces
<1>8. Live(c)' /\ ~Waiting(c)'
  BY <1>2, <1>7 DEF Waiting, Live
<1>9. ClaimShape(c)'
  BY <1>2, <1>4, <1>7, <1>8 DEF TablesAgree, ClaimShape
<1>10. SpareAgrees' /\ ReservedAgrees'
  BY <1>3, <1>5 DEF SpareAgrees, ReservedAgrees
<1>11. BoundAgrees'
  BY <1>2, <1>3, <1>4, <1>5, <1>6, <1>7, <1>8 DEF TablesAgree, BoundAgrees, Bound
<1>12. StagesAgree'
  BY <1>2, <1>3, <1>4, <1>5, <1>6, <1>7 DEF StagesAgree
<1>13. OthersOver'
  BY <1>3, <1>4, <1>7 DEF TablesAgree, OthersOver
<1>14. CodeSpent' /\ CodeSingleUse'
  BY <1>2, <1>3, SameNonces DEF TablesAgree, CodeSpent
<1> QED
  BY <1>7, <1>9, <1>10, <1>11, <1>12, <1>13, <1>14 DEF TablesAgree

(* A release clears the registry and the lock and leaves both the claim    *)
(* and the device revoked.                                                 *)
LEMMA RevokeDeviceAgrees ==
    ASSUME TypeOK, TablesAgree, NEW o \in Owner, NEW x \in Cert, RevokeDevice(o, x)
    PROVE  TablesAgree'
<1>0. lock.claimId \in Claim
  BY DEF RevokeDevice, Revocable, TypeOK, LockRow, Maybe
<1>c. PICK c \in Claim : c = lock.claimId
  BY <1>0
<1> DEFINE row == [claims[c] EXCEPT !.status = "REVOKED"]
<1>1. claims[c] \in ClaimRow /\ registry.claimId = c
  BY <1>c DEF RevokeDevice, Revocable, TypeOK
<1>2. /\ row \in ClaimRow /\ row.status = "REVOKED" /\ row.nonceHash = claims[c].nonceHash
  BY <1>1 DEF ClaimRow, ClaimStatus
<1>3. /\ UNCHANGED now /\ claims' = [claims EXCEPT ![c] = row]
      /\ registry' = NoRegistryRow /\ lock' = NoLockRow
      /\ device' = [device EXCEPT !.lifecycle = "REVOKED"]
      /\ registry.status = "RUNTIME_AUTHORIZED"
  BY <1>c DEF RevokeDevice, Revocable
<1> HIDE DEF row
<1>4. /\ registry'.status = "REISSUE_REQUIRED" /\ registry'.claimId = None
      /\ registry'.ownerId = None /\ registry'.registrationCodeHash = None
  BY <1>3 DEF NoRegistryRow
<1>5. device'.lifecycle = "REVOKED"
  BY <1>3 DEF TypeOK, DeviceRow
<1>6. claims'[c] = row
      /\ \A d \in Claim \ {c} : /\ claims'[d] = claims[d]
                                /\ ClaimShape(d)' <=> ClaimShape(d)
                                /\ Live(d)' <=> Live(d)
                                /\ Waiting(d)' <=> Waiting(d)
  <2>1. row \in ClaimRow /\ row.nonceHash = claims[c].nonceHash
        /\ claims' = [claims EXCEPT ![c] = row]
    BY <1>2, <1>3
  <2> QED
    BY <2>1, SameNonces
<1>7. ~Live(c)' /\ ~Waiting(c)' /\ ClaimShape(c)'
  BY <1>2, <1>6 DEF Waiting, Live, ClaimShape
<1>8. SpareAgrees'
  <2>1. ~lock'.bound
    BY <1>3 DEF NoLockRow
  <2>2. ~Bound'
    BY <1>5 DEF Bound
  <2> QED
    BY <1>3, <1>4, <2>1, <2>2 DEF SpareAgrees, LockStale
<1>9. ReservedAgrees' /\ BoundAgrees' /\ StagesAgree'
  BY <1>4 DEF ReservedAgrees, BoundAgrees, StagesAgree
<1>10. OthersOver'
  <2>1. \A d \in Claim \ {c} : ~Live(d) /\ (Waiting(d) => Past(claims[d].expiresAt, now))
    BY <1>1 DEF TablesAgree, OthersOver
  <2> QED
    BY <1>3, <1>6, <1>7, <2>1 DEF OthersOver
<1>11. CodeSpent' /\ CodeSingleUse'
  BY <1>1, <1>2, <1>3, <1>4, SameNonces, NoneApart DEF TablesAgree, CodeSpent
<1> QED
  BY <1>6, <1>7, <1>8, <1>9, <1>10, <1>11 DEF TablesAgree

----------------------------------------------------------------------------
(* TablesAgree is an inductive invariant.                                  *)
LEMMA NextAgrees == TypeOK /\ TablesAgree /\ [Next]_tvars => TablesAgree'
<1> SUFFICES ASSUME TypeOK, TablesAgree, [Next]_tvars PROVE TablesAgree'
  OBVIOUS
<1>1. ASSUME NEW c \in Claim, ClaimStep(c) PROVE TablesAgree'
  <2>1. ASSUME NEW l \in Lease, ReleaseLease(c, l) PROVE TablesAgree'
    BY <2>1, UnleaseAgrees DEF ReleaseLease
  <2>2. ASSUME NEW l \in Lease, NEW x \in Cert, BootstrapResumed(c, l, x)
        PROVE  TablesAgree'
    BY <2>2, UnleaseAgrees DEF BootstrapResumed, Resumable
  <2> QED
    BY <1>1, <2>1, <2>2, CreateClaimAgrees, ExpireClaimAgrees, StartLeaseAgrees,
       RecoverLeaseAgrees, PinCertificateAgrees, BootstrapFreshAgrees, AuthorizeAgrees,
       ApplyFirstStateAgrees, SweepClaimAgrees DEF ClaimStep
<1>2. CASE UNCHANGED tvars
  BY <1>2, SameClaims DEF tvars, TablesAgree, SpareAgrees, ReservedAgrees, BoundAgrees,
     StagesAgree, OthersOver, CodeSpent, Bound, LockStale
<1> QED
  BY <1>1, <1>2, MarkReissueRequiredAgrees, RevokeDeviceAgrees, SweepLockAgrees,
     ReissueAgrees, TickAgrees DEF Next

(* The registry, claim, lock and device rows of a unit always describe one *)
(* and the same stage of its life, under every interleaving of the writes  *)
(* of createClaim, the finalizers, the Fleet hook, ingest, release, the    *)
(* TTL sweep and reissue.                                                  *)
THEOREM TablesAlwaysAgree == Spec => []TablesAgree
<1>1. TypeOK /\ TablesAgree /\ [Next]_tvars => (TypeOK /\ TablesAgree)'
  BY NextType, NextAgrees
<1> QED
  BY <1>1, InitType, InitAgrees, PTL DEF Spec

(* A registration code printed once is consumed by one claim for good,     *)
(* also after its reservation expired or its device was released.          *)
THEOREM CodesAreSingleUse == Spec => []CodeSingleUse
<1>1. TablesAgree => CodeSingleUse
  BY DEF TablesAgree
<1> QED
  BY <1>1, TablesAlwaysAgree, PTL

LEMMA AgreeOneBinding == TypeOK /\ TablesAgree => OneBinding
<1> SUFFICES ASSUME TypeOK, TablesAgree PROVE OneBinding
  OBVIOUS
<1>1. registry.status \in RegistryStatus
  BY DEF TypeOK, RegistryRow
<1>2. ASSUME NEW c \in Claim, Live(c)
      PROVE  /\ registry.claimId = c /\ registry.ownerId = claims[c].ownerId
             /\ lock.claimId = c /\ lock.bound
             /\ Bound /\ device.claimId = c /\ device.ownerId = claims[c].ownerId
  <2>1. registry.claimId = c
    BY <1>2 DEF TablesAgree, OthersOver
  <2>2. registry.status \in {"BOOTSTRAPPED", "RUNTIME_AUTHORIZED"}
    BY <1>1, <1>2, <2>1, NoneApart DEF TablesAgree, SpareAgrees, ReservedAgrees, RegistryStatus
  <2> QED
    BY <2>1, <2>2 DEF TablesAgree, BoundAgrees
<1>3. lock.bound \/ Bound => \E c \in Claim : Live(c)
  <2>1. lock.bound \/ Bound => registry.status \in {"BOOTSTRAPPED", "RUNTIME_AUTHORIZED"}
    BY <1>1 DEF TablesAgree, SpareAgrees, ReservedAgrees, RegistryStatus, LockStale, NoLockRow
  <2> QED
    BY <2>1 DEF TablesAgree, BoundAgrees
<1> QED
  BY <1>2, <1>3 DEF OneBinding

(* Two accounts never hold the unit at once, and no lock or device row     *)
(* outlives its claim.                                                     *)
THEOREM OneBindingAlways == Spec => []OneBinding
BY TypeCorrect, TablesAlwaysAgree, AgreeOneBinding, PTL

LEMMA AgreeNoWedge == TypeOK /\ TablesAgree => NoWedge
<1> SUFFICES ASSUME TypeOK, TablesAgree PROVE NoWedge
  OBVIOUS
<1> DEFINE c == registry.claimId
           x == registry.certificateId
<1>1. registry.status = "AVAILABLE" => LockFree(now)
  BY DEF TablesAgree, SpareAgrees, LockStale, LockFree, NoLockRow
<1>2. registry.status = "RESERVED" /\ Ahead(registry.reservationExpiresAt, now) =>
            /\ Waiting(c) /\ claims[c].expiresAt = registry.reservationExpiresAt
            /\ lock.claimId = c /\ lock.expiresAt = claims[c].expiresAt /\ ~lock.bound
            /\ registry.ownerId = claims[c].ownerId
            /\ registry.nonceHash = claims[c].nonceHash
            /\ device.lifecycle \in {"NONE", "REVOKED"}
  <2> SUFFICES ASSUME registry.status = "RESERVED", Ahead(registry.reservationExpiresAt, now)
               PROVE  /\ Waiting(c) /\ claims[c].expiresAt = registry.reservationExpiresAt
                      /\ lock.claimId = c /\ lock.expiresAt = claims[c].expiresAt /\ ~lock.bound
                      /\ registry.ownerId = claims[c].ownerId
                      /\ registry.nonceHash = claims[c].nonceHash
                      /\ device.lifecycle \in {"NONE", "REVOKED"}
    OBVIOUS
  <2>1. ~(registry.reservationExpiresAt <= now)
    BY DEF Ahead, TypeOK, RegistryRow
  <2>2. /\ Waiting(c) /\ claims[c].expiresAt = registry.reservationExpiresAt
        /\ lock = [claimId |-> c, expiresAt |-> registry.reservationExpiresAt, bound |-> FALSE]
        /\ registry.ownerId = claims[c].ownerId
        /\ registry.nonceHash = claims[c].nonceHash
        /\ ~Bound
    BY <2>1 DEF TablesAgree, ReservedAgrees
  <2>3. device.lifecycle \in {"NONE", "REVOKED"}
    BY <2>2 DEF Bound, TypeOK, DeviceRow, Lifecycle
  <2> QED
    BY <2>2, <2>3
<1>3. ASSUME registry.status \in {"BOOTSTRAPPED", "RUNTIME_AUTHORIZED"}
      PROVE  /\ c \in Claim /\ Live(c) /\ claims[c].claimExpiresAt > 0
             /\ registry.ownerId = claims[c].ownerId
             /\ registry.latestCertificateId = x
             /\ device = [lifecycle |-> device.lifecycle, ownerId |-> registry.ownerId,
                          claimId |-> c, certificateId |-> x]
             /\ lock = [claimId |-> c, expiresAt |-> 0, bound |-> TRUE]
  <2>1. /\ c \in Claim /\ Live(c) /\ registry.ownerId = claims[c].ownerId
        /\ registry.latestCertificateId = x
        /\ lock = [claimId |-> c, expiresAt |-> 0, bound |-> TRUE]
        /\ device.claimId = c /\ device.ownerId = registry.ownerId /\ device.certificateId = x
    BY <1>3 DEF TablesAgree, BoundAgrees
  <2>2. claims[c].claimExpiresAt > 0
    BY <2>1 DEF TablesAgree, ClaimShape
  <2>3. device = [lifecycle |-> device.lifecycle, ownerId |-> device.ownerId,
                  claimId |-> device.claimId, certificateId |-> device.certificateId]
    BY DEF TypeOK, DeviceRow
  <2> QED
    BY <2>1, <2>2, <2>3
<1>4. registry.status = "BOOTSTRAPPED" => Authorizable(c, x) \/ Resumable(c, x)
  <2> SUFFICES ASSUME registry.status = "BOOTSTRAPPED"
               PROVE  Authorizable(c, x) \/ Resumable(c, x)
    OBVIOUS
  <2>1. device.lifecycle = "BOOTSTRAPPED"
        /\ claims[c].status \in {"BOOTSTRAPPED", "PROVISIONING"}
    BY DEF TablesAgree, StagesAgree
  <2>2. claims[c].claimExpiresAt # 0 /\ lock.claimId = c /\ lock.bound /\ lock.expiresAt = 0
    BY <1>3
  <2>3. device = [lifecycle |-> "BOOTSTRAPPED", ownerId |-> claims[c].ownerId,
                  claimId |-> c, certificateId |-> x]
    BY <1>3, <2>1
  <2>4. CASE claims[c].status = "BOOTSTRAPPED"
    BY <2>2, <2>3, <2>4 DEF Authorizable
  <2>5. CASE claims[c].status = "PROVISIONING"
    <3>1. claims[c].resume = "BOOTSTRAPPED"
      BY <1>3, <2>5 DEF Live
    <3> QED
      BY <2>2, <2>3, <2>5, <3>1 DEF Resumable
  <2> QED
    BY <2>1, <2>4, <2>5
<1>5. registry.status = "RUNTIME_AUTHORIZED" => Revocable(registry.ownerId, x)
  <2> SUFFICES ASSUME registry.status = "RUNTIME_AUTHORIZED"
               PROVE  Revocable(registry.ownerId, x)
    OBVIOUS
  <2>1. device.lifecycle \in {"RUNTIME_AUTHORIZED", "ACTIVE"}
        /\ claims[c].status \in {"RUNTIME_AUTHORIZED", "ONLINE"}
    BY DEF TablesAgree, StagesAgree
  <2>2. lock.claimId = c /\ lock.bound /\ claims[c].claimExpiresAt # 0 /\ c # None
    BY <1>3, NoneApart
  <2>3. device.ownerId = registry.ownerId /\ device.certificateId = x
        /\ claims[c].ownerId = registry.ownerId /\ registry.latestCertificateId = x
    BY <1>3
  <2> QED
    BY <2>1, <2>2, <2>3 DEF Revocable
<1> QED
  BY <1>1, <1>2, <1>4, <1>5 DEF NoWedge

(* Whatever happened before, the unit's next transaction is one the tables *)
(* accept.                                                                 *)
THEOREM NeverWedged == Spec => []NoWedge
BY TypeCorrect, TablesAlwaysAgree, AgreeNoWedge, PTL

----------------------------------------------------------------------------
(* Refinement.  What the abstract view is at each registry status.         *)
View ==
    /\ registry.status = "AVAILABLE" =>
         StageOf = "unclaimed" /\ HolderOf = None /\ BadgeOf = None
    /\ registry.status = "RESERVED" =>
         StageOf = "reserved" /\ HolderOf = registry.ownerId /\ BadgeOf = None
    /\ registry.status = "REISSUE_REQUIRED" =>
         StageOf = "retired" /\ HolderOf = None /\ BadgeOf = None
    /\ registry.status = "BOOTSTRAPPED" =>
         /\ StageOf = "bound"
         /\ HolderOf = registry.ownerId /\ BadgeOf = registry.certificateId
    /\ registry.status = "RUNTIME_AUTHORIZED" =>
         /\ \/ device.lifecycle = "RUNTIME_AUTHORIZED" /\ StageOf = "authorized"
            \/ device.lifecycle = "ACTIVE" /\ StageOf = "online"
         /\ HolderOf = registry.ownerId /\ BadgeOf = registry.certificateId

LEMMA ViewNow == TypeOK /\ TablesAgree => View
<1> SUFFICES ASSUME TypeOK, TablesAgree PROVE View
  OBVIOUS
<1>1. ASSUME registry.status \in {"AVAILABLE", "RESERVED", "REISSUE_REQUIRED"}
      PROVE  /\ ~Bound /\ HolderOf = registry.ownerId /\ BadgeOf = None
             /\ registry.status # "RESERVED" => registry.ownerId = None
  BY <1>1 DEF TablesAgree, SpareAgrees, ReservedAgrees, HolderOf, BadgeOf
<1>2. ASSUME registry.status \in {"BOOTSTRAPPED", "RUNTIME_AUTHORIZED"}
      PROVE  /\ Bound /\ HolderOf = registry.ownerId /\ BadgeOf = registry.certificateId
  BY <1>2 DEF TablesAgree, BoundAgrees, HolderOf, BadgeOf
<1>3. ~Bound =>
        /\ registry.status = "AVAILABLE" => StageOf = "unclaimed"
        /\ registry.status = "RESERVED" => StageOf = "reserved"
        /\ registry.status = "REISSUE_REQUIRED" => StageOf = "retired"
  BY DEF StageOf, Bound
<1>4. /\ device.lifecycle = "BOOTSTRAPPED" => StageOf = "bound"
      /\ device.lifecycle = "RUNTIME_AUTHORIZED" => StageOf = "authorized"
      /\ device.lifecycle = "ACTIVE" => StageOf = "online"
  BY DEF StageOf, Bound
<1>5. /\ registry.status = "BOOTSTRAPPED" => device.lifecycle = "BOOTSTRAPPED"
      /\ registry.status = "RUNTIME_AUTHORIZED" =>
            device.lifecycle \in {"RUNTIME_AUTHORIZED", "ACTIVE"}
  BY DEF TablesAgree, StagesAgree
<1> QED
  BY <1>1, <1>2, <1>3, <1>4, <1>5 DEF View

LEMMA ViewNext == (TypeOK /\ TablesAgree => View)'
BY ViewNow, PTL

LEMMA InitRefines == Init => Unit!UInit
<1> SUFFICES ASSUME Init PROVE Unit!UInit
  OBVIOUS
<1>1. View
  BY InitType, InitAgrees, ViewNow
<1>2. registry.status = "AVAILABLE"
  BY DEF Init, Stocked, NoRegistryRow
<1> QED
  BY <1>1, <1>2 DEF View, Unit!UInit

(* A step that leaves registry and device alone is not seen.               *)
LEMMA HiddenStep ==
    ASSUME UNCHANGED <<registry, device>>
    PROVE  UNCHANGED <<StageOf, HolderOf, BadgeOf>>
BY DEF StageOf, HolderOf, BadgeOf, Bound

LEMMA StepRefines ==
    TypeOK /\ TablesAgree /\ TypeOK' /\ TablesAgree' /\ [Next]_tvars
        => [Unit!UNext]_Unit!uvars
<1> SUFFICES ASSUME TypeOK, TablesAgree, TypeOK', TablesAgree', [Next]_tvars
             PROVE  [Unit!UNext]_Unit!uvars
  OBVIOUS
<1> USE DEF Unit!uvars
<1>1. View /\ View'
  BY ViewNow, ViewNext
<1>2. ASSUME NEW c \in Claim, NEW o \in Owner, NEW k \in Code, NEW t \in Reading,
             CreateClaim(c, o, k, t)
      PROVE  Unit!Reserve(o)
  <2>1. /\ registry.status = "AVAILABLE" /\ registry'.status = "RESERVED"
        /\ registry'.ownerId = o
    BY <1>2 DEF CreateClaim, TypeOK, RegistryRow
  <2> QED
    BY <1>1, <2>1 DEF View, Unit!Reserve
<1>3. ASSUME NEW o \in Owner, NEW k \in Code, NEW t \in Reading, MarkReissueRequired(o, k, t)
      PROVE  Unit!Lapse
  <2>1. registry.status = "RESERVED" /\ registry'.status = "REISSUE_REQUIRED"
    BY <1>3 DEF MarkReissueRequired, TypeOK, RegistryRow
  <2> QED
    BY <1>1, <2>1 DEF View, Unit!Lapse
<1>4. ASSUME NEW c \in Claim, NEW n \in Nonce, NEW x \in Cert, NEW t \in Reading,
             PinCertificate(c, n, x, t)
      PROVE  UNCHANGED Unit!uvars
  <2>1. registry.status = "RESERVED" /\ registry'.status = "RESERVED"
        /\ registry'.ownerId = registry.ownerId
    BY <1>4 DEF PinCertificate, TypeOK, RegistryRow
  <2> QED
    BY <1>1, <2>1 DEF View
<1>5. ASSUME NEW c \in Claim, NEW l \in Lease, NEW x \in Cert, NEW t \in Reading,
             BootstrapFresh(c, l, x, t)
      PROVE  Unit!Bind(x)
  <2>1. /\ registry.status = "RESERVED" /\ registry'.status = "BOOTSTRAPPED"
        /\ registry'.ownerId = registry.ownerId /\ registry'.certificateId = x
    BY <1>5 DEF BootstrapFresh, BoundClaim, TypeOK, RegistryRow
  <2> QED
    BY <1>1, <2>1 DEF View, Unit!Bind
<1>6. ASSUME NEW c \in Claim, NEW x \in Cert, AuthorizeRuntimeClaim(c, x)
      PROVE  Unit!Authorize
  <2>1. /\ registry.status = "BOOTSTRAPPED" /\ registry'.status = "RUNTIME_AUTHORIZED"
        /\ registry'.ownerId = registry.ownerId
        /\ registry'.certificateId = registry.certificateId
        /\ device'.lifecycle = "RUNTIME_AUTHORIZED"
    BY <1>6 DEF AuthorizeRuntimeClaim, Authorizable, TypeOK, RegistryRow, DeviceRow
  <2> QED
    BY <1>1, <2>1 DEF View, Unit!Authorize
<1>7. ASSUME NEW c \in Claim, ApplyFirstState(c)
      PROVE  Unit!ComeOnline
  <2>1. /\ device.lifecycle = "RUNTIME_AUTHORIZED" /\ device'.lifecycle = "ACTIVE"
        /\ UNCHANGED registry
    BY <1>7 DEF ApplyFirstState, TypeOK, DeviceRow
  <2>2. registry.status = "RUNTIME_AUTHORIZED"
    BY <2>1 DEF TablesAgree, SpareAgrees, ReservedAgrees, StagesAgree, TypeOK, RegistryRow,
       RegistryStatus, Bound
  <2> QED
    BY <1>1, <2>1, <2>2 DEF View, Unit!ComeOnline
<1>8. ASSUME NEW o \in Owner, NEW x \in Cert, RevokeDevice(o, x)
      PROVE  Unit!Retire
  <2>1. registry.status = "RUNTIME_AUTHORIZED" /\ registry'.status = "REISSUE_REQUIRED"
    BY <1>8 DEF RevokeDevice, Revocable, NoRegistryRow
  <2> QED
    BY <1>1, <2>1 DEF View, Unit!Retire
<1>9. ASSUME NEW k \in Code, Reissue(k)
      PROVE  Unit!Restock
  <2>1. registry.status = "REISSUE_REQUIRED" /\ registry'.status = "AVAILABLE"
    BY <1>9 DEF Reissue, Stocked, NoRegistryRow
  <2> QED
    BY <1>1, <2>1 DEF View, Unit!Restock
<1>10. ASSUME NEW c \in Claim, NEW t \in Reading, ExpireClaim(c, t)
       PROVE  UNCHANGED Unit!uvars
  BY <1>10, HiddenStep DEF ExpireClaim
<1>11. ASSUME NEW c \in Claim, NEW l \in Lease, NEW t \in Reading,
              StartLease(c, l, t) \/ RecoverLease(c, l, t)
       PROVE  UNCHANGED Unit!uvars
  BY <1>11, HiddenStep DEF StartLease, Startable, RecoverLease, Recoverable
<1>12. ASSUME NEW c \in Claim, NEW l \in Lease, NEW x \in Cert, BootstrapResumed(c, l, x)
       PROVE  UNCHANGED Unit!uvars
  BY <1>12, HiddenStep DEF BootstrapResumed
<1>13. ASSUME NEW c \in Claim, SweepClaim(c)
       PROVE  UNCHANGED Unit!uvars
  BY <1>13, HiddenStep DEF SweepClaim
<1>14. CASE SweepLock \/ Tick \/ UNCHANGED tvars
  BY <1>14, HiddenStep DEF SweepLock, Tick, tables, tvars
<1>15. ASSUME NEW c \in Claim, ClaimStep(c)
       PROVE  [Unit!UNext]_Unit!uvars
  <2>1. ASSUME NEW o \in Owner, NEW k \in Code, NEW t \in Reading, CreateClaim(c, o, k, t)
        PROVE  Unit!UNext
    BY <2>1, <1>2 DEF Unit!UNext
  <2>2. ASSUME NEW l \in Lease, NEW x \in Cert, NEW t \in Reading,
               BootstrapFresh(c, l, x, t)
        PROVE  Unit!UNext
    BY <2>2, <1>5 DEF Unit!UNext
  <2>3. ASSUME NEW x \in Cert, AuthorizeRuntimeClaim(c, x)
        PROVE  Unit!UNext
    BY <2>3, <1>6 DEF Unit!UNext
  <2>4. ASSUME ApplyFirstState(c)
        PROVE  Unit!UNext
    BY <2>4, <1>7 DEF Unit!UNext
  <2> HIDE DEF Unit!uvars
  <2>5. CASE \E l \in Lease, t \in Reading : StartLease(c, l, t) \/ RecoverLease(c, l, t)
    BY <2>5, <1>11
  <2>6. CASE \E l \in Lease : \/ ReleaseLease(c, l)
                            \/ \E x \in Cert : BootstrapResumed(c, l, x)
    <3>1. ASSUME NEW l \in Lease, ReleaseLease(c, l)
          PROVE  [Unit!UNext]_Unit!uvars
      BY <3>1, HiddenStep DEF ReleaseLease, Unit!uvars
    <3> QED
      BY <2>6, <3>1, <1>12
  <2>7. CASE \E n \in Nonce, x \in Cert, t \in Reading : PinCertificate(c, n, x, t)
    BY <2>7, <1>4
  <2>8. CASE (\E t \in Reading : ExpireClaim(c, t)) \/ SweepClaim(c)
    BY <2>8, <1>10, <1>13
  <2> QED
    BY <1>15, <2>1, <2>2, <2>3, <2>4, <2>5, <2>6, <2>7, <2>8 DEF ClaimStep
<1> QED
  BY <1>3, <1>8, <1>9, <1>14, <1>15 DEF Next, Unit!UNext

(* The tables implement the abstract ownership of a unit: it changes hands *)
(* or certificates only through release (or a reservation that ran out)    *)
(* and reissue, and passes its stages in order.                            *)
THEOREM TablesImplementOwnership == Spec => OwnsAsPromised
<1>1. TypeOK /\ TablesAgree /\ [Next]_tvars => (TypeOK /\ TablesAgree)'
  BY NextType, NextAgrees
<1> QED
  BY <1>1, InitType, InitAgrees, InitRefines, StepRefines, PTL
     DEF Spec, OwnsAsPromised, Unit!USpec
============================================================================
