-------------------------- MODULE OwnershipTables --------------------------
(***************************************************************************)
(* The four DynamoDB items that decide who owns one manufactured unit: its *)
(* manufacturing registry row, its claim rows, its SERIAL# lock row and    *)
(* its device row.  One action per conditional write of DynamoRepository,  *)
(* DynamoClaimRegistrar and the Fleet pre-provisioning hook; each is one   *)
(* atomic UpdateItem or TransactWriteItems, with the ConditionExpression   *)
(* as its guard.  Reads that only choose which write to send, or what      *)
(* error to answer, are not steps: the write re-checks what was read.      *)
(*                                                                         *)
(* The callers are left open: any account, certificate, lease and recently *)
(* read clock may be passed at any time, so what is shown here holds       *)
(* however the Lambda invocations interleave, crash or repeat themselves.  *)
(* Onboarding.tla adds the callers.                                        *)
(*                                                                         *)
(* A row is a record, an absent attribute is None (0 for a time).  The     *)
(* unit's serial fixes serialHash and thingName, so neither is stored: a   *)
(* claim has a thingName exactly when it has claimExpiresAt, a registry    *)
(* row exactly when it has certificateId, the lock exactly when it is      *)
(* bound.  Hashes are their (injective) arguments.  Tenant and pool follow *)
(* the owner.                                                              *)
(***************************************************************************)
EXTENDS Naturals

CONSTANTS
    Owner,      \* accounts
    Code,       \* registration codes, each printed once by manufacturing
    Claim,      \* claim ids (random UUIDs: never given twice)
    Cert,       \* device certificates
    Lease,      \* finalize lease ids (random UUIDs)
    None,
    ClaimTtl,   \* life of a pending claim
    LeaseTtl,   \* life of a finalize lease
    Lag,        \* how old a clock reading can be when the write executes
    MaxTime     \* bound on the clock

ASSUME OwnershipAssumption ==
    /\ None \notin Owner \cup Code \cup Claim \cup Cert \cup Lease
    /\ None \notin Owner \X Code
    /\ None \notin {"CLAIM_PENDING", "BOOTSTRAPPED"}
    /\ ClaimTtl \in Nat \ {0}
    /\ LeaseTtl \in Nat \ {0}
    /\ Lag \in Nat
    /\ MaxTime \in Nat

VARIABLES
    now,        \* epoch seconds, coarsened
    registry,   \* the unit's row of the device registry table
    claims,     \* CLAIM#id rows of the device claim table
    lock,       \* the unit's SERIAL#hash row of the device claim table
    device      \* the unit's row of the device table

tables == <<registry, claims, lock, device>>
tvars == <<now, registry, claims, lock, device>>

----------------------------------------------------------------------------
Maybe(S) == S \cup {None}

Nonce == Owner \X Code
\* registrationNonceFor and registrationRecoveryProof: keyed digests of the
\* account (with its tenant, pool and the serial) and the registration code.
\* Mistaken: a nonce derived from the code alone.
NonceOfCode(o, k) == k
NonceFor(o, k) == <<o, k>>

RegistryStatus == {"AVAILABLE", "RESERVED", "BOOTSTRAPPED",
                   "RUNTIME_AUTHORIZED", "REISSUE_REQUIRED"}
\* ABSENT: never created; DELETED: removed by DynamoDB's TTL sweep.
ClaimStatus == {"ABSENT", "CLAIM_PENDING", "PROVISIONING", "BOOTSTRAPPED",
                "RUNTIME_AUTHORIZED", "ONLINE", "EXPIRED", "REVOKED", "DELETED"}
Lifecycle == {"NONE", "BOOTSTRAPPED", "RUNTIME_AUTHORIZED", "ACTIVE", "REVOKED"}

RegistryRow ==
    [status : RegistryStatus, registrationCodeHash : Maybe(Code),
     claimId : Maybe(Claim), ownerId : Maybe(Owner), nonceHash : Maybe(Nonce),
     reservationExpiresAt : Nat, latestCertificateId : Maybe(Cert),
     certificateId : Maybe(Cert)]
ClaimRow ==
    [status : ClaimStatus, ownerId : Maybe(Owner), nonceHash : Maybe(Nonce),
     expiresAt : Nat, claimExpiresAt : Nat, leaseId : Maybe(Lease),
     leaseExpiresAt : Nat,
     resume : {None, "CLAIM_PENDING", "BOOTSTRAPPED"}]
LockRow == [claimId : Maybe(Claim), expiresAt : Nat, bound : BOOLEAN]
DeviceRow ==
    [lifecycle : Lifecycle, ownerId : Maybe(Owner), claimId : Maybe(Claim),
     certificateId : Maybe(Cert)]

NoClaimRow ==
    [status |-> "ABSENT", ownerId |-> None, nonceHash |-> None, expiresAt |-> 0,
     claimExpiresAt |-> 0, leaseId |-> None, leaseExpiresAt |-> 0, resume |-> None]
\* A claim row in status s with no finalize lease in it.
Unleased(row, s) ==
    [row EXCEPT !.status = s, !.leaseId = None, !.leaseExpiresAt = 0, !.resume = None]
NoLockRow == [claimId |-> None, expiresAt |-> 0, bound |-> FALSE]
NoDeviceRow ==
    [lifecycle |-> "NONE", ownerId |-> None, claimId |-> None,
     certificateId |-> None]

\* A registry row stripped of everything a registration leaves in it.
NoRegistryRow ==
    [status |-> "REISSUE_REQUIRED", registrationCodeHash |-> None, claimId |-> None,
     ownerId |-> None, nonceHash |-> None, reservationExpiresAt |-> 0,
     latestCertificateId |-> None, certificateId |-> None]
\* A unit that manufacturing gave the registration code k.
Stocked(k) ==
    [NoRegistryRow EXCEPT !.status = "AVAILABLE", !.registrationCodeHash = k]

TypeOK ==
    /\ now \in Nat
    /\ registry \in RegistryRow
    /\ claims \in [Claim -> ClaimRow]
    /\ lock \in LockRow
    /\ device \in DeviceRow

Init ==
    /\ now = 0
    /\ \E k \in Code : registry = Stocked(k)
    /\ claims = [c \in Claim |-> NoClaimRow]
    /\ lock = NoLockRow
    /\ device = NoDeviceRow

----------------------------------------------------------------------------
\* The `now` an invocation passes to a write was read a little earlier.
Reading == {t \in 0..now : now - t <= Lag}

Past(at, t) == at # 0 /\ at <= t      \* attribute present and due at t
Ahead(at, t) == at > t                \* false for an absent attribute

LockFree(t) == (lock.claimId = None \/ Past(lock.expiresAt, t)) /\ ~lock.bound
CodeUnused(k) == \A c \in Claim, o \in Owner : claims[c].nonceHash # NonceFor(o, k)

\* createClaim: consume the code, write the claim and take the serial lock.
CreateClaim(c, o, k, t) ==
    /\ registry.status = "AVAILABLE"
    /\ registry.registrationCodeHash = k
    /\ registry.claimId = None
    /\ claims[c].status = "ABSENT"
    /\ LockFree(t)
    /\ registry' = [registry EXCEPT !.status = "RESERVED", !.claimId = c,
                        !.ownerId = o, !.nonceHash = NonceFor(o, k),
                        !.reservationExpiresAt = t + ClaimTtl,
                        !.registrationCodeHash = None]
    /\ claims' = [claims EXCEPT ![c] =
                    [NoClaimRow EXCEPT !.status = "CLAIM_PENDING", !.ownerId = o,
                        !.nonceHash = NonceFor(o, k), !.expiresAt = t + ClaimTtl]]
    /\ lock' = [claimId |-> c, expiresAt |-> t + ClaimTtl, bound |-> FALSE]
    /\ UNCHANGED <<now, device>>

\* Mistaken: a reservation that ran out puts the unit back in stock.
BackInStock(o, k, t) ==
    /\ registry.status = "RESERVED"
    /\ registry.ownerId = o
    /\ registry.nonceHash = NonceFor(o, k)
    /\ Past(registry.reservationExpiresAt, t)
    /\ registry' = Stocked(k)
    /\ UNCHANGED <<now, claims, lock, device>>

\* markReissueRequired: a retried createClaim finds its reservation run out.
MarkReissueRequired(o, k, t) ==
    /\ registry.status = "RESERVED"
    /\ registry.registrationCodeHash = None
    /\ registry.ownerId = o
    /\ registry.nonceHash = NonceFor(o, k)
    /\ Past(registry.reservationExpiresAt, t)
    /\ registry' = [registry EXCEPT !.status = "REISSUE_REQUIRED", !.claimId = None,
                        !.ownerId = None, !.nonceHash = None,
                        !.reservationExpiresAt = 0]
    /\ UNCHANGED <<now, claims, lock, device>>

\* expireClaim
ExpireClaim(c, t) ==
    /\ \/ claims[c].status = "CLAIM_PENDING"
       \/ claims[c].status = "PROVISIONING" /\ claims[c].resume = "CLAIM_PENDING"
    /\ Past(claims[c].expiresAt, t)
    /\ claims' = [claims EXCEPT ![c] = Unleased(@, "EXPIRED")]
    /\ UNCHANGED <<now, registry, lock, device>>

\* What the two writes of acquireFinalizeLease ask for: a claim without a
\* lease, or one whose lease ran out.
Startable(c, t) ==
    \/ claims[c].status = "CLAIM_PENDING" /\ Ahead(claims[c].expiresAt, t)
    \/ claims[c].status = "BOOTSTRAPPED" /\ claims[c].claimExpiresAt # 0
Recoverable(c, t) ==
    /\ claims[c].status = "PROVISIONING"
    /\ Past(claims[c].leaseExpiresAt, t)
    /\ \/ claims[c].resume = "CLAIM_PENDING" /\ Ahead(claims[c].expiresAt, t)
       \/ claims[c].resume = "BOOTSTRAPPED" /\ claims[c].claimExpiresAt # 0

\* acquireFinalizeLease, first write: lease an idle claim.
StartLease(c, l, t) ==
    /\ Startable(c, t)
    /\ claims' = [claims EXCEPT ![c] =
                    [claims[c] EXCEPT !.status = "PROVISIONING", !.resume = claims[c].status,
                        !.leaseId = l, !.leaseExpiresAt = t + LeaseTtl]]
    /\ UNCHANGED <<now, registry, lock, device>>

\* acquireFinalizeLease, second write: take over a lease that ran out.
RecoverLease(c, l, t) ==
    /\ Recoverable(c, t)
    /\ claims' = [claims EXCEPT ![c] =
                    [claims[c] EXCEPT !.leaseId = l, !.leaseExpiresAt = t + LeaseTtl]]
    /\ UNCHANGED <<now, registry, lock, device>>

\* Mistaken: a failed finalize always leaves a pending claim behind.
ReleaseToPending(c, l) ==
    /\ claims[c].status = "PROVISIONING"
    /\ claims[c].leaseId = l
    /\ claims' = [claims EXCEPT ![c] = Unleased(@, "CLAIM_PENDING")]
    /\ UNCHANGED <<now, registry, lock, device>>

\* releaseFinalizeLease: only the caller's own lease.
ReleaseLease(c, l) ==
    /\ claims[c].status = "PROVISIONING"
    /\ claims[c].leaseId = l
    /\ claims[c].resume # None
    /\ claims' = [claims EXCEPT ![c] = Unleased(@, claims[c].resume)]
    /\ UNCHANGED <<now, registry, lock, device>>

\* The Fleet hook pins the first certificate that proves the claim's nonce.
PinCertificate(c, n, x, t) ==
    /\ registry.status = "RESERVED"
    /\ registry.claimId = c
    /\ registry.nonceHash = n
    /\ Ahead(registry.reservationExpiresAt, t)
    /\ registry.latestCertificateId \in {None, x}
    /\ registry' = [registry EXCEPT !.latestCertificateId = x]
    /\ UNCHANGED <<now, claims, lock, device>>

\* Mistaken: the TTL of a bound claim goes on.
BoundClaimWithTtl(row) ==
    [Unleased(row, "BOOTSTRAPPED") EXCEPT !.claimExpiresAt = row.expiresAt]

\* A claim row that is bound: its deadline is kept for reference, without TTL.
BoundClaim(row) ==
    [Unleased(row, "BOOTSTRAPPED") EXCEPT !.claimExpiresAt = row.expiresAt, !.expiresAt = 0]

\* bootstrapClaim from CLAIM_PENDING: the claim, the lock, the device row and
\* the registry become the durable binding in one transaction.
BootstrapFresh(c, l, x, t) ==
    /\ claims[c].status = "PROVISIONING"
    /\ claims[c].resume = "CLAIM_PENDING"
    /\ claims[c].leaseId = l
    /\ Ahead(claims[c].leaseExpiresAt, t)
    /\ Ahead(claims[c].expiresAt, t)
    /\ lock.claimId = c /\ lock.expiresAt = claims[c].expiresAt /\ ~lock.bound
    /\ \/ device.lifecycle = "NONE"
       \/ device.lifecycle = "REVOKED" /\ device.certificateId # x
    /\ registry.status = "RESERVED"
    /\ registry.claimId = c
    /\ registry.ownerId = claims[c].ownerId
    /\ registry.nonceHash = claims[c].nonceHash
    /\ registry.latestCertificateId = x
    /\ registry.reservationExpiresAt = claims[c].expiresAt
    /\ claims' = [claims EXCEPT ![c] = BoundClaim(claims[c])]
    /\ lock' = [lock EXCEPT !.bound = TRUE, !.expiresAt = 0]
    /\ device' = [lifecycle |-> "BOOTSTRAPPED", ownerId |-> claims[c].ownerId,
                  claimId |-> c, certificateId |-> x]
    /\ registry' = [registry EXCEPT !.status = "BOOTSTRAPPED", !.certificateId = x,
                                    !.reservationExpiresAt = 0]
    /\ UNCHANGED now

\* What bootstrapClaim demands of a claim that was already bound, for the
\* certificate that the finalization found: the rows still show that binding.
Resumable(c, x) ==
    /\ claims[c].status = "PROVISIONING"
    /\ claims[c].resume = "BOOTSTRAPPED"
    /\ claims[c].claimExpiresAt # 0
    /\ device = [lifecycle |-> "BOOTSTRAPPED", ownerId |-> claims[c].ownerId,
                 claimId |-> c, certificateId |-> x]
    /\ lock.claimId = c /\ lock.bound /\ lock.expiresAt = 0
    /\ registry.status = "BOOTSTRAPPED"
    /\ registry.claimId = c
    /\ registry.certificateId = x

\* bootstrapClaim on a bound claim: give the lease back.
BootstrapResumed(c, l, x) ==
    /\ Resumable(c, x)
    /\ claims[c].leaseId = l
    /\ claims' = [claims EXCEPT ![c] = Unleased(@, "BOOTSTRAPPED")]
    /\ UNCHANGED <<now, registry, lock, device>>

\* What the transaction of authorizeRuntimeClaim demands.
Authorizable(c, x) ==
    /\ claims[c].status = "BOOTSTRAPPED"
    /\ claims[c].claimExpiresAt # 0
    /\ device = [lifecycle |-> "BOOTSTRAPPED", ownerId |-> claims[c].ownerId,
                 claimId |-> c, certificateId |-> x]
    /\ registry.status = "BOOTSTRAPPED"
    /\ registry.claimId = c
    /\ registry.certificateId = x

\* authorizeRuntimeClaim
AuthorizeRuntimeClaim(c, x) ==
    /\ Authorizable(c, x)
    /\ claims' = [claims EXCEPT ![c] = [@ EXCEPT !.status = "RUNTIME_AUTHORIZED"]]
    /\ device' = [device EXCEPT !.lifecycle = "RUNTIME_AUTHORIZED"]
    /\ registry' = [registry EXCEPT !.status = "RUNTIME_AUTHORIZED"]
    /\ UNCHANGED <<now, lock>>

\* Mistaken: any bound device may come online.
ApplyAnyState(c) ==
    /\ device.lifecycle \in {"BOOTSTRAPPED", "RUNTIME_AUTHORIZED"}
    /\ claims[c].status \in {"BOOTSTRAPPED", "RUNTIME_AUTHORIZED"}
    /\ device' = [device EXCEPT !.lifecycle = "ACTIVE"]
    /\ claims' = [claims EXCEPT ![c] = [@ EXCEPT !.status = "ONLINE"]]
    /\ UNCHANGED <<now, registry, lock>>

\* applyState for a RUNTIME_AUTHORIZED device; c is the claim id of the device
\* row as it was read.
ApplyFirstState(c) ==
    /\ device.lifecycle = "RUNTIME_AUTHORIZED"
    /\ claims[c].status = "RUNTIME_AUTHORIZED"
    /\ claims[c].claimExpiresAt # 0
    /\ device' = [device EXCEPT !.lifecycle = "ACTIVE"]
    /\ claims' = [claims EXCEPT ![c] = [@ EXCEPT !.status = "ONLINE"]]
    /\ UNCHANGED <<now, registry, lock>>

\* What the transaction of revokeDeviceAndReleaseSerial demands of the rows,
\* for the owner and certificate the release read earlier.
Revocable(o, x) ==
    /\ device.lifecycle \in {"RUNTIME_AUTHORIZED", "ACTIVE"}
    /\ device.ownerId = o /\ device.certificateId = x
    /\ lock.bound /\ lock.claimId # None
    /\ claims[lock.claimId].status \in {"RUNTIME_AUTHORIZED", "ONLINE"}
    /\ claims[lock.claimId].ownerId = o
    /\ claims[lock.claimId].claimExpiresAt # 0
    /\ registry.status = "RUNTIME_AUTHORIZED"
    /\ registry.claimId = lock.claimId
    /\ registry.ownerId = o
    /\ registry.certificateId = x
    /\ registry.latestCertificateId = x

\* Mistaken: the serial's lock outlives the release.
RevokeKeepsLock(o, x) ==
    /\ Revocable(o, x)
    /\ device' = [device EXCEPT !.lifecycle = "REVOKED"]
    /\ claims' = [claims EXCEPT ![lock.claimId] = [@ EXCEPT !.status = "REVOKED"]]
    /\ registry' = NoRegistryRow
    /\ UNCHANGED <<now, lock>>

\* revokeDeviceAndReleaseSerial
RevokeDevice(o, x) ==
    /\ Revocable(o, x)
    /\ device' = [device EXCEPT !.lifecycle = "REVOKED"]
    /\ claims' = [claims EXCEPT ![lock.claimId] = [@ EXCEPT !.status = "REVOKED"]]
    /\ lock' = NoLockRow
    /\ registry' = NoRegistryRow
    /\ UNCHANGED now

----------------------------------------------------------------------------
(* DynamoDB's TTL sweep and manufacturing, neither of which is in the      *)
(* repository, and the clock.                                              *)

\* A row whose expiresAt has passed disappears some time later.
SweepClaim(c) ==
    /\ Past(claims[c].expiresAt, now)
    /\ claims' = [claims EXCEPT ![c] =
                    [Unleased(claims[c], "DELETED") EXCEPT !.expiresAt = 0]]
    /\ UNCHANGED <<now, registry, lock, device>>

SweepLock ==
    /\ Past(lock.expiresAt, now)
    /\ lock' = NoLockRow
    /\ UNCHANGED <<now, registry, claims, device>>

\* A new code is printed for a unit that lost its old one.  The registrar
\* asks for AVAILABLE, the new code and no claimId; whether an earlier
\* latestCertificateId is cleared is up to the tool.
Reissue(k) ==
    /\ registry.status = "REISSUE_REQUIRED"
    /\ CodeUnused(k)
    /\ \E x \in {None, registry.latestCertificateId} :
        registry' = [Stocked(k) EXCEPT !.latestCertificateId = x]
    /\ UNCHANGED <<now, claims, lock, device>>

Tick ==
    /\ now < MaxTime
    /\ now' = now + 1
    /\ UNCHANGED tables

----------------------------------------------------------------------------
ClaimStep(c) ==
    \/ \E o \in Owner, k \in Code, t \in Reading : CreateClaim(c, o, k, t)
    \/ \E t \in Reading : ExpireClaim(c, t)
    \/ \E l \in Lease, t \in Reading : StartLease(c, l, t) \/ RecoverLease(c, l, t)
    \/ \E l \in Lease : ReleaseLease(c, l)
    \/ \E n \in Nonce, x \in Cert, t \in Reading : PinCertificate(c, n, x, t)
    \/ \E l \in Lease, x \in Cert, t \in Reading : BootstrapFresh(c, l, x, t)
    \/ \E l \in Lease, x \in Cert : BootstrapResumed(c, l, x)
    \/ \E x \in Cert : AuthorizeRuntimeClaim(c, x)
    \/ ApplyFirstState(c)
    \/ SweepClaim(c)

Next ==
    \/ \E c \in Claim : ClaimStep(c)
    \/ \E o \in Owner, k \in Code, t \in Reading : MarkReissueRequired(o, k, t)
    \/ \E o \in Owner, x \in Cert : RevokeDevice(o, x)
    \/ SweepLock
    \/ \E k \in Code : Reissue(k)
    \/ Tick

Spec == Init /\ [][Next]_tvars

----------------------------------------------------------------------------
(* What the four rows must agree on.                                       *)

Bound == device.lifecycle \in {"BOOTSTRAPPED", "RUNTIME_AUTHORIZED", "ACTIVE"}

\* A claim that has not been bound yet, leased or not.
Waiting(c) ==
    \/ claims[c].status = "CLAIM_PENDING"
    \/ claims[c].status = "PROVISIONING" /\ claims[c].resume = "CLAIM_PENDING"
\* A claim that is bound to a device, leased or not.
Live(c) ==
    \/ claims[c].status \in {"BOOTSTRAPPED", "RUNTIME_AUTHORIZED", "ONLINE"}
    \/ claims[c].status = "PROVISIONING" /\ claims[c].resume = "BOOTSTRAPPED"

\* The attributes each claim status carries.
ClaimShape(c) ==
    /\ claims[c].status = "ABSENT" => claims[c] = NoClaimRow
    /\ claims[c].status = "PROVISIONING" =>
         claims[c].leaseId # None /\ claims[c].leaseExpiresAt > 0 /\ claims[c].resume # None
    /\ Waiting(c) => claims[c].expiresAt > 0 /\ claims[c].claimExpiresAt = 0
    /\ Live(c) => claims[c].expiresAt = 0 /\ claims[c].claimExpiresAt > 0

\* The lock left behind by a reservation that ran out is free to take.
LockStale == ~lock.bound /\ (lock = NoLockRow \/ Past(lock.expiresAt, now))

SpareAgrees ==
    registry.status \in {"AVAILABLE", "REISSUE_REQUIRED"} =>
        /\ registry.claimId = None /\ registry.ownerId = None
        /\ ~Bound
        /\ LockStale

ReservedAgrees ==
    registry.status = "RESERVED" =>
        /\ registry.claimId \in Claim
        /\ ~Bound
        /\ registry.reservationExpiresAt > 0
        /\ LET row == claims[registry.claimId]
               at == registry.reservationExpiresAt
           IN /\ ~Live(registry.claimId)
              /\ row.status \notin {"ABSENT", "REVOKED"}
              /\ row.ownerId = registry.ownerId /\ row.nonceHash = registry.nonceHash
              /\ Waiting(registry.claimId) => row.expiresAt = at
              /\ Waiting(registry.claimId) \/ at <= now
              /\ \/ lock = [claimId |-> registry.claimId, expiresAt |-> at, bound |-> FALSE]
                 \/ lock = NoLockRow /\ at <= now

BoundAgrees ==
    registry.status \in {"BOOTSTRAPPED", "RUNTIME_AUTHORIZED"} =>
        /\ registry.claimId \in Claim
        /\ Live(registry.claimId)
        /\ registry.certificateId \in Cert
        /\ registry.latestCertificateId = registry.certificateId
        /\ registry.ownerId = claims[registry.claimId].ownerId
        /\ Bound
        /\ device.claimId = registry.claimId
        /\ device.ownerId = registry.ownerId
        /\ device.certificateId = registry.certificateId
        /\ lock = [claimId |-> registry.claimId, expiresAt |-> 0, bound |-> TRUE]

\* Registry, device and claim move through the later stages together.
StagesAgree ==
    /\ registry.status = "BOOTSTRAPPED" =>
         /\ device.lifecycle = "BOOTSTRAPPED"
         /\ claims[registry.claimId].status \in {"BOOTSTRAPPED", "PROVISIONING"}
    /\ registry.status = "RUNTIME_AUTHORIZED" =>
         \/ /\ device.lifecycle = "RUNTIME_AUTHORIZED"
            /\ claims[registry.claimId].status = "RUNTIME_AUTHORIZED"
         \/ /\ device.lifecycle = "ACTIVE"
            /\ claims[registry.claimId].status = "ONLINE"

\* Claims of earlier generations are over, or their time has run out.
OthersOver ==
    \A c \in Claim : c # registry.claimId =>
        ~Live(c) /\ (Waiting(c) => Past(claims[c].expiresAt, now))

CodeSpent ==
    /\ registry.registrationCodeHash # None <=> registry.status = "AVAILABLE"
    /\ \A k \in Code : registry.registrationCodeHash = k => CodeUnused(k)

(* CodeSingleUse: a printed registration code is consumed by one claim for *)
(* good: no two claims of the unit, of whatever accounts, stem from the    *)
(* same code, also after the reservation expired, was marked for reissue   *)
(* or was released (dynamodb-claim-registrar.ts removes the code hash and  *)
(* never writes it back).                                                  *)
CodeSingleUse ==
    \A c, d \in Claim, o, p \in Owner, k \in Code :
        claims[c].nonceHash = NonceFor(o, k) /\ claims[d].nonceHash = NonceFor(p, k)
            => c = d

(* TablesAgree: the four rows, written by a dozen independent transactions *)
(* of dynamodb.ts, dynamodb-claim-registrar.ts and the Fleet hook, always  *)
(* describe one and the same stage of the unit's life.  It is inductive.   *)
TablesAgree ==
    /\ \A c \in Claim : ClaimShape(c)
    /\ SpareAgrees
    /\ ReservedAgrees
    /\ BoundAgrees
    /\ StagesAgree
    /\ OthersOver
    /\ CodeSpent
    /\ CodeSingleUse

(* OneBinding: at most one claim of the unit is bound, and the lock, the   *)
(* registry and the device row all name it and its owner: finalizing,      *)
(* expiring and releasing can never leave two accounts holding the unit,   *)
(* nor a lock or a device row that no claim stands behind.                 *)
OneBinding ==
    /\ \A c \in Claim : Live(c) =>
         /\ registry.claimId = c /\ registry.ownerId = claims[c].ownerId
         /\ lock.claimId = c /\ lock.bound
         /\ Bound /\ device.claimId = c /\ device.ownerId = claims[c].ownerId
    /\ lock.bound \/ Bound => \E c \in Claim : Live(c)

(* NoWedge: the conditions that authorizeRuntimeClaim, bootstrapClaim,     *)
(* createClaim and revokeDeviceAndReleaseSerial put on the rows never turn *)
(* against each other: whatever happened before, the unit's next           *)
(* transaction is one the tables accept.                                   *)
NoWedge ==
    LET c == registry.claimId
        x == registry.certificateId
    IN /\ registry.status = "AVAILABLE" => LockFree(now)
       /\ registry.status = "RESERVED" /\ Ahead(registry.reservationExpiresAt, now) =>
            /\ Waiting(c) /\ claims[c].expiresAt = registry.reservationExpiresAt
            /\ lock.claimId = c /\ lock.expiresAt = claims[c].expiresAt /\ ~lock.bound
            /\ registry.ownerId = claims[c].ownerId
            /\ registry.nonceHash = claims[c].nonceHash
            /\ device.lifecycle \in {"NONE", "REVOKED"}
       /\ registry.status = "BOOTSTRAPPED" =>
            Authorizable(c, x) \/ Resumable(c, x)
       /\ registry.status = "RUNTIME_AUTHORIZED" => Revocable(registry.ownerId, x)

----------------------------------------------------------------------------
(* The abstract view: who holds the unit, under which certificate.         *)

StageOf ==
    CASE device.lifecycle = "BOOTSTRAPPED" -> "bound"
      [] device.lifecycle = "RUNTIME_AUTHORIZED" -> "authorized"
      [] device.lifecycle = "ACTIVE" -> "online"
      [] ~Bound /\ registry.status = "AVAILABLE" -> "unclaimed"
      [] ~Bound /\ registry.status = "RESERVED" -> "reserved"
      [] OTHER -> "retired"
HolderOf == IF Bound THEN device.ownerId ELSE registry.ownerId
BadgeOf == IF Bound THEN device.certificateId ELSE None

Unit == INSTANCE UnitOwnership
            WITH stage <- StageOf, holder <- HolderOf, badge <- BadgeOf

(* OwnsAsPromised: the tables implement UnitOwnership: the unit changes    *)
(* hands or certificates only by being released (or by its reservation     *)
(* running out) and reissued, and passes its stages in order.              *)
OwnsAsPromised == Unit!USpec
============================================================================
