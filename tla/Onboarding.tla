---------------------------- MODULE Onboarding ----------------------------
(***************************************************************************)
(* The callers of OwnershipTables and the AWS IoT Core state they move:    *)
(*                                                                         *)
(*   finalizeClaim   reads the manufacturing registry and IoT Core, writes *)
(*                   the binding, swaps the certificate's policies and     *)
(*                   authorizes the claim;                                 *)
(*   releaseDevice   disarms the certificate, deletes the Thing and        *)
(*                   revokes the rows;                                     *)
(*   Fleet           provisioning pins a certificate through the hook and  *)
(*                   then applies its template (external);                 *)
(*   ingest          activates a device on its first state.                *)
(*                                                                         *)
(* An invocation is a Lambda run: a sequence of calls to DynamoDB and IoT  *)
(* Core, one step each, interleaved with every other invocation, any of    *)
(* which may fail, time out after having been executed, or be the last     *)
(* thing the Lambda does.  An invocation runs once; a client's retry is    *)
(* another invocation.                                                     *)
(***************************************************************************)
EXTENDS OwnershipTables

CONSTANT Release    \* invocations of releaseDevice; finalizeClaim's are Lease

ASSUME ReleaseAssumption == None \notin Release

VARIABLES
    cert,       \* IoT Core: state, policies and account of each certificate
    thing,      \* IoT Core: the unit's Thing and its principals
    fin,        \* the invocations of finalizeClaim, named by their lease id
    rel,        \* the invocations of releaseDevice
    uplinks     \* runtime state messages on their way to ingest

cloud == <<cert, thing>>
svars == <<now, registry, claims, lock, device, cert, thing, fin, rel, uplinks>>

----------------------------------------------------------------------------
Policy == {"bootstrap", "runtime"}
\* NONE: no template activated it yet.  allowed: the hook said yes to a
\* registration whose template is still to be applied.
CertStatus == {"NONE", "ACTIVE", "INACTIVE"}
CertState == [status : CertStatus, allowed : BOOLEAN, policies : SUBSET Policy,
              owner : Maybe(Owner)]
ThingState == [exists : BOOLEAN, owner : Maybe(Owner), principals : SUBSET Cert]

\* Where a finalizeClaim stands: the call it makes next.
VerifyPc == {"registry", "thing", "principals", "certificate", "transition", "bind"}
AuthorizePc == {"policies", "attach", "detach", "confirm", "commit"}
\* left: it ended without having given back a lease it may hold.
Over == {"done", "left"}
FinPc == {"new"} \cup VerifyPc \cup {"unwind"} \cup AuthorizePc \cup Over
FinJob == [pc : FinPc, claim : Maybe(Claim), cert : Maybe(Cert),
           reserved : BOOLEAN, seen : SUBSET Policy]
NewFinJob == [pc |-> "new", claim |-> None, cert |-> None, reserved |-> FALSE,
              seen |-> {}]
RelPc == {"new", "principals", "policies", "disable", "detach", "unbind", "check",
          "delete", "revoke", "mismatch", "done"}
RelJob == [pc : RelPc, owner : Maybe(Owner), cert : Maybe(Cert), names : SUBSET Policy]

SystemTypeOK ==
    /\ TypeOK
    /\ cert \in [Cert -> CertState]
    /\ thing \in ThingState
    /\ fin \in [Lease -> FinJob]
    /\ rel \in [Release -> RelJob]
    /\ uplinks \in SUBSET (Maybe(Owner) \X Cert)

SystemInit ==
    /\ Init
    /\ cert = [x \in Cert |-> [status |-> "NONE", allowed |-> FALSE, policies |-> {},
                               owner |-> None]]
    /\ thing = [exists |-> FALSE, owner |-> None, principals |-> {}]
    /\ fin = [l \in Lease |-> NewFinJob]
    /\ rel = [r \in Release |-> [pc |-> "new", owner |-> None, cert |-> None,
                                 names |-> {}]]
    /\ uplinks = {}

----------------------------------------------------------------------------
(* finalizeClaim                                                           *)

FinGoto(l, pc) == fin' = [fin EXCEPT ![l].pc = pc]
FinAt(l, pc) == fin[l].pc = pc

\* Take the claim's lease.  The call is not in the try block: when its answer
\* gets lost, the invocation ends there and the lease stays.
FinAcquire(l, c, t) ==
    /\ FinAt(l, "new")
    /\ StartLease(c, l, t) \/ RecoverLease(c, l, t)
    /\ \E pc \in {"registry", "left"} :
          fin' = [fin EXCEPT ![l] = [@ EXCEPT !.pc = pc, !.claim = c]]
    /\ UNCHANGED <<cloud, rel, uplinks>>

\* verifyBootstrap, registry read: the row must match the claim and name a
\* certificate.
FinRegistry(l) ==
    LET c == fin[l].claim
        matches ==
            /\ registry.status \in {"RESERVED", "BOOTSTRAPPED"}
            /\ registry.claimId = c
            /\ registry.ownerId = claims[c].ownerId
            /\ registry.nonceHash = claims[c].nonceHash
            /\ registry.latestCertificateId # None
    IN /\ FinAt(l, "registry")
       /\ \/ /\ matches
             /\ fin' = [fin EXCEPT ![l] = [@ EXCEPT !.pc = "thing",
                            !.cert = registry.latestCertificateId,
                            !.reserved = (registry.status = "RESERVED")]]
          \/ ~matches /\ FinGoto(l, "unwind")
       /\ UNCHANGED <<tvars, cloud, rel, uplinks>>

\* The four IoT Core reads of verifyBootstrap, each one call.
FinRead(l, pc, matches, next) ==
    /\ FinAt(l, pc)
    /\ FinGoto(l, IF matches THEN next ELSE "unwind")
    /\ UNCHANGED <<tvars, cloud, rel, uplinks>>

FinThing(l) ==
    FinRead(l, "thing", thing.exists /\ thing.owner = claims[fin[l].claim].ownerId,
            "principals")
\* Mistaken: other certificates may be on the Thing.
FinPrincipalsAmong(l) ==
    FinRead(l, "principals", fin[l].cert \in thing.principals, "certificate")
FinPrincipals(l) ==
    FinRead(l, "principals", thing.principals = {fin[l].cert}, "certificate")
FinCertificate(l) ==
    FinRead(l, "certificate", cert[fin[l].cert].status = "ACTIVE", "transition")
FinTransition(l) ==
    LET policies == cert[fin[l].cert].policies
    IN FinRead(l, "transition",
               policies # {} /\ (fin[l].reserved => policies = {"bootstrap"}), "bind")

Bindable(l, t) ==
    \/ BootstrapFresh(fin[l].claim, l, fin[l].cert, t)
    \/ BootstrapResumed(fin[l].claim, l, fin[l].cert)

\* bootstrapClaim; its answer may get lost.
FinBind(l, t) ==
    /\ FinAt(l, "bind")
    /\ Bindable(l, t)
    /\ \E pc \in {"policies", "unwind"} : FinGoto(l, pc)
    /\ UNCHANGED <<cloud, rel, uplinks>>

\* Mistaken: the reads are outside of the try block.
FinFailUncaught(l) ==
    /\ fin[l].pc \in VerifyPc
    /\ FinGoto(l, "done")
    /\ UNCHANGED <<tvars, cloud, rel, uplinks>>

\* Any call before the binding is confirmed may fail.
FinFail(l) ==
    /\ fin[l].pc \in VerifyPc
    /\ FinGoto(l, "unwind")
    /\ UNCHANGED <<tvars, cloud, rel, uplinks>>

\* The catch clause: give the own lease back, if it still is one; the write
\* may fail as well.
FinUnwind(l) ==
    /\ FinAt(l, "unwind")
    /\ \/ ReleaseLease(fin[l].claim, l) /\ FinGoto(l, "done")
       \/ /\ ~(claims[fin[l].claim].status = "PROVISIONING"
               /\ claims[fin[l].claim].leaseId = l)
          /\ FinGoto(l, "done") /\ UNCHANGED tvars
       \/ FinGoto(l, "left") /\ UNCHANGED tvars
    /\ UNCHANGED <<cloud, rel, uplinks>>

\* authorizeRuntime: list the policies, attach runtime, detach bootstrap, and
\* list again.
FinPolicies(l) ==
    LET found == cert[fin[l].cert].policies
    IN /\ FinAt(l, "policies")
       /\ fin' = [fin EXCEPT ![l] = [@ EXCEPT !.seen = found,
                      !.pc = IF found # {} THEN "attach" ELSE "done"]]
       /\ UNCHANGED <<tvars, cloud, rel, uplinks>>

FinAttach(l) ==
    /\ FinAt(l, "attach")
    /\ \/ /\ "runtime" \notin fin[l].seen
          /\ cert' = [cert EXCEPT ![fin[l].cert].policies = @ \cup {"runtime"}]
       \/ "runtime" \in fin[l].seen /\ UNCHANGED cert
    /\ FinGoto(l, "detach")
    /\ UNCHANGED <<tvars, thing, rel, uplinks>>

FinDetach(l) ==
    /\ FinAt(l, "detach")
    /\ \/ /\ "bootstrap" \in fin[l].seen
          /\ cert' = [cert EXCEPT ![fin[l].cert].policies = @ \ {"bootstrap"}]
       \/ "bootstrap" \notin fin[l].seen /\ UNCHANGED cert
    /\ FinGoto(l, "confirm")
    /\ UNCHANGED <<tvars, thing, rel, uplinks>>

FinConfirm(l) ==
    /\ FinAt(l, "confirm")
    /\ FinGoto(l, IF cert[fin[l].cert].policies = {"runtime"} THEN "commit" ELSE "done")
    /\ UNCHANGED <<tvars, cloud, rel, uplinks>>

\* authorizeRuntimeClaim, or its answer for rows that have moved on.
FinCommit(l) ==
    /\ FinAt(l, "commit")
    /\ \/ AuthorizeRuntimeClaim(fin[l].claim, fin[l].cert)
       \/ ~Authorizable(fin[l].claim, fin[l].cert) /\ UNCHANGED tvars
    /\ FinGoto(l, "done")
    /\ UNCHANGED <<cloud, rel, uplinks>>

\* The Lambda dies, or a call fails after the binding was confirmed.
FinCrash(l) ==
    /\ fin[l].pc \notin {"new"} \cup Over
    /\ FinGoto(l, IF fin[l].pc \in AuthorizePc THEN "done" ELSE "left")
    /\ UNCHANGED <<tvars, cloud, rel, uplinks>>

----------------------------------------------------------------------------
(* releaseDevice                                                           *)

RelGoto(r, pc) == rel' = [rel EXCEPT ![r].pc = pc]
RelAt(r, pc) == rel[r].pc = pc

\* Mistaken: the rows are revoked first.
RelStartRevokes(r) ==
    /\ RelAt(r, "new")
    /\ device.lifecycle \in {"RUNTIME_AUTHORIZED", "ACTIVE"}
    /\ rel' = [rel EXCEPT ![r] = [@ EXCEPT !.pc = "revoke",
                   !.owner = device.ownerId, !.cert = device.certificateId]]
    /\ UNCHANGED <<tvars, cloud, fin, uplinks>>

RelStart(r) ==
    /\ RelAt(r, "new")
    /\ device.lifecycle \in {"RUNTIME_AUTHORIZED", "ACTIVE"}
    /\ rel' = [rel EXCEPT ![r] = [@ EXCEPT !.pc = "principals",
                   !.owner = device.ownerId, !.cert = device.certificateId]]
    /\ UNCHANGED <<tvars, cloud, fin, uplinks>>

\* decommission refuses a certificate the Thing does not have.
RelPrincipals(r) ==
    /\ RelAt(r, "principals")
    /\ RelGoto(r, IF thing.exists /\ rel[r].cert \in thing.principals
                  THEN "policies" ELSE "mismatch")
    /\ UNCHANGED <<tvars, cloud, fin, uplinks>>

RelPolicies(r) ==
    /\ RelAt(r, "policies")
    /\ rel' = [rel EXCEPT ![r] = [@ EXCEPT !.pc = "disable",
                   !.names = cert[rel[r].cert].policies]]
    /\ UNCHANGED <<tvars, cloud, fin, uplinks>>

\* Mistaken: detaching the policies is taken to be enough.
RelLeaveEnabled(r) ==
    /\ RelAt(r, "disable")
    /\ RelGoto(r, "detach")
    /\ UNCHANGED <<tvars, cloud, fin, uplinks>>

RelDisable(r) ==
    /\ RelAt(r, "disable")
    /\ cert' = [cert EXCEPT ![rel[r].cert].status = "INACTIVE"]
    /\ RelGoto(r, "detach")
    /\ UNCHANGED <<tvars, thing, fin, uplinks>>

RelDetach(r) ==
    /\ RelAt(r, "detach")
    /\ \/ \E p \in rel[r].names :
            /\ cert' = [cert EXCEPT ![rel[r].cert].policies = @ \ {p}]
            /\ rel' = [rel EXCEPT ![r].names = @ \ {p}]
       \/ rel[r].names = {} /\ RelGoto(r, "unbind") /\ UNCHANGED cert
    /\ UNCHANGED <<tvars, thing, fin, uplinks>>

RelUnbind(r) ==
    /\ RelAt(r, "unbind")
    /\ thing' = [thing EXCEPT !.principals = @ \ {rel[r].cert}]
    /\ RelGoto(r, "check")
    /\ UNCHANGED <<tvars, cert, fin, uplinks>>

RelCheck(r) ==
    /\ RelAt(r, "check")
    /\ \/ ~thing.exists /\ RelGoto(r, "revoke")
       \/ thing.exists /\ thing.principals = {} /\ RelGoto(r, "delete")
       \/ thing.exists /\ thing.principals # {} /\ RelGoto(r, "done")
    /\ UNCHANGED <<tvars, cloud, fin, uplinks>>

\* IoT Core refuses to delete a Thing that has principals.
RelDelete(r) ==
    /\ RelAt(r, "delete")
    /\ \/ /\ thing.principals = {}
          /\ thing' = [exists |-> FALSE, owner |-> None, principals |-> {}]
          /\ RelGoto(r, "revoke")
       \/ thing.principals # {} /\ RelGoto(r, "done") /\ UNCHANGED thing
    /\ UNCHANGED <<tvars, cert, fin, uplinks>>

\* revokeDeviceAndReleaseSerial, or its answer for rows that have moved on.
RelRevoke(r) ==
    /\ RelAt(r, "revoke")
    /\ \/ RevokeDevice(rel[r].owner, rel[r].cert)
       \/ ~Revocable(rel[r].owner, rel[r].cert) /\ UNCHANGED tvars
    /\ RelGoto(r, "done")
    /\ UNCHANGED <<cloud, fin, uplinks>>

RelCrash(r) ==
    /\ rel[r].pc \notin {"new", "mismatch", "done"}
    /\ RelGoto(r, "done")
    /\ UNCHANGED <<tvars, cloud, fin, uplinks>>

----------------------------------------------------------------------------
(* Fleet provisioning, the device and ingest.                              *)

\* The device, holding the binding of claim c, registers with certificate x and
\* the hook says yes: the first time, and again when the answer got lost and
\* the device repeats the request with the certificate it has.  A released
\* device does not come back with its old certificate: its key is in no
\* request any more.
FleetHook(c, x, t) ==
    /\ cert[x].status # "INACTIVE"
    /\ claims[c].nonceHash # None
    /\ PinCertificate(c, claims[c].nonceHash, x, t)
    /\ cert' = [cert EXCEPT ![x] = [@ EXCEPT !.allowed = TRUE, !.owner = registry.ownerId]]
    /\ UNCHANGED <<thing, fin, rel, uplinks>>

\* The template: activate the certificate, attach the bootstrap policy to those
\* it has, create or update the Thing and attach the certificate.  IoT Core
\* does this within the device's request: finalizers may overtake it, but the
\* unit has not come to another account and the certificate not been disabled
\* since the hook.
FleetRegister(x) ==
    /\ cert[x].allowed /\ cert[x].status # "INACTIVE"
    /\ registry.latestCertificateId = x /\ registry.ownerId \in {cert[x].owner, None}
    /\ cert' = [cert EXCEPT ![x] = [@ EXCEPT !.status = "ACTIVE", !.allowed = FALSE,
                       !.policies = cert[x].policies \cup {"bootstrap"}]]
    /\ thing' = [exists |-> TRUE, owner |-> cert[x].owner,
                 principals |-> thing.principals \cup {x}]
    /\ UNCHANGED <<tvars, fin, rel, uplinks>>

\* The runtime policy lets an active certificate of the Thing publish.
DevicePublish(x) ==
    /\ cert[x].status = "ACTIVE" /\ "runtime" \in cert[x].policies
    /\ x \in thing.principals
    /\ uplinks' = uplinks \cup {<<cert[x].owner, x>>}
    /\ UNCHANGED <<tvars, cloud, fin, rel>>

\* Ingest checks the account (tenant and pool of the topic) and not the
\* certificate; a message may be delivered again.
IngestFirstState(m) ==
    /\ m[1] = device.ownerId
    /\ device.claimId \in Claim
    /\ ApplyFirstState(device.claimId)
    /\ uplinks' \in {uplinks, uplinks \ {m}}
    /\ UNCHANGED <<cloud, fin, rel>>

----------------------------------------------------------------------------
\* createClaim with its recovery, claim expiry (getClaim, finalizeClaim), the
\* TTL sweep, reissue and the clock need no invocation of their own: they are
\* one write each.  Who expires a claim has read it as pending; a finalizer
\* whose clock is behind may have leased it in between.
OneWrite ==
    /\ \/ \E c \in Claim, o \in Owner, k \in Code, t \in Reading : CreateClaim(c, o, k, t)
       \/ \E o \in Owner, k \in Code, t \in Reading : MarkReissueRequired(o, k, t)
       \/ \E c \in Claim, t \in Reading :
            (claims[c].status = "CLAIM_PENDING" \/ Lag > 0) /\ ExpireClaim(c, t)
       \/ \E c \in Claim : SweepClaim(c)
       \/ SweepLock
       \/ \E k \in Code : Reissue(k)
       \/ Tick
    /\ UNCHANGED <<cloud, fin, rel, uplinks>>

\* What an invocation does once it has the lease.
FinWork(l) ==
    \/ FinRegistry(l)
    \/ FinThing(l) \/ FinPrincipals(l) \/ FinCertificate(l) \/ FinTransition(l)
    \/ \E t \in Reading : FinBind(l, t)
    \/ FinFail(l) \/ FinUnwind(l)
    \/ FinPolicies(l) \/ FinAttach(l) \/ FinDetach(l) \/ FinConfirm(l) \/ FinCommit(l)

FinStep(l) ==
    \/ \E c \in Claim, t \in Reading : FinAcquire(l, c, t)
    \/ FinWork(l)
    \/ FinCrash(l)

RelStep(r) ==
    \/ RelStart(r) \/ RelPrincipals(r) \/ RelPolicies(r) \/ RelDisable(r) \/ RelDetach(r)
    \/ RelUnbind(r) \/ RelCheck(r) \/ RelDelete(r) \/ RelRevoke(r) \/ RelCrash(r)

FleetStep(x) ==
    \/ \E c \in Claim, t \in Reading : FleetHook(c, x, t)
    \/ FleetRegister(x)
    \/ DevicePublish(x)

SystemNext ==
    \/ OneWrite
    \/ \E l \in Lease : FinStep(l)
    \/ \E r \in Release : RelStep(r)
    \/ \E x \in Cert : FleetStep(x)
    \/ \E m \in uplinks : IngestFirstState(m)

System == SystemInit /\ [][SystemNext]_svars

----------------------------------------------------------------------------
Usable(x) == cert[x].status = "ACTIVE" /\ "runtime" \in cert[x].policies

(* RuntimeOnlyForBound: a certificate that can speak on the runtime topics *)
(* is the one the device row is bound to.  No finalizer, however late or   *)
(* doubled, arms a certificate before bootstrapClaim made its binding      *)
(* durable or after a release disarmed it.                                 *)
RuntimeOnlyForBound ==
    \A x \in Cert : Usable(x) => Bound /\ device.certificateId = x

(* ReleasedIsDisarmed: once the rows say REVOKED (and the account may hand *)
(* the unit on), the certificate is inactive and off the Thing.            *)
ReleasedIsDisarmed ==
    device.lifecycle = "REVOKED" =>
        /\ cert[device.certificateId].status = "INACTIVE"
        /\ device.certificateId \notin thing.principals

(* AuthorizedIsServiceable: the rows say RUNTIME_AUTHORIZED or ACTIVE only *)
(* for a device that can work: until a release disables it, its            *)
(* certificate is active, has the runtime policy and is alone on the       *)
(* account's Thing - also when two finalizers swap the policies at the     *)
(* same time, or a repeated registration's template comes after the swap   *)
(* (which attaches the bootstrap policy again, for good).                  *)
AuthorizedIsServiceable ==
    LET x == device.certificateId IN
    device.lifecycle \in {"RUNTIME_AUTHORIZED", "ACTIVE"} =>
        \/ /\ Usable(x)
           /\ thing.exists /\ thing.owner = device.ownerId /\ thing.principals = {x}
        \/ /\ cert[x].status = "INACTIVE"
           /\ \E r \in Release : /\ rel[r].cert = x
                                 /\ rel[r].pc \notin {"principals", "policies", "disable", "mismatch"}

(* DecommissionIdempotent: what ports.ts:61 asks of decommission ("Must be *)
(* idempotent"): repeating it for a device that is not released yet does   *)
(* not fail for what an earlier, interrupted attempt already did.          *)
DecommissionIdempotent ==
    \A r \in Release :
        rel[r].pc = "mismatch" => ~(Bound /\ device.certificateId = rel[r].cert)
============================================================================
