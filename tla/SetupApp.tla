------------------------------ MODULE SetupApp ------------------------------
(***************************************************************************)
(* The phone's side of Onboarding: the setup page of the web app, which    *)
(* polls and finalizes a claim, and the native shell around it, which      *)
(* remembers the claim over restarts and makes the HTTP calls.             *)
(*                                                                         *)
(* The page keeps one request of each kind: an answer to a request it no   *)
(* longer waits for is ignored, so the page's request ids and the answers  *)
(* on their way are one variable, call.  An invocation of finalizeClaim    *)
(* goes on when nobody waits for it any more.                              *)
(***************************************************************************)
EXTENDS Onboarding

CONSTANT MaxTries   \* finalize requests between two actions of the user (15)

ASSUME AppAssumption ==
    /\ MaxTries \in Nat \ {0}
    /\ None \notin ClaimStatus \cup {"again", "refused", "sent", "running"}

VARIABLES
    page,       \* the page: refs and React state of the setup screen
    phone,      \* the native shell: pending claim in memory and in SecureStore
    call,       \* the page's outstanding request of each kind, or its answer
    job         \* the finalizeClaim invocation the page's request waits for

app == <<page, phone, call, job>>
avars == <<svars, app>>

----------------------------------------------------------------------------
Request == {"resume", "status", "finalize"}
Error == {"again", "refused"}      \* bridge.error, retryable or not
Answer == ClaimStatus \cup Error \cup {"nothing"}
\* none: not waiting (the page's request ref is null).  stale: made in a session
\* that the shell has replaced since; the shell drops its answer (not its
\* error) and the page waits on: dropped.  (Nothing depends on a resume that it
\* waits for, so that becomes none.)
Call == {"none", "sent", "running", "stale", "dropped"} \cup Answer
Asked == {"sent", "running", "stale"}

Page == [claim : Maybe(Claim), timer : {"none"} \cup Request, tries : 0..MaxTries,
         retry : BOOLEAN,
         stage : {"idle", "wifi", "wifi-connected", "provisioning", "failed", "complete"}]
\* fresh: the pending claim's last known status is CLAIM_PENDING;
\* told: the claim that the answer to a resume names.
Phone == [pending : Maybe(Claim), saved : Maybe(Claim), expiresAt : Nat,
          fresh : BOOLEAN, told : Maybe(Claim)]

AppTypeOK ==
    /\ SystemTypeOK
    /\ page \in Page
    /\ phone \in Phone
    /\ call \in [Request -> Call]
    /\ job \in Maybe(Lease)

FreshPage == [claim |-> None, timer |-> "none", tries |-> 0, retry |-> FALSE,
              stage |-> "idle"]
NoPhone == [pending |-> None, saved |-> None, expiresAt |-> 0, fresh |-> FALSE,
            told |-> None]
Silent == [k \in Request |-> "none"]

AppInit ==
    /\ SystemInit
    /\ page = FreshPage
    /\ phone = NoPhone
    /\ call = Silent
    /\ job = None

Waits(k) == call[k] # "none"

----------------------------------------------------------------------------
(* The page.                                                               *)

\* finalizeClaim of the page: p is the page, calls the requests so far.
SendFinalize(p, calls) ==
    \/ calls["finalize"] # "none" /\ page' = p /\ call' = calls
    \/ /\ calls["finalize"] = "none" /\ p.tries >= MaxTries
       /\ page' = [p EXCEPT !.stage = "wifi-connected", !.retry = TRUE]
       /\ call' = calls
    \/ /\ calls["finalize"] = "none" /\ p.tries < MaxTries
       /\ page' = [p EXCEPT !.stage = "wifi-connected", !.tries = @ + 1]
       /\ call' = [calls EXCEPT !["finalize"] = "sent"]

\* Provisioning told the page that the device is on the Wi-Fi.
WifiConnected ==
    /\ page.stage = "wifi"
    /\ page' = [page EXCEPT !.stage = "wifi-connected", !.tries = 0, !.timer = "status"]
    /\ UNCHANGED <<svars, phone, call, job>>

\* requestClaimStatus, when its delay is over.
StatusTimer ==
    /\ page.timer = "status"
    /\ page' = [page EXCEPT !.timer = "none"]
    /\ call' = IF page.claim = None \/ Waits("status") THEN call
               ELSE [call EXCEPT !["status"] = "sent"]
    /\ UNCHANGED <<svars, phone, job>>

\* The retry of a failed finalize, 2 s later.
FinalizeTimer ==
    /\ page.timer = "finalize"
    /\ SendFinalize([page EXCEPT !.timer = "none"], call)
    /\ UNCHANGED <<svars, phone, job>>

RetryFleetRegistration ==
    /\ page.retry
    /\ page.claim # None /\ ~Waits("finalize")
    /\ SendFinalize([page EXCEPT !.tries = 0, !.retry = FALSE], call)
    /\ UNCHANGED <<svars, phone, job>>

\* api.deviceClaims.resumed
OnResumed ==
    LET s == call["resume"]
        heard == [call EXCEPT !["resume"] = "none"]
        known == [page EXCEPT !.claim = phone.told, !.tries = 0]
    IN /\ s \in ClaimStatus \cup {"nothing"}
       /\ \/ /\ s \in {"CLAIM_PENDING", "BOOTSTRAPPED"}
             /\ SendFinalize([known EXCEPT !.stage = "wifi-connected",
                                           !.retry = (s = "BOOTSTRAPPED" /\ @)], heard)
          \/ /\ s = "PROVISIONING"
             /\ page' = [known EXCEPT !.stage = "provisioning", !.timer = "status"]
             /\ call' = heard
          \/ /\ s = "RUNTIME_AUTHORIZED"
             /\ page' = [page EXCEPT !.claim = phone.told, !.stage = "wifi-connected",
                                     !.timer = "status"]
             /\ call' = heard
          \/ /\ s \in ClaimStatus \ {"CLAIM_PENDING", "BOOTSTRAPPED", "PROVISIONING",
                                     "RUNTIME_AUTHORIZED"}
             /\ page' = [page EXCEPT !.claim = None]
             /\ call' = heard
          \/ s = "nothing" /\ call' = heard /\ UNCHANGED page
       /\ phone' = [phone EXCEPT !.told = None]
       /\ UNCHANGED <<svars, job>>

\* completeServerRegistration
Complete(p) == [p EXCEPT !.timer = "none", !.retry = FALSE, !.stage = "complete"]

\* api.deviceClaims.status.result
OnStatus ==
    LET s == call["status"]
        heard == [call EXCEPT !["status"] = "none"]
    IN /\ s \in ClaimStatus
       /\ \/ s \in {"CLAIM_PENDING", "BOOTSTRAPPED"} /\ SendFinalize(page, heard)
          \/ /\ s = "PROVISIONING" /\ call' = heard
             /\ page' = [page EXCEPT !.stage = "provisioning", !.timer = "status"]
          \/ /\ s = "RUNTIME_AUTHORIZED" /\ call' = heard
             /\ page' = [page EXCEPT !.stage = "wifi-connected", !.timer = "status"]
          \/ s = "ONLINE" /\ page' = Complete(page) /\ call' = Silent
          \/ /\ s \in {"EXPIRED", "REVOKED"} /\ call' = heard
             /\ page' = [page EXCEPT !.stage = "failed"]
       /\ job' = IF s = "ONLINE" THEN None ELSE job
       /\ UNCHANGED <<svars, phone>>

\* api.deviceClaims.finalized
OnFinalized ==
    LET s == call["finalize"] IN
    /\ \/ s = "ONLINE" /\ page' = Complete(page) /\ call' = Silent
       \/ /\ s = "RUNTIME_AUTHORIZED"
          /\ page' = [page EXCEPT !.stage = "wifi-connected", !.timer = "status"]
          /\ call' = [call EXCEPT !["finalize"] = "none"]
    /\ job' = None
    /\ UNCHANGED <<svars, phone>>

\* Mistaken: no button once the tries are used up.
OnErrorGivesUp(k) ==
    /\ call[k] \in Error
    /\ \/ k = "resume" /\ call' = [call EXCEPT !["resume"] = "none"] /\ UNCHANGED <<page, job>>
       \/ /\ k # "resume"
          /\ call' = [Silent EXCEPT !["resume"] = call["resume"]]
          /\ job' = None
          /\ \/ /\ k = "finalize" /\ call[k] = "again" /\ page.claim # None
                /\ page' = [page EXCEPT !.stage = "wifi-connected",
                              !.timer = IF page.tries < MaxTries THEN "finalize" ELSE @]
             \/ /\ k = "status" \/ call[k] = "refused" \/ page.claim = None
                /\ page' = [page EXCEPT !.stage = "failed"]
    /\ UNCHANGED <<svars, phone>>

\* bridge.error: a failed resume is dropped, any other error drops both
\* requests, and a retryable finalize is repeated until its tries are used up.
OnError(k) ==
    /\ call[k] \in Error
    /\ \/ k = "resume" /\ call' = [call EXCEPT !["resume"] = "none"] /\ UNCHANGED <<page, job>>
       \/ /\ k # "resume"
          /\ call' = [Silent EXCEPT !["resume"] = call["resume"]]
          /\ job' = None
          /\ \/ /\ k = "finalize" /\ call[k] = "again" /\ page.claim # None
                /\ page' = IF page.tries < MaxTries
                           THEN [page EXCEPT !.stage = "wifi-connected", !.timer = "finalize"]
                           ELSE [page EXCEPT !.stage = "wifi-connected", !.retry = TRUE]
             \/ /\ k = "status" \/ call[k] = "refused" \/ page.claim = None
                /\ page' = [page EXCEPT !.stage = "failed"]
    /\ UNCHANGED <<svars, phone>>

\* Mistaken: answers to the setup that was left are still waited for.
LeaveRequestsOpen ==
    /\ page # FreshPage
    /\ page' = FreshPage
    /\ UNCHANGED <<svars, phone, call, job>>

\* leaveProvisioning: the page forgets the setup, the shell does not.
LeaveProvisioning ==
    /\ page # FreshPage
    /\ page' = FreshPage
    /\ call' = Silent
    /\ job' = None
    /\ UNCHANGED <<svars, phone>>

----------------------------------------------------------------------------
(* The native shell and the HTTP API behind it.                            *)

\* clearPendingClaimContext
Forget == [phone EXCEPT !.pending = None, !.saved = None, !.expiresAt = 0, !.fresh = FALSE]

\* loadPendingClaim, as every sign-in and session refresh does it: a stored
\* claim whose 15 minutes are over is deleted.
Reload ==
    IF phone.saved = None \/ phone.expiresAt <= now THEN Forget
    ELSE [phone EXCEPT !.pending = phone.saved, !.fresh = TRUE]

\* The app is closed and opened again; sign-in resumes the pending claim.
Restart ==
    /\ phone' = [Reload EXCEPT !.told = None]
    /\ page' = FreshPage
    /\ call' = [Silent EXCEPT !["resume"] = "sent"]
    /\ job' = None
    /\ UNCHANGED svars

\* Calls that have left the shell (a finalize of another claim than the pending
\* one and a resume of none never do).
Underway ==
    {k \in Request :
        \/ call[k] = "running"
        \/ /\ call[k] = "sent" /\ (k # "status" => phone.pending # None)
           /\ k = "finalize" => phone.pending = page.claim}

\* A request, of these or another, was answered with 401 and the shell signs in
\* again; a call that got through in the old session is not made again,
RefreshSession ==
    /\ \E old \in SUBSET Underway :
          call' = [k \in Request |-> IF k \in old THEN "stale" ELSE call[k]]
    /\ phone' = Reload
    /\ <<phone', call'>> # <<phone, call>>
    /\ UNCHANGED <<svars, page, job>>

\* or cannot, and signs out, as the user may.
SignOut ==
    /\ <<page, phone, call>> # <<FreshPage, NoPhone, Silent>>
    /\ phone' = NoPhone
    /\ page' = FreshPage
    /\ call' = Silent
    /\ job' = None
    /\ UNCHANGED svars

\* A pending claim that still has time is used again.
Reusable == phone.pending # None /\ phone.fresh /\ phone.expiresAt > now

\* The claim createClaim answers with: a new one, or the reservation that an
\* earlier request with the same code got.
Created(c, t) ==
    \E o \in Owner, k \in Code :
        \/ CreateClaim(c, o, k, t)
        \/ /\ registry.status = "RESERVED" /\ registry.claimId = c
           /\ registry.ownerId = o /\ registry.nonceHash = NonceFor(o, k)
           /\ Ahead(registry.reservationExpiresAt, t)
           /\ claims[c].status = "CLAIM_PENDING"
           /\ UNCHANGED tvars

\* api.deviceClaims.create: hold a claim, then bind the device over BLE (which
\* may fail) and go on to its Wi-Fi.  The user gets there after the resume at
\* the app's start was answered or dropped.
StartSetup ==
    /\ page = FreshPage /\ call = Silent
    /\ \/ Reusable /\ phone' = [phone EXCEPT !.saved = phone.pending] /\ UNCHANGED tvars
       \/ /\ ~Reusable
          /\ \E c \in Claim, t \in Reading :
               /\ Created(c, t)
               /\ phone' = [phone EXCEPT !.pending = c, !.saved = c, !.fresh = TRUE,
                                         !.expiresAt = claims'[c].expiresAt]
    /\ page' \in {[page EXCEPT !.claim = phone'.pending, !.stage = "wifi"],
                  [page EXCEPT !.stage = "failed"]}
    /\ UNCHANGED <<cloud, fin, rel, uplinks, call, job>>

\* The same, when createClaim refuses or does not answer: a claim that was not
\* to be used again is already forgotten.
SetupRejected ==
    /\ page = FreshPage /\ call = Silent /\ ~Reusable
    /\ phone' = Forget
    /\ page' = [page EXCEPT !.stage = "failed"]
    /\ UNCHANGED <<svars, call, job>>

\* GET finds the claim's row.
Found(c) == c # None /\ claims[c].status \notin {"ABSENT", "DELETED"}

\* What the shell does with the status s of claim c it was answered.
Noted(c, s) ==
    IF s \in {"ONLINE", "EXPIRED", "REVOKED"} THEN Forget
    ELSE IF phone.pending = c THEN [phone EXCEPT !.fresh = (s = "CLAIM_PENDING")]
    ELSE phone

Drop(k) ==
    call' = [call EXCEPT ![k] = IF k = "resume" THEN "none" ELSE "dropped"] /\ UNCHANGED phone

\* The answer s to call k about claim c reaches the shell.
Answered(k, c, s) ==
    \/ call[k] = "stale" /\ Drop(k)
    \/ /\ call[k] # "stale"
       /\ call' = [call EXCEPT ![k] = s]
       /\ phone' = [Noted(c, s) EXCEPT !.told = IF k = "resume" THEN c ELSE @]

\* getClaim: an overdue pending claim is expired on the way.
ReadClaim(c, k, t) ==
    LET row == claims[c]
        overdue == row.status = "CLAIM_PENDING" /\ Past(row.expiresAt, t)
    IN /\ \/ overdue /\ ExpireClaim(c, t)
          \/ ~overdue /\ UNCHANGED tvars
       /\ Answered(k, c, IF overdue THEN "EXPIRED" ELSE row.status)

ServeStatus(t) ==
    /\ call["status"] \in {"sent", "stale"}
    /\ \/ Found(page.claim) /\ ReadClaim(page.claim, "status", t)
       \/ /\ ~Found(page.claim)
          /\ call' = [call EXCEPT !["status"] = "refused"]
          /\ UNCHANGED <<tvars, phone>>
    /\ UNCHANGED <<cloud, fin, rel, uplinks, page, job>>

ServeResume(t) ==
    /\ \/ /\ call["resume"] \in {"sent", "stale"}
          /\ Found(phone.pending) /\ ReadClaim(phone.pending, "resume", t)
       \/ /\ call["resume"] = "sent" /\ ~Found(phone.pending)
          /\ call' = [call EXCEPT !["resume"] = "nothing"]
          /\ phone' = IF phone.pending = None THEN phone ELSE Forget
          /\ UNCHANGED tvars
       \/ call["resume"] = "stale" /\ ~Found(phone.pending) /\ Drop("resume") /\ UNCHANGED tvars
    /\ UNCHANGED <<cloud, fin, rel, uplinks, page, job>>

\* finalizeClaim up to its lease: what it answers when it gets none.
FinalizeRefused(c, t) ==
    LET row == claims[c]
        overdue == row.status = "CLAIM_PENDING" /\ Past(row.expiresAt, t)
    IN /\ \/ overdue /\ ExpireClaim(c, t)
          \/ ~overdue /\ ~Startable(c, t) /\ ~Recoverable(c, t) /\ UNCHANGED tvars
       /\ \/ /\ row.status \in {"RUNTIME_AUTHORIZED", "ONLINE"}
             /\ Answered("finalize", c, row.status)
          \/ /\ row.status \notin {"RUNTIME_AUTHORIZED", "ONLINE"}
             /\ call' = [call EXCEPT !["finalize"] = "refused"] /\ UNCHANGED phone
       /\ UNCHANGED <<cloud, fin, rel, uplinks, page, job>>

\* It gets the lease and goes on, or does not learn that it got it (a 500).
FinalizeStarts(c, t) ==
    \E l \in Lease :
        /\ FinAcquire(l, c, t)
        /\ \/ /\ fin'[l].pc # "left" /\ job' = l
              /\ call' = IF call["finalize"] = "stale" THEN call
                         ELSE [call EXCEPT !["finalize"] = "running"]
           \/ /\ fin'[l].pc = "left" /\ UNCHANGED job
              /\ call' = [call EXCEPT !["finalize"] = "again"]
        /\ UNCHANGED <<page, phone>>

ServeFinalize(t) ==
    LET mine == phone.pending # None /\ phone.pending = page.claim IN
    \/ /\ call["finalize"] = "sent" /\ ~mine       \* CLAIM_CONTEXT_REQUIRED
       /\ call' = [call EXCEPT !["finalize"] = "refused"]
       /\ UNCHANGED <<svars, page, phone, job>>
    \/ /\ \/ call["finalize"] = "sent" /\ mine
          \/ call["finalize"] = "stale" /\ job = None
       /\ \E c \in Claim :
             c = page.claim /\ (FinalizeRefused(c, t) \/ FinalizeStarts(c, t))

\* A step of an invocation; its end is the answer to who waits for it.  Which
\* failures are retryable (5xx, PROVISIONING_PENDING) depends on the call.
FinalizeRuns(l) ==
    /\ FinWork(l) \/ FinCrash(l)
    /\ LET ends == l = job /\ fin'[l].pc \in Over
           authorized == FinAt(l, "commit") /\ claims' # claims
       IN \/ ~ends /\ UNCHANGED <<call, job, phone>>
          \/ ends /\ authorized /\ job' = None
             /\ Answered("finalize", fin[l].claim, "RUNTIME_AUTHORIZED")
          \/ /\ ends /\ ~authorized /\ job' = None
             /\ \E e \in Error : call' = [call EXCEPT !["finalize"] = e]
             /\ UNCHANGED phone
    /\ UNCHANGED page

\* Any request may be lost, or time out while its invocation goes on; the page
\* hears of it whatever the session.
CallFails(k) ==
    /\ call[k] \in Asked
    /\ call' = [call EXCEPT ![k] = "again"]
    /\ job' = IF k = "finalize" THEN None ELSE job
    /\ UNCHANGED <<svars, page, phone>>

\* Lease ids are fresh UUIDs: the name of an invocation that is over and that
\* no row holds any more is as good as new.
Rename(l) ==
    /\ fin[l].pc \in Over /\ job # l
    /\ \A c \in Claim : claims[c].leaseId # l
    /\ fin' = [fin EXCEPT ![l] = NewFinJob]
    /\ UNCHANGED <<tvars, cloud, rel, uplinks, app>>

----------------------------------------------------------------------------
\* The device, other clients and the services go on by themselves.  Nobody
\* releases a unit while it is being set up.
Device == (\E x \in Cert : FleetStep(x)) \/ (\E m \in uplinks : IngestFirstState(m))
World == (OneWrite \/ Device) /\ UNCHANGED app

Serve == \E t \in Reading : ServeStatus(t) \/ ServeResume(t) \/ ServeFinalize(t)
PageStep ==
    \/ StatusTimer \/ FinalizeTimer
    \/ OnResumed \/ OnStatus \/ OnFinalized \/ \E k \in Request : OnError(k)
User ==
    \/ StartSetup \/ SetupRejected \/ WifiConnected \/ RetryFleetRegistration
    \/ LeaveProvisioning \/ Restart \/ SignOut

AppNext ==
    \/ User
    \/ PageStep
    \/ Serve
    \/ RefreshSession
    \/ \E k \in Request : CallFails(k)
    \/ \E l \in Lease : FinalizeRuns(l) \/ Rename(l)
    \/ World

\* Timers fire and messages are handled; the API answers every request (or the
\* shell's timeout does); a Lambda makes its next call or dies; time passes.
\* Nothing is assumed of the device, which stops enrolling after three attempts
\* and starts its runtime only when the user restarts it, nor of the user.
AppFairness ==
    /\ WF_avars(StatusTimer) /\ WF_avars(FinalizeTimer)
    /\ WF_avars(OnResumed) /\ WF_avars(OnStatus) /\ WF_avars(OnFinalized)
    /\ \A k \in Request : WF_avars(OnError(k))
    /\ WF_avars(Serve)
    /\ \A l \in Lease : WF_avars(FinalizeRuns(l)) /\ WF_avars(Rename(l))
    /\ WF_avars(Tick /\ UNCHANGED <<cloud, fin, rel, uplinks, app>>)

Setup == AppInit /\ [][AppNext]_avars /\ AppFairness

\* The most favourable user and network: a user who waits for the lamp opens the
\* app again whenever the page is at rest, never kills or leaves a busy app for
\* ever, and requests and their answers do not get lost for ever.
AtRest == page.timer = "none" /\ \A k \in Request : call[k] \in {"none", "dropped"}
Patience ==
    /\ WF_avars(AtRest /\ phone.saved # None /\ Restart)
    /\ <>[][ /\ Restart => AtRest
             /\ ~LeaveProvisioning /\ ~RefreshSession
             /\ \A k \in Request : ~CallFails(k) ]_avars

PatientSetup == Setup /\ Patience

----------------------------------------------------------------------------
(* CompleteIsOnline: the page tells the user that the setup is complete    *)
(* only when its own claim is ONLINE, that is, after the device reported   *)
(* over its runtime certificate - whichever answers arrive late, get lost  *)
(* or belong to a finalizeClaim that was given up.                         *)
CompleteIsOnline ==
    [][ page'.stage = "complete" /\ page.stage # "complete" =>
          page'.claim # None /\ claims'[page'.claim].status = "ONLINE" ]_avars

(* LeaseHasWorker: a lease in the table belongs to an invocation at work   *)
(* on that claim, or to one that died, or that did not hear that it got    *)
(* the lease (service.ts:146 is outside of the try), or that failed to     *)
(* give it back (service.ts:171).  Nothing else leaves a lease: not a      *)
(* mismatch, a failed read or a binding that failed or lost its answer.    *)
LeaseHasWorker ==
    \A c \in Claim : claims[c].status = "PROVISIONING" =>
        LET worker == fin[claims[c].leaseId]
        IN worker.claim = c /\ worker.pc \in VerifyPc \cup {"unwind", "left"}

\* What the page may wait for without end: the user's restart of the lamp, a
\* lease that nobody works on, and an answer that the shell dropped.
LampToRestart(c) == claims[c].status = "RUNTIME_AUTHORIZED"
LeaseLeft(c) == claims[c].status = "PROVISIONING" /\ fin[claims[c].leaseId].pc = "left"
AnswerDropped == \E k \in {"status", "finalize"} : call[k] = "dropped"

(* SetupConcludes: once the device is on the Wi-Fi, the page's polling and *)
(* finalizing comes to an end the user sees (complete, failed, or a button *)
(* to try again), whatever requests get lost, invocations die and however  *)
(* the device fares - but for the three waits above.                       *)
SetupConcludes ==
    page.stage \in {"wifi-connected", "provisioning"}
        ~> \/ page.retry \/ page.stage \in {"idle", "failed", "complete"}
           \/ AnswerDropped
           \/ page.claim # None /\ (LampToRestart(page.claim) \/ LeaseLeft(page.claim))

(* StrandedIsTakenOver: what ports.ts:20-24 promises of the finalize lease *)
(* ("an expired lease may be taken over so a crashed worker does not       *)
(* strand the Claim forever"), for the client this repository has: a bound *)
(* claim whose lease ran out gets another finalizer as long as the phone   *)
(* remembers it.  (An unbound claim is swept by DynamoDB's TTL.)           *)
StrandedIsTakenOver ==
    \A c \in Claim :
        LET stranded == /\ claims[c].status = "PROVISIONING"
                        /\ claims[c].resume = "BOOTSTRAPPED"
                        /\ Past(claims[c].leaseExpiresAt, now)
        IN stranded /\ phone.saved = c ~> ~stranded \/ phone.saved # c
=============================================================================
