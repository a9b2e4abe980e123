----------------------------- MODULE AppSession -----------------------------
(***************************************************************************)
(* The signed-in session of the phone: sign-in, start-up, refresh, expiry  *)
(* and sign-out in the native shell, the authenticated requests that run   *)
(* beside them, and what they keep in SecureStore.                         *)
(*                                                                         *)
(* authOperationRef counts the authentication operations.  Its value is    *)
(* only compared for equality with the one an operation started with, so a *)
(* job carries the answer, current, and a new operation makes every other  *)
(* job not current.  In the same way a request carries whether the session *)
(* object it was given is still apiSessionRef's: same.                     *)
(*                                                                         *)
(* A job is one asynchronous function; its pc names what it awaits.  A     *)
(* user, her personal tenant and her refresh token are one value.          *)
(***************************************************************************)
EXTENDS Sequences

CONSTANTS
    User,       \* accounts
    Job,        \* concurrent sign-ins, sign-outs and requests
    Refresher,  \* the one refresh that requests share
    None

ASSUME SessionAssumption ==
    /\ Refresher \notin Job
    /\ None \notin User \cup Job \cup {Refresher}

VARIABLES
    session,    \* apiSessionRef: whose session
    pending,    \* pendingClaimRef: whose pending claim
    told,       \* authStateRef, and the kind of job that published it
    page,       \* the page's auth state and the request it waits for
    store,      \* SecureStore: whose refresh token, whose pending claim
    queue,      \* the chains of mutations of the two keys
    job,        \* what every job awaits
    homes       \* users whose tenant, pool and membership rows exist

vars == <<session, pending, told, page, store, queue, job, homes>>

----------------------------------------------------------------------------
Maybe(S) == S \cup {None}
Task == Job \cup {Refresher}
Key == {"token", "claim"}
Status == {"loading", "signed-in", "signed-out", "error"}
SignIn == {"restore", "login", "refresh"}
\* Every request but create is as status is when it changes no claim.
Request == {"status", "create"}
Kind == SignIn \cup Request \cup {"none", "logout", "expire"}
Pc == {"idle", "browser", "readToken", "exchange", "saveToken", "dropToken",
       "lookup", "create", "load", "loaded", "dropClaim",
       "call", "forget", "saveClaim", "waits", "retry", "expire",
       "clearToken", "clearClaim", "expiring"}

\* mut: how the job's last mutation of a key went; got: the claim it loaded.
JobState == [kind : Kind, pc : Pc, current : BOOLEAN, same : BOOLEAN,
             tried : BOOLEAN, user : Maybe(User), got : Maybe(User),
             mut : [Key -> {"none", "queued", "done", "skipped", "failed"}]]
\* writing: its guard held and SecureStore is at work.
Mutation == [by : Task, put : Maybe(User), writing : BOOLEAN]
AuthState == [status : Status, user : Maybe(User), by : Kind]

SessionTypeOK ==
    /\ session \in Maybe(User)
    /\ pending \in Maybe(User)
    /\ told \in AuthState
    /\ page \in [status : Status, user : Maybe(User), request : Maybe(Job)]
    /\ store \in [Key -> Maybe(User)]
    /\ queue \in [Key -> Seq(Mutation)]
    /\ job \in [Task -> JobState]
    /\ homes \subseteq User
    /\ \A k \in Key : \A i \in DOMAIN queue[k] : job[queue[k][i].by].mut[k] = "queued"

Untouched == [k \in Key |-> "none"]
Idle == [kind |-> "none", pc |-> "idle", current |-> FALSE, same |-> FALSE,
         tried |-> FALSE, user |-> None, got |-> None, mut |-> Untouched]
Start(kind, pc) == [Idle EXCEPT !.kind = kind, !.pc = pc, !.current = TRUE]

At(j, pc) == job[j].pc = pc
Current(j) == job[j].current
\* ensureCurrent of a request
Served(j) == job[j].current /\ job[j].same

\* The jobs js once another operation began, or another session is in force.
Superseded(js) == [i \in Task |-> [js[i] EXCEPT !.current = FALSE]]
Unserved(js) == [i \in Task |-> [js[i] EXCEPT !.same = FALSE]]

\* publishAuthState, and the page's handling of it: the answer to another
\* request than the page's is not for it.
Publish(status, user, kind, request) ==
    /\ told' = [status |-> status, user |-> user, by |-> kind]
    /\ page' = IF request # None /\ page.request \notin {None, request} THEN page
               ELSE [status |-> status, user |-> user, request |-> None]
Silently == UNCHANGED <<told, page>>

----------------------------------------------------------------------------
(* mutateRefreshToken and mutatePendingClaim: one chain for each key.      *)

Queued(q, k, j, v) ==
    [q EXCEPT ![k] = Append(@, [by |-> j, put |-> v, writing |-> FALSE])]

\* Job j goes on to await, at pc, its mutation of key k to v.
Mutate(j, k, v, pc) ==
    /\ queue' = Queued(queue, k, j, v)
    /\ job' = [job EXCEPT ![j] = [@ EXCEPT !.pc = pc, !.mut = [Untouched EXCEPT ![k] = "queued"]]]

Written(j) == \A k \in Key : job[j].mut[k] # "queued"
Threw(j) == \E k \in Key : job[j].mut[k] = "failed"

\* The guard of a mutation: saving a claim asks for the session, too.
Committed(k, m) ==
    job[m.by].current /\ (k = "claim" /\ m.put # None => job[m.by].same)

TakesTurn(k) ==
    /\ queue[k] # <<>>
    /\ LET m == Head(queue[k]) IN
       /\ ~m.writing
       /\ \/ /\ Committed(k, m)
             /\ queue' = [queue EXCEPT ![k] = <<[m EXCEPT !.writing = TRUE]>> \o Tail(@)]
             /\ UNCHANGED job
          \/ /\ ~Committed(k, m)
             /\ queue' = [queue EXCEPT ![k] = Tail(@)]
             /\ job' = [job EXCEPT ![m.by].mut[k] = "skipped"]
    /\ UNCHANGED <<session, pending, told, page, store, homes>>

Writes(k) ==
    /\ queue[k] # <<>>
    /\ LET m == Head(queue[k]) IN
       /\ m.writing
       /\ queue' = [queue EXCEPT ![k] = Tail(@)]
       /\ \/ store' = [store EXCEPT ![k] = m.put] /\ job' = [job EXCEPT ![m.by].mut[k] = "done"]
          \/ UNCHANGED store /\ job' = [job EXCEPT ![m.by].mut[k] = "failed"]
    /\ UNCHANGED <<session, pending, told, page, homes>>

----------------------------------------------------------------------------
(* The end of a sign-in: what its caller does with its result.             *)

\* The requests that waited for the refresh, with its result.
Woken(js, result) ==
    [i \in Task |->
        IF js[i].pc # "waits" THEN js[i]
        ELSE IF result = "error" THEN Idle
        ELSE IF result = "null" THEN [js[i] EXCEPT !.pc = "expire"]
        ELSE [js[i] EXCEPT !.pc = "retry", !.same = TRUE, !.user = session]]

Ends(j, result) ==
    LET over == [job EXCEPT ![j] = Idle]
        kind == job[j].kind
    IN \/ /\ kind = "refresh"
          /\ job' = Woken(over, result)
          /\ Silently /\ UNCHANGED session
       \/ /\ kind # "refresh" /\ (~Current(j) \/ (kind = "login" /\ result = "null"))
          /\ job' = over
          /\ Silently /\ UNCHANGED session
       \/ /\ kind # "refresh" /\ Current(j) /\ result = "session"
          /\ job' = over
          /\ Publish("signed-in", session, kind, IF kind = "login" THEN j ELSE None)
          /\ UNCHANGED session
       \/ /\ kind = "restore" /\ Current(j) /\ result # "session"
          /\ job' = Unserved(over) /\ session' = None
          /\ Publish("signed-out", None, kind, None)
       \/ /\ kind = "login" /\ Current(j) /\ result = "error"
          /\ job' = Unserved(over) /\ session' = None
          /\ \E s \in {"signed-out", "error"} : Publish(s, None, kind, j)

\* A result that changes nothing but the job and whom it reports to.
Returns(j, result) == Ends(j, result) /\ UNCHANGED <<pending, store, queue, homes>>

----------------------------------------------------------------------------
(* signInWithCognito and refreshCognitoSession.                            *)

\* auth.login, from the button to the browser.
Login(j) ==
    /\ page.status \in {"signed-out", "error"} /\ At(j, "idle")
    /\ job' = [Superseded(job) EXCEPT ![j] = Start("login", "browser")]
    /\ Publish("loading", None, "login", None)
    /\ UNCHANGED <<session, pending, store, queue, homes>>

\* Goes on with an access token: establishAuthenticatedSession asks the server.
HasToken(j, u) ==
    /\ job' = [job EXCEPT ![j] = [@ EXCEPT !.pc = "lookup", !.user = u]]
    /\ UNCHANGED <<session, pending, told, page, store, queue, homes>>

\* Keeps a new refresh token first.
KeepsToken(j, u) ==
    /\ queue' = Queued(queue, "token", j, u)
    /\ job' = [job EXCEPT ![j] = [@ EXCEPT !.pc = "saveToken", !.user = u,
                                           !.mut = [Untouched EXCEPT !["token"] = "queued"]]]
    /\ UNCHANGED <<session, pending, told, page, store, homes>>

\* promptAsync and exchangeCodeAsync.  Cognito answers a code with a refresh
\* token, always.
Browser(j) ==
    /\ At(j, "browser")
    /\ \/ \E u \in User : Current(j) /\ KeepsToken(j, u)
       \/ ~Current(j) /\ Returns(j, "null")
       \/ Returns(j, "error")

ReadToken(j) ==
    /\ At(j, "readToken")
    /\ \/ /\ store["token"] # None /\ Current(j)
          /\ job' = [job EXCEPT ![j] = [@ EXCEPT !.pc = "exchange", !.user = store["token"]]]
          /\ UNCHANGED <<session, pending, told, page, store, queue, homes>>
       \/ (store["token"] = None \/ ~Current(j)) /\ Returns(j, "null")

\* refreshAsync: the token endpoint may send another refresh token, may not
\* be reached, or may refuse (invalid_grant).
Exchange(j) ==
    /\ At(j, "exchange")
    /\ \/ Current(j) /\ (KeepsToken(j, job[j].user) \/ HasToken(j, job[j].user))
       \/ ~Current(j) /\ Returns(j, "null")
       \/ Returns(j, "error")
       \/ Mutate(j, "token", None, "dropToken")
          /\ UNCHANGED <<session, pending, told, page, store, homes>>

TokenSaved(j) ==
    /\ At(j, "saveToken") /\ Written(j)
    /\ \/ job[j].mut["token"] = "done" /\ Current(j) /\ HasToken(j, job[j].user)
       \/ ~Threw(j) /\ (job[j].mut["token"] = "skipped" \/ ~Current(j)) /\ Returns(j, "null")
       \/ Threw(j) /\ Returns(j, "error")

TokenDropped(j) ==
    /\ At(j, "dropToken") /\ Written(j)
    /\ Returns(j, IF Threw(j) THEN "error" ELSE "null")

----------------------------------------------------------------------------
(* establishAuthenticatedSession: POST /session/bootstrap, then the pending*)
(* claim that SecureStore may hold.                                        *)

\* The answer arrived: the session is in force.
Established(j) ==
    \/ /\ Current(j)
       /\ session' = job[j].user
       /\ job' = [Unserved(job) EXCEPT ![j] = [@ EXCEPT !.pc = "load"]]
       /\ UNCHANGED <<pending, told, page, store, queue>>
    \/ ~Current(j) /\ Ends(j, "null") /\ UNCHANGED <<pending, store, queue>>

\* The request failed; a refresh takes a 401 for a session that is over.
NotEstablished(j) ==
    \E r \in {"error"} \cup (IF job[j].kind = "refresh" THEN {"null"} ELSE {}) :
        Ends(j, r) /\ UNCHANGED <<pending, store, queue>>

\* activeTenantContext
LookupHome(j) ==
    /\ At(j, "lookup")
    /\ UNCHANGED homes
    /\ \/ job[j].user \in homes /\ Established(j)
       \/ /\ job[j].user \notin homes
          /\ job' = [job EXCEPT ![j].pc = "create"]
          /\ UNCHANGED <<session, pending, told, page, store, queue>>
       \/ NotEstablished(j)

\* bootstrapPersonalTenant: the transaction, or the rows of the one that was
\* faster.  Its answer may be lost.
CreateHome(j) ==
    /\ At(j, "create")
    /\ homes' = homes \cup {job[j].user}
    /\ Established(j) \/ NotEstablished(j)

\* loadPendingClaim reads the key outside the chain of its mutations.
LoadClaim(j) ==
    /\ At(j, "load")
    /\ \/ job' = [job EXCEPT ![j] = [@ EXCEPT !.pc = "loaded", !.got = store["claim"]]]
       \/ job' = [job EXCEPT ![j] = [@ EXCEPT !.pc = "dropClaim", !.mut = Untouched]]
    /\ UNCHANGED <<session, pending, told, page, store, queue, homes>>

\* Mistaken: a stored claim is taken without asking whose it is.
ClaimLoadedOfAnyone(j) ==
    /\ At(j, "loaded")
    /\ \/ ~Current(j) /\ Returns(j, "null")
       \/ /\ Current(j)
          /\ pending' = job[j].got
          /\ Ends(j, "session") /\ UNCHANGED <<store, queue, homes>>

\* A stored claim of this user is the pending one; one that is overdue or
\* somebody else's is deleted.
ClaimLoaded(j) ==
    /\ At(j, "loaded")
    /\ \/ /\ job[j].got # None                      \* its time is over
          /\ Mutate(j, "claim", None, "dropClaim")
          /\ UNCHANGED <<session, pending, told, page, store, homes>>
       \/ ~Current(j) /\ Returns(j, "null")
       \/ /\ Current(j) /\ job[j].got \in {None, session}
          /\ pending' = job[j].got
          /\ Ends(j, "session") /\ UNCHANGED <<store, queue, homes>>
       \/ /\ Current(j) /\ job[j].got \notin {None, session}
          /\ pending' = None
          /\ Mutate(j, "claim", None, "dropClaim")
          /\ UNCHANGED <<session, told, page, store, homes>>

\* Signs in without a claim, whether deleting the stored one worked or not.
ClaimDropped(j) ==
    /\ At(j, "dropClaim") /\ Written(j)
    /\ \/ ~Current(j) /\ Returns(j, "null")
       \/ /\ Current(j) /\ pending' = None
          /\ Ends(j, "session") /\ UNCHANGED <<store, queue, homes>>

----------------------------------------------------------------------------
(* The end of a session.                                                   *)

\* Mistaken: authOperationRef stays, so what is under way goes on.
LeavesBeside(j, kind, pc) ==
    /\ session' = None
    /\ pending' = None
    /\ job' = [Unserved(job) EXCEPT
                 ![j] = [Start(kind, pc) EXCEPT
                           !.mut = [k \in Key |-> IF k = "token" \/ kind = "expire"
                                                  THEN "queued" ELSE "none"]]]

\* What auth.logout and expireAuthenticatedSession do at once.
Leaves(j, kind, pc) ==
    /\ session' = None
    /\ pending' = None
    /\ job' = [Unserved(Superseded(job)) EXCEPT
                 ![j] = [Start(kind, pc) EXCEPT
                           !.mut = [k \in Key |-> IF k = "token" \/ kind = "expire"
                                                  THEN "queued" ELSE "none"]]]

Logout(j) ==
    /\ page.status = "signed-in" /\ At(j, "idle")
    /\ page' = [page EXCEPT !.status = "loading", !.user = None, !.request = j]
    /\ Leaves(j, "logout", "clearToken")
    /\ queue' = Queued(queue, "token", j, None)
    /\ UNCHANGED <<told, store, homes>>

\* Mistaken: the claim stays in SecureStore.
TokenClearedOnly(j) ==
    /\ At(j, "clearToken") /\ Written(j)
    /\ job' = [job EXCEPT ![j] = Idle]
    /\ \/ Current(j) /\ Publish("signed-out", None, "logout", j)
       \/ ~Current(j) /\ Silently
    /\ UNCHANGED <<session, pending, store, queue, homes>>

TokenCleared(j) ==
    /\ At(j, "clearToken") /\ Written(j)
    /\ \/ /\ ~Threw(j) /\ Mutate(j, "claim", None, "clearClaim")
       \/ /\ Threw(j) /\ job' = [job EXCEPT ![j] = Idle] /\ UNCHANGED queue
    /\ UNCHANGED <<session, pending, told, page, store, homes>>

\* Nobody catches what a mutation throws in auth.logout.
ClaimCleared(j) ==
    /\ At(j, "clearClaim") /\ Written(j)
    /\ job' = [job EXCEPT ![j] = Idle]
    /\ \/ ~Threw(j) /\ Current(j) /\ Publish("signed-out", None, "logout", j)
       \/ (Threw(j) \/ ~Current(j)) /\ Silently
    /\ UNCHANGED <<session, pending, store, queue, homes>>

Expire(j) ==
    /\ Leaves(j, "expire", "expiring")
    /\ queue' = Queued(Queued(queue, "token", j, None), "claim", j, None)
    /\ UNCHANGED <<told, page, store, homes>>

\* Mistaken: the page is not told.
ExpiredUnsaid(j) ==
    /\ At(j, "expiring") /\ Written(j)
    /\ job' = [job EXCEPT ![j] = Idle]
    /\ UNCHANGED <<session, pending, told, page, store, queue, homes>>

\* The request that found out is not answered: it is an earlier operation's.
Expired(j) ==
    /\ At(j, "expiring") /\ Written(j)
    /\ job' = [job EXCEPT ![j] = Idle]
    /\ \/ ~Threw(j) /\ Current(j) /\ Publish("signed-out", None, "expire", None)
       \/ (Threw(j) \/ ~Current(j)) /\ Silently
    /\ UNCHANGED <<session, pending, store, queue, homes>>

----------------------------------------------------------------------------
(* The authenticated requests (createAuthenticatedRequestRunner's run).    *)

\* The request itself, with the session in force.  A create uses the pending
\* claim again, or forgets it before it asks for another one.
Runs(j, as) ==
    LET now(pc, mut) == [job EXCEPT ![j] = [as EXCEPT !.pc = pc, !.mut = mut]] IN
    \/ /\ as.kind # "create" \/ pending = None
       /\ job' = now("call", Untouched)
       /\ UNCHANGED <<pending, queue>>
    \/ /\ as.kind = "create" /\ pending = as.user
       /\ job' = now("saveClaim", [Untouched EXCEPT !["claim"] = "queued"])
       /\ queue' = Queued(queue, "claim", j, as.user)
       /\ UNCHANGED pending
    \/ /\ as.kind = "create" /\ pending # None
       /\ pending' = None
       /\ job' = now("forget", [Untouched EXCEPT !["claim"] = "queued"])
       /\ queue' = Queued(queue, "claim", j, None)

Ask(j, kind) ==
    /\ page.status = "signed-in" /\ session # None /\ At(j, "idle")
    /\ Runs(j, [Start(kind, "call") EXCEPT !.same = TRUE, !.user = session])
    /\ UNCHANGED <<session, told, page, store, homes>>

\* The HTTP API answers.  An answer under a session or operation that is over
\* is dropped; a status that ends the claim makes the phone forget it.
Answered(j) ==
    /\ At(j, "call")
    /\ \/ /\ ~Served(j) \/ job[j].kind = "status"
          /\ job' = [job EXCEPT ![j] = Idle]
          /\ UNCHANGED <<pending, queue>>
       \/ /\ Served(j) /\ job[j].kind = "status"
          /\ pending' = None
          /\ Mutate(j, "claim", None, "forget")
       \/ /\ Served(j) /\ job[j].kind = "create"
          /\ pending' = job[j].user
          /\ Mutate(j, "claim", job[j].user, "saveClaim")
    /\ UNCHANGED <<session, told, page, store, homes>>

\* Any failure but a 401.
Fails(j) ==
    /\ At(j, "call")
    /\ job' = [job EXCEPT ![j] = Idle]
    /\ UNCHANGED <<session, pending, told, page, store, queue, homes>>

Again(j) == [job[j] EXCEPT !.same = TRUE, !.tried = TRUE, !.user = session]

\* A 401: wait for the refresh of this session, or go on with the one that
\* replaced it; the second one, or no session at all, is the end.
Unauthorized(j) ==
    /\ At(j, "call")
    /\ \/ /\ ~job[j].tried /\ job[j].same
          /\ job' = [job EXCEPT
               ![j] = [@ EXCEPT !.pc = "waits", !.tried = TRUE],
               ![Refresher] = IF @.pc = "idle" THEN Start("refresh", "readToken") ELSE @]
          /\ UNCHANGED <<session, pending, told, page, store, queue, homes>>
       \/ /\ ~job[j].tried /\ ~job[j].same /\ session # None
          /\ \/ Current(j) /\ Runs(j, Again(j))
             \/ /\ ~Current(j) /\ job' = [job EXCEPT ![j] = Idle]
                /\ UNCHANGED <<pending, queue>>
          /\ UNCHANGED <<session, told, page, store, homes>>
       \/ job[j].tried /\ Expire(j)
       \/ ~job[j].same /\ session = None /\ Expire(j)

\* The refresh gave a session, or none.
Retries(j) ==
    /\ At(j, "retry")
    /\ \/ Served(j) /\ Runs(j, Again(j))
       \/ ~Served(j) /\ job' = [job EXCEPT ![j] = Idle] /\ UNCHANGED <<pending, queue>>
    /\ UNCHANGED <<session, told, page, store, homes>>

GivesUp(j) == At(j, "expire") /\ Expire(j)

\* Mistaken: the deletion is not awaited.
ForgottenEarly(j) ==
    /\ At(j, "forget")
    /\ job' = [job EXCEPT ![j] =
                 IF @.kind = "create" /\ Served(j) THEN [@ EXCEPT !.pc = "call"] ELSE Idle]
    /\ UNCHANGED <<session, pending, told, page, store, queue, homes>>

\* clearPendingClaimContext is over: a create now asks for its claim.
Forgotten(j) ==
    /\ At(j, "forget") /\ Written(j)
    /\ job' = [job EXCEPT ![j] =
                 IF @.kind = "create" /\ Served(j) /\ ~Threw(j) THEN [@ EXCEPT !.pc = "call"]
                 ELSE Idle]
    /\ UNCHANGED <<session, pending, told, page, store, queue, homes>>

\* savePendingClaim is over: BleSetup's BindClaim is next.
ClaimSaved(j) ==
    /\ At(j, "saveClaim") /\ Written(j)
    /\ job' = [job EXCEPT ![j] = Idle]
    /\ UNCHANGED <<session, pending, told, page, store, queue, homes>>

----------------------------------------------------------------------------
(* The app is started, perhaps after it was killed: only SecureStore and   *)
(* the server have kept anything.                                          *)
Restart(j) ==
    /\ session' = None /\ pending' = None
    /\ told' = [status |-> "loading", user |-> None, by |-> "restore"]
    /\ page' = [status |-> "loading", user |-> None, request |-> None]
    /\ queue' = [k \in Key |-> <<>>]
    /\ job' = [[i \in Task |-> Idle] EXCEPT ![j] = Start("restore", "readToken")]
    /\ UNCHANGED <<store, homes>>

\* The WebView is loaded again: bridge.ready is answered with authStateRef.
ReloadPage ==
    /\ page' = [status |-> told.status, user |-> told.user, request |-> None]
    /\ page' # page
    /\ UNCHANGED <<session, pending, told, store, queue, job, homes>>

SessionInit ==
    /\ session = None /\ pending = None
    /\ told = [status |-> "loading", user |-> None, by |-> "restore"]
    /\ page = [status |-> "loading", user |-> None, request |-> None]
    /\ store = [k \in Key |-> None]
    /\ queue = [k \in Key |-> <<>>]
    /\ \E j \in Job : job = [[i \in Task |-> Idle] EXCEPT ![j] = Start("restore", "readToken")]
    /\ homes = {}

JobStep(j) ==
    \/ Browser(j) \/ ReadToken(j) \/ Exchange(j) \/ TokenSaved(j) \/ TokenDropped(j)
    \/ LookupHome(j) \/ CreateHome(j) \/ LoadClaim(j) \/ ClaimLoaded(j) \/ ClaimDropped(j)
    \/ TokenCleared(j) \/ ClaimCleared(j) \/ Expired(j)
    \/ Answered(j) \/ Fails(j) \/ Unauthorized(j) \/ Retries(j) \/ GivesUp(j)
    \/ Forgotten(j) \/ ClaimSaved(j)

SessionNext ==
    \/ \E j \in Task : JobStep(j)
    \/ \E k \in Key : TakesTurn(k) \/ Writes(k)
    \/ \E j \in Job : Login(j) \/ Logout(j) \/ \E kind \in Request : Ask(j, kind)
    \/ \E j \in Job : Restart(j)
    \/ ReloadPage

\* Every call that is awaited comes back - the browser is closed, a request
\* answered or timed out, SecureStore done - and its function goes on.
SessionFairness ==
    /\ \A j \in Task : WF_vars(JobStep(j))
    /\ \A k \in Key : WF_vars(TakesTurn(k) \/ Writes(k))

AppSessionSpec == SessionInit /\ [][SessionNext]_vars /\ SessionFairness

\* The same, when the app is not killed nor its page reloaded again and again.
Undisturbed == AppSessionSpec /\ <>[][~ReloadPage /\ \A j \in Job : ~Restart(j)]_vars

----------------------------------------------------------------------------
(* ClaimIsTheSessions: the pending claim in memory always belongs to the   *)
(* user whose session is in force - through sign-outs, refreshes and late  *)
(* answers of earlier sessions - so no user finalizes another one's claim. *)
ClaimIsTheSessions == pending # None => pending = session

(* TokenIsTheSessions: the refresh token that SecureStore keeps is the     *)
(* signed-in user's: neither a refresh nor a restart turns one user's      *)
(* session into another one's.                                             *)
TokenIsTheSessions ==
    session # None => store["token"] \in {None, session}

(* LeftIsEmpty: once sign-out or expiry is announced nothing of the user   *)
(* is left on the phone, and no write that was under way brings it back    *)
(* ("logout generation prevents a late Cognito exchange from restoring the *)
(* refresh token", session-and-pending-claim.test.cjs).                    *)
LeftIsEmpty ==
    told.status = "signed-out" /\ told.by \in {"logout", "expire"} =>
        session = None /\ pending = None /\ store = [k \in Key |-> None]

\* SecureStore refused a deletion: auth.logout and expireAuthenticatedSession
\* end there and tell nobody.
DeletionRefused ==
    \E j \in Job : job[j].pc \in {"clearToken", "clearClaim", "expiring"} /\ Threw(j)

(* SignInConcludes: unless SecureStore refuses a deletion, the page does   *)
(* not stay "loading", nor show a user whose session is over: however      *)
(* sign-ins, sign-outs, expiries and refreshes overtake each other, the    *)
(* one that is current tells the page its outcome.                         *)
SignInConcludes ==
    \/ <>DeletionRefused
    \/ []<>(page.status # "loading" /\ ~(told.status = "signed-in" /\ session = None))
=============================================================================
