# Moodlight: a TLA+ model of the backend, the setup app and what lies between

This directory is the formal model of the moodlight system: TLA+ modules
translated from `src/`, TLC configurations that check them on small instances,
and theorems that TLAPS proves for every value of the constants.  `PROJECT.json`
maps each definition to the source lines it stands for.

## 1. The system

A moodlight is an ESP32 lamp.  Its owner sets it up with a phone over Bluetooth,
it then talks MQTT to AWS IoT Core, and a set of Lambda functions over DynamoDB
decides who owns it and what it should do.

| component | state it keeps | operations | correct when |
|---|---|---|---|
| Ownership tables (`dynamodb.ts`, `dynamodb-claim-registrar.ts`, `fleet-registration-hook.ts`) | manufacturing registry row, claim rows, `SERIAL#` lock row, device row | createClaim and its recovery, expireClaim, acquire/releaseFinalizeLease, the hook, bootstrapClaim, authorizeRuntimeClaim, first applyState, revokeDeviceAndReleaseSerial | the four rows describe one stage of the unit; one account and one certificate hold it; no state is a dead end |
| Finalize and release workers (`service.ts`, `aws-provisioning.ts`, `aws-iot.ts`) | an invocation's place in its sequence of calls; IoT certificates, policies, Thing | finalizeClaim, releaseDevice | only a bound device's certificate has runtime rights; a revoked one has none |
| Setup app (`webapp/app/page.tsx`, `mobile/App.tsx`, `pendingClaim.ts`) | the page's request refs, timers and retry counter; the pending claim in SecureStore | create, resume, poll, finalize, retry, leave, restart, sign out | it shows "complete" only for an ONLINE claim; polling ends; a claim in progress is not lost |
| Tenant and session bootstrap (`mobile/App.tsx`, `auth.ts`, `session.ts`, `api.ts`, `pendingClaim.ts`; `service.ts`, `dynamodb.ts` bootstrapPersonalTenant) | session, pending claim and operation counter in memory; refresh token and claim in SecureStore, each with its chain of mutations; tenant rows | restore, login, refresh (shared), logout, expiry, authenticated requests with one retry | one user's token and claim never become another's; nothing comes back after sign-out; the page learns the outcome |
| BLE provisioning (`page.tsx`, `App.tsx`, `MoodlightBle.ts`, `MoodlightSecureProvisioningModule.kt`, `protocomm_custom_endpoints.c`) | the page's attempt and awaited requests; stage, attempt and `operationVersion` of the shell; the module's pending promise and session; the lamp's binding | scan, connect, bind the claim, list networks, provision, disconnect, cancel, reload | a lamp gets the claim made for it, before the Wi-Fi; what is offered can be done; every wait ends |
| Commands (`service.ts` requestState, `dynamodb.ts` reserveCommand/applyState, `mqtt_runtime.c`, `led_controller.c`) | command ledger and sequence, desired and reported state; the lamp's NVS sequence and LED | reserve, publish, apply, persist, report | a request gets one sequence; the lamp never goes back to an older command; the reported state is what the lamp shows |
| Schedules (`service.ts`, `schedules.ts`, `dynamodb-schedules.ts`, `aws-scheduler.ts`) | schedule rows with revision, sync status and retry time; remote EventBridge schedules | create, update, delete, retry, reconcile, execute, cleanup at release | the remote schedule converges to the row, an execution of an old revision does nothing |
| Firmware enrollment (`fleet_provisioning.c`, `fleet_identity.c`, `claim_binding.c`, `app_main.c`) | NVS identity, enrollment marker, claim binding | bind, enroll, store identity, recover | a lost answer or a power cut never leaves a half-written identity in use |
| Telemetry and events, LED driver and serial console, infrastructure, in-memory repository | see "Not modelled" | | |

How they interact: the app calls the HTTP API (Lambda); the API writes the
tables and calls IoT Core and EventBridge Scheduler; IoT Core calls the hook
during Fleet provisioning and the ingest Lambda for every uplink; the lamp gets
commands over MQTT.  Nothing holds a lock over two calls: the tables are
protected by condition expressions, everything else by re-reading.  So the hard
behaviours are interleavings of invocations between two calls, invocations that
die or time out half way (API Gateway answers after 29 s, the Lambda goes on),
clock readings that are old when they are used, answers that arrive late at the
page, sign-ins and attempts that overtake each other in the shell (an
asynchronous handler goes on after whatever it awaited, in a world that has
changed), messages that come twice or in another order, and restarts of the
phone and of the lamp.  `PROJECT.json` lists each hazard with the line where it bites.

## 2. Modules

`UnitOwnership` (abstract) - what the backend promises about a unit: reserved
for an account, bound to a certificate, authorized, online, retired, restocked,
in that order and changing hands in no other way.

`OwnershipTables` - the four rows; one action per conditional write, its guard
the condition expression.  `OwnsAsPromised` is the refinement to `UnitOwnership`.
The callers are open: any account, code, lease, certificate and any clock
reading at most `Lag` old may be passed at any time, which covers every
interleaving, repetition and death of the callers.  DynamoDB's TTL sweep and
the manufacturing reissue tool are not in the repository; they are the
external actions `SweepClaim`, `SweepLock` and `Reissue`.

`Onboarding` extends it with the callers: each finalizeClaim (`fin`, named by
its lease id) and releaseDevice (`rel`) is a program counter over the calls it
makes, interleaved call by call, and IoT Core is `cert` and `thing`.  A call may
fail (`FinFail`), its answer may get lost after it took effect (`FinBind`, and
`FinAcquire`, where the call is outside of the `try`), giving the lease back may
fail as well (`FinUnwind`), the Lambda may die (`FinCrash`, `RelCrash`).  An
invocation that ends with a lease it may hold is `left`.

Fleet provisioning is the hook (`FleetHook`, the repository's) and the template
(`FleetRegister`, external).  A lamp that lost the answer registers its certificate
again (`fleet_provisioning.c:373-384`, `526-540`): the hook says yes again
(`fleet-registration-hook.ts:53`) as long as the claim is reserved, and the template
then finds an ACTIVE certificate and attaches the bootstrap policy to what it has,
before, during or after a finalizer's swap of the policies.  So a certificate may
end with both policies under RUNTIME_AUTHORIZED or ACTIVE, and keeps them, for
nothing looks again; `AuthorizedIsServiceable` allows that and says what still holds.
One assumption is made about IoT Core, which runs hook and template within one
request: between them the unit does not come to another account and the certificate
is not disabled.  The device's publishes are external, too; `IngestFirstState` is
the activation.

`SetupApp` extends that with the setup page and the native shell.  The page
keeps one request of each kind and ignores answers to others, so its request
ids and the answers under way are the one variable `call`.  A call that was under
way when the shell replaced its session is `stale`: its answer is dropped without a
word (`App.tsx:347-353`, `516`) and the page goes on waiting (`dropped`), for it has
no timeout of its own; its error is still told.

`AppSession` - the signed-in session around it.  A `job` is one asynchronous
function (sign-in, sign-out, expiry, request, the refresh that requests share)
and its `pc` names what it awaits.  `authOperationRef` is only compared for
equality with the value an operation started with, so it is a flag of each job,
`current`, that a new operation clears in all others; `same` is the comparison
of a request's session object with `apiSessionRef`.  `queue` holds the two
mutation chains of `auth.ts` and `pendingClaim.ts`, whose guards are evaluated
when a mutation takes its turn.  SecureStore may refuse any write, the app may
be killed at any point (`Restart`), the WebView may be reloaded.  A user, her
personal tenant and her refresh token are one value.

`BleSetup` - connecting a lamp, across four parties: the page, the shell with
`MoodlightBle`, the Android module and the lamp.  `toNative` and `toPage` are
the WebView bridge, in order; a handler that awaits something is in `jobs`, with
`fresh` for "operationVersion is still the one I took"; the module's settled
promises return through `results`.  Generation and promise checks make a late
callback of the module a no-op, so callbacks are taken only while their promise
is pending.  Modelled is the product lamp's path.  Left out: the local test QR
and the demo mode, adapter power events, and the messages that change nothing
the page decides by (`ble.scanning` active, `ble.connecting`, `progress
provisioning`, `ble.disconnected`).  A call of the module is one step although
it runs partly on a queue of its own; a granted permission stays granted.

`CommandRegister` (abstract) - what the backend promises about a lamp's state: one
register that requests change one after the other, each the fields it names and
each once (`Ask`), and a lamp shown to follow it (`Show`): the number of requests
shown as applied never goes back, and the state shown is the one asked for then or
later.

`LampCommands` - a request on its way to the lamp and back: the invocations of
requestState (`call`: read the row, reserve in one transaction, look up after a
conflict, publish), the device row and its ledger, MQTT in both directions
(`down`, `up`), the firmware (`lamp`, `nvs`: retry, stale and new commands, LED,
`applied_cmd` record, report) and `ApplyState`, the ingest's conditional write
of a report.  A state is a function over `Field`, a request names some fields.
`CommandsAsPromised` is the refinement to `CommandRegister`: the requests are the
ledger in the order of its sequence numbers, applied is the sequence of
`row.applied`.

`ScheduleSync` - one schedule row and its EventBridge schedule.  A worker is any
invocation that changes, retries, reconciles or cleans up; it saves the row
under the next revision, then reads and writes the remote schedule in two calls,
then settles the row (`pc` is the next call).  `overlap` is a history variable
of the model: it only remembers whether two workers were ever busy together.

`FleetEnrollment` - the lamp's first identity: claim binding over Bluetooth,
`fleet_task`'s attempts (`lamp.pc` follows `fleet_phase_t`), each NVS write of
`fleet_identity_store_issued` as a step, AWS IoT's answers and the registration
hook's condition as far as the lamp can tell.

The last three stand beside the ownership modules: they share the device's
lifecycle (`RUNTIME_AUTHORIZED`, `ACTIVE`, `REVOKED`) and the registry's pinned
certificate with them, each as far as its own guards read it.  `SetupApp`,
`AppSession` and `BleSetup` cut the phone in three at the places where one part
waits for another: `BleSetup` assumes a session in force and a claim that lives,
`SetupApp` a lamp that was connected or not (`StartSetup`), `AppSession` sees a
request as answered, failed or unauthorized.

`MC*.tla` instantiate them for TLC, `*Proofs.tla` hold the theorems.

Operators commented "Mistaken" are never part of a specification: each is a
definition as a plausible bug would have it, and `PROJECT.json` lists which
property it breaks - the evidence that the property says something.

What the models leave out, and why it is sound for the properties: there is one
unit (rows of different serials share no key); a hash is its arguments, as
SHA-256 is taken to be injective; tenant and pool follow the account; error
codes are `again` or `refused`; wording, validation of formats and logging are
left out.  In `LampCommands` an invocation that gives up after 16 conflicts
(COMMAND_RESERVATION_BUSY, `dynamodb.ts:711`) is one that takes no further step; with
three invocations there are never so many.  In `BleSetup` a claim that cannot be
stored (`App.tsx:425`) is the error branch of `BindClaim`.  In `SetupApp` the user starts
a setup only after the resume at the app's start was answered, nobody releases
the unit while it is being set up, and 15 tries are `MaxTries`.  In `AppSession`
every authenticated request is one of two kinds: `create`, which uses or drops
the pending claim first, and `status`, which may make the phone forget it; all
others change nothing there.

## 3. Runs

| run | question | bounds | result |
|---|---|---|---|
| `ownership` | do the rows agree, can they wedge, do they implement `UnitOwnership`? | 2 accounts, codes, claims, certificates, leases, 5 clock values, readings 1 old: two generations of a unit, with takeover, expiry and release between two accounts | holds |
| `onboarding` | is runtime access exactly with the bound device, whatever overlaps, repeats or dies? | 1 account, 2 codes, claims, certificates, 2 finalizers, 2 releases, symmetric, states that differ only in what a finished invocation once knew taken as one (`View`; 1,601,003 states); two finalizers and two releases are the first numbers at which they can overlap | holds |
| `release_retry` | is decommission idempotent, as `ports.ts:61` asks? | as `onboarding` | violated, see findings |
| `setup` | does the page say "complete" only when it is; who leaves a lease without a worker; does polling come to an end the user sees, and what can keep it from that? | 2 claims in a row, 1 finalizer (renamed when done, so any number in sequence), 2 tries, 3 clock values, the unit's code once; every fault and a session refresh at any time (580,765 states) | holds |
| `stranded` | is a bound claim whose finalizer left its lease taken over? | 1 claim, 2 finalizers, 2 clock values, 2 tries | violated, see findings |
| `commands` | does an acknowledged command survive power cuts; is what the app shows true; do rows, messages and lamp implement `CommandRegister`? | 2 requests, 2 invocations, 2 fields, 2 boots, 3 reports a boot, every fault | holds |
| `commands_arrive` | is a change lost between concurrent requests; does a repeated request get its own command; does the lamp catch up? | 2 requests, 3 invocations (a repetition beside another request), no faults, 4 reports | holds |
| `schedules` | deleted stays deleted, no unseen overwrite, nothing pending for ever; while workers do not overlap, settled means equal | 2 workers, 4 revisions, 2 faults, a release | holds |
| `schedules_race` | does the remote schedule converge when workers overlap (`schedules.test.ts:135`)? | 2 workers, 4 revisions, no fault | violated, see findings |
| `enrollment` | is the stored identity the registered one; does an unregistered lamp ask once; does a certificate in memory outlive a fault? | 2 claims, 3 certificates, 3 attempts as in the code, 2 faults, 2 power cuts | holds |
| `session` | does a session keep to its own token and claim; is nothing left or restored after sign-out; does the page learn how it ends? | 2 accounts, 2 jobs beside the shared refresh, any number of sign-ins, kills and refusals (768,959 states) | holds |
| `ble` | does a lamp get its own claim before the Wi-Fi; is what the page offers possible; does every wait end? | 2 lamps, 2 attempts, any number of requests, reloads and failures (131,967 states; 3 attempts, safety only, were run once) | holds |

`CHECK_DEADLOCK FALSE` in every run: the clock is bounded and units, codes and
invocations run out, so the models really stop.

Why the bounds are enough.  Two of each actor are the first number that
interleaves; a third adds no new pair, and the conditions relate pairs.  Two
claims, codes and certificates make two generations of a unit, so everything an
old generation leaves behind meets a new one.  Three invocations in
`commands_arrive` are a request, its repetition and another request between
them.  Four revisions let a worker be overtaken twice.  In `session` two jobs and
the refresh are any pair of sign-in, sign-out, expiry and request with a refresh
between them, and a job is used again when it is idle.  In `ble` the second
attempt meets everything the first left under way.  `setup` has one finalizer at
a time on purpose: two of them with a page are too many states for its liveness
property; `onboarding` has two finalizers without the page, and section 4 proves
`LeaseHasWorker` for any number.  What is proved in
section 4 needs no bound.

Fairness.  The safety properties need none.  `setup` uses `AppFairness`: timers
fire and messages are handled (React and the bridge are event loops), the API
answers or the shell's timeout does, a Lambda makes its next call or dies, time
passes.  No user action is fair, nothing is assumed of the lamp (it enrolls three
times at most, and starts its runtime only after the user restarted it,
`app_main.c:37-48`), and requests may get lost for ever.  `SetupConcludes` names the
three waits that the code has no end for: `LampToRestart` (RUNTIME_AUTHORIZED until
the lamp publishes), `LeaseLeft` (the situation of finding (2)) and `AnswerDropped`.  `stranded` is the negation of a promise
and therefore assumes the most favourable user and network (`Patience`): even a
user who reopens the app for ever and a network that stops losing requests do
not get the claim out of PROVISIONING.  `commands_arrive` uses `Progress`: Lambdas
run, messages are delivered, the lamp gets its power and network back; nothing is
lost, because what a QoS 1 session drops nobody sends again.  `schedules` uses
`Fairness`: an invocation that does not die goes on, and the RECONCILE_DUE rule
fires every minute (`infra/runtime_integrations.tf`).  `enrollment` uses
`LiveEnrollment`: the firmware's tasks run and AWS answers; `PendingIsIssued`
excludes a second fault, since three attempts are all the code makes.  `session`
uses `Undisturbed`: every awaited call comes back (each has a timeout or is the
user's browser) and the app is not killed nor its page reloaded for ever;
`SignInConcludes` makes one exception, a deletion that SecureStore refuses,
which `auth.logout` reports to nobody.  `ble` uses `BleFairness`: bridge messages
are delivered, every wait ends (scan, connection and each call of the module have
a timer, the permission dialog is answered).

Findings.  (1) `decommission` answers IOT_BINDING_MISMATCH to a retry after an
attempt that died between detaching the certificate and revoking the rows: the
device can never be released.  (2) A claim whose finalizer ended holding the
lease - it died, did not hear that it got the lease, or could not give it back - is
PROVISIONING; the page only polls on that status, so the takeover that
`acquireFinalizeLease` implements is never asked for.  (3) The upsert that ends
`convergeLatestSchedule` (`service.ts:490`) is not followed by a look at the row:
an older revision may overwrite a newer one remotely, the row says ACTIVE, and
every execution is skipped as STALE_REVISION.

Behaviours worth a look that contradict no written statement are listed as
hazards: a 401 of an earlier session's request ends the newer sign-in
(`session.ts:32`); the answer to a claim creation that was given up overwrites the
pending claim (`App.tsx:422`); a scan whose permission dialog outlives the screen
starts with nobody to stop it (`App.tsx:549`); an answer dropped after a session
refresh leaves the page waiting (`App.tsx:516`); a certificate that was registered
twice may keep the bootstrap policy beside the runtime one; a power cut between erasing
`enroll_started` and setting `issued` makes the lamp ask for a second certificate
(`fleet_identity.c:170`).

## 4. Proofs

`OwnershipProofs` proves for every set of accounts, codes, claims, certificates
and leases, every TTL, lag and clock bound, from `OwnershipAssumption` alone
(None is no member of the sets, TTLs are positive): `TypeCorrect`,
`TablesAlwaysAgree`, `CodesAreSingleUse`, `OneBindingAlways`, `NeverWedged` and
`TablesImplementOwnership`.  The inductive invariant is `TypeOK /\ TablesAgree`.
`OneBinding` alone is not inductive: a claim taken over from a crashed worker
could be bound next to an older one unless it is known that claims other than
the registry's are over or overdue (`OthersOver`), and that lock and claim carry
the same deadline (`ReservedAgrees`).  Each write has one lemma per group of
conjuncts it disturbs; the refinement maps each write to a step or a stutter.

`OnboardingProofs` proves `SystemImplementsTables` (each step of a caller is one
write or none), hence all of the above for the composed system, and
`RuntimeOnlyForBoundAlways` and `ReleasedIsDisarmedAlways`.  The strengthening
`SystemInv` says which certificates may be armed or about to be (`Armed`): a finalizer
past bootstrapClaim may attach the runtime policy at any later time, so what
makes it safe is that its certificate is bound, or INACTIVE for good.  A repeated
registration activates whatever certificate the registry names, so `Armed` also says
that no certificate besides these has the runtime policy.

It also proves `AuthorizedAlwaysServiceable` on top of `SystemInv`.  What
finalizeClaim checks one call after the other must hold together when
bootstrapClaim writes; `Verified` says what each read is still worth as long as the
reservation it found is the unit's, whatever Fleet provisioning, expiries and other
invocations do meanwhile.  From there `BootInv` carries it, with the policies from
the second listing on, to authorizeRuntimeClaim, and `ReleaseInv` beyond it: a
release works on the device as it is, or on a certificate no row will name again
(`Gone`), so a late or repeated one cannot disarm the next device.  A release that
revokes the rows has found the Thing gone.  A repeated registration may change the
policies after any of these reads, so what is carried is that the runtime policy is
among them, not that it is alone.  `Stays` proves the steps that disturb
none of this in one place.

`SetupProofs` proves for `Setup`, for any number of accounts, claims,
invocations and tries: `AppTypeCorrect`, `LeaseHasWorkerAlways`,
`SetupImplementsTables` and `SetupRuntimeOnlyForBound`.  `AppStepKinds` shows that
every step of the page and the shell is a step of `Onboarding`, or a `Rename` of a
finished invocation, so `SystemInv` carries over.  `LeaseHasWorker` alone is not
inductive: an invocation could give back the lease of another claim; `LeaseHeld`
adds that the invocation a row names works on that very claim, or left it.  It needs
no assumption: deaths, lost lease answers and failing releases are steps like others,
and the theorem says that nothing else leaves a lease behind.

`CompleteIsAlwaysOnline` says of every page that shows "complete" that its claim is
ONLINE, in the cloud, at that moment.  The page takes an answer that was true when
it was given, so `PageInv` says what an answer on its way is still worth.
`HeardOnline`: an ONLINE is about the claim the page holds now, and is still true.
The second half is `OnlineStays` (no writer of the tables takes a claim out of
ONLINE short of a release, which this composition leaves out: nobody releases a unit
that is being set up).  The first half needs that nothing else replaces the page's
claim under an answer, which only the resume of a stored claim could: `ResumeFirst`
says that while it is awaited the page is blank and has no other request out.  An
answer of finalizeClaim is told by whichever invocation the phone waits for;
`JobAwaited` says that this is the page's.  Here the proof corrected the model: a
page that learns of ONLINE by its polling forgets the finalize it still awaits
(`page.tsx:342-351`), and `OnStatus` had not said so.

`ScheduleProofs` proves, for every number of workers, revisions and faults,
`TypeCorrect`, `RevisionsAlwaysInOrder` and `AloneSettledAgrees`, from
`ScheduleAssumption` (the bounds are naturals).  `RevisionsInOrder` follows from
the conditions of the writes and `TypeOK`, whatever overlaps.  `SettledAgrees` is
not inductive: it says nothing while a worker is busy.  `AloneInv` adds what the one busy worker may rely on at each call
(`JobFits`: the row is still its own, and once it settles the remote schedule is
what it wrote) and that the remote revision is never ahead of the row's.  `Latest`,
which only an overtaken worker reaches, is shown unreachable there; it is where
finding (3) starts.

`LampCommandsProofs` proves, from `CommandAssumption` (patches are parts of
states, None is no member of the sets), for any number of requests, invocations,
fields, boots and reports, with and without faults, every safety property of
`LampCommands`: `CommandTypeCorrect`, `NoUpdateIsLost`, `CallersGetTheirCommands`,
`AcksAreDurable`, `ShownIsAlwaysCurrent`, `NotPendingIsAlwaysApplied`,
`AppliedAlwaysForward`, and the refinement `CommandsFollowRegister`.  The argument
goes up in four layers.  `LedgerInv`: a
command belongs to an invocation past its reservation, and a writer whose `seen`
is still the row's sequence has computed its state from the row's desired one -
the optimistic lock.  `LampInv`: the record in flash is never behind what the
running lamp answers stale commands by, and the LED shows a command of the ledger
not older than that.  `AckInv`, over the reports under way and what the row shows
together: a newer report never names an older command, and none is ahead of the
lamp.  `FollowInv` closes the two ends that only the register sees: every number has
its command, the first change is made to the state of a lamp never commanded, and a
report that names no command (after a power cut, or when applying and rolling back
both failed) still shows a state that was asked for.  Then a reservation is an `Ask`,
a report that ingest takes is a `Show`, and every other step is not seen.

`EnrollmentProofs` proves, from `EnrollmentAssumption`, for any number of claims,
certificates, attempts, faults and power cuts: `EnrollmentTypeCorrect`,
`IssuedIsAlwaysRegistered` and `UnregisteredAlwaysAsksOnce`.  `IssuedIsRegistered`
speaks of the last write only.  `RegInv` follows the certificate there: whatever
requests and acceptances are under way, also repeated ones, name the certificate
in memory and the claim in flash, an accepted one is `Registered`, and what is
being stored is.  `RegisteredStays` shows that neither the hook nor a new claim
takes that back.  `AskInv` says that the marker is in flash before the request
leaves, and that an attempt of the same boot remembers it.

`SessionProofs` proves, from `SessionAssumption`, for any number of accounts,
sign-ins, sign-outs and requests beside the one refresh, with any refusal of
SecureStore, kill and restart: `SessionTyped`, `ClaimAlwaysTheSessions`,
`TokenAlwaysTheSessions` and `LeftAlwaysEmpty`.  None of the three properties is
inductive, for a write that was asked for under one session may be done under the
next.  `SessionInv` therefore speaks of a key and its chain together: `Only(k, u)`
says that the key holds u's or nothing, now and after every mutation under way that
its guard would still let through (`Live`).  A sign-in knows `Only` of its own token
once that is saved, a sign-out of nobody's once the deletion is done, and the
session in force of its user's (`TokenFits`, `CleanFits`, `LeftFits`);
`OperationFits` says that the sign-in or sign-out that is current is alone, so
nothing live is behind its own mutation.  The steps are grouped by what they do to
the jobs: one goes on beside the others (`GoesOn`), one supersedes the others
(`Begins`), one puts a session in force (`Establishes`), the refresh ends for all
who wait (`RefreshEndsKeeps`), a chain moves (`QueueKeeps`), the app starts (`Fresh`).

`BleSetupProofs` proves, from `BleAssumption` (at least one attempt, None is no lamp
and no attempt), for any number of lamps and attempts, every safety property of
`BleSetup`: `BleTypesHold`, `LampKeepsItsClaim`, `LeavingAlwaysFreesTheLamp` and
`WifiIsShownReady`.  None is inductive: they compare the screen of the page with a
lamp, and between the two lie a channel each way, the shell's coroutines, and the
module's promises.  `BleInv` says of everything in between what it is still about.

- Each attempt has one request, job or answer under way (`OneEach`), the one the
  page waits for, naming the lamp it shows (`Asked`, `Fitting`, `PageFits`).  Scans
  are the exception, for a request to scan may wait behind a permission dialog:
  they begin in the order of their attempts, before anything else of theirs
  (`ScansFirst`).  Every promise of the module is awaited by one job (`ResultsFit`).
- So the shell's stage tells the module's session: `ConnectingFits`, `SessionFits`
  and `ModuleFits` relate each stage of the shell to the call that is pending, or to
  the result on its way, and `LeftFits` is the shell that is in no attempt.
- And the page's stage tells the shell's: `CreateFits` (a claim is created for the
  lamp of the session), `PlaceFits` (a page that provisions has a shell in that
  session, or one that failed), `BoundFits` (once the page was told "created", the
  session is bound to its claim), `ListingFits` (the list of networks is under way,
  answered, or shown).

`LampHasItsClaim` is the property a protocol reader would doubt: no message names
lamp and claim together, the shell binds the claim it holds over the session that is
open.  It follows from `CreateFits` and `ModuleFits`, because a session once reached
keeps its lamp as long as the attempt lasts (`StaysInPlace`), and a stored claim is
only reused for the lamp it was made for (`Reusable`).  The steps of the
shell are first sorted by what they do to the attempt and the module (`ShellKinds`:
`Calm`, `Searching`, `Permitted`, `Connects`, `Works`, `Continued`,
`Disconnected`), so each
conjunct is proved once per kind and not once per handler.

Only model-checked: the liveness properties (`SetupConcludes`, `LampCatchesUp`,
`Settles`, `PendingIsIssued`, `SignInConcludes`, `SetupMoves`) and the findings,
whose runs expect a violation.  Every invariant and every action property of a
passing run is a theorem.  Liveness under fairness and ENABLED are out of TLAPS's
reach; no module uses recursion.

## 5. Plan

In this order, the properties first that protect what a user would lose.

1. The due list (`listSchedulesDue`, 100 rows, PENDING_SYNC first) as a module of
   several schedules over `ScheduleSync`'s statuses, with a small limit, and the
   liveness of each row under a limit smaller than the rows that fail.
2. `executeSchedule`: its three reads and its publish against update, delete and
   release, composed with the reservation of `LampCommands`.
3. Release and registration again of one lamp: `FleetEnrollment` with erased
   flash, composed with `OwnershipTables` in place of its own registry row.
4. The other half of the page: the control polling of a command
   (`page.tsx:633-650`), where a superseded command is shown as not applied.

Runs for these join existing configurations where the bounds allow it
(`commands` and `commands_arrive` first).

## 6. Not modelled

- Telemetry and events (`ingest.ts`, `applyTelemetry` and `applyEvent` in
  `dynamodb.ts`): conditional updates of the device row ordered by boot and
  sequence, which is the rule `LampCommands` models for state reports (`Newer`,
  `ApplyState`), each on columns of its own.  Nothing reads these columns to decide
  anything; the one they share with reports, `lastSeenAt`, is only displayed.
- LED driver and serial console (`led_controller.c`, `serial_console.c`): hardware
  output and a manual test tool.  `LampCommands` has the LED as one value that is
  written or not; the order of its channels is left out.
- Infrastructure (`infra/`): Terraform.  What it configures and the code relies on
  (TTL sweep, IoT policies, the Fleet template, the schedule of RECONCILE_DUE) is
  in the models as external actions and fairness.
- In-memory repository (`in-memory.ts`): a test double of `dynamodb.ts`.
- Of Schedules, which is partly modelled: `executeSchedule` after its revision
  check, and the limit of the due list.
