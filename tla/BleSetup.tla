------------------------------ MODULE BleSetup ------------------------------
(***************************************************************************)
(* Connecting a lamp and giving it a claim and the Wi-Fi: the page's       *)
(* attempt, the native shell's handlers with MoodlightBle, the Android     *)
(* module that owns the secure session, and the lamp.                      *)
(*                                                                         *)
(* The page and the shell exchange messages in order.  A handler that      *)
(* awaits something is a job; job.fresh says whether operationVersion is   *)
(* still the one it took.  The module's promises are settled in results,   *)
(* in order.  Its generation and promise checks make a late callback       *)
(* a no-op, so a callback is taken only while its promise is pending.      *)
(*                                                                         *)
(* A lamp, its product registration and its claim are one value.  A request*)
(* of an attempt is named by the attempt and its type.  The session is the *)
(* same throughout (AppSession), and the claim lives (SetupApp).           *)
(***************************************************************************)
EXTENDS Naturals, Sequences, FiniteSets

CONSTANTS
    Lamp,
    MaxAttempt,     \* bound of the page's attempts
    None

ASSUME BleAssumption ==
    /\ MaxAttempt \in Nat \ {0}
    /\ None \notin Lamp \cup (0 .. MaxAttempt)

VARIABLES
    page,       \* what page.tsx keeps of the attempt
    attempts,   \* registration ids made so far
    toNative,   \* postToNative
    toPage,     \* sendToWeb
    ble,        \* MoodlightBle's fields
    phone,      \* productRegistrationRef, pendingClaimRef, and the permission
    jobs,       \* handlers that await
    module,     \* MoodlightSecureProvisioningModule's fields
    results,    \* its settled promises, on their way to the handlers
    lamp        \* what a lamp keeps in flash

vars == <<page, attempts, toNative, toPage, ble, phone, jobs, module, results, lamp>>

----------------------------------------------------------------------------
Maybe(S) == S \cup {None}
Attempt == 1 .. MaxAttempt
Request == {"scan", "connect", "create", "wifiScan", "provision"}
PageStage == {"idle", "scanning", "connecting", "provisioning", "wifi",
              "wifi-connected", "failed"}
BleStage == {"idle", "scanning", "cancelled", "connecting", "secure-session",
             "provisioning", "wifi", "wifi-connected", "failed"}

\* wants: pendingRef's requests, and claimCreateRequestRef's.
Page == [attempt : Maybe(Attempt), stage : PageStage, wants : SUBSET Request,
         nearby : SUBSET Lamp, connected : Maybe(Lamp), claim : Maybe(Lamp),
         listing : BOOLEAN]
Ble == [attempt : Maybe(Attempt), stage : BleStage, found : SUBSET Lamp,
        connected : Maybe(Lamp)]
Phone == [registration : Maybe(Lamp), claim : Maybe(Lamp), permitted : BOOLEAN]
Job == [op : Request, attempt : Attempt, lamp : Maybe(Lamp), claim : Maybe(Lamp),
        at : {"permission", "server", "save", "module"}, fresh : BOOLEAN]
\* by: whose promise is pending, if op is not "none"; done: the lamp did it.
Module == [op : {"none"} \cup Request, by : Maybe(Attempt), target : Maybe(Lamp),
           session : Maybe(Lamp), bound : Maybe(Lamp), claim : Maybe(Lamp), done : BOOLEAN]

BleTypeOK ==
    /\ page \in Page
    /\ ble \in Ble
    /\ phone \in Phone
    /\ jobs \subseteq Job
    /\ module \in Module
    /\ lamp \in [Lamp -> [bound : Maybe(Lamp), online : BOOLEAN]]
    /\ \A i, j \in jobs : i.op = j.op /\ i.attempt = j.attempt => i = j
    /\ module.op # "none" =>
         \E j \in jobs : j.op = module.op /\ j.attempt = module.by /\ j.at = "module"

BlankPage == [attempt |-> None, stage |-> "idle", wants |-> {}, nearby |-> {},
              connected |-> None, claim |-> None, listing |-> FALSE]
FreeModule == [op |-> "none", by |-> None, target |-> None, session |-> None,
               bound |-> None, claim |-> None, done |-> FALSE]

BleInit ==
    /\ page = BlankPage /\ attempts = 0
    /\ toNative = <<>> /\ toPage = <<>>
    /\ ble = [attempt |-> None, stage |-> "idle", found |-> {}, connected |-> None]
    /\ phone = [registration |-> None, claim |-> None, permitted |-> FALSE]
    /\ jobs = {} /\ module = FreeModule /\ results = <<>>
    /\ lamp = [d \in Lamp |-> [bound |-> None, online |-> FALSE]]

Ask(type, a, d) == [type |-> type, attempt |-> a, lamp |-> d]
Tell(type, of, a, d) == [type |-> type, of |-> of, attempt |-> a, lamp |-> d]
Error(of, a) == Tell("error", of, a, None)

Says(m) == toPage' = Append(toPage, m)
Silently == UNCHANGED toPage
Posts(ms) == toNative' = toNative \o ms

----------------------------------------------------------------------------
(* The page: its user, and the messages it gets.                           *)

\* startScan: a new attempt; the one before is forgotten, not disconnected.
StartScan ==
    /\ attempts < MaxAttempt
    /\ page.stage = "failed" \/ (page.stage = "idle" /\ page.nearby = {})
    /\ attempts' = attempts + 1
    /\ page' = [BlankPage EXCEPT !.attempt = attempts', !.stage = "scanning", !.wants = {"scan"},
                                 !.claim = page.claim]
    /\ Posts(<<Ask("scan", attempts', None)>>)
    /\ UNCHANGED <<toPage, ble, phone, jobs, module, results, lamp>>

ConnectDevice(d) ==
    /\ page.stage \in {"scanning", "idle"} /\ d \in page.nearby
    /\ page' = [page EXCEPT !.wants = (@ \ {"scan"}) \cup {"connect"}, !.stage = "connecting",
                            !.connected = d, !.listing = FALSE]
    /\ Posts(<<Ask("connect", page.attempt, d)>>)
    /\ UNCHANGED <<attempts, toPage, ble, phone, jobs, module, results, lamp>>

\* scanWifiNetworks
WithWifiScan(p) ==
    IF "wifiScan" \in p.wants THEN p
    ELSE [p EXCEPT !.wants = @ \cup {"wifiScan"}, !.listing = TRUE]
WifiScanOf(p) ==
    IF "wifiScan" \in p.wants THEN <<>> ELSE <<Ask("wifiScan", p.attempt, p.connected)>>

\* No network was found.
ScanWifiAgain ==
    /\ page.stage = "wifi" /\ ~page.listing
    /\ page' = WithWifiScan(page) /\ Posts(WifiScanOf(page))
    /\ UNCHANGED <<attempts, toPage, ble, phone, jobs, module, results, lamp>>

Provision ==
    /\ page.stage = "wifi" /\ ~page.listing
    /\ page.claim # None /\ "provision" \notin page.wants
    /\ page' = [page EXCEPT !.wants = @ \cup {"provision"}, !.stage = "provisioning"]
    /\ Posts(<<Ask("provision", page.attempt, page.connected)>>)
    /\ UNCHANGED <<attempts, toPage, ble, phone, jobs, module, results, lamp>>

\* cleanupProvisioning: leaving the screen, cancelling, signing out.
CleanupProvisioning ==
    /\ page.attempt # None
    /\ page' = BlankPage
    /\ Posts(<<Ask("cancelScan", page.attempt, None), Ask("disconnect", page.attempt, None)>>)
    /\ UNCHANGED <<attempts, toPage, ble, phone, jobs, module, results, lamp>>

\* The WebView is loaded again; what was under way to the old page is lost.
\* One bridge.ready at a time bounds the queue.
Reload ==
    /\ \A i \in DOMAIN toNative : toNative[i].type # "ready"
    /\ page # BlankPage
    /\ page' = BlankPage /\ toPage' = <<>>
    /\ Posts(<<Ask("ready", None, None)>>)
    /\ UNCHANGED <<attempts, ble, phone, jobs, module, results, lamp>>

\* acceptsNativeResponse, and the comparison with claimCreateRequestRef.  The
\* state of the adapter comes without an attempt.
Accepts(m) == m.of \in page.wants /\ m.attempt \in {None, page.attempt}

Heard(m) ==
    LET done == [page EXCEPT !.wants = @ \ {m.of}] IN
    CASE m.type = "found"       -> [page EXCEPT !.nearby = @ \cup {m.lamp}]
      [] m.type = "scanned"     -> [done EXCEPT !.stage = "idle"]
      [] m.type = "connected"   -> [done EXCEPT !.connected = m.lamp, !.stage = "provisioning",
                                                !.wants = @ \cup {"create"}]
      [] m.type = "created"     -> WithWifiScan([done EXCEPT !.claim = m.lamp])
      [] m.type = "networks"    -> [done EXCEPT !.listing = FALSE, !.stage = "wifi"]
      [] m.type = "provisioned" -> [done EXCEPT !.stage = "wifi-connected"]
      [] m.type = "blocked"     -> [done EXCEPT !.stage = "failed"]
      [] m.type = "error"       -> [done EXCEPT !.listing = FALSE, !.stage = "failed"]

Replies(m) ==
    CASE m.type = "connected" -> <<Ask("create", m.attempt, m.lamp)>>
      [] m.type = "created"   -> WifiScanOf(page)
      [] OTHER                -> <<>>

\* A reloaded page ends the attempt of the page before.
Dispatch ==
    /\ toPage # <<>>
    /\ toPage' = Tail(toPage)
    /\ LET m == Head(toPage) IN
       \/ /\ m.type = "snapshot"
          /\ Posts(IF m.attempt \in {None, page.attempt} THEN <<>>
                   ELSE <<Ask("disconnect", m.attempt, None)>>)
          /\ UNCHANGED page
       \/ /\ m.type # "snapshot" /\ Accepts(m)
          /\ page' = Heard(m) /\ Posts(Replies(m))
       \/ /\ m.type # "snapshot" /\ ~Accepts(m)
          /\ UNCHANGED <<page, toNative>>
    /\ UNCHANGED <<attempts, ble, phone, jobs, module, results, lamp>>

----------------------------------------------------------------------------
(* The Android module.  Its operators give the module and the results that *)
(* a call leaves behind.                                                   *)

Settled(op, a, ok) == [op |-> op, attempt |-> a, ok |-> ok]
Settles(op, a, ok) == results' = Append(results, Settled(op, a, ok))

Idle == module.op = "none"

\* scanQrAndConnectAndPing: the QR comes first.
CallConnect(a, d) ==
    IF Idle /\ module.session = None
    THEN module' = [FreeModule EXCEPT !.op = "connect", !.by = a, !.target = d] /\ UNCHANGED results
    ELSE UNCHANGED module /\ Settles("connect", a, FALSE)

\* What bindDeviceClaim, scanWifiNetworks and provisionWifi ask of the session.
Callable(op, d) ==
    /\ Idle /\ module.session # None
    /\ op # "wifiScan" => module.session = d
    /\ op = "provision" => module.bound # None

Call(op, a, d, claim) ==
    IF op = "create" /\ module.bound # None
    THEN UNCHANGED module /\ Settles(op, a, module.op # "connect" /\ module.session = d
                                                /\ module.bound = claim)
    ELSE IF Callable(op, d)
    THEN /\ module' = [module EXCEPT !.op = op, !.by = a, !.claim = claim, !.done = FALSE]
         /\ UNCHANGED results
    ELSE UNCHANGED module /\ Settles(op, a, FALSE)

\* disconnect, and what every failure does: cleanup.
CallDisconnect ==
    /\ module' = FreeModule
    /\ IF Idle THEN UNCHANGED results ELSE Settles(module.op, module.by, FALSE)

\* The camera read the QR of this lamp.  Another one's is refused (Fails).
QrRead ==
    /\ module.op = "connect" /\ module.session = None
    /\ module' = [module EXCEPT !.session = module.target]
    /\ UNCHANGED <<page, attempts, toNative, toPage, ble, phone, jobs, results, lamp>>

\* The lamp stores the binding; it joins the Wi-Fi.
LampActs ==
    /\ module.op \in {"create", "provision"} /\ ~module.done
    /\ module' = [module EXCEPT !.done = TRUE]
    /\ lamp' = [lamp EXCEPT ![module.session] =
                  IF module.op = "create" THEN [@ EXCEPT !.bound = module.claim]
                  ELSE [@ EXCEPT !.online = TRUE]]
    /\ UNCHANGED <<page, attempts, toNative, toPage, ble, phone, jobs, results>>

\* Mistaken: the link is given up after each answer.
SucceedsAndLeaves ==
    /\ \/ module.op = "connect" /\ module.session # None
       \/ module.op = "wifiScan"
       \/ module.op \in {"create", "provision"} /\ module.done
    /\ module' = IF module.op \in {"wifiScan", "provision"} THEN FreeModule
                 ELSE [module EXCEPT !.op = "none", !.by = None, !.target = None,
                                     !.claim = None, !.done = FALSE,
                                     !.bound = IF module.op = "create" THEN module.claim ELSE @]
    /\ Settles(module.op, module.by, TRUE)
    /\ UNCHANGED <<page, attempts, toNative, toPage, ble, phone, jobs, lamp>>

\* The lamp answered.
Succeeds ==
    /\ \/ module.op = "connect" /\ module.session # None
       \/ module.op = "wifiScan"
       \/ module.op \in {"create", "provision"} /\ module.done
    /\ module' = IF module.op = "provision" THEN FreeModule
                 ELSE [module EXCEPT !.op = "none", !.by = None, !.target = None,
                                     !.claim = None, !.done = FALSE,
                                     !.bound = IF module.op = "create" THEN module.claim ELSE @]
    /\ Settles(module.op, module.by, TRUE)
    /\ UNCHANGED <<page, attempts, toNative, toPage, ble, phone, jobs, lamp>>

\* The lamp refused, the link broke, or the time is over.
Fails ==
    /\ ~Idle
    /\ CallDisconnect
    /\ UNCHANGED <<page, attempts, toNative, toPage, ble, phone, jobs, lamp>>

----------------------------------------------------------------------------
(* The shell: App.tsx's handlers with MoodlightBle.                        *)

\* Mistaken: the handlers that wait are dropped, and nobody takes the answer.
OutdatedDropped(js) == {}

\* ++operationVersion
Outdated(js) == {[j EXCEPT !.fresh = FALSE] : j \in js}
NewJob(op, m, claim, at) ==
    [op |-> op, attempt |-> m.attempt, lamp |-> m.lamp, claim |-> claim, at |-> at, fresh |-> TRUE]

HandleScan(m) ==
    /\ m.type = "scan"
    /\ phone' = [phone EXCEPT !.registration = None]
    /\ jobs' = jobs \cup {NewJob("scan", m, None, "permission")}
    /\ UNCHANGED <<toPage, ble, module, results>>

HandleCancelScan(m) ==
    /\ m.type = "cancelScan"
    /\ \/ /\ ble.attempt = m.attempt /\ ble.stage = "scanning"
          /\ ble' = [ble EXCEPT !.stage = "cancelled"] /\ jobs' = Outdated(jobs)
          /\ Says(Tell("scanned", "scan", m.attempt, None))
       \/ /\ ble.attempt # m.attempt \/ ble.stage # "scanning"
          /\ UNCHANGED <<ble, jobs, toPage>>
    /\ UNCHANGED <<phone, module, results>>

HandleConnect(m) ==
    /\ m.type = "connect"
    /\ \/ /\ ble.attempt = m.attempt /\ m.lamp \in ble.found /\ ble.stage \in {"scanning", "idle"}
          /\ ble' = [ble EXCEPT !.found = {}, !.stage = "connecting"]
          /\ jobs' = Outdated(jobs) \cup {NewJob("connect", m, None, "module")}
          /\ CallConnect(m.attempt, m.lamp) /\ Silently
       \/ /\ ~(ble.attempt = m.attempt /\ m.lamp \in ble.found /\ ble.stage \in {"scanning", "idle"})
          /\ Says(Error("connect", m.attempt))
          /\ UNCHANGED <<ble, jobs, module, results>>
    /\ UNCHANGED phone

\* Mistaken: the pending claim is used whatever lamp it is for.
ReusableForAny == phone.claim # None

Reusable == phone.claim = phone.registration

\* api.deviceClaims.create, up to its first wait.
HandleCreate(m) ==
    /\ m.type = "create"
    /\ \/ /\ phone.registration = None
          /\ Says(Error("create", m.attempt)) /\ UNCHANGED <<phone, jobs>>
       \/ /\ phone.registration # None /\ Reusable
          /\ jobs' = jobs \cup {NewJob("create", m, phone.claim, "save")}
          /\ Silently /\ UNCHANGED phone
       \/ /\ phone.registration # None /\ ~Reusable
          /\ phone' = [phone EXCEPT !.claim = None]
          /\ jobs' = jobs \cup {NewJob("create", m, phone.registration, "server")}
          /\ Silently
    /\ UNCHANGED <<ble, module, results>>

InSession(a, d) == ble.attempt = a /\ ble.stage = "secure-session" /\ ble.connected = d

\* scanWifi and provision, up to the module's answer.
HandleWifi(m) ==
    /\ m.type \in {"wifiScan", "provision"}
    /\ LET allowed == InSession(m.attempt, m.lamp) /\ (m.type = "provision" => phone.claim # None) IN
       \/ /\ allowed
          /\ ble' = [ble EXCEPT !.stage = IF m.type = "wifiScan" THEN "wifi" ELSE "provisioning"]
          /\ jobs' = Outdated(jobs) \cup {NewJob(m.type, m, None, "module")}
          /\ Call(m.type, m.attempt, m.lamp, None) /\ Silently
       \/ /\ ~allowed
          /\ Says(Error(m.type, m.attempt))
          /\ UNCHANGED <<ble, jobs, module, results>>
    /\ UNCHANGED phone

\* Mistaken: the secure session is left open when no lamp is connected yet.
HandleDisconnectIdle(m) ==
    /\ m.type = "disconnect"
    /\ \/ /\ ble.attempt = m.attempt
          /\ ble' = [attempt |-> None, stage |-> "idle", found |-> {}, connected |-> None]
          /\ jobs' = Outdated(jobs)
          /\ IF ble.connected # None THEN CallDisconnect ELSE UNCHANGED <<module, results>>
       \/ ble.attempt # m.attempt /\ UNCHANGED <<ble, jobs, module, results>>
    /\ UNCHANGED <<toPage, phone>>

\* Mistaken: the attempt of the message is not compared.
HandleDisconnectAny(m) ==
    /\ m.type = "disconnect"
    /\ ble' = [attempt |-> None, stage |-> "idle", found |-> {}, connected |-> None]
    /\ jobs' = Outdated(jobs)
    /\ CallDisconnect
    /\ UNCHANGED <<toPage, phone>>

HandleDisconnect(m) ==
    /\ m.type = "disconnect"
    /\ \/ /\ ble.attempt = m.attempt
          /\ ble' = [attempt |-> None, stage |-> "idle", found |-> {}, connected |-> None]
          /\ jobs' = Outdated(jobs)
          /\ CallDisconnect
       \/ ble.attempt # m.attempt /\ UNCHANGED <<ble, jobs, module, results>>
    /\ UNCHANGED <<toPage, phone>>

HandleReady(m) ==
    /\ m.type = "ready"
    /\ Says(Tell("snapshot", "scan", ble.attempt, None))
    /\ UNCHANGED <<ble, phone, jobs, module, results>>

\* onMessage
Handle ==
    /\ toNative # <<>>
    /\ toNative' = Tail(toNative)
    /\ LET m == Head(toNative) IN
       \/ HandleScan(m) \/ HandleCancelScan(m) \/ HandleConnect(m) \/ HandleCreate(m)
       \/ HandleWifi(m) \/ HandleDisconnect(m) \/ HandleReady(m)
    /\ UNCHANGED <<page, attempts, lamp>>

\* requestBlePermissions answers, in order; Android ends an app whose
\* permission is taken back.
Permission(j) ==
    /\ j.at = "permission"
    /\ \A i \in jobs : i.at = "permission" => j.attempt <= i.attempt
    /\ \/ /\ jobs' = Outdated(jobs \ {j})
          /\ ble' = [ble EXCEPT !.attempt = j.attempt, !.stage = "scanning", !.found = {}]
          /\ phone' = [phone EXCEPT !.permitted = TRUE]
          /\ Silently
       \/ /\ ~phone.permitted
          /\ jobs' = jobs \ {j}
          /\ Says(Tell("blocked", "scan", None, None))
          /\ UNCHANGED <<ble, phone>>
    /\ UNCHANGED <<page, attempts, toNative, module, results, lamp>>

\* The callback of startDeviceScan.  A lamp with Wi-Fi does not advertise.
Found(d) ==
    /\ ble.stage = "scanning" /\ d \notin ble.found /\ ~lamp[d].online
    /\ ble' = [ble EXCEPT !.found = @ \cup {d}]
    /\ Says(Tell("found", "scan", ble.attempt, d))
    /\ UNCHANGED <<page, attempts, toNative, phone, jobs, module, results, lamp>>

\* Its time is over, or it cannot scan.
ScanEnds ==
    /\ ble.stage = "scanning"
    /\ \/ /\ ble' = [ble EXCEPT !.stage = "idle"]
          /\ Says(Tell("scanned", "scan", ble.attempt, None))
       \/ /\ ble' = [ble EXCEPT !.stage = "failed"]
          /\ Says(Error("scan", ble.attempt))
    /\ UNCHANGED <<page, attempts, toNative, phone, jobs, module, results, lamp>>

\* createDeviceClaim's answer.
ServerAnswers(j) ==
    /\ j.at = "server"
    /\ \/ /\ phone' = [phone EXCEPT !.claim = j.claim]
          /\ jobs' = (jobs \ {j}) \cup {[j EXCEPT !.at = "save"]}
          /\ Silently
       \/ /\ jobs' = jobs \ {j}
          /\ Says(Error("create", j.attempt)) /\ UNCHANGED phone
    /\ UNCHANGED <<page, attempts, toNative, ble, module, results, lamp>>

\* savePendingClaim is done: bindClaim, up to the module's answer; or the claim
\* could not be stored.
BindClaim(j) ==
    /\ j.at = "save"
    /\ \/ /\ InSession(j.attempt, j.lamp)
          /\ ble' = [ble EXCEPT !.stage = "provisioning"]
          /\ jobs' = Outdated(jobs \ {j}) \cup {[j EXCEPT !.at = "module", !.fresh = TRUE]}
          /\ Call("create", j.attempt, j.lamp, j.claim) /\ Silently
       \/ /\ jobs' = jobs \ {j}
          /\ Says(Error("create", j.attempt))
          /\ UNCHANGED <<ble, module, results>>
    /\ UNCHANGED <<page, attempts, toNative, phone, lamp>>

\* Connecting compares the attempt only.
Live(j) ==
    /\ ble.attempt = j.attempt
    /\ CASE j.op = "connect"   -> TRUE
         [] j.op = "wifiScan"  -> j.fresh /\ ble.stage = "wifi"
         [] j.op = "provision" -> j.fresh /\ ble.stage = "provisioning"
         [] j.op = "create"    -> j.fresh /\ ble.stage = "provisioning" /\ ble.connected = j.lamp

\* The rest of a handler, with the module's answer.
After(j, ok) ==
    LET done == CASE j.op = "connect" -> "connected" [] j.op = "create" -> "created"
                  [] j.op = "wifiScan" -> "networks" [] j.op = "provision" -> "provisioned"
    IN /\ phone' = [phone EXCEPT !.registration =
                      IF ok /\ j.op = "connect" THEN j.lamp
                      ELSE IF ok /\ j.op = "create" /\ Live(j) THEN None ELSE @]
       /\ \/ /\ Live(j) /\ ok
             /\ ble' = [ble EXCEPT
                  !.stage = IF j.op = "provision" THEN "wifi-connected" ELSE "secure-session",
                  !.connected = IF j.op = "connect" THEN j.lamp
                                ELSE IF j.op = "provision" THEN None ELSE @]
             /\ Says(Tell(done, j.op, j.attempt, IF j.op = "create" THEN j.claim ELSE j.lamp))
          \/ /\ Live(j) /\ ~ok
             /\ ble' = [ble EXCEPT !.stage = "failed",
                          !.connected = IF j.op \in {"create", "provision"} THEN None ELSE @]
             /\ Says(Error(j.op, j.attempt))
          \/ ~Live(j) /\ UNCHANGED ble /\ Silently

Continue ==
    /\ results # <<>>
    /\ results' = Tail(results)
    /\ \E j \in jobs :
       /\ j.at = "module" /\ j.op = Head(results).op /\ j.attempt = Head(results).attempt
       /\ jobs' = jobs \ {j}
       /\ After(j, Head(results).ok)
    /\ UNCHANGED <<page, attempts, toNative, module, lamp>>

----------------------------------------------------------------------------
BleNext ==
    \/ StartScan \/ CleanupProvisioning \/ ScanWifiAgain \/ Provision \/ Reload
    \/ \E d \in Lamp : ConnectDevice(d) \/ Found(d)
    \/ Dispatch
    \/ Handle \/ Continue \/ ScanEnds
    \/ \E j \in jobs : Permission(j) \/ ServerAnswers(j) \/ BindClaim(j)
    \/ QrRead \/ LampActs \/ Succeeds \/ Fails

\* Messages are delivered, every wait ends - the server, SecureStore and the
\* permission dialog answer, a scan and each of the module's calls has a
\* timer - and what was awaited goes on.
BleFairness ==
    /\ WF_vars(Dispatch) /\ WF_vars(Handle) /\ WF_vars(Continue)
    /\ WF_vars(ScanEnds) /\ WF_vars(Succeeds \/ Fails)
    /\ WF_vars(\E j \in jobs : Permission(j) \/ ServerAnswers(j) \/ BindClaim(j))

BleSpec == BleInit /\ [][BleNext]_vars /\ BleFairness

----------------------------------------------------------------------------
(* LampHasItsClaim: a lamp is only ever bound to the claim made for it,    *)
(* and it gets the Wi-Fi only after it was bound, whichever attempts and   *)
(* answers overlap.                                                        *)
LampHasItsClaim ==
    \A d \in Lamp : /\ lamp[d].bound \in {None, d}
                    /\ lamp[d].online => lamp[d].bound = d

Quiet == toNative = <<>> /\ toPage = <<>> /\ jobs = {} /\ results = <<>>

(* WifiShownIsReady: when the page offers the Wi-Fi list and nothing is    *)
(* under way, shell and module are in the secure session of the lamp it    *)
(* shows, and the lamp is bound to the claim that the page holds.          *)
WifiShownIsReady ==
    page.stage = "wifi" /\ Quiet =>
        /\ InSession(page.attempt, page.connected)
        /\ module.session = page.connected /\ module.bound = page.claim

(* LeavingFreesTheLamp: once the shell has given the attempt up, the module *)
(* holds no session and no promise, whatever was under way, so that another*)
(* attempt can connect; no late step opens one again.                      *)
LeavingFreesTheLamp == ble.attempt = None => module = FreeModule

(* SetupMoves: searching, connecting, registering and listing networks     *)
(* come to an end the page shows: no answer that it waits for is lost.     *)
Waiting == page.stage \in {"scanning", "connecting", "provisioning"} \/ page.listing
SetupMoves == Waiting ~> ~Waiting
=============================================================================
