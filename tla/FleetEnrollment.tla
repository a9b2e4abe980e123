--------------------------- MODULE FleetEnrollment ---------------------------
(***************************************************************************)
(* How a lamp gets its identity: the app binds a claim over Bluetooth,     *)
(* fleet_task asks AWS IoT for a certificate, registers it under the       *)
(* claim, and stores the identity in NVS for the next boot.  The requests  *)
(* and answers, the registration hook and the registry row it checks are   *)
(* here as far as the lamp can tell.                                       *)
(*                                                                         *)
(* Every nvs_set and nvs_erase is durable by itself, in the order of the   *)
(* calls: NVS has no transaction over several keys.  MaxFaults connections *)
(* break, messages get lost, come twice, or later than the attempt waits;  *)
(* MaxCuts times the power is cut between any two steps.  Nothing that is   *)
(* under way outlasts a boot.  A nonce has its claim's name.               *)
(***************************************************************************)
EXTENDS Naturals, FiniteSets

CONSTANTS
    Claim, Certificate, None,
    RetryLimit,     \* FLEET_RETRY_LIMIT
    MaxFaults,      \* bound on faults of the network and of NVS
    MaxCuts         \* bound on power cuts

ASSUME EnrollmentAssumption ==
    /\ None \notin Claim \cup Certificate
    /\ RetryLimit \in Nat \ {0} /\ MaxFaults \in Nat /\ MaxCuts \in Nat

VARIABLES
    nvs,        \* the lamp's flash: identity, marker and claim binding
    lamp,       \* its memory
    net,        \* requests and answers under way
    cloud,      \* certificates, the Thing's principals, the registry row
    faults, cuts,
    asked       \* how often the lamp has asked for a certificate

vars == <<nvs, lamp, net, cloud, faults, cuts, asked>>

----------------------------------------------------------------------------
Request == {<<"create">>} \cup ({"register"} \X Certificate \X Claim \X Claim)
Answer == ({"created", "accepted"} \X Certificate) \cup {<<"rejected">>}

Flash ==
    [issued : BOOLEAN, started : BOOLEAN, cert : Certificate \cup {None},
     claim : Claim \cup {None}, nonce : Claim \cup {None}]

\* Where the lamp is.  Between attempt and the last write it has a client.
Connected == {"subCreate", "publish", "waitCreate", "subRegister", "waitRegister",
              "identity", "marker", "issued"}
LampState ==
    [pc : {"off", "wait", "attempt", "enrolled", "stopped", "runtime"} \cup Connected,
     bind : Claim \cup {None},          \* a claim.bind half written
     pend : Certificate \cup {None},    \* has_pending_identity
     requested : BOOLEAN,               \* s_create_request_started
     tries : 0 .. RetryLimit - 1]

CloudState ==
    [certs : SUBSET Certificate, things : SUBSET Certificate,
     claim : Claim \cup {None}, used : SUBSET Claim, pin : Certificate \cup {None}]

Off == [pc |-> "off", bind |-> None, pend |-> None, requested |-> FALSE, tries |-> 0]

EnrollmentInit ==
    /\ nvs = [issued |-> FALSE, started |-> FALSE, cert |-> None, claim |-> None, nonce |-> None]
    /\ lamp = Off
    /\ net = {}
    /\ cloud = [certs |-> {}, things |-> {}, claim |-> None, used |-> {}, pin |-> None]
    /\ faults = 0 /\ cuts = 0 /\ asked = 0

Fault == faults < MaxFaults /\ faults' = faults + 1

\* A message is taken; or, once more, it is to come again.
Take(m) ==
    /\ m \in net
    /\ \/ net' = net \ {m} /\ UNCHANGED faults
       \/ net' = net /\ Fault

----------------------------------------------------------------------------
(* Binding and boot *)

PowerOn ==
    /\ lamp.pc = "off"
    /\ lamp' = [Off EXCEPT !.pc = IF nvs.issued THEN "runtime" ELSE "wait"]
    /\ UNCHANGED <<nvs, net, cloud, faults, cuts, asked>>

\* store_binding writes two keys.  The app binds the claim it holds a
\* reservation for, before it gives the lamp its Wi-Fi.
BindClaim ==
    /\ lamp.pc = "wait" /\ lamp.bind = None
    /\ cloud.claim # None
    /\ nvs' = [nvs EXCEPT !.claim = cloud.claim]
    /\ lamp' = [lamp EXCEPT !.bind = cloud.claim]
    /\ UNCHANGED <<net, cloud, faults, cuts, asked>>

BindNonce ==
    /\ lamp.bind # None
    /\ nvs' = [nvs EXCEPT !.nonce = lamp.bind]
    /\ lamp' = [lamp EXCEPT !.bind = None]
    /\ UNCHANGED <<net, cloud, faults, cuts, asked>>

\* Mistaken FleetStart: the marker of an unfinished request is not read.
FleetStartMistaken ==
    /\ lamp.pc = "wait" /\ lamp.bind = None
    /\ lamp' = [lamp EXCEPT !.pc =
            IF nvs.claim = None \/ nvs.nonce = None THEN "stopped" ELSE "attempt"]
    /\ UNCHANGED <<nvs, net, cloud, faults, cuts, asked>>
\* fleet_task, once the network is there.
FleetStart ==
    /\ lamp.pc = "wait" /\ lamp.bind = None
    /\ lamp' = [lamp EXCEPT !.pc =
            IF nvs.started \/ nvs.claim = None \/ nvs.nonce = None THEN "stopped" ELSE "attempt"]
    /\ UNCHANGED <<nvs, net, cloud, faults, cuts, asked>>

----------------------------------------------------------------------------
(* One attempt: run_attempt and fleet_mqtt_handler *)

\* Mistaken AttemptFailed: one attempt too many.
AttemptFailedOften(l) ==
    IF (l.requested /\ l.pend = None) \/ l.tries >= RetryLimit
    THEN [Off EXCEPT !.pc = "stopped"]
    ELSE [l EXCEPT !.pc = "attempt", !.tries = @ + 1]
\* Mistaken AttemptFailed: the next attempt starts from nothing.
AttemptFailedMistaken(l) ==
    IF l.tries + 1 < RetryLimit
    THEN [Off EXCEPT !.pc = "attempt", !.tries = l.tries + 1]
    ELSE [Off EXCEPT !.pc = "stopped"]
\* fail_attempt or the timeout, and what fleet_task makes of it: a request
\* whose answer is not at hand is not repeated, a certificate at hand is
\* used again.
AttemptFailed(l) ==
    IF (l.requested /\ l.pend = None) \/ l.tries + 1 >= RetryLimit
    THEN [Off EXCEPT !.pc = "stopped"]
    ELSE [l EXCEPT !.pc = "attempt", !.tries = @ + 1]

Connect ==
    /\ lamp.pc = "attempt"
    /\ lamp' = [lamp EXCEPT !.pc = IF lamp.pend = None THEN "subCreate" ELSE "subRegister"]
    /\ UNCHANGED <<nvs, net, cloud, faults, cuts, asked>>

\* Both subscriptions are acknowledged: fleet_identity_mark_enrollment_started.
MarkStarted ==
    /\ lamp.pc = "subCreate"
    /\ IF lamp.requested
       THEN lamp' = AttemptFailed(lamp) /\ UNCHANGED nvs
       ELSE lamp' = [lamp EXCEPT !.pc = "publish"] /\ nvs' = [nvs EXCEPT !.started = TRUE]
    /\ UNCHANGED <<net, cloud, faults, cuts, asked>>

RequestCertificate ==
    /\ lamp.pc = "publish"
    /\ lamp' = [lamp EXCEPT !.pc = "waitCreate", !.requested = TRUE]
    /\ net' = net \cup {<<"create">>}
    /\ asked' = asked + 1
    /\ UNCHANGED <<nvs, cloud, faults, cuts>>

\* publish_registration.
RequestThing ==
    /\ lamp.pc = "subRegister"
    /\ lamp' = [lamp EXCEPT !.pc = "waitRegister"]
    /\ net' = net \cup {<<"register", lamp.pend, nvs.claim, nvs.nonce>>}
    /\ UNCHANGED <<nvs, cloud, faults, cuts, asked>>

\* Mistaken Received: an acceptance is stored whatever the lamp waits for.
ReceivedMistaken(m) ==
    IF lamp.pc = "waitCreate" /\ m[1] = "created"
    THEN [lamp EXCEPT !.pc = "subRegister", !.pend = m[2]]
    ELSE IF m[1] \in {"created", "accepted"} /\ lamp.pend # None
    THEN [lamp EXCEPT !.pc = "identity"]
    ELSE AttemptFailed(lamp)
\* process_complete_response: an answer the lamp does not wait for ends the
\* attempt.
Received(m) ==
    IF lamp.pc = "waitCreate" /\ m[1] = "created"
    THEN [lamp EXCEPT !.pc = "subRegister", !.pend = m[2]]
    ELSE IF lamp.pc = "waitRegister" /\ m[1] = "accepted"
    THEN [lamp EXCEPT !.pc = "identity"]
    ELSE AttemptFailed(lamp)

Receive(m) ==
    /\ lamp.pc \in Connected \ {"identity", "marker", "issued"}
    /\ Take(m)
    /\ lamp' = Received(m)
    /\ UNCHANGED <<nvs, cloud, cuts, asked>>

\* fleet_identity_store_issued, in the callback of the last answer: the four
\* strings, the marker, the flag.
StoreIdentity ==
    /\ lamp.pc = "identity"
    /\ nvs' = [nvs EXCEPT !.cert = lamp.pend]
    /\ lamp' = [lamp EXCEPT !.pc = "marker"]
    /\ UNCHANGED <<net, cloud, faults, cuts, asked>>

EraseMarker ==
    /\ lamp.pc = "marker"
    /\ nvs' = [nvs EXCEPT !.started = FALSE]
    /\ lamp' = [lamp EXCEPT !.pc = "issued"]
    /\ UNCHANGED <<net, cloud, faults, cuts, asked>>

SetIssued ==
    /\ lamp.pc = "issued"
    /\ nvs' = [nvs EXCEPT !.issued = TRUE]
    /\ lamp' = [Off EXCEPT !.pc = "enrolled"]
    /\ UNCHANGED <<net, cloud, faults, cuts, asked>>

\* The connection breaks, a call or a write fails, or the time is over; of
\* itself the last only when nothing is under way any more.
FailAttempt ==
    /\ lamp.pc \in Connected \cup {"attempt"}
    /\ \/ Fault
       \/ lamp.pc \in {"waitCreate", "waitRegister"} /\ net = {} /\ UNCHANGED faults
    /\ lamp' = AttemptFailed(lamp)
    /\ UNCHANGED <<nvs, net, cloud, cuts, asked>>

Lose(m) ==
    /\ m \in net
    /\ Fault
    /\ net' = net \ {m}
    /\ UNCHANGED <<nvs, lamp, cloud, cuts, asked>>

PowerCut ==
    /\ lamp.pc # "off" /\ cuts < MaxCuts
    /\ cuts' = cuts + 1
    /\ lamp' = Off
    /\ net' = {}
    /\ UNCHANGED <<nvs, cloud, faults, asked>>

----------------------------------------------------------------------------
(* AWS IoT and the registry *)

CreateCertificate(k) ==
    /\ k \notin cloud.certs
    /\ \/ net' = (net \ {<<"create">>}) \cup {<<"created", k>>} /\ UNCHANGED faults
       \/ net' = net \cup {<<"created", k>>} /\ Fault
    /\ <<"create">> \in net
    /\ cloud' = [cloud EXCEPT !.certs = @ \cup {k}]
    /\ UNCHANGED <<nvs, lamp, cuts, asked>>

\* The condition of the registration hook.
Allowed(m) ==
    /\ m[3] = cloud.claim /\ m[4] = cloud.claim
    /\ cloud.pin \in {None, m[2]}

\* The hook, and the template when the hook allows it; the template may fail.
RegisterThing(m) ==
    /\ m[1] = "register" /\ m \in net
    /\ \/ /\ Allowed(m)
          /\ cloud' = [cloud EXCEPT !.pin = m[2], !.things = @ \cup {m[2]}]
          /\ net' = (net \ {m}) \cup {<<"accepted", m[2]>>}
          /\ UNCHANGED faults
       \/ /\ Allowed(m)
          /\ cloud' = [cloud EXCEPT !.pin = m[2]]
          /\ net' = (net \ {m}) \cup {<<"rejected">>}
          /\ Fault
       \/ /\ ~Allowed(m)
          /\ net' = (net \ {m}) \cup {<<"rejected">>}
          /\ UNCHANGED <<cloud, faults>>
    /\ UNCHANGED <<nvs, lamp, cuts, asked>>

\* createClaim, the end of its 15 minutes, and the reissue tool in between,
\* which clears latestCertificateId or does not.
Reserve(c) ==
    /\ cloud.claim = None /\ c \notin cloud.used
    /\ \E pin \in {None, cloud.pin} :
        cloud' = [cloud EXCEPT !.claim = c, !.used = @ \cup {c}, !.pin = pin]
    /\ UNCHANGED <<nvs, lamp, net, faults, cuts, asked>>

Expire ==
    /\ cloud.claim # None
    /\ cloud' = [cloud EXCEPT !.claim = None]
    /\ UNCHANGED <<nvs, lamp, net, faults, cuts, asked>>

----------------------------------------------------------------------------
LampStep ==
    \/ FleetStart \/ BindNonce
    \/ Connect \/ MarkStarted \/ RequestCertificate \/ RequestThing
    \/ \E m \in net \cap Answer : Receive(m)
    \/ StoreIdentity \/ EraseMarker \/ SetIssued
    \/ FailAttempt

CloudStep ==
    \/ \E k \in Certificate : CreateCertificate(k)
    \/ \E m \in net : RegisterThing(m)

EnrollmentNext ==
    \/ PowerOn \/ BindClaim \/ LampStep \/ CloudStep
    \/ \E m \in net : Lose(m)
    \/ PowerCut
    \/ Expire \/ \E c \in Claim : Reserve(c)

Enrollment == EnrollmentInit /\ [][EnrollmentNext]_vars

\* The firmware's tasks run and AWS answers.
LiveEnrollment == Enrollment /\ WF_vars(LampStep) /\ WF_vars(CloudStep)

----------------------------------------------------------------------------
EnrollmentTypeOK ==
    /\ nvs \in Flash
    /\ lamp \in LampState
    /\ net \subseteq Request \cup Answer
    /\ cloud \in CloudState
    /\ faults \in 0 .. MaxFaults /\ cuts \in 0 .. MaxCuts
    /\ asked \in Nat

(* The identity a lamp starts its runtime with is one that AWS registered  *)
(* for its Thing, and the one the hook pinned for the claim: what the      *)
(* backend goes on to bind is what the lamp holds.                         *)
IssuedIsRegistered ==
    nvs.issued => /\ nvs.cert \in cloud.things
                  /\ nvs.claim = cloud.claim => nvs.cert = cloud.pin

(* Until a registration was accepted, no fault and no power cut makes the  *)
(* lamp ask for another certificate.                                       *)
UnregisteredAsksOnce == asked > 1 => cloud.things # {}

(* A certificate at hand ends up issued, although the answer to its        *)
(* registration got lost or came late, as long as the claim is reserved:   *)
(* three attempts outlive one fault, unless the power is cut.              *)
CanRegister == nvs.claim = cloud.claim /\ nvs.nonce = cloud.claim /\ cloud.pin \in {None, lamp.pend}
PendingIsIssued ==
    lamp.pend # None /\ CanRegister ~>
        nvs.issued \/ nvs.claim # cloud.claim \/ lamp.pc = "off" \/ faults > 1

=============================================================================
