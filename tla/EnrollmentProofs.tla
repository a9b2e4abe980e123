-------------------------- MODULE EnrollmentProofs --------------------------
(***************************************************************************)
(* What holds of FleetEnrollment for any number of claims, certificates,   *)
(* attempts, faults and power cuts.                                        *)
(***************************************************************************)
EXTENDS FleetEnrollment, TLAPS

USE EnrollmentAssumption DEF EnrollmentAssumption

Active == {"attempt"} \cup Connected
Storing == {"identity", "marker", "issued"}

\* What each step of the lamp relies on.
LampRuns ==
    /\ lamp.pc \in Active => nvs.claim # None /\ nvs.nonce # None
    /\ lamp.pc \in {"subCreate", "publish", "waitCreate"} => lamp.pend = None
    /\ lamp.pc \in {"subRegister", "waitRegister"} \cup Storing => lamp.pend # None
    /\ lamp.pc = "publish" => ~lamp.requested
    /\ nvs.claim # None => nvs.claim \in cloud.used
    /\ cloud.claim # None => cloud.claim \in cloud.used

TypeInv == EnrollmentTypeOK /\ LampRuns

----------------------------------------------------------------------------
(* Types *)

(* The fields of a well-formed lamp.                                       *)
LEMMA LampFields ==
    ASSUME NEW l \in LampState
    PROVE  /\ l.pc \in {"off", "wait", "attempt", "enrolled", "stopped", "runtime"} \cup Connected
           /\ l.bind \in Claim \cup {None} /\ l.pend \in Certificate \cup {None}
           /\ l.requested \in BOOLEAN /\ l.tries \in 0 .. RetryLimit - 1
BY DEF LampState

(* A lamp without a memory is well formed.                                 *)
LEMMA OffType ==
    \A pc \in {"off", "wait", "stopped", "runtime", "enrolled"} :
        /\ Off \in LampState /\ Off.pc = "off"
        /\ [Off EXCEPT !.pc = pc] \in LampState /\ [Off EXCEPT !.pc = pc].pc = pc
<1>1. 0 \in 0 .. RetryLimit - 1
  OBVIOUS
<1>2. Off \in LampState /\ Off.pc = "off"
  BY <1>1 DEF Off, LampState
<1> QED
  BY <1>2 DEF LampState

(* A failed attempt is over for good, or the next one begins with what     *)
(* this one had.                                                           *)
LEMMA AttemptFailedKinds ==
    ASSUME NEW l \in LampState
    PROVE  /\ AttemptFailed(l) \in LampState
           /\ \/ AttemptFailed(l).pc = "stopped"
              \/ /\ AttemptFailed(l).pc = "attempt" /\ AttemptFailed(l).pend = l.pend
                 /\ AttemptFailed(l).requested = l.requested
<1>2. CASE AttemptFailed(l) = [Off EXCEPT !.pc = "stopped"]
  BY <1>2, OffType
<1>3. CASE l.tries + 1 < RetryLimit /\ AttemptFailed(l) = [l EXCEPT !.pc = "attempt", !.tries = @ + 1]
  <2>1. l.tries + 1 \in 0 .. RetryLimit - 1
    BY <1>3 DEF LampState
  <2> QED
    BY <1>3, <2>1 DEF LampState
<1>4. l.tries + 1 \in Nat
  BY DEF LampState
<1> QED
  BY <1>2, <1>3, <1>4 DEF AttemptFailed

(* What an answer may be, and a request to register.                       *)
LEMMA MessageKinds ==
    /\ \A m \in Answer : \/ m = <<"rejected">>
                         \/ \E k \in Certificate : m = <<"created", k>> \/ m = <<"accepted", k>>
    /\ \A m \in Request \cup Answer : m[1] = "register" =>
           \E k \in Certificate, c, n \in Claim : m = <<"register", k, c, n>>
<1>1. \A m \in Answer : \/ m = <<"rejected">>
                        \/ \E k \in Certificate : m = <<"created", k>> \/ m = <<"accepted", k>>
  BY DEF Answer
<1>2. \A m \in Answer : m[1] # "register"
  BY <1>1
<1>3. \A m \in Request : m[1] = "register" =>
          \E k \in Certificate, c, n \in Claim : m = <<"register", k, c, n>>
  BY DEF Request
<1> QED
  BY <1>1, <1>2, <1>3

(* A fault is counted, and a message taken from what is under way.         *)
LEMMA TakeLess ==
    ASSUME EnrollmentTypeOK, NEW m, Take(m)
    PROVE  m \in net /\ net' \subseteq net /\ faults' \in 0 .. MaxFaults
BY DEF Take, Fault, EnrollmentTypeOK

(* Where an answer takes the lamp.                                         *)
LEMMA ReceivedKinds ==
    ASSUME lamp \in LampState, NEW m \in Answer
    PROVE  /\ Received(m) \in LampState
           /\ \/ Received(m) = AttemptFailed(lamp)
              \/ \E k \in Certificate :
                    /\ m = <<"created", k>> /\ lamp.pc = "waitCreate"
                    /\ Received(m).pc = "subRegister" /\ Received(m).pend = k
                    /\ Received(m).requested = lamp.requested
              \/ \E k \in Certificate :
                    /\ m = <<"accepted", k>> /\ lamp.pc = "waitRegister"
                    /\ Received(m).pc = "identity" /\ Received(m).pend = lamp.pend
                    /\ Received(m).requested = lamp.requested
<1>1. CASE lamp.pc = "waitCreate" /\ m[1] = "created"
  <2>1. PICK k \in Certificate : m = <<"created", k>>
    BY <1>1, MessageKinds
  <2>2. Received(m) = [lamp EXCEPT !.pc = "subRegister", !.pend = k]
    BY <1>1, <2>1 DEF Received
  <2> QED
    BY <1>1, <2>1, <2>2 DEF LampState, Connected
<1>2. CASE lamp.pc = "waitRegister" /\ m[1] = "accepted"
  <2>1. PICK k \in Certificate : m = <<"accepted", k>>
    BY <1>2, MessageKinds
  <2>2. Received(m) = [lamp EXCEPT !.pc = "identity"]
    BY <1>2, <2>1 DEF Received
  <2> QED
    BY <1>2, <2>1, <2>2 DEF LampState, Connected
<1>3. CASE Received(m) = AttemptFailed(lamp)
  BY <1>3, AttemptFailedKinds
<1> QED
  BY <1>1, <1>2, <1>3 DEF Received

LEMMA NextTypes == TypeInv /\ [EnrollmentNext]_vars => TypeInv'
<1> SUFFICES ASSUME TypeInv, [EnrollmentNext]_vars PROVE TypeInv'
  OBVIOUS
<1> USE DEF TypeInv, EnrollmentTypeOK
<1>0. /\ lamp \in LampState /\ nvs \in Flash /\ cloud \in CloudState /\ net \subseteq Request \cup Answer
      /\ nvs.claim \in Claim \cup {None} /\ nvs.nonce \in Claim \cup {None}
      /\ nvs.issued \in BOOLEAN /\ nvs.started \in BOOLEAN
  BY DEF Flash
<1>1. CASE PowerOn
  <2>1. lamp' \in LampState /\ lamp'.pc \in {"runtime", "wait"}
    BY <1>1, OffType DEF PowerOn
  <2> QED
    BY <1>1, <2>1 DEF PowerOn, LampRuns, Active, Connected, Storing
<1>2. CASE BindClaim
  <2>1. lamp' \in LampState /\ lamp'.pc = "wait"
    BY <1>0, <1>2 DEF BindClaim, LampState, CloudState
  <2>2. nvs' \in Flash /\ nvs'.claim = cloud.claim
    BY <1>0, <1>2 DEF BindClaim, Flash, CloudState
  <2> QED
    BY <1>2, <2>1, <2>2 DEF BindClaim, LampRuns, Active, Connected, Storing
<1>3. CASE BindNonce
  <2>1. lamp' \in LampState /\ lamp'.pc = lamp.pc /\ lamp'.pend = lamp.pend
        /\ lamp'.requested = lamp.requested
    BY <1>0, <1>3 DEF BindNonce, LampState
  <2>2. nvs' \in Flash /\ nvs'.claim = nvs.claim /\ nvs'.nonce # None
    BY <1>0, <1>3, LampFields DEF BindNonce, Flash
  <2> QED
    BY <1>3, <2>1, <2>2 DEF BindNonce, LampRuns
<1>4. CASE FleetStart
  <2>1. lamp' \in LampState /\ lamp'.pc \in {"stopped", "attempt"}
        /\ (lamp'.pc = "attempt" => nvs.claim # None /\ nvs.nonce # None)
    BY <1>0, <1>4 DEF FleetStart, LampState
  <2> QED
    BY <1>4, <2>1 DEF FleetStart, LampRuns, Active, Connected, Storing
<1>5. CASE Connect
  <2>1. /\ lamp' \in LampState /\ lamp'.pend = lamp.pend
        /\ lamp'.pc = IF lamp.pend = None THEN "subCreate" ELSE "subRegister"
    BY <1>0, <1>5 DEF Connect, LampState, Connected
  <2> QED
    BY <1>5, <2>1 DEF Connect, LampRuns, Active, Connected, Storing
<1>6. CASE MarkStarted
  <2>1. CASE lamp.requested
    <3>1. lamp' = AttemptFailed(lamp) /\ UNCHANGED nvs
      BY <1>6, <2>1 DEF MarkStarted
    <3> QED
      BY <1>0, <1>6, <3>1, AttemptFailedKinds DEF MarkStarted, LampRuns, Active, Connected, Storing
  <2>2. CASE ~lamp.requested
    <3>1. lamp' \in LampState /\ lamp'.pc = "publish" /\ lamp'.pend = lamp.pend /\ ~lamp'.requested
      BY <1>0, <1>6, <2>2 DEF MarkStarted, LampState, Connected
    <3>2. nvs' \in Flash /\ nvs'.claim = nvs.claim /\ nvs'.nonce = nvs.nonce
      BY <1>0, <1>6, <2>2 DEF MarkStarted, Flash
    <3> QED
      BY <1>6, <3>1, <3>2 DEF MarkStarted, LampRuns, Active, Connected, Storing
  <2> QED
    BY <2>1, <2>2
<1>7. CASE RequestCertificate
  <2>1. lamp' \in LampState /\ lamp'.pc = "waitCreate" /\ lamp'.pend = lamp.pend
    BY <1>0, <1>7 DEF RequestCertificate, LampState, Connected
  <2>2. net' \subseteq Request \cup Answer /\ asked' \in Nat
    BY <1>7 DEF RequestCertificate, Request
  <2> QED
    BY <1>7, <2>1, <2>2 DEF RequestCertificate, LampRuns, Active, Connected, Storing
<1>8. CASE RequestThing
  <2>1. lamp' \in LampState /\ lamp'.pc = "waitRegister" /\ lamp'.pend = lamp.pend
    BY <1>0, <1>8 DEF RequestThing, LampState, Connected
  <2>2. lamp.pend \in Certificate /\ nvs.claim \in Claim /\ nvs.nonce \in Claim
    BY <1>0, <1>8, LampFields DEF RequestThing, LampRuns, Active, Connected
  <2>3. net' \subseteq Request \cup Answer
    BY <1>8, <2>2 DEF RequestThing, Request
  <2> QED
    BY <1>8, <2>1, <2>3 DEF RequestThing, LampRuns, Active, Connected, Storing
<1>9. ASSUME NEW m \in net \cap Answer, Receive(m) PROVE TypeInv'
  <2>1. net' \subseteq net /\ faults' \in 0 .. MaxFaults /\ lamp' = Received(m)
        /\ UNCHANGED <<nvs, cloud, cuts, asked>>
    BY <1>9, TakeLess DEF Receive
  <2>2. lamp' \in LampState
    BY <1>0, <2>1, ReceivedKinds
  <2>3. lamp.pc \in Active
    BY <1>9 DEF Receive, Active
  <2>4. CASE Received(m) = AttemptFailed(lamp)
    BY <1>0, <2>1, <2>3, <2>4, AttemptFailedKinds DEF LampRuns, Active, Connected, Storing
  <2>5. CASE lamp'.pc = "subRegister" /\ lamp'.pend \in Certificate
    BY <1>0, <2>1, <2>2, <2>3, <2>5 DEF LampRuns, Active, Connected, Storing
  <2>6. CASE lamp'.pc = "identity" /\ lamp'.pend = lamp.pend /\ lamp.pc = "waitRegister"
    BY <1>0, <2>1, <2>2, <2>3, <2>6 DEF LampRuns, Active, Connected, Storing
  <2> QED
    BY <1>0, <2>1, <2>4, <2>5, <2>6, ReceivedKinds
<1>10. CASE StoreIdentity
  <2>1. lamp' \in LampState /\ lamp'.pc = "marker" /\ lamp'.pend = lamp.pend
    BY <1>0, <1>10 DEF StoreIdentity, LampState, Connected
  <2>2. nvs' \in Flash /\ nvs'.claim = nvs.claim /\ nvs'.nonce = nvs.nonce
    BY <1>0, <1>10, LampFields DEF StoreIdentity, Flash
  <2> QED
    BY <1>10, <2>1, <2>2 DEF StoreIdentity, LampRuns, Active, Connected, Storing
<1>11. CASE EraseMarker
  <2>1. lamp' \in LampState /\ lamp'.pc = "issued" /\ lamp'.pend = lamp.pend
    BY <1>0, <1>11 DEF EraseMarker, LampState, Connected
  <2>2. nvs' \in Flash /\ nvs'.claim = nvs.claim /\ nvs'.nonce = nvs.nonce
    BY <1>0, <1>11 DEF EraseMarker, Flash
  <2> QED
    BY <1>11, <2>1, <2>2 DEF EraseMarker, LampRuns, Active, Connected, Storing
<1>12. CASE SetIssued
  <2>1. lamp' \in LampState /\ lamp'.pc = "enrolled"
    BY <1>12, OffType DEF SetIssued
  <2>2. nvs' \in Flash /\ nvs'.claim = nvs.claim /\ nvs'.nonce = nvs.nonce
    BY <1>0, <1>12 DEF SetIssued, Flash
  <2> QED
    BY <1>12, <2>1, <2>2 DEF SetIssued, LampRuns, Active, Connected, Storing
<1>13. CASE FailAttempt
  <2>1. lamp' = AttemptFailed(lamp) /\ faults' \in 0 .. MaxFaults /\ UNCHANGED <<nvs, net, cloud, cuts, asked>>
    BY <1>13 DEF FailAttempt, Fault
  <2>2. lamp.pc \in Active
    BY <1>13 DEF FailAttempt, Active
  <2> QED
    BY <1>0, <2>1, <2>2, AttemptFailedKinds DEF LampRuns, Active, Connected, Storing
<1>14. ASSUME NEW k \in Certificate, CreateCertificate(k) PROVE TypeInv'
  <2>1. cloud' \in CloudState /\ cloud'.claim = cloud.claim /\ cloud'.used = cloud.used
    BY <1>0, <1>14 DEF CreateCertificate, CloudState
  <2>2. net' \subseteq Request \cup Answer /\ faults' \in 0 .. MaxFaults
    BY <1>0, <1>14 DEF CreateCertificate, Answer, Fault
  <2> QED
    BY <1>14, <2>1, <2>2 DEF CreateCertificate, LampRuns
<1>15. ASSUME NEW m \in net, RegisterThing(m) PROVE TypeInv'
  <2>1. PICK k \in Certificate, c, n \in Claim : m = <<"register", k, c, n>>
    BY <1>0, <1>15, MessageKinds DEF RegisterThing
  <2>2. m[2] = k
    BY <2>1
  <2>3. cloud' \in CloudState /\ cloud'.claim = cloud.claim /\ cloud'.used = cloud.used
    <3>1. CASE cloud' = [cloud EXCEPT !.pin = m[2], !.things = @ \cup {m[2]}]
      BY <1>0, <2>2, <3>1 DEF CloudState
    <3>2. CASE cloud' = [cloud EXCEPT !.pin = m[2]]
      BY <1>0, <2>2, <3>2 DEF CloudState
    <3>3. CASE cloud' = cloud
      BY <1>0, <3>3
    <3> QED
      BY <1>15, <3>1, <3>2, <3>3 DEF RegisterThing
  <2>4. net' \subseteq Request \cup Answer /\ faults' \in 0 .. MaxFaults
    BY <1>0, <1>15, <2>2 DEF RegisterThing, Answer, Fault
  <2> QED
    BY <1>15, <2>3, <2>4 DEF RegisterThing, LampRuns
<1>16. ASSUME NEW m \in net, Lose(m) PROVE TypeInv'
  BY <1>16 DEF Lose, Fault, LampRuns
<1>17. CASE PowerCut
  <2>1. lamp' \in LampState /\ lamp'.pc = "off"
    BY <1>17, OffType DEF PowerCut
  <2> QED
    BY <1>17, <2>1 DEF PowerCut, LampRuns, Active, Connected, Storing
<1>18. CASE Expire \/ \E c \in Claim : Reserve(c)
  <2>1. cloud' \in CloudState /\ cloud.used \subseteq cloud'.used
        /\ (cloud'.claim # None => cloud'.claim \in cloud'.used)
    <3>1. CASE Expire
      BY <1>0, <3>1 DEF Expire, CloudState
    <3>2. ASSUME NEW c \in Claim, NEW pin \in {None, cloud.pin},
                 cloud' = [cloud EXCEPT !.claim = c, !.used = @ \cup {c}, !.pin = pin]
          PROVE  /\ cloud' \in CloudState /\ cloud.used \subseteq cloud'.used
                 /\ cloud'.claim \in cloud'.used
      BY <1>0, <3>2 DEF CloudState
    <3> QED
      BY <1>18, <3>1, <3>2 DEF Reserve
  <2> QED
    BY <1>18, <2>1 DEF Expire, Reserve, LampRuns
<1>19. CASE UNCHANGED vars
  BY <1>19 DEF vars, LampRuns
<1> QED
  BY <1>1, <1>2, <1>3, <1>4, <1>5, <1>6, <1>7, <1>8, <1>9, <1>10, <1>11, <1>12, <1>13, <1>14,
     <1>15, <1>16, <1>17, <1>18, <1>19 DEF EnrollmentNext, LampStep, CloudStep

LEMMA InitTypes == EnrollmentInit => TypeInv
<1> SUFFICES ASSUME EnrollmentInit PROVE TypeInv
  OBVIOUS
<1>1. nvs \in Flash /\ cloud \in CloudState
  BY DEF EnrollmentInit, Flash, CloudState
<1>2. lamp \in LampState /\ lamp.pc = "off"
  BY OffType DEF EnrollmentInit
<1>3. nvs.claim = None /\ cloud.claim = None /\ net = {} /\ faults = 0 /\ cuts = 0 /\ asked = 0
  BY DEF EnrollmentInit
<1>4. LampRuns
  BY <1>2, <1>3 DEF LampRuns, Active, Connected, Storing
<1> QED
  BY <1>1, <1>2, <1>3, <1>4 DEF TypeInv, EnrollmentTypeOK

LEMMA TypeInvariant == Enrollment => []TypeInv
BY InitTypes, NextTypes, PTL DEF Enrollment

(* EnrollmentTypeOK: flash, memory, messages and cloud stay well formed.   *)
THEOREM EnrollmentTypeCorrect == Enrollment => []EnrollmentTypeOK
<1>1. TypeInv => EnrollmentTypeOK
  BY DEF TypeInv
<1> QED
  BY <1>1, TypeInvariant, PTL

----------------------------------------------------------------------------
(* The stored identity *)

\* The lamp's claim is over, or pins this certificate.
Registered(k) ==
    /\ k \in cloud.things /\ nvs.claim # None
    /\ nvs.claim = cloud.claim => cloud.pin = k

(* Behind IssuedIsRegistered: an attempt registers no certificate but the  *)
(* one at hand, under the claim it was begun with, whichever of its        *)
(* messages come twice or late; and nothing outlasts the boot.             *)
RegInv ==
    /\ lamp.pc \in {"off", "wait"} => net = {}
    /\ \A k \in Certificate, c, n \in Claim : <<"register", k, c, n>> \in net =>
           c = nvs.claim /\ (lamp.pc \in Active => k = lamp.pend)
    /\ \A k \in Certificate : <<"accepted", k>> \in net =>
           Registered(k) /\ (lamp.pc \in Active => k = lamp.pend)
    /\ lamp.pc \in Storing => Registered(lamp.pend)
    /\ lamp.pc \in {"marker", "issued"} => nvs.cert = lamp.pend
    /\ nvs.issued => lamp.pc \in {"off", "enrolled", "runtime"} /\ Registered(nvs.cert)

(* Whatever the hook and the app do, a registered certificate stays so     *)
(* while the lamp keeps its claim.                                         *)
LEMMA RegisteredStays ==
    ASSUME TypeInv, [EnrollmentNext]_vars, nvs'.claim = nvs.claim, NEW k \in Certificate, Registered(k)
    PROVE  Registered(k)'
<1> USE DEF Registered
<1>0. cloud \in CloudState /\ k # None
  BY DEF TypeInv, EnrollmentTypeOK
<1>1. CASE UNCHANGED cloud
  BY <1>1
<1>2. ASSUME NEW x \in Certificate, CreateCertificate(x) PROVE Registered(k)'
  BY <1>0, <1>2 DEF CreateCertificate, CloudState
<1>3. ASSUME NEW m \in net, RegisterThing(m) PROVE Registered(k)'
  <2>1. CASE Allowed(m) /\ cloud' = [cloud EXCEPT !.pin = m[2], !.things = @ \cup {m[2]}]
    BY <1>0, <2>1 DEF Allowed, CloudState
  <2>2. CASE Allowed(m) /\ cloud' = [cloud EXCEPT !.pin = m[2]]
    BY <1>0, <2>2 DEF Allowed, CloudState
  <2> QED
    BY <1>1, <1>3, <2>1, <2>2 DEF RegisterThing
<1>4. CASE Expire
  BY <1>0, <1>4 DEF Expire, CloudState
<1>5. ASSUME NEW c \in Claim, Reserve(c) PROVE Registered(k)'
  <2>1. c # nvs.claim
    BY <1>5 DEF Reserve, TypeInv, LampRuns
  <2> QED
    BY <1>0, <1>5, <2>1 DEF Reserve, CloudState
<1>6. CASE PowerOn \/ BindClaim \/ LampStep \/ (\E m \in net : Lose(m)) \/ PowerCut \/ UNCHANGED vars
  <2>1. UNCHANGED cloud
    BY <1>6 DEF PowerOn, BindClaim, LampStep, Lose, PowerCut, vars, FleetStart, BindNonce, Connect,
       MarkStarted, RequestCertificate, RequestThing, Receive, StoreIdentity, EraseMarker, SetIssued,
       FailAttempt
  <2> QED
    BY <1>1, <2>1
<1> QED
  BY <1>2, <1>3, <1>4, <1>5, <1>6 DEF EnrollmentNext, CloudStep

(* What a step that leaves the claim has to show: messages are of the      *)
(* attempt that is under way, and what is stored is registered.            *)
LEMMA RegKept ==
    ASSUME TypeInv, RegInv, [EnrollmentNext]_vars, nvs'.claim = nvs.claim,
           lamp'.pc \in {"off", "wait"} => net' = {},
           \A k \in Certificate, c, n \in Claim : <<"register", k, c, n>> \in net' =>
               \/ <<"register", k, c, n>> \in net
               \/ c = nvs.claim /\ k = lamp.pend /\ lamp'.pend = lamp.pend,
           \A k \in Certificate : <<"accepted", k>> \in net' =>
               \/ <<"accepted", k>> \in net
               \/ Registered(k)' /\ \E c, n \in Claim : <<"register", k, c, n>> \in net,
           lamp'.pc \in Active =>
               net' = {} \/ (lamp.pc \in Active /\ (lamp'.pend = lamp.pend \/ lamp.pend = None)),
           lamp'.pc \in Storing => Registered(lamp'.pend),
           lamp'.pc \in {"marker", "issued"} => nvs'.cert = lamp'.pend,
           nvs'.issued => lamp'.pc \in {"off", "enrolled", "runtime"} /\ Registered(nvs'.cert)
    PROVE  RegInv'
<1>0. cloud.things \subseteq Certificate
  BY DEF TypeInv, EnrollmentTypeOK, CloudState
<1>1. \A k : Registered(k) => Registered(k)'
  BY <1>0, RegisteredStays DEF Registered
<1>2. \A k \in Certificate, c, n \in Claim : <<"register", k, c, n>> \in net' =>
           c = nvs'.claim /\ (lamp'.pc \in Active => k = lamp'.pend)
  BY DEF RegInv
<1>3. \A k \in Certificate : <<"accepted", k>> \in net' =>
           Registered(k)' /\ (lamp'.pc \in Active => k = lamp'.pend)
  BY <1>1 DEF RegInv
<1>4. \A k : Registered(k) =>
          k \in cloud'.things /\ nvs'.claim # None /\ (nvs'.claim = cloud'.claim => cloud'.pin = k)
  BY <1>1 DEF Registered
<1>5. (lamp'.pc \in Storing => Registered(lamp.pend)') /\ (nvs'.issued => Registered(nvs.cert)')
  <2> DEFINE Known(k) == k \in cloud'.things /\ nvs'.claim # None /\ (nvs'.claim = cloud'.claim => cloud'.pin = k)
  <2>1. (lamp'.pc \in Storing => Known(lamp'.pend)) /\ (nvs'.issued => Known(nvs'.cert))
    BY <1>4
  <2> QED
    BY <2>1 DEF Registered
<1> QED
  BY <1>2, <1>3, <1>5 DEF RegInv

(* A step of the lamp that neither sends nor stores.                       *)
LEMMA RegMoves ==
    ASSUME TypeInv, RegInv, [EnrollmentNext]_vars, UNCHANGED nvs, net' \subseteq net,
           lamp'.pc \in {"off", "wait"} => net' = {},
           lamp'.pc \in Active =>
               net' = {} \/ (lamp.pc \in Active /\ (lamp'.pend = lamp.pend \/ lamp.pend = None)),
           lamp'.pc \notin Storing \/ (lamp'.pc = lamp.pc /\ lamp'.pend = lamp.pend),
           nvs.issued => lamp'.pc \in {"off", "enrolled", "runtime"}
    PROVE  RegInv'
<1>1. /\ lamp'.pc \in Storing => Registered(lamp'.pend)
      /\ lamp'.pc \in {"marker", "issued"} => nvs'.cert = lamp'.pend
      /\ nvs'.issued => lamp'.pc \in {"off", "enrolled", "runtime"} /\ Registered(nvs'.cert)
  BY DEF RegInv, Storing
<1> QED
  BY <1>1, RegKept

LEMMA NextReg == TypeInv /\ TypeInv' /\ RegInv /\ [EnrollmentNext]_vars => RegInv'
<1> SUFFICES ASSUME TypeInv, TypeInv', RegInv, [EnrollmentNext]_vars PROVE RegInv'
  OBVIOUS
<1>0. /\ lamp \in LampState /\ nvs \in Flash /\ cloud \in CloudState /\ net \subseteq Request \cup Answer
      /\ lamp.pend \in Certificate \cup {None}
  BY DEF TypeInv, EnrollmentTypeOK, LampState
<1>a. nvs.issued => lamp.pc \in {"off", "enrolled", "runtime"}
  BY DEF RegInv
<1>1. CASE PowerOn
  <2>1. lamp'.pc = (IF nvs.issued THEN "runtime" ELSE "wait") /\ lamp.pc = "off" /\ UNCHANGED <<nvs, net>>
    BY <1>1, OffType DEF PowerOn
  <2>2. net' = {}
    BY <2>1 DEF RegInv
  <2> QED
    BY <2>1, <2>2, RegMoves DEF Active, Connected, Storing
<1>2. CASE BindClaim
  <2>1. lamp'.pc = "wait" /\ lamp.pc = "wait" /\ net' = net /\ nvs'.issued = nvs.issued
    BY <1>0, <1>2 DEF BindClaim, LampState, Flash
  <2>2. net' = {} /\ ~nvs'.issued
    BY <1>0, <1>a, <2>1 DEF RegInv, Flash
  <2> QED
    BY <2>1, <2>2 DEF RegInv, Active, Connected, Storing
<1>3. CASE BindNonce
  <2>1. lamp'.pc = lamp.pc /\ lamp'.pend = lamp.pend /\ net' = net
        /\ nvs'.claim = nvs.claim /\ nvs'.cert = nvs.cert /\ nvs'.issued = nvs.issued
    BY <1>0, <1>3 DEF BindNonce, LampState, Flash
  <2> QED
    BY <2>1, RegKept DEF RegInv
<1>4. CASE FleetStart
  <2>1. lamp'.pc \in {"stopped", "attempt"} /\ lamp.pc = "wait" /\ UNCHANGED <<nvs, net>>
    BY <1>0, <1>4 DEF FleetStart, LampState
  <2>2. net' = {} /\ ~nvs.issued
    BY <1>a, <2>1 DEF RegInv
  <2> QED
    BY <2>1, <2>2, RegMoves DEF Storing
<1>5. CASE Connect
  <2>1. lamp'.pc \in {"subCreate", "subRegister"} /\ lamp'.pend = lamp.pend /\ lamp.pc = "attempt"
        /\ UNCHANGED <<nvs, net>>
    BY <1>0, <1>5 DEF Connect, LampState
  <2> QED
    BY <1>a, <2>1, RegMoves DEF Active, Connected, Storing
\* A failed attempt keeps what is under way for the next one.
<1>6. ASSUME lamp.pc \in Active, lamp' = AttemptFailed(lamp), UNCHANGED nvs, net' \subseteq net
      PROVE  RegInv'
  <2>1. lamp'.pc = "stopped" \/ (lamp'.pc = "attempt" /\ lamp'.pend = lamp.pend)
    BY <1>0, <1>6, AttemptFailedKinds
  <2>2. ~nvs.issued
    BY <1>a, <1>6 DEF Active, Connected
  <2> QED
    BY <1>6, <2>1, <2>2, RegMoves DEF Active, Connected, Storing
<1>7. CASE MarkStarted
  <2>1. CASE lamp.requested
    BY <1>6, <1>7, <2>1 DEF MarkStarted, Active, Connected
  <2>2. CASE ~lamp.requested
    <3>1. lamp'.pc = "publish" /\ lamp'.pend = lamp.pend /\ lamp.pc = "subCreate" /\ net' = net
          /\ nvs'.claim = nvs.claim /\ nvs'.cert = nvs.cert /\ nvs'.issued = nvs.issued
      BY <1>0, <1>7, <2>2 DEF MarkStarted, LampState, Flash
    <3>2. ~nvs.issued
      BY <1>a, <3>1
    <3> QED
      BY <3>1, <3>2, RegKept DEF Active, Connected, Storing
  <2> QED
    BY <2>1, <2>2
<1>8. CASE RequestCertificate
  <2>1. lamp'.pc = "waitCreate" /\ lamp'.pend = lamp.pend /\ lamp.pc = "publish" /\ nvs' = nvs
        /\ net' = net \cup {<<"create">>}
    BY <1>0, <1>8 DEF RequestCertificate, LampState
  <2>2. /\ \A k, c, n : <<"register", k, c, n>> \in net' => <<"register", k, c, n>> \in net
        /\ \A k : <<"accepted", k>> \in net' => <<"accepted", k>> \in net
    BY <2>1
  <2>3. ~nvs.issued
    BY <1>a, <2>1
  <2> QED
    BY <2>1, <2>2, <2>3, RegKept DEF Active, Connected, Storing
<1>9. CASE RequestThing
  <2>1. lamp'.pc = "waitRegister" /\ lamp'.pend = lamp.pend /\ lamp.pc = "subRegister" /\ nvs' = nvs
        /\ net' = net \cup {<<"register", lamp.pend, nvs.claim, nvs.nonce>>}
    BY <1>0, <1>9 DEF RequestThing, LampState
  <2>2. /\ \A k, c, n : <<"register", k, c, n>> \in net' =>
               <<"register", k, c, n>> \in net \/ (k = lamp.pend /\ c = nvs.claim)
        /\ \A k : <<"accepted", k>> \in net' => <<"accepted", k>> \in net
    BY <2>1
  <2>3. ~nvs.issued
    BY <1>a, <2>1
  <2> QED
    BY <2>1, <2>2, <2>3, RegKept DEF Active, Connected, Storing
<1>10. ASSUME NEW m \in net \cap Answer, Receive(m) PROVE RegInv'
  <2>1. net' \subseteq net /\ lamp' = Received(m) /\ UNCHANGED nvs /\ lamp.pc \in Active
    BY <1>10, TakeLess DEF Receive, Active, TypeInv
  <2>2. ~nvs.issued
    BY <1>a, <2>1 DEF Active, Connected
  <2>3. CASE Received(m) = AttemptFailed(lamp)
    BY <1>6, <2>1, <2>3
  <2>4. CASE lamp'.pc = "subRegister" /\ lamp.pc = "waitCreate"
    <3>1. lamp.pend = None
      BY <2>4 DEF TypeInv, LampRuns
    <3> QED
      BY <2>1, <2>2, <2>4, <3>1, RegMoves DEF Storing
  <2>5. ASSUME NEW k \in Certificate, m = <<"accepted", k>>, lamp'.pc = "identity", lamp'.pend = lamp.pend
        PROVE  RegInv'
    <3>1. Registered(lamp'.pend)
      BY <2>1, <2>5 DEF RegInv
    <3> QED
      BY <2>1, <2>2, <2>5, <3>1, RegKept DEF Storing
  <2> QED
    BY <1>0, <2>1, <2>3, <2>4, <2>5, ReceivedKinds
<1>11. CASE StoreIdentity \/ EraseMarker \/ SetIssued
  <2>1. lamp.pc \in Storing /\ Registered(lamp.pend) /\ net' = net /\ ~nvs.issued
    BY <1>a, <1>11 DEF StoreIdentity, EraseMarker, SetIssued, Storing, RegInv
  <2>2. CASE StoreIdentity
    <3>1. lamp'.pc = "marker" /\ lamp'.pend = lamp.pend
          /\ nvs'.claim = nvs.claim /\ nvs'.cert = lamp.pend /\ nvs'.issued = nvs.issued
      BY <1>0, <2>2 DEF StoreIdentity, LampState, Flash
    <3> QED
      BY <2>1, <3>1, RegKept DEF Active, Connected, Storing
  <2>3. CASE EraseMarker
    <3>1. lamp'.pc = "issued" /\ lamp'.pend = lamp.pend /\ lamp.pc = "marker"
          /\ nvs'.claim = nvs.claim /\ nvs'.cert = nvs.cert /\ nvs'.issued = nvs.issued
      BY <1>0, <2>3 DEF EraseMarker, LampState, Flash
    <3>2. nvs.cert = lamp.pend
      BY <3>1 DEF RegInv
    <3> QED
      BY <2>1, <3>1, <3>2, RegKept DEF Active, Connected, Storing
  <2>4. CASE SetIssued
    <3>1. lamp'.pc = "enrolled" /\ lamp.pc = "issued"
          /\ nvs'.claim = nvs.claim /\ nvs'.cert = nvs.cert
      BY <1>0, <2>4, OffType DEF SetIssued, Flash
    <3>2. nvs.cert = lamp.pend
      BY <3>1 DEF RegInv
    <3> QED
      BY <2>1, <3>1, <3>2, RegKept DEF Active, Connected, Storing
  <2> QED
    BY <1>11, <2>2, <2>3, <2>4
<1>12. CASE FailAttempt
  BY <1>6, <1>12 DEF FailAttempt, Active
<1>13. ASSUME NEW x \in Certificate, CreateCertificate(x) PROVE RegInv'
  <2>1. UNCHANGED <<lamp, nvs>> /\ <<"create">> \in net
        /\ net' \subseteq net \cup {<<"created", x>>}
    BY <1>13 DEF CreateCertificate
  <2>2. /\ \A k, c, n : <<"register", k, c, n>> \in net' => <<"register", k, c, n>> \in net
        /\ \A k : <<"accepted", k>> \in net' => <<"accepted", k>> \in net
    BY <2>1
  <2>3. lamp.pc \notin {"off", "wait"}
    BY <2>1 DEF RegInv
  <2>4. /\ lamp.pc \in Storing => Registered(lamp.pend)
        /\ lamp.pc \in {"marker", "issued"} => nvs.cert = lamp.pend
        /\ nvs.issued => lamp.pc \in {"off", "enrolled", "runtime"} /\ Registered(nvs.cert)
    BY DEF RegInv
  <2> QED
    BY <2>1, <2>2, <2>3, <2>4, RegKept
<1>14. ASSUME NEW m \in net, RegisterThing(m) PROVE RegInv'
  <2>1. PICK k \in Certificate, c, n \in Claim : m = <<"register", k, c, n>>
    BY <1>0, <1>14, MessageKinds DEF RegisterThing
  <2>2. m[2] = k /\ m[3] = c /\ c = nvs.claim
    BY <2>1 DEF RegInv
  <2>3. UNCHANGED <<lamp, nvs>> /\ net' \subseteq net \cup {<<"accepted", k>>, <<"rejected">>}
    BY <1>14, <2>2 DEF RegisterThing
  <2>4. /\ \A x, y, z : <<"register", x, y, z>> \in net' => <<"register", x, y, z>> \in net
        /\ \A x : <<"accepted", x>> \in net' => <<"accepted", x>> \in net \/ x = k
    BY <2>3
  <2>5. <<"accepted", k>> \in net' => <<"accepted", k>> \in net \/ Registered(k)'
    <3>1. CASE Allowed(m) /\ cloud' = [cloud EXCEPT !.pin = m[2], !.things = @ \cup {m[2]}]
      <4>1. k \in cloud'.things /\ cloud'.pin = k
        BY <1>0, <2>2, <3>1 DEF CloudState
      <4> QED
        BY <2>2, <2>3, <4>1 DEF Registered
    <3>2. CASE net' = (net \ {m}) \cup {<<"rejected">>}
      BY <3>2
    <3> QED
      BY <1>14, <3>1, <3>2 DEF RegisterThing
  <2>6. lamp.pc \notin {"off", "wait"}
    BY DEF RegInv
  <2>7. /\ lamp.pc \in Storing => Registered(lamp.pend)
        /\ lamp.pc \in {"marker", "issued"} => nvs.cert = lamp.pend
        /\ nvs.issued => lamp.pc \in {"off", "enrolled", "runtime"} /\ Registered(nvs.cert)
    BY DEF RegInv
  <2>8. \A x \in Certificate : <<"accepted", x>> \in net' =>
            \/ <<"accepted", x>> \in net
            \/ Registered(x)' /\ \E y, z \in Claim : <<"register", x, y, z>> \in net
    BY <2>1, <2>4, <2>5
  <2> QED
    BY <2>3, <2>4, <2>6, <2>7, <2>8, RegKept
<1>15. CASE (\E m \in net : Lose(m)) \/ Expire \/ (\E c \in Claim : Reserve(c)) \/ UNCHANGED vars
  <2>1. UNCHANGED <<lamp, nvs>> /\ net' \subseteq net
    BY <1>15 DEF Lose, Expire, Reserve, vars
  <2>2. lamp.pc \in {"off", "wait"} => net' = {}
    BY <2>1 DEF RegInv
  <2> QED
    BY <1>a, <2>1, <2>2, RegMoves
<1>16. CASE PowerCut
  <2>1. lamp'.pc = "off" /\ net' = {} /\ nvs' = nvs
    BY <1>16, OffType DEF PowerCut
  <2> QED
    BY <2>1, RegMoves DEF Active, Connected, Storing
<1> QED
  BY <1>1, <1>2, <1>3, <1>4, <1>5, <1>7, <1>8, <1>9, <1>10, <1>11, <1>12, <1>13, <1>14, <1>15, <1>16
     DEF EnrollmentNext, LampStep, CloudStep

LEMMA RegInvariant == Enrollment => []RegInv
<1>1. EnrollmentInit => RegInv
  <2> SUFFICES ASSUME EnrollmentInit PROVE RegInv
    OBVIOUS
  <2>1. lamp.pc = "off" /\ net = {} /\ ~nvs.issued
    BY OffType DEF EnrollmentInit
  <2> QED
    BY <2>1 DEF RegInv, Active, Connected, Storing
<1> QED
  BY <1>1, NextReg, TypeInvariant, PTL DEF Enrollment

(* IssuedIsRegistered: what a lamp starts its runtime with was accepted by *)
(* AWS, and is what the hook pinned for the lamp's claim.                  *)
THEOREM IssuedIsAlwaysRegistered == Enrollment => []IssuedIsRegistered
<1>1. RegInv => IssuedIsRegistered
  BY DEF RegInv, Registered, IssuedIsRegistered
<1> QED
  BY <1>1, RegInvariant, PTL

----------------------------------------------------------------------------
(* Asking once *)

(* Behind UnregisteredAsksOnce: the marker is in flash before the request  *)
(* leaves, a boot that finds it stops, and an attempt that comes after the *)
(* request of the same boot knows of it.                                   *)
AskInv ==
    /\ lamp.pc = "publish" => nvs.started
    /\ cloud.things = {} =>
        /\ asked \in {0, 1}
        /\ asked = 1 => nvs.started /\ (lamp.pc \in Active => lamp.requested)

(* A registered certificate is never forgotten.                            *)
LEMMA ThingsGrow == TypeInv /\ [EnrollmentNext]_vars => cloud.things \subseteq cloud'.things
<1> SUFFICES ASSUME TypeInv, [EnrollmentNext]_vars PROVE cloud.things \subseteq cloud'.things
  OBVIOUS
<1>0. cloud \in CloudState
  BY DEF TypeInv, EnrollmentTypeOK
<1>1. ASSUME NEW k \in Certificate, CreateCertificate(k) PROVE cloud'.things = cloud.things
  BY <1>0, <1>1 DEF CreateCertificate, CloudState
<1>2. ASSUME NEW m \in net, RegisterThing(m) PROVE cloud.things \subseteq cloud'.things
  <2>1. CASE cloud' = [cloud EXCEPT !.pin = m[2], !.things = @ \cup {m[2]}]
    BY <1>0, <2>1 DEF CloudState
  <2>2. CASE cloud' = [cloud EXCEPT !.pin = m[2]]
    BY <1>0, <2>2 DEF CloudState
  <2> QED
    BY <1>2, <2>1, <2>2 DEF RegisterThing
<1>3. CASE Expire \/ \E c \in Claim : Reserve(c)
  <2>1. CASE Expire
    BY <1>0, <2>1 DEF Expire, CloudState
  <2>2. ASSUME NEW c \in Claim, NEW pin, cloud' = [cloud EXCEPT !.claim = c, !.used = @ \cup {c}, !.pin = pin]
        PROVE  cloud'.things = cloud.things
    BY <1>0, <2>2 DEF CloudState
  <2> QED
    BY <1>3, <2>1, <2>2 DEF Reserve
<1>4. CASE PowerOn \/ BindClaim \/ LampStep \/ (\E m \in net : Lose(m)) \/ PowerCut \/ UNCHANGED vars
  <2>1. UNCHANGED cloud
    BY <1>4 DEF PowerOn, BindClaim, LampStep, Lose, PowerCut, vars, FleetStart, BindNonce, Connect,
       MarkStarted, RequestCertificate, RequestThing, Receive, StoreIdentity, EraseMarker, SetIssued,
       FailAttempt
  <2> QED
    BY <2>1
<1> QED
  BY <1>1, <1>2, <1>3, <1>4 DEF EnrollmentNext, CloudStep

LEMMA NextAsk == TypeInv /\ RegInv /\ AskInv /\ [EnrollmentNext]_vars => AskInv'
<1> SUFFICES ASSUME TypeInv, RegInv, AskInv, [EnrollmentNext]_vars PROVE AskInv'
  OBVIOUS
<1>0. /\ lamp \in LampState /\ nvs \in Flash /\ net \subseteq Request \cup Answer
      /\ cloud'.things = {} => cloud.things = {}
  BY ThingsGrow DEF TypeInv, EnrollmentTypeOK
\* A step that asks for nothing, erases no marker, and goes on with the
\* attempt it found.
<1>a. ASSUME asked' = asked, nvs'.started = nvs.started \/ nvs'.started, lamp'.pc # "publish" \/ nvs'.started,
             lamp'.pc \in Active => \/ lamp.pc \in Active /\ lamp'.requested = lamp.requested
                                   \/ ~nvs.started
      PROVE  AskInv'
  BY <1>0, <1>a DEF AskInv
<1>1. CASE PowerOn
  <2>1. lamp'.pc \in {"runtime", "wait"} /\ UNCHANGED <<nvs, asked>>
    BY <1>1, OffType DEF PowerOn
  <2> QED
    BY <1>a, <2>1 DEF Active, Connected
<1>2. CASE BindClaim \/ BindNonce
  <2>1. lamp'.pc = lamp.pc /\ lamp'.requested = lamp.requested /\ nvs'.started = nvs.started /\ asked' = asked
    BY <1>0, <1>2 DEF BindClaim, BindNonce, LampState, Flash
  <2> QED
    BY <1>a, <2>1 DEF AskInv
<1>3. CASE FleetStart
  <2>1. lamp'.pc \in {"stopped", "attempt"} /\ (lamp'.pc = "attempt" => ~nvs.started)
        /\ UNCHANGED <<nvs, asked>>
    BY <1>0, <1>3 DEF FleetStart, LampState
  <2> QED
    BY <1>a, <2>1 DEF Active, Connected
<1>4. CASE Connect \/ RequestThing
  <2>1. /\ lamp'.pc \in {"subCreate", "subRegister", "waitRegister"} /\ lamp.pc \in {"attempt", "subRegister"}
        /\ lamp'.requested = lamp.requested /\ UNCHANGED <<nvs, asked>>
    BY <1>0, <1>4 DEF Connect, RequestThing, LampState
  <2> QED
    BY <1>a, <2>1 DEF Active, Connected
<1>5. ASSUME lamp.pc \in Active, lamp' = AttemptFailed(lamp), UNCHANGED <<nvs, asked>>
      PROVE  AskInv'
  <2>1. lamp'.pc = "stopped" \/ (lamp'.pc = "attempt" /\ lamp'.requested = lamp.requested)
    BY <1>0, <1>5, AttemptFailedKinds
  <2> QED
    BY <1>5, <1>a, <2>1 DEF Active, Connected
<1>6. CASE MarkStarted
  <2>1. CASE lamp.requested
    BY <1>5, <1>6, <2>1 DEF MarkStarted, Active, Connected
  <2>2. CASE ~lamp.requested
    <3>1. lamp'.pc = "publish" /\ lamp'.requested = lamp.requested /\ lamp.pc = "subCreate"
          /\ nvs'.started /\ asked' = asked
      BY <1>0, <1>6, <2>2 DEF MarkStarted, LampState, Flash
    <3> QED
      BY <1>a, <3>1 DEF Active, Connected
  <2> QED
    BY <2>1, <2>2
\* It was not asked before, for a lamp that publishes has requested nothing.
<1>7. CASE RequestCertificate
  <2>1. lamp'.pc = "waitCreate" /\ lamp'.requested /\ lamp.pc = "publish" /\ nvs' = nvs /\ asked' = asked + 1
    BY <1>0, <1>7 DEF RequestCertificate, LampState
  <2>2. nvs.started /\ ~lamp.requested /\ lamp.pc \in Active
    BY <2>1 DEF AskInv, TypeInv, LampRuns, Active, Connected
  <2>3. cloud'.things = {} => asked = 0
    BY <1>0, <2>2 DEF AskInv
  <2> QED
    BY <2>1, <2>2, <2>3 DEF AskInv
<1>8. ASSUME NEW m \in net \cap Answer, Receive(m) PROVE AskInv'
  <2>1. lamp' = Received(m) /\ UNCHANGED <<nvs, asked>> /\ lamp.pc \in Active
    BY <1>8 DEF Receive, Active
  <2>2. CASE Received(m) = AttemptFailed(lamp)
    BY <1>5, <2>1, <2>2
  <2>3. CASE lamp'.pc \in {"subRegister", "identity"} /\ lamp'.requested = lamp.requested
    BY <1>a, <2>1, <2>3
  <2> QED
    BY <1>0, <2>1, <2>2, <2>3, ReceivedKinds
\* What is stored was registered.
<1>9. CASE StoreIdentity \/ EraseMarker \/ SetIssued
  <2>1. cloud.things # {}
    BY <1>9 DEF StoreIdentity, EraseMarker, SetIssued, RegInv, Registered, Storing
  <2>2. lamp'.pc \in {"marker", "issued", "enrolled"}
    BY <1>0, <1>9, OffType DEF StoreIdentity, EraseMarker, SetIssued, LampState
  <2> QED
    BY <1>0, <2>1, <2>2 DEF AskInv
<1>10. CASE FailAttempt
  BY <1>5, <1>10 DEF FailAttempt, Active
<1>11. CASE CloudStep \/ (\E m \in net : Lose(m)) \/ Expire \/ (\E c \in Claim : Reserve(c)) \/ UNCHANGED vars
  <2>1. ASSUME CloudStep PROVE UNCHANGED <<lamp, nvs, asked>>
    BY <2>1 DEF CloudStep, CreateCertificate, RegisterThing
  <2>2. ASSUME ~CloudStep PROVE UNCHANGED <<lamp, nvs, asked>>
    BY <1>11, <2>2 DEF Lose, Expire, Reserve, vars
  <2>3. UNCHANGED <<lamp, nvs, asked>>
    BY <2>1, <2>2
  <2> QED
    BY <1>a, <2>3 DEF AskInv
<1>12. CASE PowerCut
  <2>1. lamp'.pc = "off" /\ UNCHANGED <<nvs, asked>>
    BY <1>12, OffType DEF PowerCut
  <2> QED
    BY <1>a, <2>1 DEF Active, Connected
<1> QED
  BY <1>1, <1>2, <1>3, <1>4, <1>6, <1>7, <1>8, <1>9, <1>10, <1>11, <1>12 DEF EnrollmentNext, LampStep

(* UnregisteredAsksOnce: as long as no registration was accepted, the lamp *)
(* asks for one certificate only, whatever fails and however often the     *)
(* power is cut.                                                           *)
THEOREM UnregisteredAlwaysAsksOnce == Enrollment => []UnregisteredAsksOnce
<1>1. EnrollmentInit => AskInv
  BY OffType DEF EnrollmentInit, AskInv, Active, Connected
<1>2. AskInv => UnregisteredAsksOnce
  BY DEF AskInv, UnregisteredAsksOnce
<1> QED
  BY <1>1, <1>2, NextAsk, TypeInvariant, RegInvariant, PTL DEF Enrollment
=============================================================================
