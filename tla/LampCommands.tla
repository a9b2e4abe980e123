---------------------------- MODULE LampCommands ----------------------------
(***************************************************************************)
(* From a requested colour to the lamp and back: requestState and          *)
(* executeSchedule reserve a command in the device row and its ledger      *)
(* (reserveCommand), publish it over MQTT, the lamp applies it, persists   *)
(* it and reports its state, and the ingest Lambda writes the report to    *)
(* the row (applyState).                                                   *)
(*                                                                         *)
(* One generation of one device: the ledger key and the conditions name    *)
(* its certificate, which a release revokes for good.  A command or a      *)
(* report under way may be delivered late and in any order.  When Faults   *)
(* holds it may also come again at any time later (MQTT QoS 1, retries of  *)
(* the SDK and of asynchronous invocations), connections break, the lamp   *)
(* loses power between any two steps, and writes to its LED and to NVS     *)
(* fail.  Nothing is fair then: an invocation that dies, or a message that *)
(* is lost, is one that takes no further step.                             *)
(***************************************************************************)
EXTENDS Naturals, FiniteSets

CONSTANTS
    Field,      \* the fields of a state: power, red, green, blue, brightness
    Value,
    Dark,       \* the state of a lamp that was never commanded
    Patch,      \* the requested changes: states of some of the fields
    Request,    \* request ids, chosen by the caller
    Call,       \* invocations of requestState or executeSchedule; each draws
                \* a fresh command id, which is modelled by its name
    None,
    Faults,     \* does anything fail?
    MaxBoots,   \* bound on the lamp's starts
    MaxReports  \* bound on the reports of one boot

State == [Field -> Value]

VARIABLES
    row,        \* the device row, as far as commands and states go
    ledger,     \* the COMMAND# rows (kept for 30 days: never removed here)
    call,       \* where each invocation is
    down,       \* commands published and not delivered
    lamp,       \* the firmware's memory and its LED
    nvs,        \* the applied_cmd record
    up          \* reports of the lamp that ingest may still receive

backend == <<row, ledger, call>>
vars == <<row, ledger, call, down, lamp, nvs, up>>

----------------------------------------------------------------------------
Maybe(S) == S \cup {None}

\* Mistaken Merge: the fields that were not named are forgotten.
MergeMistaken(base, patch) == patch
\* mergeDesiredState.
Merge(base, patch) == [f \in Field |-> IF f \in DOMAIN patch THEN patch[f] ELSE base[f]]

\* What goes over the wire, and into NVS once applied.
Order == [id : Call, seq : Nat, state : State]
Command == [id : Call, seq : Nat, state : State, req : Request, patch : Patch]
OrderOf(c) == [id |-> c.id, seq |-> c.seq, state |-> c.state]
SeqOf(order) == IF order = None THEN 0 ELSE order.seq
IdOf(order) == IF order = None THEN None ELSE order.id
\* The sequence that was reserved for a command id.
SeqOfId(id) == IF id = None THEN 0 ELSE (CHOOSE c \in ledger : c.id = id).seq

\* Mistaken streamDisposition: the boots are not compared.
NewerMistaken(a, b) == a[2] > b[2]
\* streamDisposition: (boot, n) stands for (bootStartedAtMs with bootId,
\* stateSequence) and for the messageId they make; <<0, 0>> before the first.
Newer(a, b) == a[1] > b[1] \/ (a[1] = b[1] /\ a[2] > b[2])

ASSUME CommandAssumption ==
    /\ Dark \in State
    /\ \A p \in Patch : DOMAIN p \subseteq Field /\ p \in [DOMAIN p -> Value]
    /\ None \notin State \cup Call \cup Request \cup Patch \cup Order \cup Command
    /\ Faults \in BOOLEAN
    /\ MaxBoots \in Nat /\ MaxReports \in Nat

Report == [at : (1 .. MaxBoots) \X (1 .. MaxReports), id : Maybe(Call), state : State]

CallState ==
    [pc : {"idle", "read", "write", "lookup", "publish", "done"},
     req : Maybe(Request), patch : Maybe(Patch), seen : Nat, base : State,
     cmd : Maybe(Command)]

RowState ==
    [status : {"RUNTIME_AUTHORIZED", "ACTIVE", "REVOKED"}, seq : Nat,
     last : Maybe(Call), desired : Maybe(State),
     applied : Maybe(Call), reported : State, at : Nat \X Nat]

LampState ==
    [pc : {"off", "idle", "persist", "report"}, online : BOOLEAN, led : State,
     last : Maybe(Order), job : Maybe(Order), prev : State, boot : Nat, n : Nat]

NoCall == [pc |-> "idle", req |-> None, patch |-> None, seen |-> 0, base |-> Dark, cmd |-> None]

CommandInit ==
    /\ row = [status |-> "RUNTIME_AUTHORIZED", seq |-> 0, last |-> None, desired |-> None,
              applied |-> None, reported |-> Dark, at |-> <<0, 0>>]
    /\ ledger = {}
    /\ call = [c \in Call |-> NoCall]
    /\ down = {}
    /\ lamp = [pc |-> "off", online |-> FALSE, led |-> Dark, last |-> None, job |-> None,
               prev |-> Dark, boot |-> 0, n |-> 0]
    /\ nvs = None
    /\ up = {}

----------------------------------------------------------------------------
(* reserveCommand and publish *)

\* requestState and executeSchedule pass on an ACTIVE device only.
Begin(c, r, p) ==
    /\ call[c].pc = "idle"
    /\ row.status = "ACTIVE"
    /\ call' = [call EXCEPT ![c] = [@ EXCEPT !.pc = "read", !.req = r, !.patch = p]]
    /\ UNCHANGED <<row, ledger, down, lamp, nvs, up>>

\* DEVICE_COMMAND_CONFLICT ends the loop; otherwise the new state is computed
\* from what was read.
ReadDevice(c) ==
    /\ call[c].pc = "read"
    /\ IF row.status = "REVOKED"
       THEN call' = [call EXCEPT ![c].pc = "done"]
       ELSE call' = [call EXCEPT ![c] =
                [@ EXCEPT !.pc = "write", !.seen = row.seq,
                          !.base = IF row.desired = None THEN row.reported ELSE row.desired]]
    /\ UNCHANGED <<row, ledger, down, lamp, nvs, up>>

NewCommand(c) ==
    [id |-> c, seq |-> call[c].seen + 1, state |-> Merge(call[c].base, call[c].patch),
     req |-> call[c].req, patch |-> call[c].patch]

\* Mistaken Reservable: the Update does not check commandSequence.
ReservableMistaken(c) ==
    (\A e \in ledger : e.req # call[c].req) /\ row.status # "REVOKED"
\* The conditions of the transaction's Put and Update.
Reservable(c) ==
    /\ \A e \in ledger : e.req # call[c].req
    /\ row.status # "REVOKED"
    /\ row.seq = call[c].seen

Reserve(c) ==
    /\ call[c].pc = "write"
    /\ IF Reservable(c)
       THEN /\ ledger' = ledger \cup {NewCommand(c)}
            /\ row' = [row EXCEPT !.seq = call[c].seen + 1, !.last = c,
                                  !.desired = NewCommand(c).state]
            /\ call' = [call EXCEPT ![c] = [@ EXCEPT !.pc = "publish", !.cmd = NewCommand(c)]]
       ELSE /\ call' = [call EXCEPT ![c].pc = "lookup"]
            /\ UNCHANGED <<row, ledger>>
    /\ UNCHANGED <<down, lamp, nvs, up>>

\* Mistaken Lookup: sameDesiredState is not asked.
LookupMistaken(c) ==
    LET stored == {e \in ledger : e.req = call[c].req}
    IN  /\ call[c].pc = "lookup"
        /\ \/ stored = {} /\ call' = [call EXCEPT ![c].pc = "read"]
           \/ \E e \in stored : call' = [call EXCEPT ![c] = [@ EXCEPT !.pc = "publish", !.cmd = e]]
        /\ UNCHANGED <<row, ledger, down, lamp, nvs, up>>
\* After a conflict: a repeated request gets the command it got before, a
\* request id used for another change is refused, else the loop goes on.
Lookup(c) ==
    LET stored == {e \in ledger : e.req = call[c].req}
    IN  /\ call[c].pc = "lookup"
        /\ \/ /\ stored = {}
              /\ call' = [call EXCEPT ![c].pc = "read"]
           \/ \E e \in stored :
                call' = [call EXCEPT ![c] =
                    IF e.patch = @.patch THEN [@ EXCEPT !.pc = "publish", !.cmd = e]
                                         ELSE [@ EXCEPT !.pc = "done"]]
        /\ UNCHANGED <<row, ledger, down, lamp, nvs, up>>

\* QoS 1, not retained, and the lamp's session is a clean one: nobody gets
\* what is published while it is not connected.
Publish(c) ==
    /\ call[c].pc = "publish"
    /\ down' = IF lamp.online THEN down \cup {OrderOf(call[c].cmd)} ELSE down
    /\ call' = [call EXCEPT ![c].pc = "done"]
    /\ UNCHANGED <<row, ledger, lamp, nvs, up>>

\* revokeDeviceAndReleaseSerial, and decommission before it: the certificate
\* is disabled, so the lamp can no longer connect.
Release ==
    /\ row.status # "REVOKED"
    /\ row' = [row EXCEPT !.status = "REVOKED"]
    /\ lamp' = [lamp EXCEPT !.online = FALSE]
    /\ UNCHANGED <<ledger, call, down, nvs, up>>

----------------------------------------------------------------------------
(* The lamp.  Its MQTT task handles one event at a time. *)

\* publish_state: enqueued when connected, numbered in any case.
ReportOf(l) == [at |-> <<l.boot, l.n + 1>>, id |-> IdOf(l.last), state |-> l.led]
PublishState(l) ==
    /\ l.n < MaxReports
    /\ lamp' = [l EXCEPT !.n = @ + 1]
    /\ up' = IF l.online THEN up \cup {ReportOf(l)} ELSE up

\* Mistaken Start: the record is read, the LED is not restored.
StartMistaken ==
    /\ lamp.pc = "off" /\ lamp.boot < MaxBoots
    /\ lamp' = [lamp EXCEPT !.pc = "idle", !.boot = @ + 1, !.n = 0, !.last = nvs, !.job = None, !.led = Dark]
    /\ UNCHANGED <<backend, down, nvs, up>>
\* restore_applied_command, after a new boot identity.
Start ==
    /\ lamp.pc = "off"
    /\ lamp.boot < MaxBoots
    /\ lamp' = [lamp EXCEPT !.pc = "idle", !.boot = @ + 1, !.n = 0, !.last = nvs, !.job = None,
                            !.led = IF nvs = None THEN Dark ELSE nvs.state]
    /\ UNCHANGED <<backend, down, nvs, up>>

\* MQTT_EVENT_CONNECTED.
Connect ==
    /\ lamp.pc = "idle" /\ ~lamp.online
    /\ row.status # "REVOKED"
    /\ PublishState([lamp EXCEPT !.online = TRUE])
    /\ UNCHANGED <<backend, down, nvs>>

\* MQTT_EVENT_DISCONNECTED.
Disconnect ==
    /\ Faults
    /\ lamp.pc = "idle" /\ lamp.online
    /\ lamp' = [lamp EXCEPT !.online = FALSE]
    /\ UNCHANGED <<backend, down, nvs, up>>

\* A message is taken, or stays to come again.
Taken(m, messages) == IF Faults THEN messages ELSE messages \ {m}

Deliver(m) ==
    /\ lamp.pc = "idle" /\ lamp.online
    /\ m \in down
    /\ down' = Taken(m, down)
    /\ UNCHANGED <<backend, nvs>>

\* Mistaken Rejected: only a sequence used for another command is.
RejectedMistaken(m) == SeqOf(lamp.last) = m.seq /\ IdOf(lamp.last) # m.id
\* The sequence of the last command: the same command again has its state
\* reported again.
Retried(m) == SeqOf(lamp.last) = m.seq /\ IdOf(lamp.last) = m.id
Rejected(m) == lamp.last # None /\ m.seq <= lamp.last.seq /\ ~Retried(m)

HandleRetry(m) ==
    /\ Deliver(m)
    /\ Retried(m)
    /\ PublishState(lamp)

HandleStale(m) ==
    /\ Deliver(m)
    /\ Rejected(m)
    /\ UNCHANGED <<lamp, up>>

\* led_controller_apply: all fields are in the message.  If it fails, the
\* command is as good as lost.
HandleCommand(m) ==
    /\ Deliver(m)
    /\ ~Retried(m) /\ ~Rejected(m)
    /\ lamp' = [lamp EXCEPT !.pc = "persist", !.job = m, !.prev = lamp.led, !.led = m.state]
    /\ UNCHANGED up

\* Mistaken Persist: the result of nvs_commit is ignored.
PersistMistaken ==
    /\ lamp.pc = "persist"
    /\ nvs' \in {lamp.job} \cup IF Faults THEN {nvs} ELSE {}
    /\ lamp' = [lamp EXCEPT !.pc = "report", !.last = lamp.job, !.job = None]
    /\ UNCHANGED <<backend, down, up>>
\* Mistaken Persist: after the roll back the new command is reported.
PersistMislabelled ==
    /\ lamp.pc = "persist"
    /\ \/ nvs' = lamp.job /\ lamp' = [lamp EXCEPT !.pc = "report", !.last = lamp.job, !.job = None]
       \/ /\ Faults /\ nvs' \in {nvs, lamp.job}
          /\ lamp' = [lamp EXCEPT !.pc = "report", !.led = lamp.prev, !.last = lamp.job, !.job = None]
    /\ UNCHANGED <<backend, down, up>>
\* persist_applied_command, and the roll back if it fails, whatever is in
\* flash then; when the roll back fails too, nothing is reported.
Persist ==
    /\ lamp.pc = "persist"
    /\ \/ /\ nvs' = lamp.job
          /\ lamp' = [lamp EXCEPT !.pc = "report", !.last = lamp.job, !.job = None]
       \/ /\ Faults
          /\ nvs' \in {nvs, lamp.job}
          /\ \/ lamp' = [lamp EXCEPT !.pc = "report", !.led = lamp.prev, !.job = None]
             \/ lamp' = [lamp EXCEPT !.pc = "idle", !.job = None]
    /\ UNCHANGED <<backend, down, up>>

ReportState ==
    /\ lamp.pc = "report"
    /\ PublishState([lamp EXCEPT !.pc = "idle"])
    /\ UNCHANGED <<backend, down, nvs>>

PowerCut ==
    /\ Faults
    /\ lamp.pc # "off"
    /\ lamp' = [lamp EXCEPT !.pc = "off", !.online = FALSE, !.led = Dark, !.last = None, !.job = None]
    /\ UNCHANGED <<backend, down, nvs, up>>

----------------------------------------------------------------------------
(* Ingest *)

\* applyState is asked for any report, in any order.  One step: its write
\* re-checks the order of the reports, and a lost race is classified again.
ApplyState(r) ==
    /\ r \in up
    /\ up' = Taken(r, up)
    /\ IF row.status # "REVOKED" /\ Newer(r.at, row.at)
       THEN row' = [row EXCEPT !.status = "ACTIVE", !.reported = r.state, !.at = r.at,
                               !.applied = IF r.id = None THEN @ ELSE r.id]
       ELSE UNCHANGED row
    /\ UNCHANGED <<ledger, call, down, lamp, nvs>>

----------------------------------------------------------------------------
CallStep(c) == ReadDevice(c) \/ Reserve(c) \/ Lookup(c) \/ Publish(c)

LampStep ==
    \/ Start \/ Connect \/ Persist \/ ReportState
    \/ \E m \in down : HandleRetry(m) \/ HandleStale(m) \/ HandleCommand(m)

CommandNext ==
    \/ \E c \in Call : CallStep(c) \/ \E r \in Request, p \in Patch : Begin(c, r, p)
    \/ LampStep
    \/ Disconnect \/ PowerCut \/ Release
    \/ \E r \in up : ApplyState(r)

Commands == CommandInit /\ [][CommandNext]_vars

\* Lambdas run, MQTT and the asynchronous invocation of ingest deliver, the
\* lamp is switched on and finds its network.  Nobody has to ask for
\* anything.  Used without Faults: what a fault drops is never sent again.
Progress ==
    /\ \A c \in Call : WF_vars(CallStep(c))
    /\ WF_vars(LampStep)
    /\ WF_vars(\E r \in up : ApplyState(r))
LiveCommands == Commands /\ Progress

----------------------------------------------------------------------------
CommandTypeOK ==
    /\ row \in RowState
    /\ ledger \subseteq Command
    /\ call \in [Call -> CallState]
    /\ down \subseteq Order
    /\ lamp \in LampState
    /\ nvs \in Maybe(Order)
    /\ up \subseteq Report

(* A request never takes back a field it does not name: the commands of    *)
(* the ledger are numbered without gaps, one per request, each is its      *)
(* predecessor with its own change applied, and the row holds the last.    *)
(* Two invocations that read the same row must not both write.             *)
NoUpdateLost ==
    /\ \A e, f \in ledger : e.req = f.req \/ e.seq = f.seq \/ e.id = f.id => e = f
    /\ \A e \in ledger :
        /\ e.seq \in 1 .. row.seq
        /\ e.seq > 1 => \E f \in ledger : f.seq = e.seq - 1 /\ e.state = Merge(f.state, e.patch)
        /\ e.seq = row.seq => row.last = e.id /\ row.desired = e.state
    /\ row.seq > 0 => \E e \in ledger : e.seq = row.seq

(* A caller is answered with the command of its own request and change,    *)
(* also when another invocation reserved it.                               *)
CallerGetsItsCommand ==
    \A c \in Call : call[c].cmd # None =>
        /\ call[c].cmd \in ledger
        /\ call[c].cmd.req = call[c].req /\ call[c].cmd.patch = call[c].patch

(* A command the lamp acknowledged survives a power cut: no report names a *)
(* command newer than the record in flash, or than what a running lamp     *)
(* answers stale commands by.                                              *)
AckedIsDurable ==
    \A id \in {r.id : r \in up} \cup {row.applied} :
        /\ SeqOfId(id) <= SeqOf(nvs)
        /\ lamp.pc # "off" => SeqOfId(id) <= SeqOf(lamp.last)

(* What the app shows is not older than the command it shows as applied.   *)
ShownIsCurrent ==
    row.applied # None =>
        \E e \in ledger : e.state = row.reported /\ e.seq >= SeqOfId(row.applied)

(* When deviceResponse shows no pending change, the last command being the *)
(* applied one, the lamp has reported the state that was asked for.        *)
NotPendingIsApplied ==
    row.last # None /\ row.applied = row.last => row.reported = row.desired

\* The requests in the order of their commands.
Asked ==
    [n \in 1 .. row.seq |->
        LET c == CHOOSE c \in ledger : c.seq = n
        IN  [req |-> c.req, patch |-> c.patch, state |-> c.state]]

Register == INSTANCE CommandRegister
                WITH asked <- Asked, applied <- SeqOfId(row.applied), reported <- row.reported

(* CommandsAsPromised: rows, ledger, lamp and reports implement            *)
(* CommandRegister: requests change the desired state one after the other, *)
(* and what deviceResponse shows as applied never goes back, nor is the    *)
(* reported state older, also when reports come late, twice or from an     *)
(* earlier boot.                                                           *)
CommandsAsPromised == Register!RSpec

(* When nothing fails and no request is under way, the lamp comes to show  *)
(* what was asked for last, and the row says so.                           *)
Quiet == \A c \in Call : call[c].pc \in {"idle", "done"}
CaughtUp ==
    /\ lamp.led = row.desired /\ row.reported = row.desired /\ row.applied = row.last
LampCatchesUp ==
    (Quiet /\ row.last # None) ~> (CaughtUp \/ ~Quiet \/ row.status = "REVOKED")

=============================================================================
