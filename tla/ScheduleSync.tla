---------------------------- MODULE ScheduleSync ----------------------------
(***************************************************************************)
(* One schedule: its row in the schedule table and the EventBridge         *)
(* schedule that is to fire for it.  A change is first written to the row  *)
(* under the next revision, pending; syncSchedule then brings the remote   *)
(* schedule to that revision and settles the row.  The remote schedule     *)
(* carries the revision it was written for, and executeSchedule skips any  *)
(* other than the row's.                                                   *)
(*                                                                         *)
(* A worker is an invocation of the API or of the schedule Lambda; idle,   *)
(* it may be taken for another one.  The remote schedule is read and       *)
(* written in two calls that no condition protects.  MaxFaults of the      *)
(* calls fail, with or without effect, or are the last of their worker.    *)
(* A repeated ClientToken lets a Create succeed that finds its own         *)
(* revision; whether it does is up to AWS.                                 *)
(***************************************************************************)
EXTENDS Naturals

CONSTANTS
    Worker,
    MaxRev,     \* bound on the revisions of the schedule
    MaxFaults   \* bound on failing calls and dying workers

ASSUME ScheduleAssumption == MaxRev \in Nat /\ MaxFaults \in Nat

VARIABLES
    row,        \* the row; revision 0 before it is created
    remote,     \* the revision of the remote schedule, 0 when there is none
    device,     \* lifecycle of the target
    worker,
    faults,
    overlap     \* history: two invocations have been under way at a time

vars == <<row, remote, device, worker, faults, overlap>>

----------------------------------------------------------------------------
Operation == {"UPSERT", "DELETE"}
Pending(op) == IF op = "DELETE" THEN "DELETE_PENDING" ELSE "PENDING_SYNC"
Present == row.status \notin {"NONE", "GONE"}
IsPending == row.status \in {"PENDING_SYNC", "DELETE_PENDING"}

Row == [rev : 0 .. MaxRev, op : Operation,
        status : {"NONE", "PENDING_SYNC", "ACTIVE", "ERROR", "DELETE_PENDING", "GONE"}]

WorkerState ==
    [pc : {"idle", "save", "redrive", "read", "write", "settle", "latest", "fail"},
     rev : 0 .. MaxRev, op : Operation,
     seen : 0 .. MaxRev,    \* remoteRevision
     bare : BOOLEAN]        \* the upsert that ends convergeLatestSchedule

Idle == [pc |-> "idle", rev |-> 0, op |-> "UPSERT", seen |-> 0, bare |-> FALSE]
To(pc, rev, op) == [pc |-> pc, rev |-> rev, op |-> op, seen |-> 0, bare |-> FALSE]

Init ==
    /\ row = [rev |-> 0, op |-> "UPSERT", status |-> "NONE"]
    /\ remote = 0
    /\ device = "ACTIVE"
    /\ worker = [w \in Worker |-> Idle]
    /\ faults = 0
    /\ overlap = FALSE

----------------------------------------------------------------------------
(* What starts a worker *)

AllIdle == \A w \in Worker : worker[w].pc = "idle"

Begin(w, job) ==
    /\ worker[w].pc = "idle"
    /\ worker' = [worker EXCEPT ![w] = job]
    /\ overlap' = (overlap \/ ~AllIdle)
    /\ UNCHANGED <<row, remote, device, faults>>

\* All that a change reads is the row, and scheduleDevice before the row is
\* written: the device may be released in between.
Change(w, op) ==
    /\ row.rev < MaxRev
    /\ Begin(w, To("save", row.rev + 1, op))

Create(w) == row.status = "NONE" /\ device = "ACTIVE" /\ Change(w, "UPSERT")
Update(w) == Present /\ device = "ACTIVE" /\ Change(w, "UPSERT")
Delete(w) == Present /\ Change(w, "DELETE")
Resync(w) == row.status = "ACTIVE" /\ Change(w, "UPSERT")

\* retrySchedule, reconcileSchedule and, every minute, reconcileDueSchedules.
Reconcile(w) ==
    /\ IsPending \/ row.status = "ERROR"
    /\ Begin(w, To(IF IsPending THEN "read" ELSE "redrive", row.rev, row.op))

Release ==
    /\ device = "ACTIVE"
    /\ device' = "REVOKED"
    /\ UNCHANGED <<row, remote, worker, faults, overlap>>

\* cleanupReleasedDeviceSchedules, by releaseDevice and its retries.
Cleanup(w) ==
    /\ device = "REVOKED" /\ Present
    /\ IF row.op = "DELETE" THEN Reconcile(w) ELSE Change(w, "DELETE")

----------------------------------------------------------------------------
(* What a worker does then, call by call *)

Goes(w, pc) == worker' = [worker EXCEPT ![w].pc = pc]
Ends(w) == worker' = [worker EXCEPT ![w] = Idle]

\* Mistaken Save: the write has no condition.
SaveMistaken(w) ==
    LET job == worker[w]
    IN  /\ job.pc = "save"
        /\ row' = [rev |-> job.rev, op |-> job.op, status |-> Pending(job.op)]
        /\ Goes(w, "read")
        /\ UNCHANGED <<remote, device, faults, overlap>>
\* saveSchedule: for a new schedule there must be no row, for a change it
\* must be the one that was read.
Save(w) ==
    LET job == worker[w]
    IN  /\ job.pc = "save"
        /\ IF row.rev = job.rev - 1 /\ row.status # "GONE"
           THEN /\ row' = [rev |-> job.rev, op |-> job.op, status |-> Pending(job.op)]
                /\ Goes(w, "read")
           ELSE Ends(w) /\ UNCHANGED row
        /\ UNCHANGED <<remote, device, faults, overlap>>

\* Mistaken Redrive: for upserts only.
RedriveMistaken(w) ==
    LET job == worker[w]
    IN  /\ job.pc = "redrive"
        /\ IF row = [rev |-> job.rev, op |-> "UPSERT", status |-> "ERROR"]
           THEN row' = [row EXCEPT !.status = "PENDING_SYNC"] /\ Goes(w, "read")
           ELSE Ends(w) /\ UNCHANGED row
        /\ UNCHANGED <<remote, device, faults, overlap>>
\* redriveSchedule, markSchedulePending.
Redrive(w) ==
    LET job == worker[w]
    IN  /\ job.pc = "redrive"
        /\ IF row = [rev |-> job.rev, op |-> job.op, status |-> "ERROR"]
           THEN row' = [row EXCEPT !.status = Pending(job.op)] /\ Goes(w, "read")
           ELSE Ends(w) /\ UNCHANGED row
        /\ UNCHANGED <<remote, device, faults, overlap>>

\* Mistaken NothingToWrite: only the own revision is removed or replaced.
NothingToWriteMistaken(job) ==
    \/ remote # 0 /\ remote # job.rev
    \/ job.op = "DELETE" /\ remote = 0
\* remoteRevision: nothing is to be written over a newer revision, and
\* nothing to be removed when nothing is there.
NothingToWrite(job) ==
    \/ remote > job.rev
    \/ job.op = "DELETE" /\ remote = 0

ReadRemote(w) ==
    /\ worker[w].pc = "read"
    /\ worker' = [worker EXCEPT ![w] =
            IF ~NothingToWrite(@) THEN [@ EXCEPT !.pc = "write", !.seen = remote]
            ELSE IF @.bare THEN Idle ELSE [@ EXCEPT !.pc = "settle"]]
    /\ UNCHANGED <<row, remote, device, faults, overlap>>

\* CreateSchedule and UpdateSchedule need the schedule to be absent and
\* present; DeleteSchedule is content when it is absent.
Accepted(job) ==
    \/ job.op = "DELETE"
    \/ job.seen = 0 /\ remote = 0
    \/ job.seen # 0 /\ remote # 0
Refused(job) == job.op = "UPSERT" /\ ((job.seen = 0) # (remote = 0))
Written(job) == IF job.op = "DELETE" THEN 0 ELSE job.rev

WriteRemote(w) ==
    LET job == worker[w]
    IN  /\ job.pc = "write"
        /\ \/ /\ Accepted(job)
              /\ remote' = Written(job)
              /\ IF job.bare THEN Ends(w) ELSE Goes(w, "settle")
           \/ /\ Refused(job)
              /\ UNCHANGED remote
              /\ \/ IF job.bare THEN Ends(w) ELSE Goes(w, "fail")
                 \/ /\ job.seen = 0 /\ remote = job.rev
                    /\ IF job.bare THEN Ends(w) ELSE Goes(w, "settle")
        /\ UNCHANGED <<row, device, faults, overlap>>

\* Mistaken Settle: a worker does not look whether the row is still its own.
SettleMistaken(w) ==
    LET job == worker[w]
    IN  /\ job.pc = "settle"
        /\ row' = [row EXCEPT !.status = IF job.op = "DELETE" THEN "GONE" ELSE "ACTIVE"]
        /\ Ends(w)
        /\ UNCHANGED <<remote, device, faults, overlap>>
\* markScheduleActive and deleteSchedule.
Settle(w) ==
    LET job == worker[w]
    IN  /\ job.pc = "settle"
        /\ IF row = [rev |-> job.rev, op |-> job.op, status |-> Pending(job.op)]
           THEN /\ row' = [row EXCEPT !.status = IF job.op = "DELETE" THEN "GONE" ELSE "ACTIVE"]
                /\ Ends(w)
           ELSE Goes(w, "latest") /\ UNCHANGED row
        /\ UNCHANGED <<remote, device, faults, overlap>>

\* convergeLatestSchedule.  Its upsert of an active row is not followed by
\* any look at the row.
Latest(w) ==
    /\ worker[w].pc = "latest"
    /\ worker' = [worker EXCEPT ![w] =
            IF ~Present \/ row.rev <= @.rev THEN Idle
            ELSE IF row.status = "ACTIVE" THEN [To("read", row.rev, "UPSERT") EXCEPT !.bare = TRUE]
            ELSE To(IF IsPending THEN "read" ELSE "redrive", row.rev, row.op)]
    /\ UNCHANGED <<row, remote, device, faults, overlap>>

\* failScheduleSync, markScheduleError: due again in a minute.
Fail(w) ==
    /\ worker[w].pc = "fail"
    /\ row' = IF row.rev = worker[w].rev /\ IsPending THEN [row EXCEPT !.status = "ERROR"] ELSE row
    /\ Ends(w)
    /\ UNCHANGED <<remote, device, faults, overlap>>

\* A call inside the try of syncSchedule fails; the write may have been done
\* all the same.
CallFails(w) ==
    LET job == worker[w]
    IN  /\ faults < MaxFaults
        /\ job.pc \in {"read", "write"} \/ (job.pc = "settle" /\ job.op = "UPSERT")
        /\ ~job.bare
        /\ \/ UNCHANGED remote
           \/ job.pc = "write" /\ Accepted(job) /\ remote' = Written(job)
        /\ faults' = faults + 1
        /\ Goes(w, "fail")
        /\ UNCHANGED <<row, device, overlap>>

\* The Lambda times out, or a call outside the try fails.
Die(w) ==
    /\ faults < MaxFaults
    /\ worker[w].pc # "idle"
    /\ faults' = faults + 1
    /\ Ends(w)
    /\ UNCHANGED <<row, remote, device, overlap>>

----------------------------------------------------------------------------
Ask(w) == Create(w) \/ Update(w) \/ Delete(w) \/ Resync(w) \/ Reconcile(w) \/ Cleanup(w)

Work(w) ==
    \/ Save(w) \/ Redrive(w) \/ ReadRemote(w) \/ WriteRemote(w)
    \/ Settle(w) \/ Latest(w) \/ Fail(w)

Next ==
    \/ Release
    \/ \E w \in Worker : Ask(w) \/ Work(w) \/ CallFails(w) \/ Die(w)

Spec == Init /\ [][Next]_vars

\* Invocations that do not die go on, and RECONCILE_DUE comes every minute.
Fairness ==
    /\ \A w \in Worker : WF_vars(Work(w))
    /\ WF_vars(\E w \in Worker : Reconcile(w))
LiveSpec == Spec /\ Fairness

----------------------------------------------------------------------------
TypeOK ==
    /\ row \in Row
    /\ row.status \in {"PENDING_SYNC", "ACTIVE"} => row.op = "UPSERT"
    /\ row.status \in {"DELETE_PENDING", "GONE"} => row.op = "DELETE"
    /\ remote \in 0 .. MaxRev
    /\ device \in {"ACTIVE", "REVOKED"}
    /\ worker \in [Worker -> WorkerState]
    /\ faults \in 0 .. MaxFaults
    /\ overlap \in BOOLEAN

(* As long as one invocation ends before the next begins, whichever of     *)
(* them failed or died: a row that says ACTIVE fires at its own revision,  *)
(* and nothing fires once it is deleted.                                   *)
SettledAgrees ==
    AllIdle /\ ~overlap =>
        /\ row.status = "ACTIVE" => remote = row.rev
        /\ row.status = "GONE" => remote = 0

(* Whoever reads the row and writes it later: a deleted schedule stays     *)
(* deleted, and no change is written over one it did not see.              *)
RevisionsInOrder ==
    [][/\ row.status # "GONE"
       /\ row' = [row EXCEPT !.status = row'.status] \/ row'.rev = row.rev + 1]_row

(* A change does not stay pending or failed for ever, although workers get *)
(* in each other's way, fail and die.                                      *)
Settles == (IsPending \/ row.status = "ERROR") ~> (row.status \in {"ACTIVE", "GONE"})

(* What a test of the repository says of overlapping changes, "the         *)
(* external schedule converges": when every worker ended without a fault,  *)
(* a row that is ACTIVE fires at its own revision.                         *)
ExternalConverges == AllIdle /\ row.status = "ACTIVE" => remote = row.rev

=============================================================================
