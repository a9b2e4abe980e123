--------------------------- MODULE ScheduleProofs ---------------------------
(* What holds of ScheduleSync for any number of workers, revisions and     *)
(* faults.                                                                 *)
EXTENDS ScheduleSync, TLAPS

USE ScheduleAssumption DEF ScheduleAssumption

----------------------------------------------------------------------------
(* Types *)

(* Jobs are well formed.                                                   *)
LEMMA JobType ==
    /\ Idle \in WorkerState
    /\ \A pc \in {"save", "redrive", "read"}, rev \in 0 .. MaxRev, op \in Operation :
           To(pc, rev, op) \in WorkerState
BY DEF Idle, To, WorkerState, Operation

(* Where a job goes, it stays well formed.                                 *)
LEMMA GoesType ==
    ASSUME NEW job \in WorkerState,
           NEW pc \in {"read", "write", "settle", "latest", "fail"}
    PROVE  [job EXCEPT !.pc = pc] \in WorkerState
BY DEF WorkerState

(* A worker gets another job.                                              *)
LEMMA RewriteWorker ==
    ASSUME worker \in [Worker -> WorkerState], NEW w \in Worker, NEW job \in WorkerState,
           worker' = [worker EXCEPT ![w] = job]
    PROVE  /\ worker' \in [Worker -> WorkerState]
           /\ worker'[w] = job
           /\ \A v \in Worker \ {w} : worker'[v] = worker[v]
OBVIOUS

(* Every step keeps row, remote schedule and workers well formed.          *)
LEMMA NextType == TypeOK /\ [Next]_vars => TypeOK'
<1> SUFFICES ASSUME TypeOK, [Next]_vars PROVE TypeOK'
  OBVIOUS
<1> USE DEF TypeOK
<1>0. \A w \in Worker : /\ worker[w] \in WorkerState
                        /\ worker[w].rev \in 0 .. MaxRev /\ worker[w].op \in Operation
  BY DEF WorkerState
<1>1. ASSUME NEW w \in Worker, Ask(w) PROVE TypeOK'
  <2>1. ASSUME NEW op \in Operation, Change(w, op) PROVE TypeOK'
    <3>1. To("save", row.rev + 1, op) \in WorkerState
      BY <2>1, JobType DEF Change, Row
    <3> QED
      BY <2>1, <3>1, RewriteWorker DEF Change, Begin
  <2>2. ASSUME Reconcile(w) PROVE TypeOK'
    <3>1. To(IF IsPending THEN "read" ELSE "redrive", row.rev, row.op) \in WorkerState
      BY JobType DEF Row
    <3> QED
      BY <2>2, <3>1, RewriteWorker DEF Reconcile, Begin
  <2> QED
    BY <1>1, <2>1, <2>2 DEF Ask, Create, Update, Delete, Resync, Cleanup, Operation
<1>2. ASSUME NEW w \in Worker, Save(w) \/ Redrive(w) PROVE TypeOK'
  <2>1. worker' = [worker EXCEPT ![w] = Idle] \/ worker' = [worker EXCEPT ![w].pc = "read"]
    BY <1>2 DEF Save, Redrive, Goes, Ends
  <2>2. worker' \in [Worker -> WorkerState]
    BY <1>0, <2>1, JobType, GoesType
  <2>3. row' \in Row /\ (row'.status \in {"PENDING_SYNC", "ACTIVE"} => row'.op = "UPSERT")
          /\ (row'.status \in {"DELETE_PENDING", "GONE"} => row'.op = "DELETE")
    BY <1>0, <1>2 DEF Save, Redrive, Row, Pending, Operation
  <2> QED
    BY <1>2, <2>2, <2>3 DEF Save, Redrive
<1>3. ASSUME NEW w \in Worker, ReadRemote(w) PROVE TypeOK'
  <2>1. [worker[w] EXCEPT !.pc = "write", !.seen = remote] \in WorkerState
    BY <1>0 DEF WorkerState
  <2> QED
    BY <1>0, <1>3, <2>1, JobType, GoesType, RewriteWorker DEF ReadRemote
<1>4. ASSUME NEW w \in Worker, WriteRemote(w) PROVE TypeOK'
  <2>1. \/ worker' = [worker EXCEPT ![w] = Idle]
        \/ \E pc \in {"settle", "fail"} : worker' = [worker EXCEPT ![w].pc = pc]
    BY <1>4, Zenon DEF WriteRemote, Goes, Ends
  <2>2. worker' \in [Worker -> WorkerState]
    <3>1. CASE worker' = [worker EXCEPT ![w] = Idle]
      BY <3>1, JobType
    <3>2. ASSUME NEW pc \in {"settle", "fail"}, worker' = [worker EXCEPT ![w].pc = pc]
          PROVE  worker' \in [Worker -> WorkerState]
      BY <1>0, <3>2, GoesType
    <3> QED
      BY <2>1, <3>1, <3>2
  <2>3. remote' \in 0 .. MaxRev
    BY <1>0, <1>4 DEF WriteRemote, Written
  <2> QED
    BY <1>4, <2>2, <2>3 DEF WriteRemote
<1>5. ASSUME NEW w \in Worker, Settle(w) \/ Fail(w) PROVE TypeOK'
  <2>1. worker' = [worker EXCEPT ![w] = Idle] \/ worker' = [worker EXCEPT ![w].pc = "latest"]
    BY <1>5 DEF Settle, Fail, Goes, Ends
  <2>2. worker' \in [Worker -> WorkerState]
    BY <1>0, <2>1, JobType, GoesType
  <2>3. row' \in Row /\ (row'.status \in {"PENDING_SYNC", "ACTIVE"} => row'.op = "UPSERT")
          /\ (row'.status \in {"DELETE_PENDING", "GONE"} => row'.op = "DELETE")
    BY <1>0, <1>5 DEF Settle, Fail, Row, Pending, Operation, IsPending
  <2> QED
    BY <1>5, <2>2, <2>3 DEF Settle, Fail
<1>6. ASSUME NEW w \in Worker, Latest(w) PROVE TypeOK'
  <2>1. [To("read", row.rev, "UPSERT") EXCEPT !.bare = TRUE] \in WorkerState
    <3>1. To("read", row.rev, "UPSERT") \in WorkerState
      BY JobType DEF Row, Operation
    <3> QED
      BY <3>1 DEF WorkerState
  <2>2. To(IF IsPending THEN "read" ELSE "redrive", row.rev, row.op) \in WorkerState
    BY JobType DEF Row
  <2> QED
    BY <1>6, <2>1, <2>2, JobType, RewriteWorker DEF Latest
<1>7. ASSUME NEW w \in Worker, CallFails(w) PROVE TypeOK'
  <2>1. worker' \in [Worker -> WorkerState]
    BY <1>0, <1>7, GoesType DEF CallFails, Goes
  <2>2. remote' \in 0 .. MaxRev
    BY <1>0, <1>7 DEF CallFails, Written
  <2> QED
    BY <1>7, <2>1, <2>2 DEF CallFails
<1>8. ASSUME NEW w \in Worker, Die(w) PROVE TypeOK'
  BY <1>8, JobType DEF Die, Ends
<1>9. CASE Release
  BY <1>9 DEF Release
<1>10. CASE UNCHANGED vars
  BY <1>10 DEF vars
<1> QED
  BY <1>1, <1>2, <1>3, <1>4, <1>5, <1>6, <1>7, <1>8, <1>9, <1>10 DEF Next, Work

(* TypeOK: row, remote schedule and workers stay well formed, and a row    *)
(* that is pending or settled is so for its own operation, whoever wrote.  *)
THEOREM TypeCorrect == Spec => []TypeOK
<1>1. Init => TypeOK
  <2> SUFFICES ASSUME Init PROVE TypeOK
    OBVIOUS
  <2>1. row \in Row
    <3>1. row = [rev |-> 0, op |-> "UPSERT", status |-> "NONE"]
      BY DEF Init
    <3>2. 0 \in 0 .. MaxRev
      OBVIOUS
    <3> QED
      BY <3>1, <3>2 DEF Row, Operation
  <2>2. worker \in [Worker -> WorkerState]
    BY JobType DEF Init
  <2>3. row.status \notin {"PENDING_SYNC", "ACTIVE", "DELETE_PENDING", "GONE"}
    BY DEF Init
  <2>4. remote \in 0 .. MaxRev /\ faults \in 0 .. MaxFaults
    BY DEF Init
  <2>5. device \in {"ACTIVE", "REVOKED"} /\ overlap \in BOOLEAN
    BY DEF Init
  <2> QED
    BY <2>1, <2>2, <2>3, <2>4, <2>5 DEF TypeOK
<1> QED
  BY <1>1, NextType, PTL DEF Spec

----------------------------------------------------------------------------
(* Revisions *)

(* RevisionsInOrder, as an action: each write of the row is conditional on *)
(* what its worker read, so a deleted schedule stays deleted and no change *)
(* is written over one it did not see, for any number of workers.          *)
LEMMA StepInOrder ==
    ASSUME TypeOK, [Next]_vars
    PROVE  [/\ row.status # "GONE"
            /\ row' = [row EXCEPT !.status = row'.status] \/ row'.rev = row.rev + 1]_row
<1> USE DEF TypeOK
<1>0. \A w \in Worker : worker[w].rev \in 0 .. MaxRev
  BY DEF WorkerState
<1>1. ASSUME NEW w \in Worker, Save(w) PROVE row' = row \/ (row.status # "GONE" /\ row'.rev = row.rev + 1)
  BY <1>0, <1>1 DEF Save, Row
<1>2. ASSUME NEW w \in Worker, Redrive(w) \/ Settle(w) \/ Fail(w)
      PROVE  \/ row' = row
             \/ row.status # "GONE" /\ row' = [row EXCEPT !.status = row'.status]
  BY <1>2 DEF Redrive, Settle, Fail, Row, Pending, IsPending
<1>3. ASSUME NEW w \in Worker,
             Ask(w) \/ ReadRemote(w) \/ WriteRemote(w) \/ Latest(w) \/ CallFails(w) \/ Die(w)
      PROVE  row' = row
  BY <1>3 DEF Ask, Create, Update, Delete, Resync, Reconcile, Cleanup, Change, Begin,
              ReadRemote, WriteRemote, Latest, CallFails, Die
<1>4. CASE Release \/ UNCHANGED vars
  BY <1>4 DEF Release, vars
<1> QED
  BY <1>1, <1>2, <1>3, <1>4 DEF Next, Work

(* RevisionsInOrder holds of every behaviour.                              *)
THEOREM RevisionsAlwaysInOrder == Spec => RevisionsInOrder
BY TypeCorrect, StepInOrder, PTL DEF Spec, RevisionsInOrder

----------------------------------------------------------------------------
(* One invocation at a time *)

(* What a row says of the remote schedule once it is settled.              *)
Agreed(r, m) == (r.status = "ACTIVE" => m = r.rev) /\ (r.status = "GONE" => m = 0)

(* What the one worker under way may rely on, at each of its calls.        *)
JobFits(job, r, m) ==
    /\ job.pc # "latest" /\ ~job.bare
    /\ job.pc = "save" => job.rev = r.rev + 1 /\ Agreed(r, m)
    /\ job.pc = "redrive" => r = [rev |-> job.rev, op |-> job.op, status |-> "ERROR"]
    /\ job.pc \in {"read", "write", "settle"} =>
           r = [rev |-> job.rev, op |-> job.op, status |-> Pending(job.op)]
    /\ job.pc = "settle" => m = Written(job)
    /\ job.pc = "fail" => r.status \notin {"ACTIVE", "GONE"}

(* The inductive invariant behind SettledAgrees.                           *)
AloneInv ==
    ~overlap =>
        /\ remote <= row.rev
        /\ AllIdle => Agreed(row, remote)
        /\ \A w \in Worker : worker[w].pc # "idle" =>
               /\ JobFits(worker[w], row, remote)
               /\ \A v \in Worker \ {w} : worker[v].pc = "idle"

(* A step of the one worker under way needs a look at that worker only.    *)
LEMMA OwnStep ==
    ASSUME TypeOK, AloneInv, overlap' = overlap,
           NEW w \in Worker, worker[w].pc # "idle",
           NEW job, worker' = [worker EXCEPT ![w] = job],
           ~overlap => /\ remote' <= row'.rev
                       /\ job.pc = "idle" => Agreed(row', remote')
                       /\ job.pc # "idle" => JobFits(job, row', remote')
    PROVE  AloneInv'
<1> SUFFICES ASSUME ~overlap PROVE AloneInv'
  BY DEF AloneInv
<1>1. \A v \in Worker \ {w} : worker'[v].pc = "idle"
  BY DEF AloneInv, TypeOK
<1>2. worker'[w] = job
  BY DEF TypeOK
<1> QED
  BY <1>1, <1>2 DEF AloneInv, AllIdle

(* Beginning alone.                                                        *)
LEMMA BeginAlone ==
    ASSUME TypeOK, AloneInv, NEW w \in Worker, NEW job, job.pc # "idle", Begin(w, job),
           ~overlap /\ AllIdle => JobFits(job, row, remote)
    PROVE  AloneInv'
<1> SUFFICES ASSUME ~overlap' PROVE AloneInv'
  BY DEF AloneInv
<1>1. ~overlap /\ AllIdle
  BY DEF Begin
<1>2. \A v \in Worker \ {w} : worker'[v].pc = "idle"
  BY <1>1 DEF Begin, TypeOK, AllIdle
<1>3. worker'[w] = job
  BY DEF Begin, TypeOK
<1> QED
  BY <1>1, <1>2, <1>3 DEF AloneInv, AllIdle, Begin

(* Every step keeps AloneInv.                                              *)
LEMMA NextAlone == TypeOK /\ AloneInv /\ [Next]_vars => AloneInv'
<1> SUFFICES ASSUME TypeOK, AloneInv, [Next]_vars PROVE AloneInv'
  OBVIOUS
<1>0. /\ row \in Row /\ row.rev \in Nat /\ remote \in Nat
      /\ row.op \in Operation
      /\ \A w \in Worker : worker[w] \in WorkerState /\ worker[w].rev \in Nat
                           /\ worker[w].op \in Operation
  BY DEF TypeOK, Row, WorkerState
<1>1. ASSUME NEW w \in Worker, Ask(w) PROVE AloneInv'
  <2>1. ASSUME NEW op \in Operation, Change(w, op) PROVE AloneInv'
    <3>1. ~overlap /\ AllIdle => JobFits(To("save", row.rev + 1, op), row, remote)
      BY DEF AloneInv, JobFits, To
    <3> QED
      BY <2>1, <3>1, BeginAlone DEF Change, To
  <2>2. ASSUME Reconcile(w) PROVE AloneInv'
    <3> DEFINE job == To(IF IsPending THEN "read" ELSE "redrive", row.rev, row.op)
    <3>1. JobFits(job, row, remote)
      BY <1>0, <2>2 DEF JobFits, To, Reconcile, IsPending, Pending, Row, Operation, TypeOK
    <3>2. job.pc # "idle" /\ Begin(w, job)
      BY <2>2 DEF Reconcile, To
    <3> QED
      BY <3>1, <3>2, BeginAlone
  <2> QED
    BY <1>1, <2>1, <2>2 DEF Ask, Create, Update, Delete, Resync, Cleanup, Operation
<1>2. ASSUME NEW w \in Worker, Save(w) PROVE AloneInv'
  <2> DEFINE job == [worker[w] EXCEPT !.pc = "read"]
  <2>1. CASE row' = [rev |-> worker[w].rev, op |-> worker[w].op, status |-> Pending(worker[w].op)]
             /\ Goes(w, "read")
    <3>1. ~overlap => JobFits(job, row', remote') /\ remote' <= row'.rev /\ job.pc # "idle"
      BY <1>0, <1>2, <2>1 DEF AloneInv, JobFits, Save, WorkerState
    <3> QED
      BY <1>2, <2>1, <3>1, OwnStep DEF Save, Goes
  <2>2. CASE Ends(w) /\ UNCHANGED row
    <3>1. ~overlap => Agreed(row', remote') /\ remote' <= row'.rev
      BY <1>2, <2>2 DEF AloneInv, JobFits, Save, Agreed
    <3> QED
      BY <1>2, <2>2, <3>1, OwnStep DEF Save, Ends, Idle
  <2> QED
    BY <1>2, <2>1, <2>2 DEF Save
<1>3. ASSUME NEW w \in Worker, Redrive(w) PROVE AloneInv'
  <2> DEFINE job == [worker[w] EXCEPT !.pc = "read"]
  <2>1. ~overlap => row = [rev |-> worker[w].rev, op |-> worker[w].op, status |-> "ERROR"]
    BY <1>3 DEF AloneInv, JobFits, Redrive
  <2>2. CASE row' = [row EXCEPT !.status = Pending(worker[w].op)] /\ Goes(w, "read")
    <3>1. ~overlap => JobFits(job, row', remote') /\ remote' <= row'.rev /\ job.pc # "idle"
      BY <1>0, <1>3, <2>1, <2>2 DEF AloneInv, JobFits, Redrive, WorkerState
    <3> QED
      BY <1>3, <2>2, <3>1, OwnStep DEF Redrive, Goes
  <2>3. CASE Ends(w) /\ row # [rev |-> worker[w].rev, op |-> worker[w].op, status |-> "ERROR"]
    BY <1>3, <2>1, <2>3, OwnStep DEF Redrive, Ends
  <2> QED
    BY <1>3, <2>2, <2>3 DEF Redrive
<1>4. ASSUME NEW w \in Worker, ReadRemote(w) PROVE AloneInv'
  <2>1. worker[w].pc # "idle" /\ UNCHANGED <<row, remote, overlap>>
    BY <1>4 DEF ReadRemote
  <2>2. ~overlap => JobFits(worker[w], row, remote) /\ remote <= row.rev
    BY <2>1 DEF AloneInv
  <2>3. CASE ~NothingToWrite(worker[w])
    <3> DEFINE job == [worker[w] EXCEPT !.pc = "write", !.seen = remote]
    <3>1. ~overlap => JobFits(job, row', remote') /\ job.pc # "idle"
      BY <1>0, <1>4, <2>1, <2>2 DEF JobFits, ReadRemote, WorkerState
    <3> QED
      BY <1>4, <2>1, <2>2, <2>3, <3>1, OwnStep DEF ReadRemote
  <2>4. CASE NothingToWrite(worker[w]) /\ ~worker[w].bare
    <3> DEFINE job == [worker[w] EXCEPT !.pc = "settle"]
    <3>1. ~overlap => remote = Written(worker[w])
      BY <1>0, <1>4, <2>2, <2>4 DEF JobFits, ReadRemote, NothingToWrite, Written
    <3>2. ~overlap => JobFits(job, row', remote') /\ job.pc # "idle"
      BY <1>0, <1>4, <2>1, <2>2, <3>1 DEF JobFits, ReadRemote, WorkerState, Written
    <3> QED
      BY <1>4, <2>1, <2>2, <2>4, <3>2, OwnStep DEF ReadRemote
  <2>5. CASE worker[w].bare
    BY <2>1, <2>2, <2>5 DEF AloneInv, JobFits
  <2> QED
    BY <2>3, <2>4, <2>5
<1>5. ASSUME NEW w \in Worker, WriteRemote(w) PROVE AloneInv'
  <2>1. worker[w].pc = "write" /\ UNCHANGED <<row, overlap>>
    BY <1>5 DEF WriteRemote
  <2>2. ~overlap => JobFits(worker[w], row, remote) /\ remote <= row.rev
    BY <2>1 DEF AloneInv
  <2>3. CASE overlap
    BY <2>1, <2>3 DEF AloneInv
  <2>4. CASE ~overlap
    <3>1. ~worker[w].bare
      BY <2>2, <2>4 DEF JobFits
    <3>2. CASE remote' = Written(worker[w]) /\ Goes(w, "settle")
      <4> DEFINE job == [worker[w] EXCEPT !.pc = "settle"]
      <4>1. JobFits(job, row', remote') /\ job.pc # "idle" /\ remote' <= row'.rev
        BY <1>0, <2>1, <2>2, <2>4, <3>2 DEF JobFits, WorkerState, Written
      <4> QED
        BY <2>1, <3>2, <4>1, OwnStep DEF Goes
    <3>3. CASE UNCHANGED remote /\ Goes(w, "fail")
      <4> DEFINE job == [worker[w] EXCEPT !.pc = "fail"]
      <4>1. JobFits(job, row', remote') /\ job.pc # "idle" /\ remote' <= row'.rev
        BY <1>0, <2>1, <2>2, <2>4, <3>3 DEF JobFits, WorkerState, Pending
      <4> QED
        BY <2>1, <3>3, <4>1, OwnStep DEF Goes
    <3> QED
      BY <1>5, <3>1, <3>2, <3>3 DEF WriteRemote, Refused, Written
  <2> QED
    BY <2>3, <2>4
<1>6. ASSUME NEW w \in Worker, Settle(w) PROVE AloneInv'
  <2>1. worker[w].pc = "settle" /\ UNCHANGED <<remote, overlap>>
    BY <1>6 DEF Settle
  <2>2. CASE overlap
    BY <2>1, <2>2 DEF AloneInv
  <2>3. CASE ~overlap
    <3>1. JobFits(worker[w], row, remote) /\ remote <= row.rev
      BY <2>1, <2>3 DEF AloneInv
    <3>2. row' = [row EXCEPT !.status = IF worker[w].op = "DELETE" THEN "GONE" ELSE "ACTIVE"]
          /\ Ends(w)
      BY <1>6, <2>1, <3>1 DEF Settle, JobFits
    <3>3. Agreed(row', remote') /\ remote' <= row'.rev
      BY <1>0, <2>1, <3>1, <3>2 DEF Agreed, JobFits, Written, Row
    <3> QED
      BY <2>1, <3>2, <3>3, OwnStep DEF Ends, Idle
  <2> QED
    BY <2>2, <2>3
<1>7. ASSUME NEW w \in Worker, Latest(w) PROVE AloneInv'
  BY <1>7 DEF Latest, AloneInv, JobFits
<1>8. ASSUME NEW w \in Worker, Fail(w) PROVE AloneInv'
  <2>1. worker[w].pc = "fail" /\ UNCHANGED <<remote, overlap>> /\ Ends(w)
    BY <1>8 DEF Fail
  <2>2. ~overlap => JobFits(worker[w], row, remote) /\ remote <= row.rev
    BY <2>1 DEF AloneInv
  <2>3. ~overlap => Agreed(row', remote') /\ remote' <= row'.rev
    BY <1>0, <1>8, <2>1, <2>2 DEF Fail, JobFits, Agreed, Row
  <2> QED
    BY <2>1, <2>3, OwnStep DEF Ends, Idle
<1>9. ASSUME NEW w \in Worker, CallFails(w) PROVE AloneInv'
  <2> DEFINE job == [worker[w] EXCEPT !.pc = "fail"]
  <2>1. worker[w].pc \in {"read", "write", "settle"} /\ UNCHANGED <<row, overlap>> /\ Goes(w, "fail")
    BY <1>9 DEF CallFails
  <2>2. ~overlap => JobFits(worker[w], row, remote) /\ remote <= row.rev
    BY <2>1 DEF AloneInv
  <2>3. ~overlap => JobFits(job, row', remote') /\ job.pc # "idle"
    BY <1>0, <2>1, <2>2 DEF JobFits, WorkerState, Pending
  <2>4. ~overlap => remote' <= row'.rev
    BY <1>0, <1>9, <2>1, <2>2 DEF CallFails, JobFits, Written
  <2> QED
    BY <2>1, <2>3, <2>4, OwnStep DEF Goes
<1>10. ASSUME NEW w \in Worker, Die(w) PROVE AloneInv'
  <2>1. worker[w].pc # "idle" /\ UNCHANGED <<row, remote, overlap>> /\ Ends(w)
    BY <1>10 DEF Die
  <2>2. ~overlap => JobFits(worker[w], row, remote) /\ remote <= row.rev
    BY <2>1 DEF AloneInv
  <2>3. ~overlap => Agreed(row', remote') /\ remote' <= row'.rev
    BY <1>0, <2>1, <2>2 DEF JobFits, Agreed, WorkerState, Pending
  <2> QED
    BY <2>1, <2>3, OwnStep DEF Ends, Idle
<1>11. CASE Release \/ UNCHANGED vars
  BY <1>11 DEF Release, vars, AloneInv, AllIdle
<1> QED
  BY <1>1, <1>2, <1>3, <1>4, <1>5, <1>6, <1>7, <1>8, <1>9, <1>10, <1>11 DEF Next, Work

(* SettledAgrees: as long as no two invocations are under way at a time,   *)
(* whichever of them fail or die, an active row fires at its own revision  *)
(* and a deleted one does not fire.                                        *)
THEOREM AloneSettledAgrees == Spec => []SettledAgrees
<1>1. Init => AloneInv
  BY DEF Init, AloneInv, Agreed, Idle
<1>2. TypeOK /\ AloneInv => SettledAgrees
  BY DEF AloneInv, SettledAgrees, Agreed
<1> QED
  BY <1>1, <1>2, NextAlone, TypeCorrect, PTL DEF Spec

=============================================================================
