--------------------------- MODULE SessionProofs ---------------------------
(***************************************************************************)
(* What holds of AppSession for any number of accounts, sign-ins,          *)
(* sign-outs and requests: whose claim and whose refresh token the phone   *)
(* keeps, and that nothing is left after a sign-out.                       *)
(***************************************************************************)
EXTENDS AppSession, Naturals, TLAPS

USE SessionAssumption DEF SessionAssumption

----------------------------------------------------------------------------
(* The inductive invariant.                                                *)

Starting == {"restore", "login"}
Leaving == {"logout", "expire"}

\* Before the session is in force.
Early == {"browser", "readToken", "exchange", "saveToken", "dropToken", "lookup", "create"}
\* A mutation of SecureStore is awaited.
Mutating == {"saveToken", "dropToken", "dropClaim", "clearToken", "clearClaim", "expiring",
             "forget", "saveClaim"}

KindsAt(pc) ==
    CASE pc = "idle" -> {"none"}
      [] pc = "browser" -> {"login"}
      [] pc \in {"readToken", "exchange", "dropToken"} -> {"restore", "refresh"}
      [] pc \in {"saveToken", "lookup", "create", "load", "loaded", "dropClaim"} -> SignIn
      [] pc \in {"call", "forget", "saveClaim", "waits", "retry", "expire"} -> Request
      [] pc \in {"clearToken", "clearClaim"} -> {"logout"}
      [] pc = "expiring" -> {"expire"}

\* A job is where a job of its kind may be, and has asked SecureStore for
\* what it awaits.
Fits(r) ==
    /\ r.kind \in KindsAt(r.pc)
    /\ r.pc = "idle" => ~r.current /\ ~r.same
    /\ r.same => r.kind \in Request
    /\ r.pc \in {"exchange", "saveToken", "lookup", "create"} => r.user # None
    /\ r.pc \notin Mutating => \A k \in Key : r.mut[k] # "queued"
    /\ r.pc \in {"clearToken", "expiring"} => r.mut["token"] # "none"
    /\ r.pc \in {"clearClaim", "expiring"} => r.mut["claim"] # "none"
    /\ r.kind \in Leaving /\ r.current => \A k \in Key : r.mut[k] # "skipped"

KindsFit ==
    \A j \in Task : /\ Fits(job[j])
                    /\ job[j].kind = "refresh" => j = Refresher
                    /\ j = Refresher => job[j].kind \in {"none", "refresh"}

\* What a job has asked SecureStore to put under a key.
Put(r, k) ==
    IF (k = "token" /\ r.pc = "saveToken") \/ (k = "claim" /\ r.pc = "saveClaim")
    THEN r.user ELSE None

\* One mutation of a key is at work, and every job has at most one.
QueueFits ==
    \A k \in Key : \A i \in 1 .. Len(queue[k]) :
        /\ i # 1 => ~queue[k][i].writing
        /\ queue[k][i].put = Put(job[queue[k][i].by], k)
        /\ \A n \in 1 .. Len(queue[k]) : queue[k][n].by = queue[k][i].by => n = i

\* A sign-in or a sign-out that is current is alone, and until it is over the
\* session is not in force.
OperationFits ==
    \A j \in Task : Current(j) =>
        /\ job[j].kind \in Starting \cup Leaving => \A i \in Task : Current(i) => i = j
        /\ job[j].kind \in Starting => told.status = "loading" /\ page.status = "loading"
        /\ job[j].kind \in Starting /\ job[j].pc \in Early => session = None
        /\ job[j].kind \in Leaving => session = None

\* A refresh that is current works for the session in force, and so do the
\* requests that wait for it.
RefreshFits ==
    /\ Current(Refresher) =>
         /\ session # None
         /\ job[Refresher].pc \notin {"readToken", "dropToken"} => job[Refresher].user = session
    /\ \A j \in Task : job[j].pc = "waits" =>
         /\ job[Refresher].pc # "idle"
         /\ Current(Refresher) => Current(j)

ServedFits == \A j \in Task : job[j].same => Current(j) /\ session # None /\ job[j].user = session

SaidFits == {told.status, page.status} \cap {"signed-out", "error"} # {} => session = None

\* A mutation that will be written, as far as the jobs are now.
Live(k, i) == queue[k][i].put # None /\ (queue[k][i].writing \/ Current(queue[k][i].by))

\* Whatever happens to the mutations under way, they bring u's or nothing.
Brings(k, u) == \A i \in 1 .. Len(queue[k]) : Live(k, i) => queue[k][i].put = u

\* The key holds u's or nothing, now and after them.
Only(k, u) == store[k] \in {None, u} /\ Brings(k, u)

TokenKnown(r) ==
    \/ r.pc \in {"exchange", "lookup", "create"}
    \/ r.pc = "saveToken" /\ r.mut["token"] = "done"

TokenFits ==
    /\ session # None => Only("token", session)
    /\ \A j \in Task : Current(j) /\ job[j].kind \in Starting =>
         /\ TokenKnown(job[j]) => Only("token", job[j].user)
         /\ job[j].pc = "readToken" => Brings("token", None)

Cleaned(r, k) == r.mut[k] = "done" \/ (k = "token" /\ r.pc = "clearClaim")

CleanFits ==
    \A j \in Task, k \in Key :
        Current(j) /\ job[j].kind \in Leaving /\ Cleaned(job[j], k) => Only(k, None)

LeftFits ==
    told.status = "signed-out" /\ told.by \in Leaving =>
        /\ session = None
        /\ \A j \in Task : Current(j) => job[j].kind \in Leaving
        /\ \A k \in Key : Only(k, None)

SessionInv ==
    /\ SessionTypeOK /\ KindsFit /\ QueueFits
    /\ OperationFits /\ RefreshFits /\ ServedFits /\ SaidFits
    /\ TokenFits /\ CleanFits /\ LeftFits
    /\ ClaimIsTheSessions

----------------------------------------------------------------------------
(* What the actions have in common.                                        *)

\* A job goes on or ends: the others may at most be superseded, and its
\* mutations are queued.
Moves(j) ==
    /\ \A k \in Key : job[j].mut[k] # "queued"
    /\ job' \in [Task -> JobState] /\ Fits(job'[j])
    /\ job'[j].kind = "refresh" => j = Refresher
    /\ j = Refresher => job'[j].kind \in {"none", "refresh"}
    /\ \A i \in Task \ {j} :
         /\ job'[i].kind = job[i].kind /\ job'[i].pc = job[i].pc
         /\ job'[i].user = job[i].user /\ job'[i].mut = job[i].mut
         /\ job'[i].current => job[i].current
         /\ job'[i].same => job[i].same /\ (job[i].current => job'[i].current)
    /\ queue' \in [Key -> Seq(Mutation)]
    /\ \A k \in Key :
         queue'[k] = IF job'[j].mut[k] = "queued"
                     THEN Append(queue[k], [by |-> j, put |-> Put(job'[j], k), writing |-> FALSE])
                     ELSE queue[k]
    /\ store' = store
    /\ session' \in Maybe(User) /\ pending' \in Maybe(User)
    /\ told' \in AuthState
    /\ page' \in [status : Status, user : Maybe(User), request : Maybe(Job)]
    /\ homes' \subseteq User

(* The parts of a well-formed state, one by one.                           *)
LEMMA Typed ==
    ASSUME SessionTypeOK
    PROVE  /\ \A j \in Task : /\ job[j] \in JobState /\ job[j].kind \in Kind /\ job[j].pc \in Pc
                             /\ job[j].current \in BOOLEAN /\ job[j].same \in BOOLEAN
                             /\ job[j].tried \in BOOLEAN /\ job[j].user \in Maybe(User)
                             /\ job[j].got \in Maybe(User)
                             /\ job[j].mut \in [Key -> {"none", "queued", "done", "skipped", "failed"}]
           /\ \A k \in Key : /\ queue[k] \in Seq(Mutation) /\ Len(queue[k]) \in Nat
                            /\ \A i \in 1 .. Len(queue[k]) :
                                 /\ queue[k][i] \in Mutation /\ queue[k][i].by \in Task
                                 /\ queue[k][i].put \in Maybe(User)
                                 /\ queue[k][i].writing \in BOOLEAN
                                 /\ job[queue[k][i].by].mut[k] = "queued"
           /\ store \in [Key -> Maybe(User)]
           /\ session \in Maybe(User) /\ pending \in Maybe(User)
           /\ told \in AuthState /\ told.status \in Status
           /\ page \in [status : Status, user : Maybe(User), request : Maybe(Job)]
<1>1. \A j \in Task : job[j] \in JobState
  BY DEF SessionTypeOK
<1>2. \A k \in Key : queue[k] \in Seq(Mutation)
  BY DEF SessionTypeOK
<1>3. \A k \in Key : \A i \in 1 .. Len(queue[k]) : queue[k][i] \in Mutation
  BY <1>2
<1>4. \A k \in Key : \A i \in 1 .. Len(queue[k]) : job[queue[k][i].by].mut[k] = "queued"
  <2> SUFFICES ASSUME NEW k \in Key, NEW i \in 1 .. Len(queue[k])
               PROVE  job[queue[k][i].by].mut[k] = "queued"
    OBVIOUS
  <2>1. i \in DOMAIN queue[k]
    BY <1>2
  <2> QED
    BY <2>1 DEF SessionTypeOK
<1>5. \A j \in Task : /\ job[j] \in JobState /\ job[j].kind \in Kind /\ job[j].pc \in Pc
                      /\ job[j].current \in BOOLEAN /\ job[j].same \in BOOLEAN
                      /\ job[j].tried \in BOOLEAN /\ job[j].user \in Maybe(User)
                      /\ job[j].got \in Maybe(User)
                      /\ job[j].mut \in [Key -> {"none", "queued", "done", "skipped", "failed"}]
  BY <1>1 DEF JobState
<1>6. \A k \in Key : /\ queue[k] \in Seq(Mutation) /\ Len(queue[k]) \in Nat
                     /\ \A i \in 1 .. Len(queue[k]) :
                          /\ queue[k][i] \in Mutation /\ queue[k][i].by \in Task
                          /\ queue[k][i].put \in Maybe(User)
                          /\ queue[k][i].writing \in BOOLEAN
  <2>1. \A m \in Mutation : m.by \in Task /\ m.put \in Maybe(User) /\ m.writing \in BOOLEAN
    BY DEF Mutation
  <2>2. \A k \in Key : Len(queue[k]) \in Nat
    BY <1>2
  <2> QED
    BY <1>2, <1>3, <2>1, <2>2
<1>7. /\ store \in [Key -> Maybe(User)]
      /\ session \in Maybe(User) /\ pending \in Maybe(User)
      /\ told \in AuthState /\ told.status \in Status
      /\ page \in [status : Status, user : Maybe(User), request : Maybe(Job)]
  BY DEF SessionTypeOK, AuthState
<1> QED
  BY <1>4, <1>5, <1>6, <1>7

(* The queues after a job moved: no mutation in them was its own.          *)
LEMMA MovedQueue ==
    ASSUME SessionTypeOK, QueueFits, NEW j \in Task, Moves(j), NEW k \in Key
    PROVE  /\ \A i \in 1 .. Len(queue[k]) : queue[k][i].by # j /\ queue'[k][i] = queue[k][i]
           /\ \/ Len(queue'[k]) = Len(queue[k])
              \/ /\ Len(queue'[k]) = Len(queue[k]) + 1
                 /\ job'[j].mut[k] = "queued"
                 /\ queue'[k][Len(queue[k]) + 1]
                       = [by |-> j, put |-> Put(job'[j], k), writing |-> FALSE]
<1>1. queue[k] \in Seq(Mutation) /\ Len(queue[k]) \in Nat
  BY Typed
<1>2. \A i \in 1 .. Len(queue[k]) : queue[k][i].by # j
  <2>1. job[j].mut[k] # "queued"
    BY DEF Moves
  <2>2. \A i \in 1 .. Len(queue[k]) : job[queue[k][i].by].mut[k] = "queued"
    BY Typed
  <2> QED
    BY <2>1, <2>2
<1>3. CASE job'[j].mut[k] = "queued"
  <2> DEFINE e == [by |-> j, put |-> Put(job'[j], k), writing |-> FALSE]
  <2>1. queue'[k] = Append(queue[k], e)
    BY <1>3 DEF Moves
  <2>2. /\ \A i \in 1 .. Len(queue[k]) : queue'[k][i] = queue[k][i]
        /\ Len(queue'[k]) = Len(queue[k]) + 1
        /\ queue'[k][Len(queue[k]) + 1] = e
    <3> HIDE DEF e
    <3> QED BY <1>1, <2>1
  <2> QED
    BY <1>2, <1>3, <2>2
<1>4. CASE job'[j].mut[k] # "queued"
  <2>1. queue'[k] = queue[k]
    BY <1>4 DEF Moves
  <2> QED
    BY <1>2, <2>1
<1> QED
  BY <1>3, <1>4

(* The types and the queues are in order again.                            *)
LEMMA MovedTypes ==
    ASSUME SessionTypeOK, KindsFit, QueueFits, NEW j \in Task, Moves(j)
    PROVE  SessionTypeOK' /\ KindsFit' /\ QueueFits'
<1>1. ASSUME NEW k \in Key, NEW i \in 1 .. Len(queue'[k])
      PROVE  /\ job'[queue'[k][i].by].mut[k] = "queued"
             /\ i # 1 => ~queue'[k][i].writing
             /\ queue'[k][i].put = Put(job'[queue'[k][i].by], k)
             /\ \A n \in 1 .. Len(queue'[k]) : queue'[k][n].by = queue'[k][i].by => n = i
  <2> DEFINE q == queue[k]
             r == queue'[k]
  <2>1. Len(q) \in Nat
    BY Typed
  <2>2. /\ \A n \in 1 .. Len(q) : q[n].by \in Task \ {j} /\ r[n] = q[n]
        /\ \/ Len(r) = Len(q)
           \/ /\ Len(r) = Len(q) + 1
              /\ job'[j].mut[k] = "queued"
              /\ r[Len(q) + 1].by = j
              /\ r[Len(q) + 1].put = Put(job'[j], k) /\ r[Len(q) + 1].writing = FALSE
    <3>1. \A n \in 1 .. Len(q) : q[n].by # j /\ r[n] = q[n]
      BY MovedQueue
    <3>2. \A n \in 1 .. Len(q) : q[n].by \in Task
      BY Typed
    <3>3. \/ Len(r) = Len(q)
          \/ /\ Len(r) = Len(q) + 1
             /\ job'[j].mut[k] = "queued"
             /\ r[Len(q) + 1] = [by |-> j, put |-> Put(job'[j], k), writing |-> FALSE]
      BY MovedQueue
    <3> QED
      BY <3>1, <3>2, <3>3
  <2>3. \A n \in 1 .. Len(q) : /\ job[q[n].by].mut[k] = "queued"
                               /\ n # 1 => ~q[n].writing
                               /\ q[n].put = Put(job[q[n].by], k)
                               /\ \A m \in 1 .. Len(q) : q[m].by = q[n].by => m = n
    BY Typed DEF QueueFits
  <2>4. \A o \in Task \ {j} : job'[o].mut = job[o].mut /\ Put(job'[o], k) = Put(job[o], k)
    BY DEF Moves, Put
  <2>5. i \in 1 .. Len(r)
    OBVIOUS
  <2> HIDE DEF q, r
  <2>6. CASE i \in 1 .. Len(q)
    <3>1. \A n \in 1 .. Len(r) : r[n].by = r[i].by => n = i
      BY <2>1, <2>2, <2>3, <2>6
    <3>2. job'[r[i].by].mut[k] = "queued" /\ r[i].put = Put(job'[r[i].by], k)
      BY <2>2, <2>3, <2>4, <2>6
    <3>3. i # 1 => ~r[i].writing
      BY <2>2, <2>3, <2>6
    <3> QED
      BY <3>1, <3>2, <3>3 DEF r
  <2>7. CASE i \notin 1 .. Len(q)
    <3>1. i = Len(q) + 1 /\ Len(r) = Len(q) + 1
      BY <2>1, <2>2, <2>5, <2>7
    <3>2. \A n \in 1 .. Len(r) : r[n].by = r[i].by => n = i
      BY <2>1, <2>2, <3>1
    <3>3. job'[r[i].by].mut[k] = "queued" /\ r[i].put = Put(job'[r[i].by], k) /\ ~r[i].writing
      BY <2>2, <2>1, <3>1
    <3> QED
      BY <3>2, <3>3 DEF r
  <2> QED
    BY <2>6, <2>7
<1>2. SessionTypeOK'
  <2>1. \A k \in Key : DOMAIN queue'[k] = 1 .. Len(queue'[k])
    BY DEF Moves
  <2>2. \A k \in Key : \A i \in DOMAIN queue'[k] : job'[queue'[k][i].by].mut[k] = "queued"
    BY <1>1, <2>1
  <2>3. store \in [Key -> Maybe(User)]
    BY DEF SessionTypeOK
  <2> QED
    BY <2>2, <2>3 DEF SessionTypeOK, Moves
<1>3. KindsFit'
  <2> SUFFICES ASSUME NEW i \in Task
               PROVE  /\ Fits(job'[i])
                      /\ job'[i].kind = "refresh" => i = Refresher
                      /\ i = Refresher => job'[i].kind \in {"none", "refresh"}
    BY DEF KindsFit
  <2>1. CASE i # j
    BY <2>1 DEF Moves, KindsFit, Fits
  <2> QED
    BY <2>1 DEF Moves
<1>4. QueueFits'
  BY <1>1 DEF QueueFits
<1> QED
  BY <1>2, <1>3, <1>4

(* What a key gets is no other's after the move if what the job asks for   *)
(* is not.                                                                 *)
LEMMA MovedBrings ==
    ASSUME SessionTypeOK, QueueFits, NEW j \in Task, Moves(j), NEW k \in Key,
           NEW u \in Maybe(User), Brings(k, u),
           job'[j].current /\ job'[j].mut[k] = "queued" => Put(job'[j], k) \in {None, u}
    PROVE  Brings(k, u)' /\ (Only(k, u) => Only(k, u)')
<1>1. Len(queue[k]) \in Nat /\ \A i \in 1 .. Len(queue[k]) : queue[k][i].by \in Task
  BY Typed
<1>2. store' = store
  BY DEF Moves
<1>3. ASSUME NEW i \in 1 .. Len(queue'[k]), Live(k, i)'
      PROVE  queue'[k][i].put = u
  <2>1. CASE i \in 1 .. Len(queue[k])
    <3>1. queue'[k][i] = queue[k][i] /\ queue[k][i].by \in Task \ {j}
      BY <1>1, <2>1, MovedQueue
    <3>2. job'[queue[k][i].by].current => job[queue[k][i].by].current
      BY <3>1 DEF Moves
    <3>3. Live(k, i)
      BY <1>3, <3>1, <3>2 DEF Live, Current
    <3> QED
      BY <2>1, <3>1, <3>3 DEF Brings
  <2>2. CASE i \notin 1 .. Len(queue[k])
    <3>1. /\ i = Len(queue[k]) + 1 /\ job'[j].mut[k] = "queued"
          /\ queue'[k][i] = [by |-> j, put |-> Put(job'[j], k), writing |-> FALSE]
      BY <1>1, <2>2, MovedQueue
    <3> QED
      BY <1>3, <3>1 DEF Live, Current
  <2> QED
    BY <2>1, <2>2
<1> QED
  BY <1>2, <1>3 DEF Only, Brings

----------------------------------------------------------------------------
(* The kinds of moves.                                                     *)

\* Nobody else is superseded.
Beside(j) == Moves(j) /\ \A i \in Task \ {j} : job'[i].current = job[i].current

\* The last job that was current says how it ended.
Announces ==
    /\ \A i \in Task : ~job'[i].current
    /\ {told'.status, page'.status} \cap {"signed-out", "error"} # {} => session = None
    /\ told'.status = "signed-out" /\ told'.by \in Leaving =>
         session = None /\ \A k \in Key : Only(k, None)

\* A job goes on or ends, or a request begins: n is what the job becomes.
GoesOn(j, n) ==
    /\ Beside(j) /\ n = job'[j]
    /\ UNCHANGED session
    /\ UNCHANGED <<told, page>> \/ Announces
    /\ pending' \in {None, pending, session}
    /\ n.pc \notin {"readToken", "waits"}
    /\ n.pc = "idle" => j # Refresher
    /\ n.current => \/ job[j].current /\ n.kind = job[j].kind
                    \/ n.kind \in Request /\ page.status = "signed-in" /\ session # None
    /\ n.same => n.current /\ session # None /\ n.user = session
    /\ n.current /\ j = Refresher => n.pc = "dropToken" \/ n.user = session
    /\ n.current /\ n.kind \in Starting =>
         /\ n.pc \in Early => job[j].pc \in Early
         /\ TokenKnown(n) => Only("token", n.user)
    /\ n.current /\ n.kind \in Leaving => \A k \in Key : Cleaned(n, k) => Only(k, None)

(* SessionInv is kept by a job that goes on.                               *)
LEMMA GoesOnKeeps ==
    ASSUME SessionInv, NEW j \in Task, NEW n, GoesOn(j, n)
    PROVE  SessionInv'
<1>0. /\ SessionTypeOK /\ KindsFit /\ QueueFits /\ OperationFits /\ RefreshFits /\ ServedFits
      /\ SaidFits /\ TokenFits /\ CleanFits /\ LeftFits /\ ClaimIsTheSessions
      /\ Moves(j) /\ session' = session /\ (UNCHANGED <<told, page>> \/ Announces)
      /\ n = job'[j] /\ Fits(n) /\ n.pc # "waits" /\ Refresher \in Task
      /\ n.pc = "idle" => j # Refresher
      /\ (j = Refresher => n.kind \in {"none", "refresh"}) /\ (n.kind = "refresh" => j = Refresher)
      /\ \A i \in Task \ {j} : job'[i].current = job[i].current
  BY DEF SessionInv, GoesOn, Beside, Moves, KindsFit, Task
<1>1. SessionTypeOK' /\ KindsFit' /\ QueueFits'
  BY <1>0, MovedTypes
<1>2. \A i \in Task \ {j} :
        /\ job'[i].kind = job[i].kind /\ job'[i].pc = job[i].pc
        /\ job'[i].user = job[i].user /\ job'[i].mut = job[i].mut
        /\ job'[i].same => job[i].same
        /\ job'[i].current = job[i].current
  BY <1>0 DEF Moves
\* A request that begins finds no sign-in and no sign-out that is current.
<1>3. \/ n.current => Current(j) /\ n.kind = job[j].kind
      \/ /\ n.current /\ n.kind \in Request /\ session # None
         /\ \A i \in Task : Current(i) => job[i].kind \notin Starting \cup Leaving
  <2>1. CASE page.status = "signed-in" /\ session # None
    <3>1. \A i \in Task : Current(i) => job[i].kind \notin Starting \cup Leaving
      BY <1>0, <2>1 DEF OperationFits
    <3> QED
      BY <2>1, <3>1 DEF GoesOn, Current
  <2> QED
    BY <2>1 DEF GoesOn, Current
<1>4. OperationFits'
  <2> SUFFICES ASSUME NEW i \in Task, job'[i].current
               PROVE  /\ job'[i].kind \in Starting \cup Leaving =>
                           \A h \in Task : job'[h].current => h = i
                      /\ job'[i].kind \in Starting => told'.status = "loading" /\ page'.status = "loading"
                      /\ job'[i].kind \in Starting /\ job'[i].pc \in Early => session = None
                      /\ job'[i].kind \in Leaving => session = None
    BY <1>0 DEF OperationFits, Current
  <2>0. UNCHANGED <<told, page>>
    BY <1>0 DEF Announces
  <2>1. CASE n.current => Current(j) /\ n.kind = job[j].kind
    <3>1. Current(i) /\ job'[i].kind = job[i].kind
      BY <1>0, <1>2, <2>1 DEF Current
    <3>2. \A h \in Task : job'[h].current => Current(h)
      BY <1>0, <1>2, <2>1 DEF Current
    <3>3. job'[i].kind \in Starting /\ job'[i].pc \in Early => job[i].pc \in Early
      BY <1>0, <1>2 DEF GoesOn
    <3> QED
      BY <1>0, <2>0, <3>1, <3>2, <3>3 DEF OperationFits
  <2>2. CASE /\ n.current /\ n.kind \in Request
             /\ \A h \in Task : Current(h) => job[h].kind \notin Starting \cup Leaving
    <3>1. job'[i].kind \notin Starting \cup Leaving
      BY <1>0, <1>2, <2>2 DEF Current, Starting, Leaving, Request
    <3> QED
      BY <3>1
  <2> QED
    BY <1>3, <2>1, <2>2
<1>5. RefreshFits'
  <2>1. job'[Refresher].current => Current(Refresher)
    BY <1>0, <1>2, <1>3 DEF Current, Request
  <2>2. ASSUME job'[Refresher].current
        PROVE  /\ session # None
               /\ job'[Refresher].pc \notin {"readToken", "dropToken"} => job'[Refresher].user = session
    BY <1>0, <1>2, <2>1, <2>2 DEF RefreshFits, GoesOn
  <2>3. ASSUME NEW i \in Task, job'[i].pc = "waits"
        PROVE  job'[Refresher].pc # "idle" /\ (job'[Refresher].current => job'[i].current)
    <3>1. i # j /\ job[i].pc = "waits"
      BY <1>0, <1>2, <2>3
    <3>2. job[Refresher].pc # "idle" /\ (Current(Refresher) => Current(i))
      BY <1>0, <3>1 DEF RefreshFits
    <3>3. job'[Refresher].pc # "idle"
      BY <1>0, <1>2, <3>2
    <3> QED
      BY <1>2, <2>1, <3>1, <3>2, <3>3 DEF Current
  <2> QED
    BY <1>0, <2>2, <2>3 DEF RefreshFits, Current
<1>6. ServedFits'
  <2>1. n.same => n.current /\ session # None /\ n.user = session
    BY DEF GoesOn
  <2> QED
    BY <1>0, <1>2, <2>1 DEF ServedFits, Current
<1>7. SaidFits'
  <2>1. CASE UNCHANGED <<told, page>>
    BY <1>0, <2>1 DEF SaidFits
  <2>2. CASE Announces
    BY <1>0, <2>2 DEF SaidFits, Announces
  <2> QED
    BY <1>0, <2>1, <2>2
\* What the job asks for is the user's whose token it has.
<1>8. ASSUME NEW k \in Key, NEW u \in Maybe(User), Brings(k, u),
             n.current /\ n.mut[k] = "queued" => Put(n, k) \in {None, u}
      PROVE  Brings(k, u)' /\ (Only(k, u) => Only(k, u)')
  BY <1>0, <1>8, MovedBrings
<1>9. n.current /\ n.kind \in Starting /\ n.pc = "saveToken" => session = None
  BY <1>0, <1>4 DEF OperationFits, Current, Early
<1>10. session # None => Only("token", session)'
  <2> SUFFICES ASSUME session # None
               PROVE  Only("token", session)'
    OBVIOUS
  <2>1. n.current => Put(n, "token") \in {None, session}
    <3>1. n.current /\ n.pc = "saveToken" => n.user = session
      BY <1>0, <1>9 DEF Fits, KindsAt, SignIn, Starting, GoesOn
    <3> QED
      BY <3>1 DEF Put
  <2>2. session \in Maybe(User) /\ Only("token", session) /\ Brings("token", session)
    BY <1>0 DEF SessionTypeOK, TokenFits, Only
  <2>3. "token" \in Key
    BY DEF Key
  <2> QED
    BY <1>8, <2>1, <2>2, <2>3, <1>0
\* A sign-in that is current is the only one whose mutations will be written.
<1>11. ASSUME NEW i \in Task, job'[i].current, job'[i].kind \in Starting,
              NEW u, u = job'[i].user
       PROVE  /\ TokenKnown(job'[i]) => Only("token", u)'
              /\ job'[i].pc = "readToken" => Brings("token", None)'
  <2>1. \A h \in Task : job'[h].current => h = i
    BY <1>4, <1>11 DEF OperationFits, Current
  <2>2. u \in Maybe(User) /\ None \in Maybe(User) /\ "token" \in Key
    BY <1>1, <1>11 DEF Key, SessionTypeOK, JobState, Maybe
  <2>3. CASE i = j
    <3>1. TokenKnown(n) => Only("token", u)
      BY <1>0, <1>11, <2>3 DEF GoesOn
    <3>2. Put(n, "token") \in {None, u}
      BY <1>0, <1>11, <2>3 DEF Put
    <3>3. Only("token", u) => Only("token", u)'
      BY <1>8, <2>2, <3>2 DEF Only
    <3>4. n.pc # "readToken"
      BY <1>0 DEF GoesOn
    <3> QED
      BY <1>0, <2>3, <3>1, <3>3, <3>4
  <2>4. CASE i # j
    <3>1. Current(i) /\ job[i].kind \in Starting /\ ~n.current
      BY <1>0, <1>2, <1>11, <2>1, <2>4 DEF Current
    <3>2. job[i].user = u /\ TokenKnown(job'[i]) = TokenKnown(job[i]) /\ job'[i].pc = job[i].pc
      BY <1>2, <1>11, <2>4 DEF TokenKnown
    <3>3. /\ TokenKnown(job[i]) => Only("token", u)
          /\ job[i].pc = "readToken" => Brings("token", None)
      BY <1>0, <3>1, <3>2 DEF TokenFits
    <3> QED
      BY <1>8, <2>2, <3>1, <3>2, <3>3 DEF Only
  <2> QED
    BY <2>3, <2>4
<1>12. TokenFits'
  <2>1. \A i \in Task : job'[i].current /\ job'[i].kind \in Starting =>
          /\ TokenKnown(job'[i]) => \A u : u = job'[i].user => Only("token", u)'
          /\ job'[i].pc = "readToken" => Brings("token", None)'
    BY <1>11
  <2> QED
    BY <1>0, <1>10, <2>1 DEF TokenFits, Current, Only, Brings, Live
<1>13. None \in Maybe(User)
  BY DEF Maybe
<1>14. CleanFits'
  <2> SUFFICES ASSUME NEW i \in Task, NEW k \in Key, job'[i].current, job'[i].kind \in Leaving,
                      Cleaned(job'[i], k)
               PROVE  Only(k, None)'
    BY DEF CleanFits, Current
  <2>1. \A h \in Task : job'[h].current => h = i
    BY <1>4 DEF OperationFits, Current
  <2>2. Only(k, None)
    <3>1. CASE i = j
      BY <1>0, <3>1 DEF GoesOn
    <3>2. CASE i # j
      <4>1. Current(i) /\ job[i].kind \in Leaving /\ Cleaned(job[i], k)
        BY <1>2, <3>2 DEF Current, Cleaned
      <4> QED
        BY <1>0, <4>1 DEF CleanFits
    <3> QED
      BY <3>1, <3>2
  <2>3. n.current => Put(n, k) = None
    <3>1. n.current => n.kind \in Leaving
      BY <1>0, <2>1
    <3> QED
      BY <1>0, <3>1 DEF Fits, KindsAt, Leaving, SignIn, Request, Put
  <2> QED
    BY <1>8, <1>13, <2>2, <2>3 DEF Only
<1>15. LeftFits'
  <2> SUFFICES ASSUME told'.status = "signed-out", told'.by \in Leaving
               PROVE  /\ session = None
                      /\ \A i \in Task : job'[i].current => job'[i].kind \in Leaving
                      /\ \A k \in Key : Only(k, None)'
    BY <1>0 DEF LeftFits, Current
  <2>1. /\ session = None
        /\ (\A i \in Task : Current(i) => job[i].kind \in Leaving) \/ (\A i \in Task : ~job'[i].current)
        /\ \A k \in Key : Only(k, None)
    BY <1>0 DEF LeftFits, Announces
  <2>2. \A i \in Task : job'[i].current => job'[i].kind \in Leaving
    BY <1>0, <1>2, <1>3, <2>1 DEF Current
  <2>3. \A k \in Key : n.current => Put(n, k) = None
    BY <1>0, <2>2 DEF Fits, KindsAt, Leaving, SignIn, Request, Put
  <2>4. ASSUME NEW k \in Key
        PROVE  Only(k, None)'
    <3>1. Only(k, None) /\ Brings(k, None)
      BY <2>1 DEF Only
    <3> QED
      BY <1>8, <1>13, <2>3, <3>1
  <2> QED
    BY <2>1, <2>2, <2>4
<1>16. ClaimIsTheSessions'
  BY <1>0 DEF ClaimIsTheSessions, GoesOn
<1> QED
  BY <1>1, <1>4, <1>5, <1>6, <1>7, <1>12, <1>14, <1>15, <1>16 DEF SessionInv

\* A sign-in, a sign-out or an expiry begins: n is its job.
Begins(j, n) ==
    /\ Moves(j) /\ n = job'[j] /\ j # Refresher
    /\ \A i \in Task \ {j} : ~job'[i].current
    /\ \A i \in Task : ~job'[i].same
    /\ session' = None /\ pending' = None
    /\ \/ n.kind = "login" /\ n.pc = "browser" /\ told'.status = "loading" /\ page'.status = "loading"
       \/ /\ n.kind \in Leaving /\ n.pc \in {"clearToken", "expiring"}
          /\ \A k \in Key : n.mut[k] # "done"
          /\ told' = told

(* SessionInv is kept by an operation that begins.                         *)
LEMMA BeginsKeeps ==
    ASSUME SessionInv, NEW j \in Task, NEW n, Begins(j, n)
    PROVE  SessionInv'
<1>0. /\ SessionTypeOK /\ KindsFit /\ QueueFits /\ RefreshFits /\ LeftFits
      /\ Moves(j) /\ n = job'[j] /\ Fits(n) /\ Refresher \in Task /\ j # Refresher
      /\ session' = None /\ pending' = None
  BY DEF SessionInv, Begins, Moves, Task
<1>1. SessionTypeOK' /\ KindsFit' /\ QueueFits'
  BY <1>0, MovedTypes
<1>2. \A i \in Task : job'[i].current => i = j
  BY DEF Begins
<1>3. OperationFits'
  BY <1>0, <1>2 DEF Begins, OperationFits, Current, Starting, Leaving
<1>4. RefreshFits'
  <2>1. \A i \in Task : job'[i].pc = "waits" => i # j /\ job[i].pc = "waits"
    BY <1>0 DEF Begins, Moves
  <2> QED
    BY <1>0, <1>2, <2>1 DEF RefreshFits, Current, Moves
<1>5. ServedFits' /\ SaidFits' /\ ClaimIsTheSessions'
  BY <1>0 DEF Begins, ServedFits, SaidFits, ClaimIsTheSessions
<1>6. TokenFits'
  <2>1. ~TokenKnown(n) /\ n.pc # "readToken"
    BY DEF Begins, TokenKnown
  <2> QED
    BY <1>0, <1>2, <2>1 DEF TokenFits, Current
<1>7. CleanFits'
  <2>1. \A k \in Key : n.kind \in Leaving => ~Cleaned(n, k)
    BY DEF Begins, Cleaned, Leaving
  <2> QED
    BY <1>0, <1>2, <2>1 DEF CleanFits, Current
<1>8. LeftFits'
  <2> SUFFICES ASSUME told'.status = "signed-out", told'.by \in Leaving
               PROVE  n.kind \in Leaving /\ \A k \in Key : Only(k, None)'
    BY <1>0, <1>2 DEF LeftFits, Current
  <2>1. /\ n.kind \in Leaving /\ told' = told
        /\ \A k \in Key : n.pc \notin {"saveToken", "saveClaim"}
    BY DEF Begins
  <2>2. ASSUME NEW k \in Key
        PROVE  Only(k, None)'
    <3>1. Only(k, None) /\ Brings(k, None)
      BY <1>0, <2>1 DEF LeftFits, Only
    <3>2. Put(n, k) = None /\ None \in Maybe(User)
      BY <2>1 DEF Put, Maybe
    <3> QED
      BY <1>0, <3>1, <3>2, MovedBrings
  <2> QED
    BY <2>1, <2>2
<1> QED
  BY <1>1, <1>3, <1>4, <1>5, <1>6, <1>7, <1>8 DEF SessionInv

\* A sign-in puts its session in force: n is its job.
Establishes(j, n) ==
    /\ Beside(j) /\ n = job'[j]
    /\ Current(j) /\ job[j].kind \in Starting /\ job[j].pc \in {"lookup", "create"}
    /\ n.kind = job[j].kind /\ n.pc = "load"
    /\ session' = job[j].user
    /\ \A i \in Task : ~job'[i].same
    /\ UNCHANGED <<pending, told, page>>

(* SessionInv is kept by a session that is established.                    *)
LEMMA EstablishesKeeps ==
    ASSUME SessionInv, NEW j \in Task, NEW n, Establishes(j, n)
    PROVE  SessionInv'
<1>0. /\ SessionTypeOK /\ KindsFit /\ QueueFits /\ RefreshFits /\ OperationFits
      /\ Moves(j) /\ n = job'[j] /\ Refresher \in Task /\ j # Refresher
      /\ n.kind \in Starting /\ n.pc = "load" /\ n.kind \notin Leaving
      /\ told.status = "loading" /\ page.status = "loading" /\ session = None /\ pending = None
      /\ told' = told /\ page' = page /\ pending' = pending
  BY DEF SessionInv, Establishes, Beside, Task, KindsFit, OperationFits, Starting, Leaving, Early,
         ClaimIsTheSessions, SessionTypeOK, Maybe
<1>1. SessionTypeOK' /\ KindsFit' /\ QueueFits'
  BY <1>0, MovedTypes
<1>2. \A i \in Task : job'[i].current => i = j
  BY DEF Establishes, Beside, SessionInv, OperationFits, Current
<1>3. OperationFits'
  BY <1>0, <1>2 DEF OperationFits, Current, Early
<1>4. RefreshFits'
  <2>1. \A i \in Task : job'[i].pc = "waits" => i # j /\ job[i].pc = "waits"
    BY <1>0 DEF Moves
  <2> QED
    BY <1>0, <1>2, <2>1 DEF RefreshFits, Current, Moves
<1>5. ServedFits' /\ SaidFits' /\ ClaimIsTheSessions' /\ LeftFits'
  BY <1>0 DEF Establishes, ServedFits, SaidFits, ClaimIsTheSessions, LeftFits
<1>6. TokenFits'
  <2>1. ~TokenKnown(n) /\ n.pc # "readToken"
    BY <1>0 DEF TokenKnown
  <2>2. ASSUME NEW u, u = job[j].user
        PROVE  Only("token", u)'
    <3>1. Only("token", u)
      BY <2>2 DEF SessionInv, TokenFits, Establishes, TokenKnown
    <3>2. Put(n, "token") = None /\ u \in Maybe(User) /\ "token" \in Key
      BY <1>0, <2>2, Typed DEF Put, Key
    <3> QED
      BY <1>0, <3>1, <3>2, MovedBrings DEF Only
  <2>3. Only("token", session)'
    BY <2>2 DEF Establishes, Only, Brings, Live
  <2> QED
    BY <1>0, <1>2, <2>1, <2>3 DEF TokenFits, Current
<1>7. CleanFits'
  BY <1>0, <1>2 DEF CleanFits, Current
<1> QED
  BY <1>1, <1>3, <1>4, <1>5, <1>6, <1>7 DEF SessionInv

----------------------------------------------------------------------------
(* Steps that are not the move of one job.                                 *)

\* Jobs change that have nothing in the queues, and the queues do not.
Rests ==
    /\ job' \in [Task -> JobState]
    /\ \A i \in Task : \/ job'[i] = job[i]
                       \/ /\ \A k \in Key : job[i].mut[k] # "queued"
                          /\ Fits(job'[i])
                          /\ job'[i].kind = "refresh" => i = Refresher
                          /\ i = Refresher => job'[i].kind \in {"none", "refresh"}
    /\ pending' \in {None, pending, session} /\ homes' \subseteq User
    /\ UNCHANGED <<session, told, page, store, queue>>

(* Types and queues stay in order, and what lives in them is as it was.    *)
LEMMA RestsKeeps ==
    ASSUME SessionTypeOK, KindsFit, QueueFits, ClaimIsTheSessions, Rests
    PROVE  /\ SessionTypeOK' /\ KindsFit' /\ QueueFits' /\ ClaimIsTheSessions'
           /\ \A k \in Key, u \in Maybe(User) : (Brings(k, u) => Brings(k, u)') /\ (Only(k, u) => Only(k, u)')
<1>1. ASSUME NEW k \in Key, NEW i \in 1 .. Len(queue[k])
      PROVE  job'[queue[k][i].by] = job[queue[k][i].by] /\ job'[queue[k][i].by].mut[k] = "queued"
  <2>1. queue[k][i].by \in Task /\ job[queue[k][i].by].mut[k] = "queued"
    BY Typed
  <2> QED
    BY <2>1 DEF Rests
<1>2. queue' = queue /\ store' = store
  BY DEF Rests
<1>3. SessionTypeOK'
  <2>1. \A k \in Key : DOMAIN queue'[k] = 1 .. Len(queue[k])
    BY Typed, <1>2
  <2>2. \A k \in Key : \A i \in DOMAIN queue'[k] : job'[queue'[k][i].by].mut[k] = "queued"
    BY <1>1, <1>2, <2>1
  <2>3. pending' \in Maybe(User)
    BY DEF Rests, SessionTypeOK, Maybe
  <2> QED
    BY <1>2, <2>2, <2>3 DEF SessionTypeOK, Rests
<1>4. KindsFit'
  BY DEF KindsFit, Rests
<1>5. QueueFits'
  BY <1>1, <1>2 DEF QueueFits
<1>6. \A k \in Key, u \in Maybe(User) : (Brings(k, u) => Brings(k, u)') /\ (Only(k, u) => Only(k, u)')
  BY <1>1, <1>2 DEF Brings, Only, Live, Current
<1>7. ClaimIsTheSessions'
  BY DEF ClaimIsTheSessions, Rests
<1> QED
  BY <1>3, <1>4, <1>5, <1>6, <1>7

(* A request that was refused waits for the refresh of its session.        *)
LEMMA AsksRefreshKeeps ==
    ASSUME SessionInv, NEW j \in Task, At(j, "call"), job[j].same,
           job' = [job EXCEPT
               ![j] = [@ EXCEPT !.pc = "waits", !.tried = TRUE],
               ![Refresher] = IF @.pc = "idle" THEN Start("refresh", "readToken") ELSE @],
           UNCHANGED <<session, pending, told, page, store, queue, homes>>
    PROVE  SessionInv'
<1> DEFINE w == [job[j] EXCEPT !.pc = "waits", !.tried = TRUE]
           s == Start("refresh", "readToken")
<1>0. /\ SessionTypeOK /\ KindsFit /\ QueueFits /\ OperationFits /\ RefreshFits /\ ServedFits
      /\ SaidFits /\ TokenFits /\ CleanFits /\ LeftFits /\ ClaimIsTheSessions
      /\ homes \subseteq User /\ Refresher \in Task /\ job[j] \in JobState /\ job \in [Task -> JobState]
  BY DEF SessionInv, SessionTypeOK, Task
<1>1. j # Refresher /\ job[j].kind \in Request /\ Fits(job[j]) /\ Fits(job[Refresher])
  BY <1>0 DEF KindsFit, Fits, KindsAt, At, Request
<1>2. /\ w \in JobState /\ w.kind = job[j].kind /\ w.pc = "waits" /\ w.current = job[j].current
      /\ w.same = job[j].same /\ w.user = job[j].user /\ w.mut = job[j].mut
  BY <1>0 DEF JobState, Pc
<1>3. /\ s \in JobState /\ s.kind = "refresh" /\ s.pc = "readToken" /\ s.current /\ ~s.same
      /\ s.mut = Untouched
  BY DEF JobState, Start, Idle, Pc, Kind, SignIn, Maybe, Untouched
<1>4. /\ job' \in [Task -> JobState] /\ job'[j] = w
      /\ job'[Refresher] = IF job[Refresher].pc = "idle" THEN s ELSE job[Refresher]
      /\ \A i \in Task \ {j, Refresher} : job'[i] = job[i]
  <2> HIDE DEF w, s
  <2>1. job' = [job EXCEPT ![j] = w,
                           ![Refresher] = IF job[Refresher].pc = "idle" THEN s ELSE job[Refresher]]
    BY <1>1 DEF w, s
  <2> QED
    BY <1>0, <1>1, <1>2, <1>3, <2>1
<1>5. Fits(w) /\ Fits(s)
  <2>1. \A k \in Key : job[j].mut[k] # "queued" /\ Untouched[k] # "queued"
    BY <1>1 DEF Fits, At, Mutating, Untouched
  <2> QED
    BY <1>1, <1>2, <1>3, <2>1 DEF Fits, KindsAt, Leaving, Request, SignIn, Mutating
<1>6. Rests
  <2>1. \A k \in Key : job[j].mut[k] # "queued"
    BY <1>1 DEF Fits, At, Mutating
  <2>2. job[Refresher].pc = "idle" => \A k \in Key : job[Refresher].mut[k] # "queued"
    BY <1>1 DEF Fits, Mutating
  <2> HIDE DEF w, s
  <2> QED
    BY <1>0, <1>1, <1>2, <1>3, <1>4, <1>5, <2>1, <2>2 DEF Rests, Request
<1>7. /\ SessionTypeOK' /\ KindsFit' /\ QueueFits' /\ ClaimIsTheSessions'
      /\ \A k \in Key, u \in Maybe(User) : (Brings(k, u) => Brings(k, u)') /\ (Only(k, u) => Only(k, u)')
  BY <1>0, <1>6, RestsKeeps
<1>8. /\ Current(j) /\ session # None /\ job[j].user = session
      /\ \A i \in Task : Current(i) => job[i].kind \notin Starting \cup Leaving
  BY <1>0, <1>1 DEF ServedFits, OperationFits, Request, Starting, Leaving
<1>9. \A i \in Task : job'[i].current => job'[i].kind \notin Starting \cup Leaving
  BY <1>1, <1>2, <1>3, <1>4, <1>8 DEF Current, Starting, Leaving
<1>10. OperationFits' /\ CleanFits'
  BY <1>9 DEF OperationFits, CleanFits, Current
<1>11. RefreshFits'
  <2> HIDE DEF w, s
  <2>1. job'[Refresher].current /\ job'[Refresher].pc \notin {"readToken", "dropToken"} =>
          job'[Refresher].user = session
    BY <1>0, <1>3, <1>4 DEF RefreshFits, Current
  <2>2. job'[Refresher].pc # "idle"
    BY <1>3, <1>4
  <2>3. ASSUME NEW i \in Task, job'[i].pc = "waits", job'[Refresher].current
        PROVE  job'[i].current
    <3>1. CASE i = j
      BY <1>2, <1>4, <1>8, <3>1 DEF Current
    <3>2. CASE i # j
      <4>1. job'[i] = job[i] /\ job[i].pc = "waits" /\ job[Refresher].pc # "idle"
        BY <1>0, <1>3, <1>4, <2>3, <3>2 DEF RefreshFits
      <4> QED
        BY <1>0, <1>4, <2>3, <4>1 DEF RefreshFits, Current
    <3> QED
      BY <3>1, <3>2
  <2> QED
    BY <1>6, <1>8, <2>1, <2>2, <2>3 DEF RefreshFits, Current, Rests
<1>12. ServedFits'
  <2> HIDE DEF w, s
  <2> QED
    BY <1>0, <1>2, <1>3, <1>4, <1>6 DEF ServedFits, Current, Rests
<1>13. SaidFits' /\ LeftFits'
  BY <1>0, <1>8 DEF SaidFits, LeftFits
<1>14. TokenFits'
  <2>1. Only("token", session) /\ session \in Maybe(User) /\ "token" \in Key /\ session' = session
    BY <1>0, <1>8 DEF TokenFits, SessionTypeOK, Key
  <2>2. Only("token", session)'
    BY <1>7, <2>1 DEF Only, Brings, Live
  <2> QED
    BY <1>9, <2>2 DEF TokenFits, Current
<1> QED
  BY <1>7, <1>10, <1>11, <1>12, <1>13, <1>14 DEF SessionInv

(* The refresh is over, and the requests that waited for it go on.         *)
LEMMA RefreshEndsKeeps ==
    ASSUME SessionInv, NEW result \in {"session", "null", "error"}, ~At(Refresher, "idle"),
           \A k \in Key : job[Refresher].mut[k] # "queued",
           result = "session" => Current(Refresher),
           job' = Woken([job EXCEPT ![Refresher] = Idle], result),
           pending' \in {None, pending, session}, homes' \subseteq User,
           UNCHANGED <<session, told, page, store, queue>>
    PROVE  SessionInv'
<1> DEFINE retry(i) == [job[i] EXCEPT !.pc = "retry", !.same = TRUE, !.user = session]
           expire(i) == [job[i] EXCEPT !.pc = "expire"]
<1>0. /\ SessionTypeOK /\ KindsFit /\ QueueFits /\ OperationFits /\ RefreshFits /\ ServedFits
      /\ SaidFits /\ TokenFits /\ CleanFits /\ LeftFits /\ ClaimIsTheSessions
      /\ Refresher \in Task /\ job \in [Task -> JobState] /\ session \in Maybe(User)
  BY DEF SessionInv, SessionTypeOK, Task
<1>1. /\ Idle \in JobState /\ Idle.kind = "none" /\ Idle.pc = "idle" /\ ~Idle.current /\ ~Idle.same
      /\ Idle.mut = Untouched /\ Fits(Idle)
  BY DEF Idle, JobState, Kind, Pc, Maybe, Untouched, Fits, KindsAt, Mutating, Leaving
<1>2. /\ job'[Refresher] = Idle
      /\ \A i \in Task \ {Refresher} :
           job'[i] = IF job[i].pc # "waits" THEN job[i]
                     ELSE IF result = "error" THEN Idle
                     ELSE IF result = "null" THEN expire(i)
                     ELSE retry(i)
      /\ DOMAIN job' = Task
  <2> DEFINE js == [job EXCEPT ![Refresher] = Idle]
  <2>1. js[Refresher] = Idle /\ \A i \in Task \ {Refresher} : js[i] = job[i]
    BY <1>0
  <2> HIDE DEF js
  <2> QED
    BY <1>0, <1>1, <2>1 DEF Woken, js
<1>3. ASSUME NEW i \in Task \ {Refresher}, job[i].pc = "waits"
      PROVE  /\ \A k \in Key : job[i].mut[k] # "queued"
             /\ retry(i) \in JobState /\ retry(i).pc = "retry" /\ retry(i).kind \in Request
             /\ retry(i).current = job[i].current /\ retry(i).user = session /\ Fits(retry(i))
             /\ expire(i) \in JobState /\ expire(i).pc = "expire" /\ expire(i).kind \in Request
             /\ expire(i).current = job[i].current /\ expire(i).same = job[i].same
             /\ expire(i).user = job[i].user /\ Fits(expire(i))
  <2>1. job[i] \in JobState /\ Fits(job[i])
    BY <1>0 DEF KindsFit
  <2>2. job[i].kind \in Request /\ \A k \in Key : job[i].mut[k] # "queued"
    BY <1>3, <2>1 DEF Fits, KindsAt, Mutating
  <2>3. /\ retry(i) \in JobState /\ retry(i).pc = "retry" /\ retry(i).kind = job[i].kind
        /\ retry(i).current = job[i].current /\ retry(i).user = session /\ retry(i).mut = job[i].mut
    BY <1>0, <2>1 DEF JobState, Pc
  <2>4. /\ expire(i) \in JobState /\ expire(i).pc = "expire" /\ expire(i).kind = job[i].kind
        /\ expire(i).current = job[i].current /\ expire(i).user = job[i].user
        /\ expire(i).mut = job[i].mut /\ expire(i).same = job[i].same
    BY <1>0, <2>1 DEF JobState, Pc
  <2> HIDE DEF retry, expire
  <2> QED
    BY <2>2, <2>3, <2>4 DEF Fits, KindsAt, Request, Leaving, Mutating
<1> HIDE DEF retry, expire
<1>4. ASSUME NEW i \in Task
      PROVE  /\ job'[i] \in JobState
             /\ \/ job'[i] = job[i] /\ i # Refresher /\ job[i].pc # "waits"
                \/ /\ \A k \in Key : job[i].mut[k] # "queued"
                   /\ Fits(job'[i]) /\ job'[i].kind \in {"none"} \cup Request
                   /\ i = Refresher => job'[i].kind = "none"
                   /\ job'[i].pc \in {"idle", "expire", "retry"}
                   /\ job'[i].current => job[i].current
                   /\ job'[i].same => \/ job[i].same /\ job'[i].current = job[i].current
                                          /\ job'[i].user = job[i].user
                                      \/ job[i].pc = "waits" /\ result = "session"
                                          /\ job'[i].user = session /\ job'[i].current = job[i].current
  <2>1. CASE i = Refresher
    <3>1. job'[i] = Idle
      BY <1>2, <2>1
    <3> QED
      BY <1>1, <2>1, <3>1
  <2>2. CASE i # Refresher /\ job[i].pc = "waits"
    <3>1. job'[i] = IF result = "error" THEN Idle ELSE IF result = "null" THEN expire(i) ELSE retry(i)
      BY <1>2, <2>2
    <3>2. CASE result = "error"
      BY <1>1, <1>3, <2>2, <3>1, <3>2
    <3>3. CASE result = "null"
      BY <1>3, <2>2, <3>1, <3>3
    <3>4. CASE result = "session"
      BY <1>3, <2>2, <3>1, <3>4
    <3> QED
      BY <3>2, <3>3, <3>4
  <2>3. CASE i # Refresher /\ job[i].pc # "waits"
    BY <1>0, <1>2, <2>3
  <2> QED
    BY <2>1, <2>2, <2>3
<1>5. Rests
  <2>1. job' \in [Task -> JobState]
    <3>1. job' = [i \in Task |-> job'[i]]
      BY <1>0 DEF Woken
    <3> QED
      BY <1>4, <3>1
  <2> QED
    BY <1>4, <2>1 DEF Rests, Request
<1>6. /\ SessionTypeOK' /\ KindsFit' /\ QueueFits' /\ ClaimIsTheSessions'
      /\ \A k \in Key, u \in Maybe(User) : (Brings(k, u) => Brings(k, u)') /\ (Only(k, u) => Only(k, u)')
  BY <1>0, <1>5, RestsKeeps
<1>7. \A i \in Task : job'[i].current => Current(i) /\ (job'[i] = job[i] \/ job'[i].kind \in {"none"} \cup Request)
  BY <1>4 DEF Current
<1>8. \A i \in Task : job'[i].current /\ job'[i].kind \in Starting \cup Leaving => job'[i] = job[i]
  BY <1>7 DEF Starting, Leaving, Request
<1>9. OperationFits'
  BY <1>0, <1>5, <1>7, <1>8 DEF OperationFits, Current, Rests
<1>10. RefreshFits'
  <2>1. ~job'[Refresher].current /\ \A i \in Task : job'[i].pc # "waits"
    <3>1. ~job'[Refresher].current
      BY <1>1, <1>2
    <3>2. ASSUME NEW i \in Task
          PROVE  job'[i].pc # "waits"
      BY <1>4
    <3> QED
      BY <3>1, <3>2
  <2> QED
    BY <2>1 DEF RefreshFits, Current
<1>11. ServedFits'
  <2> SUFFICES ASSUME NEW i \in Task, job'[i].same
               PROVE  job'[i].current /\ session # None /\ job'[i].user = session
    BY <1>5 DEF ServedFits, Current, Rests
  <2>1. CASE job[i].same /\ job'[i].current = job[i].current /\ job'[i].user = job[i].user
    BY <1>0, <2>1 DEF ServedFits, Current
  <2>2. CASE /\ job[i].pc = "waits" /\ result = "session"
             /\ job'[i].user = session /\ job'[i].current = job[i].current
    BY <1>0, <2>2 DEF RefreshFits, Current
  <2> QED
    BY <1>4, <2>1, <2>2
<1>12. SaidFits'
  BY <1>0, <1>5 DEF SaidFits, Rests
<1>13. TokenFits'
  <2>1. session # None => Only("token", session)'
    BY <1>0, <1>6 DEF TokenFits, Key, Only, Brings, Live
  <2>2. ASSUME NEW i \in Task, job'[i].current, job'[i].kind \in Starting, NEW u, u = job'[i].user
        PROVE  /\ TokenKnown(job'[i]) => Only("token", u)'
               /\ job'[i].pc = "readToken" => Brings("token", None)'
    <3>1. job'[i] = job[i] /\ Current(i) /\ u \in Maybe(User) /\ None \in Maybe(User) /\ "token" \in Key
      BY <1>0, <1>7, <1>8, <2>2, Typed DEF Key, Maybe
    <3>2. /\ TokenKnown(job[i]) => Only("token", u)
          /\ job[i].pc = "readToken" => Brings("token", None)
      BY <1>0, <2>2, <3>1 DEF TokenFits
    <3> QED
      BY <1>6, <3>1, <3>2
  <2>3. \A i \in Task : job'[i].current /\ job'[i].kind \in Starting =>
          /\ TokenKnown(job'[i]) => \A u : u = job'[i].user => Only("token", u)'
          /\ job'[i].pc = "readToken" => Brings("token", None)'
    BY <2>2
  <2> QED
    BY <1>5, <2>1, <2>3 DEF TokenFits, Current, Only, Brings, Live, Rests
<1>14. None \in Maybe(User)
  BY DEF Maybe
<1>15. CleanFits'
  BY <1>0, <1>6, <1>7, <1>8, <1>14 DEF CleanFits, Current
<1>16. LeftFits'
  <2> SUFFICES ASSUME told.status = "signed-out", told.by \in Leaving
               PROVE  /\ session = None
                      /\ \A i \in Task : job'[i].current => job'[i].kind \in Leaving
                      /\ \A k \in Key : Only(k, None)'
    BY <1>5 DEF LeftFits, Current, Rests
  <2>1. /\ session = None /\ (\A i \in Task : Current(i) => job[i].kind \in Leaving)
        /\ \A k \in Key : Only(k, None)
    BY <1>0 DEF LeftFits
  <2>2. ASSUME NEW i \in Task, job'[i].current
        PROVE  job'[i].kind \in Leaving
    <3>1. Current(i) /\ job[i].kind \in Leaving /\ Fits(job[i])
      BY <1>0, <1>7, <2>1, <2>2 DEF KindsFit
    <3>2. i # Refresher /\ job[i].pc # "waits"
      BY <1>0, <3>1 DEF KindsFit, Fits, KindsAt, Leaving, Request
    <3> QED
      BY <1>2, <3>1, <3>2
  <2> QED
    BY <1>6, <1>14, <2>1, <2>2
<1> QED
  BY <1>6, <1>9, <1>10, <1>11, <1>12, <1>13, <1>15, <1>16 DEF SessionInv

\* The first mutation of a key is over: r is how it went.
FirstIsOver(k, r) ==
    /\ queue[k] # <<>>
    /\ queue' = [queue EXCEPT ![k] = Tail(@)]
    /\ job' = [job EXCEPT ![Head(queue[k]).by].mut[k] = r]
    /\ UNCHANGED <<session, pending, told, page, homes>>

\* What that makes of the queue and of the job b that asked for it.
WithoutFirst(k, r, b) ==
    /\ b \in Task /\ Len(queue[k]) \in Nat /\ 1 \in 1 .. Len(queue[k]) /\ Head(queue[k]) = queue[k][1]
    /\ queue' \in [Key -> Seq(Mutation)] /\ job' \in [Task -> JobState]
    /\ \A l \in Key \ {k} : queue'[l] = queue[l]
    /\ Len(queue'[k]) = Len(queue[k]) - 1
    /\ \A i \in 1 .. Len(queue'[k]) : /\ i + 1 \in 1 .. Len(queue[k])
                                     /\ queue'[k][i] = queue[k][i + 1]
                                     /\ queue[k][i + 1].by # b /\ ~queue[k][i + 1].writing
    /\ \A i \in Task \ {b} : job'[i] = job[i]
    /\ job'[b].mut = [job[b].mut EXCEPT ![k] = r]
    /\ job'[b].mut[k] = r /\ \A l \in Key \ {k} : job'[b].mut[l] = job[b].mut[l]
    /\ \A i \in Task : /\ job'[i].kind = job[i].kind /\ job'[i].pc = job[i].pc
                      /\ job'[i].user = job[i].user /\ job'[i].current = job[i].current
                      /\ job'[i].same = job[i].same
    /\ job[b].mut[k] = "queued" /\ queue[k][1].put = Put(job[b], k)

(* The queue without its first mutation, and the job that asked for it.    *)
LEMMA FirstGone ==
    ASSUME SessionTypeOK, KindsFit, QueueFits, NEW k \in Key,
           NEW r \in {"done", "skipped", "failed"}, FirstIsOver(k, r),
           NEW b, b = queue[k][1].by
    PROVE  WithoutFirst(k, r, b)
<1>1. /\ queue[k] \in Seq(Mutation) /\ queue[k] # <<>> /\ Len(queue[k]) \in Nat
      /\ queue \in [Key -> Seq(Mutation)] /\ job \in [Task -> JobState]
  BY DEF FirstIsOver, SessionTypeOK
<1>2. /\ 1 \in 1 .. Len(queue[k]) /\ Head(queue[k]) = queue[k][1] /\ Tail(queue[k]) \in Seq(Mutation)
      /\ Len(Tail(queue[k])) = Len(queue[k]) - 1
      /\ \A i \in 1 .. Len(Tail(queue[k])) : /\ i + 1 \in 1 .. Len(queue[k])
                                            /\ Tail(queue[k])[i] = queue[k][i + 1]
  BY <1>1
<1>3. b \in Task /\ job[b].mut[k] = "queued" /\ job[b] \in JobState
  BY <1>2, Typed
<1>4. queue'[k] = Tail(queue[k]) /\ queue' \in [Key -> Seq(Mutation)] /\ \A l \in Key \ {k} : queue'[l] = queue[l]
  BY <1>1, <1>2 DEF FirstIsOver
<1>5. /\ queue[k][1].put = Put(job[b], k)
      /\ \A i \in 2 .. Len(queue[k]) : queue[k][i].by # b /\ ~queue[k][i].writing
  BY <1>1, <1>2 DEF QueueFits
<1>6. \A i \in 1 .. Len(queue'[k]) : /\ i + 1 \in 1 .. Len(queue[k])
                                     /\ queue'[k][i] = queue[k][i + 1]
                                     /\ queue[k][i + 1].by # b /\ ~queue[k][i + 1].writing
  BY <1>1, <1>2, <1>4, <1>5
<1> DEFINE m == [job[b].mut EXCEPT ![k] = r]
           n == [job[b] EXCEPT !.mut = m]
<1>7. m \in [Key -> {"none", "queued", "done", "skipped", "failed"}] /\ m[k] = r
      /\ \A l \in Key \ {k} : m[l] = job[b].mut[l]
  BY <1>3 DEF JobState
<1>8. /\ n \in JobState /\ n.mut = m /\ n.kind = job[b].kind /\ n.pc = job[b].pc
      /\ n.user = job[b].user /\ n.current = job[b].current /\ n.same = job[b].same
  <2> HIDE DEF m
  <2> QED
    BY <1>3, <1>7 DEF JobState
<1>9. job' = [job EXCEPT ![b] = n]
  BY <1>2 DEF FirstIsOver
<1>10. job' \in [Task -> JobState] /\ job'[b] = n /\ \A i \in Task \ {b} : job'[i] = job[i]
  <2> HIDE DEF n
  <2> QED
    BY <1>1, <1>3, <1>8, <1>9
<1>11. \A i \in Task : /\ job'[i].kind = job[i].kind /\ job'[i].pc = job[i].pc
                       /\ job'[i].user = job[i].user /\ job'[i].current = job[i].current
                       /\ job'[i].same = job[i].same
  <2> HIDE DEF n
  <2> QED
    BY <1>8, <1>10
<1> HIDE DEF n
<1> QED
  BY <1>1, <1>2, <1>3, <1>4, <1>5, <1>6, <1>7, <1>8, <1>10, <1>11 DEF WithoutFirst

(* A mutation that is over, and what its key holds then.                   *)
LEMMA FirstIsOverKeeps ==
    ASSUME SessionInv, NEW k \in Key, NEW r \in {"done", "skipped", "failed"}, FirstIsOver(k, r),
           \/ r # "done" /\ store' = store
           \/ r = "done" /\ queue[k][1].writing /\ store' = [store EXCEPT ![k] = queue[k][1].put],
           r = "skipped" => ~Committed(k, queue[k][1])
    PROVE  SessionInv'
<1>e. PICK e, b : e = queue[k][1] /\ b = e.by
  OBVIOUS
<1>0. /\ SessionTypeOK /\ KindsFit /\ QueueFits /\ OperationFits /\ RefreshFits /\ ServedFits
      /\ SaidFits /\ TokenFits /\ CleanFits /\ LeftFits /\ ClaimIsTheSessions
      /\ UNCHANGED <<session, pending, told, page, homes>> /\ Refresher \in Task
      /\ None \in Maybe(User) /\ session \in Maybe(User)
  BY DEF SessionInv, FirstIsOver, Task, Maybe, SessionTypeOK
<1>L. WithoutFirst(k, r, b)
  BY <1>0, <1>e, FirstGone
<1>1. /\ b \in Task /\ Len(queue[k]) \in Nat /\ 1 \in 1 .. Len(queue[k])
      /\ queue' \in [Key -> Seq(Mutation)] /\ job' \in [Task -> JobState]
      /\ \A l \in Key \ {k} : queue'[l] = queue[l]
      /\ Len(queue'[k]) = Len(queue[k]) - 1
      /\ \A i \in 1 .. Len(queue'[k]) : /\ i + 1 \in 1 .. Len(queue[k])
                                       /\ queue'[k][i] = queue[k][i + 1]
                                       /\ queue[k][i + 1].by # b /\ ~queue[k][i + 1].writing
      /\ \A i \in Task \ {b} : job'[i] = job[i]
      /\ job'[b].mut[k] = r /\ \A l \in Key \ {k} : job'[b].mut[l] = job[b].mut[l]
      /\ \A i \in Task : /\ job'[i].kind = job[i].kind /\ job'[i].pc = job[i].pc
                        /\ job'[i].user = job[i].user /\ job'[i].current = job[i].current
                        /\ job'[i].same = job[i].same
      /\ job[b].mut[k] = "queued" /\ e.put = Put(job[b], k)
  BY <1>e, <1>L DEF WithoutFirst
<1>2. /\ e.put \in Maybe(User) /\ store \in [Key -> Maybe(User)]
      /\ store' \in [Key -> Maybe(User)] /\ \A l \in Key \ {k} : store'[l] = store[l]
      /\ store'[k] = IF r = "done" THEN e.put ELSE store[k]
  <2>1. e.put \in Maybe(User) /\ store \in [Key -> Maybe(User)]
    BY <1>0, <1>1, <1>e, Typed
  <2> QED
    BY <1>e, <2>1
<1>3. \A l \in Key : \A i \in 1 .. Len(queue'[l]) :
        \E n \in 1 .. Len(queue[l]) :
          /\ queue'[l][i] = queue[l][n] /\ n = IF l = k THEN i + 1 ELSE i
          /\ l = k => queue[l][n].by # b /\ ~queue[l][n].writing
  BY <1>1
<1>4. SessionTypeOK'
  <2>1. \A l \in Key : DOMAIN queue'[l] = 1 .. Len(queue'[l])
    BY <1>1
  <2>2. ASSUME NEW l \in Key, NEW i \in 1 .. Len(queue'[l])
        PROVE  job'[queue'[l][i].by].mut[l] = "queued"
    <3>1. PICK n \in 1 .. Len(queue[l]) : queue'[l][i] = queue[l][n] /\ (l = k => queue[l][n].by # b)
      BY <1>3
    <3>2. queue[l][n].by \in Task /\ job[queue[l][n].by].mut[l] = "queued"
      BY <1>0, <3>1, Typed
    <3> QED
      <4>1. queue[l][n].by = b => l # k
        BY <3>1
      <4>2. queue[l][n].by # b => job'[queue[l][n].by] = job[queue[l][n].by]
        BY <1>1, <3>2
      <4>3. l # k => job'[b].mut[l] = job[b].mut[l]
        BY <1>1
      <4> QED
        BY <3>1, <3>2, <4>1, <4>2, <4>3
  <2>3. \A l \in Key : \A i \in DOMAIN queue'[l] : job'[queue'[l][i].by].mut[l] = "queued"
    BY <2>1, <2>2
  <2> QED
    BY <1>0, <1>1, <1>2, <2>3 DEF SessionTypeOK
<1>5. KindsFit'
  <2>1. ASSUME NEW i \in Task
        PROVE  Fits(job'[i])
    <3>1. CASE i # b
      BY <1>0, <1>1, <3>1 DEF KindsFit
    <3>2. CASE i = b
      <4>1. Fits(job[b])
        BY <1>0, <1>1 DEF KindsFit
      <4>2. job[b].kind \in Leaving /\ job[b].current => r # "skipped"
        <5>1. job[b].kind \in Leaving => e.put = None
          BY <1>1, <4>1 DEF Fits, KindsAt, Put, Leaving, SignIn, Request
        <5> QED
          BY <1>e, <5>1 DEF Committed
      <4>3. /\ job'[b].kind = job[b].kind /\ job'[b].pc = job[b].pc
            /\ job'[b].current = job[b].current /\ job'[b].same = job[b].same
            /\ job'[b].user = job[b].user /\ job'[b].mut[k] = r /\ \A l \in Key \ {k} : job'[b].mut[l] = job[b].mut[l]
            /\ job[b].mut[k] = "queued"
        BY <1>1
      <4>4. \A l \in Key : /\ job'[b].mut[l] = "queued" => job[b].mut[l] = "queued"
                           /\ job'[b].mut[l] = "none" => job[b].mut[l] = "none"
                           /\ job'[b].mut[l] = "skipped" => (l = k /\ r = "skipped") \/ job[b].mut[l] = "skipped"
        BY <4>3
      <4>5. "token" \in Key /\ "claim" \in Key
        BY DEF Key
      <4> QED
        BY <3>2, <4>1, <4>2, <4>3, <4>4, <4>5 DEF Fits
    <3> QED
      BY <3>1, <3>2
  <2> QED
    BY <1>0, <1>1, <2>1 DEF KindsFit
<1>6. QueueFits'
  <2> SUFFICES ASSUME NEW l \in Key, NEW i \in 1 .. Len(queue'[l])
               PROVE  /\ i # 1 => ~queue'[l][i].writing
                      /\ queue'[l][i].put = Put(job'[queue'[l][i].by], l)
                      /\ \A n \in 1 .. Len(queue'[l]) : queue'[l][n].by = queue'[l][i].by => n = i
    BY DEF QueueFits
  <2>1. PICK m \in 1 .. Len(queue[l]) :
          /\ queue'[l][i] = queue[l][m] /\ m = IF l = k THEN i + 1 ELSE i
          /\ l = k => queue[l][m].by # b /\ ~queue[l][m].writing
    BY <1>3
  <2>2. /\ m # 1 => ~queue[l][m].writing
        /\ queue[l][m].put = Put(job[queue[l][m].by], l)
        /\ \A n \in 1 .. Len(queue[l]) : queue[l][n].by = queue[l][m].by => n = m
        /\ queue[l][m].by \in Task
    BY <1>0, <2>1, Typed DEF QueueFits
  <2>3. \A o \in Task : Put(job'[o], l) = Put(job[o], l)
    BY <1>1 DEF Put
  <2>4. i # 1 => ~queue'[l][i].writing
    BY <2>1, <2>2
  <2>5. ASSUME NEW n \in 1 .. Len(queue'[l]), queue'[l][n].by = queue'[l][i].by
        PROVE  n = i
    <3>1. PICK p \in 1 .. Len(queue[l]) :
            queue'[l][n] = queue[l][p] /\ p = IF l = k THEN n + 1 ELSE n
      BY <1>3
    <3>2. p = m
      BY <2>1, <2>2, <2>5, <3>1
    <3> QED
      BY <2>1, <3>1, <3>2
  <2> QED
    BY <2>1, <2>2, <2>3, <2>4, <2>5
<1>7. ASSUME NEW l \in Key, NEW u \in Maybe(User), Brings(l, u)
      PROVE  Brings(l, u)' /\ (Only(l, u) => Only(l, u)')
  <2>1. Brings(l, u)'
    <3> SUFFICES ASSUME NEW i \in 1 .. Len(queue'[l]), Live(l, i)'
                 PROVE  queue'[l][i].put = u
      BY DEF Brings
    <3>1. PICK m \in 1 .. Len(queue[l]) : queue'[l][i] = queue[l][m]
      BY <1>3
    <3>2. queue[l][m].by \in Task
      BY <1>0, <3>1, Typed
    <3>3. job'[queue[l][m].by].current = job[queue[l][m].by].current
      BY <1>1, <3>2
    <3>4. Live(l, m)
      BY <3>1, <3>3 DEF Live, Current
    <3> QED
      BY <1>7, <3>1, <3>4 DEF Brings
  <2>2. ASSUME Only(l, u)
        PROVE  store'[l] \in {None, u}
    <3>1. CASE l = k /\ r = "done"
      <4>1. e.put # None => e.put = u
        BY <1>1, <1>7, <1>e, <3>1 DEF Brings, Live
      <4> QED
        BY <1>2, <3>1, <4>1
    <3>2. CASE ~(l = k /\ r = "done")
      BY <1>2, <2>2, <3>2 DEF Only
    <3> QED
      BY <3>1, <3>2
  <2> QED
    BY <2>1, <2>2 DEF Only
\* The write of a job that is current and alone is the last one.
<1>8. ASSUME r = "done", \A i \in Task : Current(i) => i = b, NEW u, u = e.put
      PROVE  Only(k, u)'
  <2>1. \A i \in 1 .. Len(queue'[k]) : ~Live(k, i)'
    <3> SUFFICES ASSUME NEW i \in 1 .. Len(queue'[k]), Live(k, i)'
                 PROVE  FALSE
      OBVIOUS
    <3>1. PICK m \in 1 .. Len(queue[k]) : /\ queue'[k][i] = queue[k][m]
                                          /\ queue[k][m].by # b /\ ~queue[k][m].writing
      BY <1>3
    <3>2. queue[k][m].by \in Task
      BY <1>0, <3>1, Typed
    <3> QED
      BY <1>1, <1>8, <3>1, <3>2 DEF Live, Current
  <2>2. store'[k] = e.put
    BY <1>2, <1>8
  <2> QED
    BY <1>8, <2>1, <2>2 DEF Only, Brings
<1>9. OperationFits' /\ RefreshFits' /\ ServedFits' /\ SaidFits' /\ ClaimIsTheSessions'
  <2>0. \A i \in Task : /\ job'[i].kind = job[i].kind /\ job'[i].pc = job[i].pc
                        /\ job'[i].user = job[i].user /\ job'[i].current = job[i].current
                        /\ job'[i].same = job[i].same
    BY <1>1
  <2>1. OperationFits'
    BY <1>0, <2>0 DEF OperationFits, Current
  <2>2. RefreshFits'
    BY <1>0, <2>0 DEF RefreshFits, Current
  <2>3. ServedFits'
    BY <1>0, <2>0 DEF ServedFits, Current
  <2> QED
    BY <1>0, <2>1, <2>2, <2>3 DEF SaidFits, ClaimIsTheSessions
<1>10. "token" \in Key
  BY DEF Key
<1>11. TokenFits'
  <2>1. session # None => Only("token", session)'
    BY <1>0, <1>7, <1>10 DEF TokenFits, Only
  <2>2. ASSUME NEW i \in Task, Current(i), job[i].kind \in Starting, NEW u, u = job[i].user
        PROVE  /\ TokenKnown(job'[i]) => Only("token", u)'
               /\ job[i].pc = "readToken" => Brings("token", None)'
    <3>1. u \in Maybe(User)
      BY <1>0, <2>2, Typed
    <3>2. /\ TokenKnown(job[i]) => Only("token", u)'
          /\ job[i].pc = "readToken" => Brings("token", None)'
      BY <1>0, <1>7, <1>10, <2>2, <3>1 DEF TokenFits, Only
    <3>3. ASSUME TokenKnown(job'[i]), ~TokenKnown(job[i])
          PROVE  Only("token", u)'
      <4>1. i = b /\ k = "token" /\ r = "done" /\ job[i].pc = "saveToken"
        BY <1>1, <1>10, <3>3 DEF TokenKnown
      <4>2. e.put = u
        BY <1>1, <2>2, <4>1 DEF Put
      <4>3. \A h \in Task : Current(h) => h = b
        BY <1>0, <2>2, <4>1 DEF OperationFits
      <4> QED
        BY <1>8, <4>1, <4>2, <4>3
    <3> QED
      BY <3>2, <3>3
  <2>3. \A i \in Task : job'[i].current /\ job'[i].kind \in Starting =>
          /\ TokenKnown(job'[i]) => \A u : u = job'[i].user => Only("token", u)'
          /\ job'[i].pc = "readToken" => Brings("token", None)'
    BY <1>1, <2>2 DEF Current
  <2> QED
    BY <1>0, <2>1, <2>3 DEF TokenFits, Current, Only, Brings, Live
<1>12. CleanFits'
  <2> SUFFICES ASSUME NEW i \in Task, NEW l \in Key, Current(i), job[i].kind \in Leaving, Cleaned(job'[i], l)
               PROVE  Only(l, None)'
    BY <1>1 DEF CleanFits, Current
  <2>1. CASE Cleaned(job[i], l)
    BY <1>0, <1>7, <2>1 DEF CleanFits, Only
  <2>2. CASE ~Cleaned(job[i], l)
    <3>1. i = b /\ l = k /\ r = "done"
      BY <1>1, <2>2 DEF Cleaned
    <3>2. e.put = None
      <4>1. Fits(job[b])
        BY <1>0, <1>1 DEF KindsFit
      <4> QED
        BY <1>1, <3>1, <4>1 DEF Fits, KindsAt, Put, Leaving, SignIn, Request
    <3>3. \A h \in Task : Current(h) => h = b
      BY <1>0, <3>1 DEF OperationFits
    <3> QED
      BY <1>8, <3>1, <3>2, <3>3
  <2> QED
    BY <2>1, <2>2
<1>13. LeftFits'
  BY <1>0, <1>1, <1>7 DEF LeftFits, Current, Only
<1> QED
  BY <1>4, <1>5, <1>6, <1>9, <1>11, <1>12, <1>13 DEF SessionInv

(* The chain of a key goes on: a mutation is written, skipped, or begins.  *)
LEMMA QueueKeeps ==
    ASSUME SessionInv, NEW k \in Key, TakesTurn(k) \/ Writes(k)
    PROVE  SessionInv'
<1>0. /\ SessionTypeOK /\ queue[k] \in Seq(Mutation) /\ queue[k] # <<>>
      /\ 1 \in 1 .. Len(queue[k]) /\ Head(queue[k]) = queue[k][1]
      /\ queue[k][1] \in Mutation /\ queue[k][1].by \in Task
      /\ Len(queue[k]) \in Nat
  <2>1. SessionTypeOK /\ queue[k] \in Seq(Mutation) /\ queue[k] # <<>>
    BY DEF SessionInv, SessionTypeOK, TakesTurn, Writes
  <2>2. 1 \in 1 .. Len(queue[k]) /\ Head(queue[k]) = queue[k][1] /\ Len(queue[k]) \in Nat
    BY <2>1
  <2> QED
    BY <2>1, <2>2, Typed
<1>1. CASE Writes(k)
  <2>1. FirstIsOver(k, "done") \/ FirstIsOver(k, "failed")
    BY <1>1 DEF Writes, FirstIsOver
  <2>2. queue[k][1].writing
    BY <1>0, <1>1 DEF Writes
  <2>3. CASE store' = [store EXCEPT ![k] = Head(queue[k]).put] /\ job' = [job EXCEPT ![Head(queue[k]).by].mut[k] = "done"]
    <3>1. FirstIsOver(k, "done")
      BY <1>1, <2>3 DEF Writes, FirstIsOver
    <3> QED
      BY <1>0, <2>2, <2>3, <3>1, FirstIsOverKeeps
  <2>4. CASE store' = store /\ job' = [job EXCEPT ![Head(queue[k]).by].mut[k] = "failed"]
    <3>1. FirstIsOver(k, "failed")
      BY <1>1, <2>4 DEF Writes, FirstIsOver
    <3> QED
      BY <2>4, <3>1, FirstIsOverKeeps
  <2> QED
    BY <1>1, <2>3, <2>4 DEF Writes
<1>2. CASE TakesTurn(k) /\ ~Committed(k, Head(queue[k]))
  <2>1. FirstIsOver(k, "skipped") /\ store' = store
    BY <1>2 DEF TakesTurn, FirstIsOver
  <2> QED
    BY <1>0, <1>2, <2>1, FirstIsOverKeeps
<1>3. CASE TakesTurn(k) /\ Committed(k, Head(queue[k]))
  <2> DEFINE e == queue[k][1]
             m == [e EXCEPT !.writing = TRUE]
             q == <<m>> \o Tail(queue[k])
  <2>1. /\ queue' = [queue EXCEPT ![k] = q]
        /\ UNCHANGED <<session, pending, told, page, store, homes, job>>
        /\ Current(e.by)
    BY <1>0, <1>3 DEF TakesTurn, Committed, Current
  <2>2. m \in Mutation /\ m.by = e.by /\ m.put = e.put
    BY <1>0 DEF Mutation
  <2>3. /\ q \in Seq(Mutation) /\ Len(q) = Len(queue[k]) /\ q[1] = m
        /\ \A i \in 2 .. Len(queue[k]) : q[i] = queue[k][i]
    <3> HIDE DEF m
    <3>1. /\ Tail(queue[k]) \in Seq(Mutation) /\ Len(Tail(queue[k])) = Len(queue[k]) - 1
          /\ \A i \in 1 .. Len(queue[k]) - 1 : Tail(queue[k])[i] = queue[k][i + 1]
      BY <1>0
    <3>2. <<m>> \in Seq(Mutation) /\ Len(<<m>>) = 1 /\ <<m>>[1] = m
      BY <2>2
    <3> DEFINE t == Tail(queue[k])
    <3> HIDE DEF t
    <3>3. /\ <<m>> \o t \in Seq(Mutation) /\ Len(<<m>> \o t) = 1 + Len(t)
          /\ (<<m>> \o t)[1] = m /\ \A i \in 2 .. 1 + Len(t) : (<<m>> \o t)[i] = t[i - 1]
      BY <2>2, <3>1, <3>2 DEF t
    <3> QED
      BY <1>0, <3>1, <3>3 DEF t
  <2> HIDE DEF m, q
  <2>4. queue' \in [Key -> Seq(Mutation)] /\ queue'[k] = q /\ \A l \in Key \ {k} : queue'[l] = queue[l]
    BY <1>0, <2>1, <2>3 DEF SessionTypeOK
  <2>5. \A l \in Key : /\ Len(queue'[l]) = Len(queue[l])
                       /\ \A i \in 1 .. Len(queue[l]) :
                            /\ queue'[l][i].by = queue[l][i].by /\ queue'[l][i].put = queue[l][i].put
                            /\ i # 1 => queue'[l][i] = queue[l][i]
                            /\ queue'[l][i].writing => queue[l][i].writing \/ Current(queue[l][i].by)
    BY <1>0, <2>1, <2>2, <2>3, <2>4
  <2>6. \A l \in Key : \A u : (Brings(l, u) => Brings(l, u)') /\ (Only(l, u) => Only(l, u)')
    BY <2>1, <2>5 DEF Brings, Only, Live, Current
  <2>7. SessionTypeOK'
    <3>1. \A l \in Key : DOMAIN queue'[l] = 1 .. Len(queue[l])
      BY <2>4, <2>5
    <3>2. ASSUME NEW l \in Key, NEW i \in DOMAIN queue'[l]
          PROVE  job'[queue'[l][i].by].mut[l] = "queued"
      <4>1. i \in 1 .. Len(queue[l]) /\ queue'[l][i].by = queue[l][i].by
        BY <2>5, <3>1
      <4>2. job[queue[l][i].by].mut[l] = "queued"
        BY <1>0, <4>1, Typed
      <4> QED
        BY <2>1, <4>1, <4>2
    <3> QED
      BY <1>0, <2>1, <2>4, <3>2 DEF SessionTypeOK
  <2>8. QueueFits'
    BY <2>1, <2>5 DEF SessionInv, QueueFits
  <2>9. KindsFit' /\ OperationFits' /\ RefreshFits' /\ ServedFits' /\ SaidFits' /\ ClaimIsTheSessions'
    BY <2>1 DEF SessionInv, KindsFit, OperationFits, RefreshFits, ServedFits, SaidFits,
                ClaimIsTheSessions, Current
  <2>10. TokenFits'
    BY <2>1, <2>6 DEF SessionInv, TokenFits, Current, Key
  <2>11. CleanFits' /\ LeftFits'
    BY <2>1, <2>6 DEF SessionInv, CleanFits, LeftFits, Current
  <2> QED
    BY <2>7, <2>8, <2>9, <2>10, <2>11 DEF SessionInv
<1> QED
  BY <1>1, <1>2, <1>3

----------------------------------------------------------------------------
(* The actions: which of these each one is.                                *)

\* Job j becomes n; others may lose the session they were given.
Becomes(j, n) ==
    /\ n \in JobState /\ Fits(n)
    /\ n.kind = "refresh" => j = Refresher
    /\ j = Refresher => n.kind \in {"none", "refresh"}
    /\ \A k \in Key : job[j].mut[k] # "queued"
    /\ DOMAIN job' = Task /\ job' = [i \in Task |-> job'[i]]
    /\ job'[j] = n
    /\ \A i \in Task \ {j} : job'[i] = job[i] \/ job'[i] = [job[i] EXCEPT !.same = FALSE]

\* The other variables stay in their types.
Well ==
    /\ store' = store
    /\ session' \in Maybe(User) /\ pending' \in Maybe(User)
    /\ told' \in AuthState
    /\ page' \in [status : Status, user : Maybe(User), request : Maybe(Job)]
    /\ homes' \subseteq User

\* The others do not notice, but for the session they were given.
OthersStay(j) ==
    \A i \in Task \ {j} :
        /\ job'[i].kind = job[i].kind /\ job'[i].pc = job[i].pc
        /\ job'[i].user = job[i].user /\ job'[i].mut = job[i].mut
        /\ job'[i].current = job[i].current
        /\ job'[i].same => job[i].same

(* Nobody but the job itself goes on.                                     *)
LEMMA BecomesOthers ==
    ASSUME SessionTypeOK, NEW j \in Task, NEW n, Becomes(j, n)
    PROVE  job' \in [Task -> JobState] /\ OthersStay(j)
<1>1. ASSUME NEW i \in Task \ {j}
      PROVE  /\ job'[i] \in JobState
             /\ job'[i].kind = job[i].kind /\ job'[i].pc = job[i].pc
             /\ job'[i].user = job[i].user /\ job'[i].mut = job[i].mut
             /\ job'[i].current = job[i].current
             /\ job'[i].same => job[i].same
  <2> DEFINE m == [job[i] EXCEPT !.same = FALSE]
  <2>1. job[i] \in JobState
    BY DEF SessionTypeOK
  <2>2. /\ m \in JobState /\ m.kind = job[i].kind /\ m.pc = job[i].pc /\ m.user = job[i].user
        /\ m.mut = job[i].mut /\ m.current = job[i].current /\ ~m.same
    BY <2>1 DEF JobState
  <2>3. job'[i] = job[i] \/ job'[i] = m
    BY DEF Becomes
  <2> HIDE DEF m
  <2> QED
    BY <2>1, <2>2, <2>3
<1>2. job' \in [Task -> JobState]
  BY <1>1 DEF Becomes
<1> QED
  BY <1>1, <1>2 DEF OthersStay

(* A job that asks SecureStore for nothing is beside the others.           *)
LEMMA BecomesQuietly ==
    ASSUME SessionTypeOK, NEW j \in Task, NEW n, Becomes(j, n), Well,
           queue' = queue, \A k \in Key : n.mut[k] # "queued"
    PROVE  Beside(j) /\ n = job'[j]
<1>1. job' \in [Task -> JobState] /\ OthersStay(j)
  BY BecomesOthers
<1>3. queue' \in [Key -> Seq(Mutation)]
  BY DEF SessionTypeOK
<1> QED
  BY <1>1, <1>3 DEF Beside, Moves, Becomes, Well, OthersStay

(* So is a job that asks SecureStore for one mutation.                     *)
LEMMA BecomesAsking ==
    ASSUME SessionTypeOK, NEW j \in Task, NEW n, Becomes(j, n), Well, NEW k \in Key,
           NEW v \in Maybe(User), v = Put(n, k),
           queue' = Queued(queue, k, j, v), n.mut = [Untouched EXCEPT ![k] = "queued"]
    PROVE  Beside(j) /\ n = job'[j]
<1>1. job' \in [Task -> JobState] /\ OthersStay(j)
  BY BecomesOthers
<1>3. [by |-> j, put |-> v, writing |-> FALSE] \in Mutation
  BY DEF Mutation
<1>4. queue' = [queue EXCEPT ![k] = Append(queue[k], [by |-> j, put |-> v, writing |-> FALSE])]
  BY DEF Queued
<1>5. Append(queue[k], [by |-> j, put |-> v, writing |-> FALSE]) \in Seq(Mutation)
  BY <1>3 DEF SessionTypeOK
<1>6. /\ queue' \in [Key -> Seq(Mutation)]
      /\ queue'[k] = Append(queue[k], [by |-> j, put |-> v, writing |-> FALSE])
      /\ \A l \in Key \ {k} : queue'[l] = queue[l]
  BY <1>4, <1>5 DEF SessionTypeOK
<1>7. n.mut[k] = "queued" /\ \A l \in Key \ {k} : n.mut[l] # "queued"
  BY DEF Untouched
<1>8. job'[j] = n /\ \A l \in Key :
        queue'[l] = IF n.mut[l] = "queued"
                    THEN Append(queue[l], [by |-> j, put |-> Put(n, l), writing |-> FALSE])
                    ELSE queue[l]
  BY <1>6, <1>7 DEF Becomes
<1> QED
  BY <1>1, <1>6, <1>8 DEF Beside, Moves, Becomes, Well, OthersStay

(* A job is over, and may say so: the session stays as it was.             *)
LEMMA IdleKeeps ==
    ASSUME SessionInv, NEW j \in Task, j # Refresher, \A k \in Key : job[j].mut[k] # "queued",
           \/ job' = [job EXCEPT ![j] = Idle]
           \/ job' = Unserved([job EXCEPT ![j] = Idle]),
           told' \in AuthState,
           page' \in [status : Status, user : Maybe(User), request : Maybe(Job)],
           UNCHANGED <<told, page>> \/ Announces,
           UNCHANGED <<session, store, queue>>, homes' \subseteq User,
           pending' \in {None, pending, session}
    PROVE  SessionInv'
<1> DEFINE over == [job EXCEPT ![j] = Idle]
<1>0. /\ SessionTypeOK /\ session \in Maybe(User) /\ pending' \in Maybe(User)
      /\ job \in [Task -> JobState]
  BY DEF SessionInv, SessionTypeOK, Maybe
<1>1. /\ Idle \in JobState /\ Idle.kind = "none" /\ Idle.pc = "idle" /\ ~Idle.current /\ ~Idle.same
      /\ Idle.mut = Untouched /\ Fits(Idle)
  BY DEF Idle, JobState, Kind, Pc, Maybe, Untouched, Fits, KindsAt, Mutating, Leaving
<1>2. over[j] = Idle /\ DOMAIN over = Task /\ \A i \in Task \ {j} : over[i] = job[i]
  BY <1>0
<1>3. job'[j] = Idle /\ DOMAIN job' = Task /\ job' = [i \in Task |-> job'[i]]
  <2>1. CASE job' = over
    BY <1>1, <1>2, <2>1
  <2>2. CASE job' = Unserved(over)
    <3>1. Idle = [Idle EXCEPT !.same = FALSE]
      BY <1>1 DEF Idle, JobState
    <3> HIDE DEF over
    <3> QED
      BY <1>1, <1>2, <2>2, <3>1 DEF Unserved
  <2> QED
    BY <2>1, <2>2
<1>4. \A i \in Task \ {j} : job'[i] = job[i] \/ job'[i] = [job[i] EXCEPT !.same = FALSE]
  BY <1>2 DEF Unserved
<1>5. Becomes(j, Idle)
  BY <1>1, <1>3, <1>4 DEF Becomes
<1>6. Well
  BY <1>0 DEF Well
<1>7. \A k \in Key : Idle.mut[k] # "queued"
  BY <1>1 DEF Untouched
<1>8. Beside(j) /\ Idle = job'[j]
  BY <1>0, <1>5, <1>6, <1>7, BecomesQuietly
<1>9. GoesOn(j, Idle)
  BY <1>1, <1>8 DEF GoesOn
<1> QED
  BY <1>9, GoesOnKeeps

(* A job of a sign-in, its sign-in over: what its caller does.             *)
LEMMA EndsKeeps ==
    ASSUME SessionInv, NEW j \in Task, NEW result \in {"session", "null", "error"},
           job[j].kind \in SignIn, \A k \in Key : job[j].mut[k] # "queued",
           result = "session" => Current(j),
           result # "session" /\ Current(j) => job[j].pc \in Early,
           Ends(j, result), UNCHANGED <<store, queue>>, homes' \subseteq User,
           pending' \in {None, pending, session}
    PROVE  SessionInv'
<1> DEFINE over == [job EXCEPT ![j] = Idle]
<1>0. /\ SessionTypeOK /\ KindsFit /\ OperationFits /\ ServedFits /\ LeftFits /\ SaidFits
      /\ session \in Maybe(User) /\ pending \in Maybe(User) /\ pending' \in Maybe(User) /\ told \in AuthState
      /\ page \in [status : Status, user : Maybe(User), request : Maybe(Job)]
      /\ job \in [Task -> JobState] /\ None \in Maybe(User)
  BY DEF SessionInv, SessionTypeOK, Maybe
<1>1. /\ Idle \in JobState /\ Idle.kind = "none" /\ Idle.pc = "idle" /\ ~Idle.current /\ ~Idle.same
      /\ Idle.mut = Untouched /\ Fits(Idle)
  BY DEF Idle, JobState, Kind, Pc, Maybe, Untouched, Fits, KindsAt, Mutating, Leaving
<1>2. over[j] = Idle /\ DOMAIN over = Task /\ \A i \in Task \ {j} : over[i] = job[i]
  BY <1>0
<1>3. CASE job[j].kind = "refresh"
  <2>1. j = Refresher /\ job' = Woken(over, result) /\ UNCHANGED <<told, page, session>>
    BY <1>0, <1>3 DEF Ends, KindsFit, Silently
  <2>2. ~At(Refresher, "idle")
    BY <1>0, <1>3, <2>1 DEF KindsFit, Fits, KindsAt, At
  <2> QED
    BY <2>1, <2>2, RefreshEndsKeeps
\* Not a refresh: the job is over, and the session as it was.
<1>4. ASSUME job[j].kind # "refresh", session' = session, told' \in AuthState,
             page' \in [status : Status, user : Maybe(User), request : Maybe(Job)],
             job' = over \/ job' = Unserved(over),
             UNCHANGED <<told, page>> \/ Announces
      PROVE  SessionInv'
  <2>1. j # Refresher
    BY <1>0, <1>4 DEF KindsFit, SignIn
  <2> QED
    BY <1>0, <1>4, <2>1, IdleKeeps
<1>5. CASE job[j].kind # "refresh" /\ job' = over /\ Silently /\ UNCHANGED session
  BY <1>0, <1>4, <1>5 DEF Silently
\* It was current, and says what became of it.
<1>6. ASSUME job[j].kind # "refresh", Current(j), job' = over \/ job' = Unserved(over), session' = session,
             NEW status \in Status, NEW u \in Maybe(User), NEW req \in Maybe(Job),
             Publish(status, u, job[j].kind, req),
             status \in {"signed-out", "error"} => session = None
      PROVE  SessionInv'
  <2>1. job[j].kind \in Starting /\ job[j].kind \in Kind
    BY <1>6 DEF Starting, SignIn, Kind
  <2>2. \A i \in Task : Current(i) => i = j
    BY <1>0, <1>6, <2>1 DEF OperationFits
  <2>3. \A i \in Task : ~job'[i].current
    <3>1. \A i \in Task : ~over[i].current
      BY <1>0, <1>1, <1>2, <2>2, Typed DEF Current
    <3>2. \A i \in Task : over[i] \in JobState
      BY <1>0, <1>1, <1>2
    <3> HIDE DEF over
    <3> QED
      BY <1>6, <3>1, <3>2 DEF Unserved, JobState
  <2>4. /\ told' = [status |-> status, user |-> u, by |-> job[j].kind]
        /\ page' = page \/ page' = [status |-> status, user |-> u, request |-> None]
    BY <1>6 DEF Publish
  <2>5. told' \in AuthState /\ page' \in [status : Status, user : Maybe(User), request : Maybe(Job)]
    BY <1>0, <1>6, <2>1, <2>4 DEF AuthState, Maybe
  <2>6. told'.status = status /\ told'.by \notin Leaving /\ page'.status \in {page.status, status}
    BY <2>1, <2>4 DEF Starting, Leaving
  <2>7. page.status = "loading"
    BY <1>0, <1>6, <2>1 DEF OperationFits
  <2>8. Announces
    BY <1>6, <2>3, <2>6, <2>7 DEF Announces
  <2> QED
    BY <1>4, <1>6, <2>5, <2>8
<1>7. Current(j) /\ job[j].kind # "refresh" /\ result # "session" => session = None
  BY <1>0 DEF OperationFits, SignIn, Starting
<1>8. None \in Maybe(Job)
  BY DEF Maybe
<1>9. CASE /\ job[j].kind # "refresh" /\ Current(j) /\ result = "session" /\ job' = over
           /\ Publish("signed-in", session, job[j].kind, IF job[j].kind = "login" THEN j ELSE None)
           /\ UNCHANGED session
  <2>1. (IF job[j].kind = "login" THEN j ELSE None) \in Maybe(Job)
    BY <1>0, <1>9 DEF Maybe, Task, KindsFit
  <2> QED
    BY <1>0, <1>6, <1>9, <2>1 DEF Status
<1>10. CASE /\ job[j].kind = "restore" /\ Current(j) /\ result # "session"
            /\ job' = Unserved(over) /\ session' = None /\ Publish("signed-out", None, job[j].kind, None)
  BY <1>0, <1>6, <1>7, <1>8, <1>10 DEF Status
<1>11. CASE /\ job[j].kind = "login" /\ Current(j) /\ result = "error"
            /\ job' = Unserved(over) /\ session' = None
            /\ \E s \in {"signed-out", "error"} : Publish(s, None, job[j].kind, j)
  <2>1. PICK s \in {"signed-out", "error"} : Publish(s, None, job[j].kind, j)
    BY <1>11
  <2>2. j \in Maybe(Job)
    BY <1>0, <1>11 DEF Maybe, Task, KindsFit
  <2> QED
    BY <1>0, <1>6, <1>7, <1>11, <2>1, <2>2 DEF Status
<1> QED
  BY <1>3, <1>5, <1>9, <1>10, <1>11 DEF Ends

\* A job asks SecureStore for what it will await, if for anything.
AsksFor(j, n) ==
    \/ queue' = queue /\ \A k \in Key : n.mut[k] # "queued"
    \/ \E k \in Key : /\ queue' = Queued(queue, k, j, Put(n, k))
                     /\ n.mut = [Untouched EXCEPT ![k] = "queued"]

\* What GoesOn says of the job.
MayBe(j, n) ==
    /\ n.pc \notin {"idle", "readToken", "waits"}
    /\ n.current => \/ job[j].current /\ n.kind = job[j].kind
                    \/ n.kind \in Request /\ page.status = "signed-in" /\ session # None
    /\ n.same => n.current /\ session # None /\ n.user = session
    /\ n.current /\ j = Refresher => n.pc = "dropToken" \/ n.user = session
    /\ n.current /\ n.kind \in Starting =>
         /\ n.pc \in Early => job[j].pc \in Early
         /\ TokenKnown(n) => Only("token", n.user)
    /\ n.current /\ n.kind \in Leaving => \A k \in Key : Cleaned(n, k) => Only(k, None)

(* A step that does nothing but let a job go on.                           *)
LEMMA Advances ==
    ASSUME SessionInv, NEW j \in Task, NEW n \in JobState,
           \A k \in Key : job[j].mut[k] # "queued",
           Fits(n), n.kind = "refresh" => j = Refresher, j = Refresher => n.kind \in {"none", "refresh"},
           job' = [job EXCEPT ![j] = n], AsksFor(j, n), MayBe(j, n),
           UNCHANGED <<session, told, page, store>>, homes' \subseteq User,
           pending' \in {None, pending, session}
    PROVE  SessionInv'
<1>0. /\ SessionTypeOK /\ job \in [Task -> JobState]
      /\ session \in Maybe(User) /\ pending \in Maybe(User) /\ told \in AuthState
      /\ page \in [status : Status, user : Maybe(User), request : Maybe(Job)]
  BY DEF SessionInv, SessionTypeOK
<1>1. /\ job'[j] = n /\ DOMAIN job' = Task /\ job' = [i \in Task |-> job'[i]]
      /\ \A i \in Task \ {j} : job'[i] = job[i]
  BY <1>0
<1>2. Becomes(j, n)
  BY <1>1 DEF Becomes
<1>3. Well
  BY <1>0 DEF Well, Maybe
<1>4. Beside(j) /\ n = job'[j]
  <2>1. CASE queue' = queue /\ \A k \in Key : n.mut[k] # "queued"
    BY <1>0, <1>2, <1>3, <2>1, BecomesQuietly
  <2>2. CASE \E k \in Key : /\ queue' = Queued(queue, k, j, Put(n, k))
                            /\ n.mut = [Untouched EXCEPT ![k] = "queued"]
    <3>1. PICK k \in Key : /\ queue' = Queued(queue, k, j, Put(n, k))
                           /\ n.mut = [Untouched EXCEPT ![k] = "queued"]
      BY <2>2
    <3>2. Put(n, k) \in Maybe(User)
      BY DEF Put, JobState, Maybe
    <3> QED
      BY <1>0, <1>2, <1>3, <3>1, <3>2, BecomesAsking
  <2> QED
    BY <2>1, <2>2 DEF AsksFor
<1>5. GoesOn(j, n)
  BY <1>4 DEF GoesOn, MayBe
<1> QED
  BY <1>5, GoesOnKeeps

(* A job that asks SecureStore for a mutation and goes on to await it.     *)
LEMMA MutateJob ==
    ASSUME NEW j \in Task, job[j] \in JobState, NEW k \in Key, NEW v, NEW pc \in Pc, Mutate(j, k, v, pc)
    PROVE  \E n \in JobState :
             /\ n.pc = pc /\ n.kind = job[j].kind /\ n.current = job[j].current
             /\ n.same = job[j].same /\ n.user = job[j].user
             /\ n.mut[k] = "queued" /\ \A l \in Key \ {k} : n.mut[l] = "none"
             /\ job' = [job EXCEPT ![j] = n]
             /\ v = Put(n, k) => AsksFor(j, n)
<1> DEFINE m == [Untouched EXCEPT ![k] = "queued"]
           n == [job[j] EXCEPT !.pc = pc, !.mut = m]
<1>1. /\ m \in [Key -> {"none", "queued", "done", "skipped", "failed"}]
      /\ m[k] = "queued" /\ \A l \in Key \ {k} : m[l] = "none"
  BY DEF Untouched
<1>2. job' = [job EXCEPT ![j] = n] /\ queue' = Queued(queue, k, j, v)
  BY DEF Mutate
<1>3. /\ n \in JobState /\ n.pc = pc /\ n.kind = job[j].kind /\ n.current = job[j].current
      /\ n.same = job[j].same /\ n.user = job[j].user /\ n.mut = m
  <2> HIDE DEF m
  <2> QED
    BY <1>1 DEF JobState
<1>4. v = Put(n, k) => AsksFor(j, n)
  <2> HIDE DEF n
  <2> QED
    BY <1>2, <1>3 DEF AsksFor
<1> HIDE DEF n, m
<1> QED
  BY <1>1, <1>2, <1>3, <1>4

(* A job of a sign-in that is about to do its next step.                   *)
LEMMA SignInJob ==
    ASSUME SessionInv, NEW j \in Task, job[j].kind \in SignIn
    PROVE  /\ job[j] \in JobState /\ Fits(job[j]) /\ ~job[j].same
           /\ job[j].kind = "refresh" <=> j = Refresher
           /\ job[j].kind \notin Leaving /\ (job[j].kind \in Starting <=> j # Refresher)
           /\ session \in Maybe(User) /\ homes \subseteq User
           /\ Current(j) /\ j = Refresher =>
                /\ session # None
                /\ job[j].pc \notin {"readToken", "dropToken"} => job[j].user = session
           /\ Current(j) /\ j # Refresher /\ TokenKnown(job[j]) => Only("token", job[j].user)
<1>1. job[j] \in JobState /\ session \in Maybe(User) /\ homes \subseteq User
  BY DEF SessionInv, SessionTypeOK
<1>2. Fits(job[j]) /\ (job[j].kind = "refresh" <=> j = Refresher)
  BY DEF SessionInv, KindsFit, SignIn
<1>3. ~job[j].same /\ job[j].kind \notin Leaving /\ (job[j].kind \in Starting <=> j # Refresher)
  BY <1>1, <1>2 DEF Fits, SignIn, Request, Leaving, Starting, JobState
<1>4. Current(j) /\ j = Refresher =>
        /\ session # None
        /\ job[j].pc \notin {"readToken", "dropToken"} => job[j].user = session
  BY DEF SessionInv, RefreshFits
<1>5. Current(j) /\ j # Refresher /\ TokenKnown(job[j]) => Only("token", job[j].user)
  BY <1>3 DEF SessionInv, TokenFits
<1> QED
  BY <1>1, <1>2, <1>3, <1>4, <1>5

(* A job with an access token goes on to ask the server.                   *)
LEMMA HasTokenKeeps ==
    ASSUME SessionInv, NEW j \in Task, NEW u, u = job[j].user, HasToken(j, u),
           job[j].pc \in {"exchange", "saveToken"}, \A k \in Key : job[j].mut[k] # "queued",
           Current(j), TokenKnown(job[j])
    PROVE  SessionInv'
<1> DEFINE n == [job[j] EXCEPT !.pc = "lookup", !.user = u]
<1>0. job[j] \in JobState /\ Fits(job[j]) /\ job[j].kind \in SignIn
  BY DEF SessionInv, KindsFit, SessionTypeOK, Fits, KindsAt, SignIn
<1>1. /\ n \in JobState /\ n.pc = "lookup" /\ n.user = u /\ n.kind = job[j].kind
      /\ n.current = job[j].current /\ n.same = job[j].same /\ n.mut = job[j].mut
  BY <1>0 DEF JobState, Pc
<1>2. job' = [job EXCEPT ![j] = n] /\ UNCHANGED <<session, pending, told, page, store, queue, homes>>
  BY DEF HasToken
<1> HIDE DEF n
<1>3. Fits(n)
  BY <1>0, <1>1 DEF Fits, KindsAt, SignIn, Leaving, Request
<1>4. MayBe(j, n)
  BY <1>0, <1>1, SignInJob DEF MayBe, Current, Early
<1>5. AsksFor(j, n)
  BY <1>1, <1>2 DEF AsksFor
<1> QED
  BY <1>0, <1>1, <1>2, <1>3, <1>4, <1>5, Advances, SignInJob DEF SignIn

(* A job with another refresh token asks SecureStore to keep it.           *)
LEMMA KeepsTokenKeeps ==
    ASSUME SessionInv, NEW j \in Task, NEW u \in User, KeepsToken(j, u),
           job[j].pc \in {"browser", "exchange"}, Current(j),
           j = Refresher => u = job[j].user
    PROVE  SessionInv'
<1> DEFINE m == [Untouched EXCEPT !["token"] = "queued"]
           n == [job[j] EXCEPT !.pc = "saveToken", !.user = u, !.mut = m]
<1>0. /\ job[j] \in JobState /\ Fits(job[j]) /\ job[j].kind \in SignIn
      /\ \A k \in Key : job[j].mut[k] # "queued"
      /\ u \in Maybe(User) /\ u # None
  BY DEF SessionInv, KindsFit, SessionTypeOK, Fits, KindsAt, SignIn, Mutating, Maybe
<1>1. /\ m \in [Key -> {"none", "queued", "done", "skipped", "failed"}]
      /\ m["token"] = "queued" /\ \A k \in Key \ {"token"} : m[k] = "none"
  BY DEF Untouched, Key
<1>2. job' = [job EXCEPT ![j] = n] /\ UNCHANGED <<session, pending, told, page, store, homes>>
      /\ queue' = Queued(queue, "token", j, u)
  BY DEF KeepsToken
<1> USE DEF m
<1>3. /\ n \in JobState /\ n.pc = "saveToken" /\ n.user = u /\ n.kind = job[j].kind
      /\ n.current = job[j].current /\ n.same = job[j].same /\ n.mut = m
  <2> HIDE DEF m
  <2> QED
    BY <1>0, <1>1 DEF JobState, Pc
<1>4. AsksFor(j, n)
  <2> HIDE DEF n
  <2> QED
    BY <1>2, <1>3 DEF AsksFor, Put, Key
<1> HIDE DEF n, m
<1>5. Fits(n)
  BY <1>0, <1>1, <1>3 DEF Fits, KindsAt, SignIn, Leaving, Request, Mutating
<1>6. MayBe(j, n)
  BY <1>0, <1>1, <1>3, SignInJob DEF MayBe, Current, Early, TokenKnown, Key
<1> QED
  BY <1>0, <1>2, <1>3, <1>4, <1>5, <1>6, Advances, SignInJob DEF SignIn

(* The end of a sign-in that changes nothing else.                         *)
LEMMA ReturnsKeeps ==
    ASSUME SessionInv, NEW j \in Task, NEW result \in {"null", "error"}, Returns(j, result),
           job[j].kind \in SignIn, \A k \in Key : job[j].mut[k] # "queued",
           Current(j) => job[j].pc \in Early
    PROVE  SessionInv'
BY EndsKeeps DEF Returns, SessionInv, SessionTypeOK

(* The steps of a sign-in up to an access token.                           *)
LEMMA TokenSteps ==
    ASSUME SessionInv, NEW j \in Task,
           Browser(j) \/ ReadToken(j) \/ Exchange(j) \/ TokenSaved(j) \/ TokenDropped(j)
    PROVE  SessionInv'
<1>0. job[j] \in JobState /\ Fits(job[j]) /\ job[j].kind \in SignIn /\ job[j].user \in Maybe(User)
  BY DEF SessionInv, KindsFit, SessionTypeOK, Fits, KindsAt, SignIn, JobState,
         Browser, ReadToken, Exchange, TokenSaved, TokenDropped, At
<1>1. \A k \in Key : job[j].mut[k] # "queued"
  BY <1>0 DEF Fits, Mutating, Browser, ReadToken, Exchange, TokenSaved, TokenDropped, At, Written
<1>2. job[j].pc \in Early
  BY DEF Early, Browser, ReadToken, Exchange, TokenSaved, TokenDropped, At
<1>3. ASSUME NEW result \in {"null", "error"}, Returns(j, result)
      PROVE  SessionInv'
  BY <1>0, <1>1, <1>2, <1>3, ReturnsKeeps
<1>4. CASE Browser(j)
  <2>1. CASE \E u \in User : Current(j) /\ KeepsToken(j, u)
    <3>1. PICK u \in User : Current(j) /\ KeepsToken(j, u)
      BY <2>1
    <3>2. j # Refresher
      BY <1>0, <1>4 DEF SessionInv, KindsFit, Fits, KindsAt, Browser, At
    <3>3. job[j].pc = "browser" /\ u \in Maybe(User)
      BY <1>4 DEF Browser, At, Maybe
    <3> QED
      BY <3>1, <3>2, <3>3, KeepsTokenKeeps
  <2> QED
    BY <1>3, <1>4, <2>1 DEF Browser
<1>5. CASE ReadToken(j)
  <2>1. CASE /\ store["token"] # None /\ Current(j)
             /\ job' = [job EXCEPT ![j] = [@ EXCEPT !.pc = "exchange", !.user = store["token"]]]
             /\ UNCHANGED <<session, pending, told, page, store, queue, homes>>
    <3> DEFINE n == [job[j] EXCEPT !.pc = "exchange", !.user = store["token"]]
    <3>1. store["token"] \in Maybe(User) /\ job[j].pc = "readToken"
      BY <1>5 DEF SessionInv, SessionTypeOK, Key, ReadToken, At
    <3>2. /\ n \in JobState /\ n.pc = "exchange" /\ n.user = store["token"] /\ n.kind = job[j].kind
          /\ n.current = job[j].current /\ n.same = job[j].same /\ n.mut = job[j].mut
      BY <1>0, <3>1 DEF JobState, Pc
    <3>3. job' = [job EXCEPT ![j] = n]
      BY <2>1
    <3> HIDE DEF n
    <3>4. Fits(n)
      BY <1>0, <1>1, <2>1, <3>1, <3>2 DEF Fits, KindsAt, SignIn, Leaving, Request
    <3>5. j = Refresher => n.user = session
      BY <1>0, <2>1, <3>2, SignInJob DEF SessionInv, TokenFits, Only
    <3>6. j # Refresher => Only("token", n.user)
      <4>1. j # Refresher => Brings("token", None)
        BY <1>0, <2>1, <3>1, SignInJob DEF SessionInv, TokenFits
      <4> QED
        BY <3>2, <4>1 DEF Only, Brings, Live
    <3>7. MayBe(j, n)
      BY <1>0, <1>2, <2>1, <3>2, <3>5, <3>6, SignInJob DEF MayBe, Current
    <3>8. AsksFor(j, n)
      BY <1>1, <2>1, <3>2 DEF AsksFor
    <3> QED
      BY <1>0, <1>1, <2>1, <3>2, <3>3, <3>4, <3>7, <3>8, Advances, SignInJob DEF SignIn
  <2> QED
    BY <1>3, <1>5, <2>1 DEF ReadToken
<1>6. CASE Exchange(j)
  <2>0. job[j].pc = "exchange"
    BY <1>6 DEF Exchange, At
  <2>1. CASE Current(j) /\ KeepsToken(j, job[j].user)
    <3>1. job[j].user \in User
      BY <1>0, <2>0 DEF Fits, Maybe
    <3> QED
      BY <2>0, <2>1, <3>1, KeepsTokenKeeps
  <2>2. CASE Current(j) /\ HasToken(j, job[j].user)
    BY <1>1, <2>0, <2>2, HasTokenKeeps DEF TokenKnown
  <2>3. CASE Mutate(j, "token", None, "dropToken") /\ UNCHANGED <<session, pending, told, page, store, homes>>
    <3>1. PICK n \in JobState :
            /\ n.pc = "dropToken" /\ n.kind = job[j].kind /\ n.current = job[j].current
            /\ n.same = job[j].same /\ n.user = job[j].user
            /\ n.mut["token"] = "queued" /\ \A l \in Key \ {"token"} : n.mut[l] = "none"
            /\ job' = [job EXCEPT ![j] = n]
            /\ None = Put(n, "token") => AsksFor(j, n)
      <4>1. "token" \in Key /\ "dropToken" \in Pc
        BY DEF Key, Pc
      <4> QED
        BY <1>0, <2>3, <4>1, MutateJob
    <3>4. AsksFor(j, n)
      BY <3>1 DEF Put
    <3>5. Fits(n)
      BY <1>0, <2>0, <3>1 DEF Fits, KindsAt, SignIn, Leaving, Request, Mutating
    <3>6. MayBe(j, n)
      BY <1>0, <1>2, <3>1, SignInJob DEF MayBe, Current, TokenKnown
    <3> QED
      BY <1>0, <1>1, <2>3, <3>1, <3>4, <3>5, <3>6, Advances, SignInJob DEF SignIn
  <2> QED
    BY <1>3, <1>6, <2>1, <2>2, <2>3 DEF Exchange
<1>7. CASE TokenSaved(j)
  <2>1. CASE job[j].mut["token"] = "done" /\ Current(j) /\ HasToken(j, job[j].user)
    <3>1. job[j].pc = "saveToken"
      BY <1>7 DEF TokenSaved, At
    <3> QED
      BY <1>1, <2>1, <3>1, HasTokenKeeps DEF TokenKnown
  <2> QED
    BY <1>3, <1>7, <2>1 DEF TokenSaved
<1>8. CASE TokenDropped(j)
  BY <1>3, <1>8 DEF TokenDropped
<1> QED
  BY <1>4, <1>5, <1>6, <1>7, <1>8

(* The server answered a sign-in or a refresh.                             *)
LEMMA EstablishedKeeps ==
    ASSUME SessionInv, NEW j \in Task, job[j].kind \in SignIn, job[j].pc \in {"lookup", "create"},
           homes' \subseteq User, Established(j) \/ NotEstablished(j)
    PROVE  SessionInv'
<1>0. /\ job[j] \in JobState /\ Fits(job[j]) /\ \A k \in Key : job[j].mut[k] # "queued"
      /\ SessionTypeOK /\ job[j].pc \in Early /\ job[j].user \in Maybe(User) /\ None \in Maybe(User)
      /\ pending \in Maybe(User) /\ session \in Maybe(User) /\ told \in AuthState
      /\ page \in [status : Status, user : Maybe(User), request : Maybe(Job)]
      /\ job \in [Task -> JobState]
  BY SignInJob DEF Fits, Mutating, SessionInv, SessionTypeOK, Early, JobState, Maybe
<1>1. ASSUME NEW result \in {"null", "error"}, Ends(j, result), UNCHANGED <<pending, store, queue>>
      PROVE  SessionInv'
  BY <1>0, <1>1, EndsKeeps
<1>2. CASE NotEstablished(j)
  BY <1>1, <1>2 DEF NotEstablished
<1>3. CASE ~Current(j) /\ Ends(j, "null") /\ UNCHANGED <<pending, store, queue>>
  BY <1>1, <1>3
<1>4. CASE /\ Current(j) /\ session' = job[j].user
           /\ job' = [Unserved(job) EXCEPT ![j] = [@ EXCEPT !.pc = "load"]]
           /\ UNCHANGED <<pending, told, page, store, queue>>
  <2> DEFINE o == [job[j] EXCEPT !.same = FALSE]
             n == [o EXCEPT !.pc = "load"]
  <2>1. o \in JobState /\ o.kind = job[j].kind /\ o.current = job[j].current /\ ~o.same
        /\ o.user = job[j].user /\ o.mut = job[j].mut
    BY <1>0 DEF JobState
  <2>2. n \in JobState /\ n.kind = job[j].kind /\ n.current = job[j].current /\ ~n.same
        /\ n.user = job[j].user /\ n.mut = job[j].mut /\ n.pc = "load"
    <3> HIDE DEF o
    <3> QED
      BY <2>1 DEF JobState, Pc
  <2>3. /\ job'[j] = n /\ DOMAIN job' = Task /\ job' = [i \in Task |-> job'[i]]
        /\ \A i \in Task \ {j} : job'[i] = [job[i] EXCEPT !.same = FALSE]
    BY <1>4 DEF Unserved
  <2> HIDE DEF n, o
  <2>4. Fits(n)
    BY <1>0, <2>2 DEF Fits, KindsAt, SignIn, Leaving, Request
  <2>5. Becomes(j, n)
    BY <1>0, <2>2, <2>3, <2>4, SignInJob DEF Becomes
  <2>6. Well
    BY <1>0, <1>4 DEF Well
  <2>7. Beside(j) /\ n = job'[j]
    BY <1>0, <1>4, <2>2, <2>5, <2>6, BecomesQuietly
  <2>8. \A i \in Task : ~job'[i].same
    BY <1>0, <2>2, <2>3 DEF JobState
  <2>9. CASE j = Refresher
    <3>1. session' = session /\ n.user = session /\ n.kind = "refresh"
      BY <1>0, <1>4, <2>2, <2>9, SignInJob
    <3>2. GoesOn(j, n)
      BY <1>4, <2>2, <2>7, <3>1 DEF GoesOn, Starting, Leaving, Current
    <3> QED
      BY <3>2, GoesOnKeeps
  <2>10. CASE j # Refresher
    <3>1. Establishes(j, n)
      BY <1>4, <2>2, <2>7, <2>8, <2>10, SignInJob DEF Establishes
    <3> QED
      BY <3>1, EstablishesKeeps
  <2> QED
    BY <2>9, <2>10
<1> QED
  BY <1>2, <1>3, <1>4 DEF Established

(* The steps of a sign-in with an access token.                            *)
LEMMA SessionSteps ==
    ASSUME SessionInv, NEW j \in Task,
           LookupHome(j) \/ CreateHome(j) \/ LoadClaim(j) \/ ClaimLoaded(j) \/ ClaimDropped(j)
    PROVE  SessionInv'
<1>0. /\ job[j] \in JobState /\ Fits(job[j]) /\ job[j].kind \in SignIn /\ job[j].user \in Maybe(User)
      /\ job[j].got \in Maybe(User) /\ job[j].mut \in [Key -> {"none", "queued", "done", "skipped", "failed"}]
      /\ job \in [Task -> JobState] /\ homes \subseteq User /\ store["claim"] \in Maybe(User)
      /\ "claim" \in Key
  BY DEF SessionInv, KindsFit, SessionTypeOK, Fits, KindsAt, SignIn, JobState, Key,
         LookupHome, CreateHome, LoadClaim, ClaimLoaded, ClaimDropped, At
<1>1. \A k \in Key : job[j].mut[k] # "queued"
  BY <1>0 DEF Fits, Mutating, LookupHome, CreateHome, LoadClaim, ClaimLoaded, ClaimDropped, At, Written
\* It goes on to pc, and keeps what it is.
<1>2. ASSUME NEW n \in JobState, job' = [job EXCEPT ![j] = n], AsksFor(j, n),
             n.kind = job[j].kind, n.current = job[j].current, n.same = job[j].same, n.user = job[j].user,
             \/ n.pc = "create" /\ job[j].pc = "lookup"
             \/ n.pc \in {"loaded", "dropClaim"} /\ job[j].pc \in {"load", "loaded"},
             n.pc # "dropClaim" => \A k \in Key : n.mut[k] # "queued",
             UNCHANGED <<session, told, page, store, homes>>, pending' \in {None, pending, session}
      PROVE  SessionInv'
  <2>1. Fits(n)
    BY <1>0, <1>2 DEF Fits, KindsAt, SignIn, Leaving, Request, Mutating
  <2>2. MayBe(j, n)
    BY <1>0, <1>2, SignInJob DEF MayBe, Current, TokenKnown, Early
  <2> QED
    BY <1>0, <1>1, <1>2, <2>1, <2>2, Advances, SignInJob DEF SignIn
<1>3. CASE LookupHome(j)
  <2>1. CASE /\ job[j].user \notin homes /\ job' = [job EXCEPT ![j].pc = "create"]
             /\ UNCHANGED <<session, pending, told, page, store, queue>>
    <3> DEFINE n == [job[j] EXCEPT !.pc = "create"]
    <3>1. n \in JobState /\ n.kind = job[j].kind /\ n.current = job[j].current /\ n.same = job[j].same
          /\ n.user = job[j].user /\ n.mut = job[j].mut /\ n.pc = "create"
      BY <1>0 DEF JobState, Pc
    <3>2. job' = [job EXCEPT ![j] = n] /\ homes' = homes /\ job[j].pc = "lookup"
      BY <1>3, <2>1 DEF LookupHome, At
    <3> HIDE DEF n
    <3>3. AsksFor(j, n)
      BY <1>1, <2>1, <3>1 DEF AsksFor
    <3> QED
      BY <1>1, <1>2, <2>1, <3>1, <3>2, <3>3
  <2>2. CASE Established(j) \/ NotEstablished(j)
    BY <1>0, <1>3, <2>2, EstablishedKeeps DEF LookupHome, At
  <2> QED
    BY <1>3, <2>1, <2>2 DEF LookupHome
<1>4. CASE CreateHome(j)
  <2>1. homes' \subseteq User
    <3>1. job[j].user \in User
      BY <1>0, <1>4 DEF Fits, CreateHome, At, Maybe
    <3> QED
      BY <1>0, <1>4, <3>1 DEF CreateHome
  <2> QED
    BY <1>0, <1>4, <2>1, EstablishedKeeps DEF CreateHome, At
<1>5. CASE LoadClaim(j)
  <2>1. CASE job' = [job EXCEPT ![j] = [@ EXCEPT !.pc = "loaded", !.got = store["claim"]]]
    <3> DEFINE n == [job[j] EXCEPT !.pc = "loaded", !.got = store["claim"]]
    <3>1. n \in JobState /\ n.kind = job[j].kind /\ n.current = job[j].current /\ n.same = job[j].same
          /\ n.user = job[j].user /\ n.mut = job[j].mut /\ n.pc = "loaded"
      BY <1>0 DEF JobState, Pc
    <3>2. job' = [job EXCEPT ![j] = n] /\ UNCHANGED <<session, pending, told, page, store, queue, homes>>
          /\ job[j].pc = "load"
      BY <1>5, <2>1 DEF LoadClaim, At
    <3> HIDE DEF n
    <3>3. AsksFor(j, n)
      BY <1>1, <3>1, <3>2 DEF AsksFor
    <3> QED
      BY <1>1, <1>2, <3>1, <3>2, <3>3
  <2>2. CASE job' = [job EXCEPT ![j] = [@ EXCEPT !.pc = "dropClaim", !.mut = Untouched]]
    <3> DEFINE n == [job[j] EXCEPT !.pc = "dropClaim", !.mut = Untouched]
    <3>0. Untouched \in [Key -> {"none", "queued", "done", "skipped", "failed"}]
          /\ \A k \in Key : Untouched[k] # "queued"
      BY DEF Untouched
    <3>1. n \in JobState /\ n.kind = job[j].kind /\ n.current = job[j].current /\ n.same = job[j].same
          /\ n.user = job[j].user /\ n.mut = Untouched /\ n.pc = "dropClaim"
      BY <1>0, <3>0 DEF JobState, Pc
    <3>2. job' = [job EXCEPT ![j] = n] /\ UNCHANGED <<session, pending, told, page, store, queue, homes>>
          /\ job[j].pc = "load"
      BY <1>5, <2>2 DEF LoadClaim, At
    <3> HIDE DEF n
    <3>3. AsksFor(j, n)
      BY <3>0, <3>1, <3>2 DEF AsksFor
    <3> QED
      BY <1>2, <3>1, <3>2, <3>3
  <2> QED
    BY <1>5, <2>1, <2>2 DEF LoadClaim
\* The stored claim is deleted.
<1>6. ASSUME Mutate(j, "claim", None, "dropClaim"), job[j].pc = "loaded",
             UNCHANGED <<session, told, page, store, homes>>, pending' \in {None, pending, session}
      PROVE  SessionInv'
  <2>1. PICK n \in JobState :
          /\ n.pc = "dropClaim" /\ n.kind = job[j].kind /\ n.current = job[j].current
          /\ n.same = job[j].same /\ n.user = job[j].user
          /\ job' = [job EXCEPT ![j] = n]
          /\ None = Put(n, "claim") => AsksFor(j, n)
    BY <1>0, <1>6, MutateJob DEF Pc
  <2>2. AsksFor(j, n)
    BY <2>1 DEF Put
  <2> QED
    BY <1>2, <1>6, <2>1, <2>2
<1>7. ASSUME Returns(j, "null"), ~Current(j)
      PROVE  SessionInv'
  BY <1>0, <1>1, <1>7, ReturnsKeeps
<1>8. ASSUME Current(j), Ends(j, "session"), UNCHANGED <<store, queue, homes>>, pending' \in {None, session}
      PROVE  SessionInv'
  BY <1>0, <1>1, <1>8, EndsKeeps
<1>9. CASE ClaimLoaded(j)
  <2>1. job[j].pc = "loaded"
    BY <1>9 DEF ClaimLoaded, At
  <2> QED
    BY <1>6, <1>7, <1>8, <1>9, <2>1 DEF ClaimLoaded
<1>10. CASE ClaimDropped(j)
  BY <1>7, <1>8, <1>10 DEF ClaimDropped
<1> QED
  BY <1>3, <1>4, <1>5, <1>9, <1>10

(* Every job but the one that begins is superseded.                        *)
LEMMA SupersededJobs ==
    ASSUME job \in [Task -> JobState], NEW j \in Task, NEW n \in JobState,
           \/ job' = [Superseded(job) EXCEPT ![j] = n]
           \/ job' = [Unserved(Superseded(job)) EXCEPT ![j] = n]
    PROVE  /\ job' \in [Task -> JobState] /\ job'[j] = n
           /\ \A i \in Task \ {j} :
                /\ job'[i].kind = job[i].kind /\ job'[i].pc = job[i].pc
                /\ job'[i].user = job[i].user /\ job'[i].mut = job[i].mut
                /\ ~job'[i].current
                /\ job'[i].same => job[i].same
<1> DEFINE s(i) == [job[i] EXCEPT !.current = FALSE]
           u(i) == [s(i) EXCEPT !.same = FALSE]
<1>1. ASSUME NEW i \in Task
      PROVE  /\ s(i) \in JobState /\ s(i).kind = job[i].kind /\ s(i).pc = job[i].pc
             /\ s(i).user = job[i].user /\ s(i).mut = job[i].mut
             /\ ~s(i).current /\ s(i).same = job[i].same
  <2>1. job[i] \in JobState
    OBVIOUS
  <2> QED
    BY <2>1 DEF JobState
<1>2. ASSUME NEW i \in Task
      PROVE  /\ u(i) \in JobState /\ u(i).kind = job[i].kind /\ u(i).pc = job[i].pc
             /\ u(i).user = job[i].user /\ u(i).mut = job[i].mut
             /\ ~u(i).current /\ ~u(i).same
  <2> HIDE DEF s
  <2> QED
    BY <1>1 DEF JobState
<1>3. CASE job' = [Superseded(job) EXCEPT ![j] = n]
  <2>1. Superseded(job) = [i \in Task |-> s(i)]
    BY DEF Superseded
  <2> HIDE DEF s
  <2>2. job'[j] = n /\ DOMAIN job' = Task /\ job' = [i \in Task |-> job'[i]] /\ \A i \in Task \ {j} : job'[i] = s(i)
    BY <1>3, <2>1
  <2>3. job' \in [Task -> JobState]
    BY <1>1, <2>2
  <2> QED
    BY <1>1, <2>2, <2>3
<1>4. CASE job' = [Unserved(Superseded(job)) EXCEPT ![j] = n]
  <2>1. Unserved(Superseded(job)) = [i \in Task |-> u(i)]
    BY DEF Superseded, Unserved
  <2> HIDE DEF u
  <2>2. job'[j] = n /\ DOMAIN job' = Task /\ job' = [i \in Task |-> job'[i]] /\ \A i \in Task \ {j} : job'[i] = u(i)
    BY <1>4, <2>1
  <2>3. job' \in [Task -> JobState]
    BY <1>2, <2>2
  <2> QED
    BY <1>2, <2>2, <2>3
<1> QED
  BY <1>3, <1>4

(* A job that begins.                                                      *)
LEMMA StartJob ==
    ASSUME NEW kind \in Kind, NEW pc \in Pc
    PROVE  /\ Start(kind, pc) \in JobState /\ Start(kind, pc).kind = kind /\ Start(kind, pc).pc = pc
           /\ Start(kind, pc).current /\ ~Start(kind, pc).same /\ Start(kind, pc).mut = Untouched
           /\ Start(kind, pc).user = None
BY DEF Start, Idle, JobState, Untouched, Maybe

(* A session ends: the sign-out's or the expiry's job does what it must at *)
(* once.                                                                   *)
LEMMA LeavesKeeps ==
    ASSUME SessionInv, NEW j \in Task, j # Refresher, \A k \in Key : job[j].mut[k] # "queued",
           NEW kind, NEW pc, Leaves(j, kind, pc),
           \/ /\ kind = "logout" /\ pc = "clearToken"
              /\ queue' = Queued(queue, "token", j, None)
           \/ /\ kind = "expire" /\ pc = "expiring"
              /\ queue' = Queued(Queued(queue, "token", j, None), "claim", j, None),
           UNCHANGED <<told, store, homes>>,
           page' \in [status : Status, user : Maybe(User), request : Maybe(Job)]
    PROVE  SessionInv'
<1> DEFINE m == [k \in Key |-> IF k = "token" \/ kind = "expire" THEN "queued" ELSE "none"]
           n == [Start(kind, pc) EXCEPT !.mut = m]
           e == [by |-> j, put |-> None, writing |-> FALSE]
<1>0. /\ job \in [Task -> JobState] /\ queue \in [Key -> Seq(Mutation)]
      /\ told \in AuthState /\ homes \subseteq User /\ None \in Maybe(User)
      /\ kind \in Kind /\ pc \in Pc /\ kind \in Leaving /\ kind \in KindsAt(pc)
  BY DEF SessionInv, SessionTypeOK, Maybe, Kind, Pc, Leaving, KindsAt
<1>1. m \in [Key -> {"none", "queued", "done", "skipped", "failed"}]
      /\ m["token"] = "queued" /\ m["claim"] = (IF kind = "expire" THEN "queued" ELSE "none")
      /\ \A k \in Key : m[k] \in {"queued", "none"}
  BY DEF Key
<1>2. /\ n \in JobState /\ n.kind = kind /\ n.pc = pc /\ n.current /\ ~n.same /\ n.mut = m
  <2> HIDE DEF m
  <2>1. PICK s \in JobState : s = Start(kind, pc) /\ s.kind = kind /\ s.pc = pc /\ s.current /\ ~s.same
    BY <1>0, StartJob
  <2>2. n = [s EXCEPT !.mut = m]
    BY <2>1
  <2> HIDE DEF n
  <2> QED
    BY <1>1, <2>1, <2>2 DEF JobState
<1>3. job' = [Unserved(Superseded(job)) EXCEPT ![j] = n]
  BY DEF Leaves
<1> HIDE DEF n, m
<1>4. Fits(n)
  BY <1>0, <1>1, <1>2 DEF Fits, Leaving, Mutating, Request
<1>5. /\ job' \in [Task -> JobState] /\ job'[j] = n
      /\ \A i \in Task \ {j} :
           /\ job'[i].kind = job[i].kind /\ job'[i].pc = job[i].pc
           /\ job'[i].user = job[i].user /\ job'[i].mut = job[i].mut
           /\ ~job'[i].current /\ ~job'[i].same
  <2>1. \A i \in Task \ {j} : ~job'[i].same
    <3>1. \A i \in Task : Unserved(Superseded(job))[i].same = FALSE
      <4>1. ASSUME NEW i \in Task
            PROVE  Unserved(Superseded(job))[i].same = FALSE
        <5> DEFINE o == [job[i] EXCEPT !.current = FALSE]
        <5>1. o \in JobState
          <6>1. job[i] \in JobState
            BY <1>0
          <6> QED
            BY <6>1 DEF JobState
        <5>2. Unserved(Superseded(job))[i] = [o EXCEPT !.same = FALSE]
          BY DEF Unserved, Superseded
        <5> HIDE DEF o
        <5> QED
          BY <5>1, <5>2 DEF JobState
      <4> QED
        BY <4>1
    <3>2. \A i \in Task \ {j} : job'[i] = Unserved(Superseded(job))[i]
      BY <1>3 DEF Unserved
    <3> QED
      BY <3>1, <3>2
  <2>2. /\ job' \in [Task -> JobState] /\ job'[j] = n
        /\ \A i \in Task \ {j} :
             /\ job'[i].kind = job[i].kind /\ job'[i].pc = job[i].pc
             /\ job'[i].user = job[i].user /\ job'[i].mut = job[i].mut
             /\ ~job'[i].current
             /\ job'[i].same => job[i].same
    BY <1>0, <1>2, <1>3, SupersededJobs
  <2> QED
    BY <2>1, <2>2
<1>6. e \in Mutation /\ \A k \in Key : /\ Append(queue[k], e) \in Seq(Mutation)
                                         /\ Put(n, k) = None
  <2>1. e \in Mutation
    BY <1>0 DEF Mutation
  <2> HIDE DEF e
  <2>2. \A k \in Key : Append(queue[k], e) \in Seq(Mutation)
    BY <1>0, <2>1
  <2>3. pc \in {"clearToken", "expiring"}
    OBVIOUS
  <2> QED
    BY <1>2, <2>1, <2>2, <2>3 DEF Put
<1>7. /\ queue' \in [Key -> Seq(Mutation)]
      /\ \A k \in Key : queue'[k] = IF n.mut[k] = "queued"
                                    THEN Append(queue[k], [by |-> j, put |-> Put(n, k), writing |-> FALSE])
                                    ELSE queue[k]
  <2>1. CASE kind = "logout"
    <3>1. queue' = [queue EXCEPT !["token"] = Append(queue["token"], e)]
      BY <2>1 DEF Queued
    <3> QED
      BY <1>0, <1>1, <1>2, <1>6, <2>1, <3>1 DEF Key
  <2>2. CASE kind = "expire"
    <3>1. queue' = [[queue EXCEPT !["token"] = Append(queue["token"], e)]
                      EXCEPT !["claim"] = Append(queue["claim"], e)]
      BY <1>0, <2>2 DEF Queued, Key
    <3> QED
      BY <1>0, <1>1, <1>2, <1>6, <2>2, <3>1 DEF Key
  <2> QED
    BY <2>1, <2>2
<1>8. session' = None /\ pending' = None
  BY DEF Leaves
<1>9. Moves(j)
  BY <1>0, <1>2, <1>4, <1>5, <1>7, <1>8 DEF Moves, Leaving
<1>10. Begins(j, n)
  <2>1. n.pc \in {"clearToken", "expiring"} /\ n.kind \in Leaving /\ \A k \in Key : n.mut[k] # "done"
    BY <1>0, <1>1, <1>2
  <2>2. \A i \in Task : ~job'[i].same
    BY <1>2, <1>5
  <2> QED
    BY <1>5, <1>8, <1>9, <2>1, <2>2 DEF Begins
<1> QED
  BY <1>10, BeginsKeeps

(* The button: another sign-in.                                            *)
LEMMA LoginKeeps ==
    ASSUME SessionInv, NEW j \in Job, Login(j)
    PROVE  SessionInv'
<1> DEFINE n == Start("login", "browser")
<1>0. /\ job \in [Task -> JobState] /\ queue \in [Key -> Seq(Mutation)] /\ store' = store
      /\ queue' = queue /\ session' = session /\ pending' = pending
      /\ homes' = homes /\ homes \subseteq User /\ j \in Task /\ j # Refresher
      /\ KindsFit /\ SaidFits /\ ServedFits /\ ClaimIsTheSessions
      /\ page \in [status : Status, user : Maybe(User), request : Maybe(Job)]
  BY DEF SessionInv, SessionTypeOK, Task, Login
<1>1. session = None /\ pending = None /\ \A i \in Task : ~job[i].same
  BY <1>0 DEF Login, SaidFits, ClaimIsTheSessions, ServedFits
<1>2. n \in JobState /\ n.kind = "login" /\ n.pc = "browser" /\ n.current /\ ~n.same /\ n.mut = Untouched
  BY StartJob DEF Kind, SignIn, Pc
<1>3. job' = [Superseded(job) EXCEPT ![j] = n]
  BY DEF Login
<1> HIDE DEF n
<1>4. Fits(n)
  BY <1>2 DEF Fits, KindsAt, Leaving, Request, Untouched
<1>5. /\ job' \in [Task -> JobState] /\ job'[j] = n
      /\ \A i \in Task \ {j} :
           /\ job'[i].kind = job[i].kind /\ job'[i].pc = job[i].pc
           /\ job'[i].user = job[i].user /\ job'[i].mut = job[i].mut
           /\ ~job'[i].current /\ ~job'[i].same
  <2>1. /\ job' \in [Task -> JobState] /\ job'[j] = n
        /\ \A i \in Task \ {j} :
             /\ job'[i].kind = job[i].kind /\ job'[i].pc = job[i].pc
             /\ job'[i].user = job[i].user /\ job'[i].mut = job[i].mut
             /\ ~job'[i].current
             /\ job'[i].same => job[i].same
    BY <1>0, <1>2, <1>3, SupersededJobs
  <2> QED
    BY <1>1, <2>1
<1>6. \A k \in Key : job[j].mut[k] # "queued" /\ n.mut[k] # "queued"
  BY <1>0, <1>2 DEF KindsFit, Fits, Login, At, Mutating, Untouched
<1>7. /\ told' = [status |-> "loading", user |-> None, by |-> "login"]
      /\ page' = [status |-> "loading", user |-> None, request |-> None]
  BY DEF Login, Publish
<1>8. /\ told' \in AuthState /\ page' \in [status : Status, user : Maybe(User), request : Maybe(Job)]
      /\ told'.status = "loading" /\ page'.status = "loading" /\ None \in Maybe(User)
  BY <1>7 DEF AuthState, Status, Kind, SignIn, Maybe
<1>9. Moves(j)
  BY <1>0, <1>1, <1>2, <1>4, <1>5, <1>6, <1>8 DEF Moves
<1>10. Begins(j, n)
  <2>1. \A i \in Task : ~job'[i].same
    BY <1>2, <1>5
  <2> QED
    BY <1>0, <1>1, <1>2, <1>5, <1>8, <1>9, <2>1 DEF Begins
<1> QED
  BY <1>0, <1>10, BeginsKeeps

(* A sign-out or an expiry that has waited for SecureStore: what it found  *)
(* done it may say.                                                        *)
LEMMA LeavingJob ==
    ASSUME SessionInv, NEW j \in Task, job[j].pc \in {"clearToken", "clearClaim", "expiring"}, Written(j)
    PROVE  /\ j # Refresher /\ job[j] \in JobState /\ ~job[j].same /\ job[j].kind \in Leaving
           /\ job[j].pc \in {"clearToken", "clearClaim"} => job[j].kind = "logout"
           /\ \A k \in Key : job[j].mut[k] # "queued"
           /\ Current(j) => session = None /\ \A i \in Task : Current(i) => i = j
           /\ Current(j) /\ ~Threw(j) => Only("token", None)
           /\ Current(j) /\ ~Threw(j) /\ job[j].pc # "clearToken" => Only("claim", None)
<1>1. job[j] \in JobState /\ job[j].mut \in [Key -> {"none", "queued", "done", "skipped", "failed"}]
  BY Typed DEF SessionInv
<1>2. Fits(job[j]) /\ (j = Refresher => job[j].kind \in {"none", "refresh"})
  BY DEF SessionInv, KindsFit
<1>3. job[j].kind \in Leaving /\ (job[j].pc \in {"clearToken", "clearClaim"} => job[j].kind = "logout")
  BY <1>2 DEF Fits, KindsAt, Leaving
<1>4. j # Refresher /\ ~job[j].same
  BY <1>1, <1>2, <1>3 DEF Fits, Leaving, Request, JobState
<1>5. Current(j) => session = None /\ \A i \in Task : Current(i) => i = j
  BY <1>3 DEF SessionInv, OperationFits
<1>6. ASSUME Current(j), ~Threw(j)
      PROVE  Only("token", None) /\ (job[j].pc # "clearToken" => Only("claim", None))
  <2>1. \A k \in Key : job[j].mut[k] \in {"none", "done"}
    BY <1>1, <1>2, <1>3, <1>6 DEF Fits, Current, Threw, Written
  <2>2. Cleaned(job[j], "token") /\ (job[j].pc # "clearToken" => Cleaned(job[j], "claim"))
    BY <1>2, <2>1 DEF Fits, Cleaned, Key
  <2> QED
    BY <1>3, <1>6, <2>2 DEF SessionInv, CleanFits, Key
<1> QED
  BY <1>1, <1>3, <1>4, <1>5, <1>6 DEF Written

(* The sign-out's token is deleted: the claim is next.                     *)
LEMMA TokenClearedKeeps ==
    ASSUME SessionInv, NEW j \in Task, TokenCleared(j)
    PROVE  SessionInv'
<1>1. At(j, "clearToken") /\ Written(j) /\ UNCHANGED <<session, pending, told, page, store, homes>>
  BY DEF TokenCleared
<1>2. /\ j # Refresher /\ job[j] \in JobState /\ ~job[j].same /\ job[j].kind = "logout"
      /\ \A k \in Key : job[j].mut[k] # "queued"
      /\ Current(j) /\ ~Threw(j) => Only("token", None)
  BY <1>1, LeavingJob DEF At
<1>3. /\ told \in AuthState /\ homes \subseteq User /\ pending' \in {None, pending, session}
      /\ page \in [status : Status, user : Maybe(User), request : Maybe(Job)]
  BY <1>1 DEF SessionInv, SessionTypeOK
<1>4. CASE ~Threw(j) /\ Mutate(j, "claim", None, "clearClaim")
  <2>1. PICK n \in JobState :
          /\ n.pc = "clearClaim" /\ n.kind = job[j].kind /\ n.current = job[j].current
          /\ n.same = job[j].same /\ n.user = job[j].user
          /\ n.mut["claim"] = "queued" /\ \A l \in Key \ {"claim"} : n.mut[l] = "none"
          /\ job' = [job EXCEPT ![j] = n]
          /\ None = Put(n, "claim") => AsksFor(j, n)
    <3>1. "claim" \in Key /\ "clearClaim" \in Pc
      BY DEF Key, Pc
    <3> QED
      BY <1>2, <1>4, <3>1, MutateJob
  <2>2. AsksFor(j, n)
    BY <2>1 DEF Put
  <2>3. Fits(n)
    BY <1>2, <2>1 DEF Fits, KindsAt, Key, Mutating
  <2>4. MayBe(j, n)
    <3>1. n.current => \A k \in Key : Cleaned(n, k) => Only(k, None)
      BY <1>2, <1>4, <2>1 DEF Cleaned, Key, Current
    <3> QED
      BY <1>2, <2>1, <3>1 DEF MayBe, Starting
  <2> QED
    BY <1>1, <1>2, <1>3, <2>1, <2>2, <2>3, <2>4, Advances
<1>5. CASE Threw(j) /\ job' = [job EXCEPT ![j] = Idle] /\ UNCHANGED queue
  BY <1>1, <1>2, <1>3, <1>5, IdleKeeps
<1> QED
  BY <1>4, <1>5 DEF TokenCleared

(* The claim is deleted, or all of an expiry: the end is announced.        *)
LEMMA ClearedKeeps ==
    ASSUME SessionInv, NEW j \in Task, ClaimCleared(j) \/ Expired(j)
    PROVE  SessionInv'
<1>1. /\ job[j].pc \in {"clearClaim", "expiring"} /\ Written(j)
      /\ job' = [job EXCEPT ![j] = Idle] /\ UNCHANGED <<session, pending, store, queue, homes>>
  BY DEF ClaimCleared, Expired, At
<1>2. /\ j # Refresher /\ \A k \in Key : job[j].mut[k] # "queued"
      /\ Current(j) => session = None /\ \A i \in Task : Current(i) => i = j
      /\ Current(j) /\ ~Threw(j) => \A k \in Key : Only(k, None)
  BY <1>1, LeavingJob DEF Key
<1>3. /\ job \in [Task -> JobState] /\ told \in AuthState /\ homes \subseteq User /\ pending' \in {None, pending, session}
      /\ page \in [status : Status, user : Maybe(User), request : Maybe(Job)]
  BY <1>1 DEF SessionInv, SessionTypeOK
<1>4. CASE Silently
  BY <1>1, <1>2, <1>3, <1>4, IdleKeeps DEF Silently
<1>5. CASE ~Threw(j) /\ Current(j) /\ \E kind \in Leaving, r \in Maybe(Job) : Publish("signed-out", None, kind, r)
  <2>1. \A i \in Task : ~job'[i].current
    BY <1>1, <1>2, <1>3, <1>5 DEF Current, Idle
  <2>2. /\ told' \in AuthState
        /\ page' \in [status : Status, user : Maybe(User), request : Maybe(Job)]
    BY <1>3, <1>5 DEF Publish, AuthState, Status, Kind, Leaving, Maybe
  <2>3. Announces
    BY <1>2, <1>5, <2>1 DEF Announces
  <2> QED
    BY <1>1, <1>2, <1>3, <2>2, <2>3, IdleKeeps
<1>6. j \in Maybe(Job) /\ None \in Maybe(Job)
  BY <1>2 DEF Task, Maybe
<1> QED
  BY <1>4, <1>5, <1>6 DEF ClaimCleared, Expired, Leaving

(* Sign-out, and a session that ran out.                                   *)
LEMMA LogoutKeeps ==
    ASSUME SessionInv, NEW j \in Job, Logout(j)
    PROVE  SessionInv'
<1>1. j \in Task /\ j # Refresher /\ \A k \in Key : job[j].mut[k] # "queued"
  BY DEF Logout, At, Task, SessionInv, KindsFit, Fits, Mutating
<1>2. page' \in [status : Status, user : Maybe(User), request : Maybe(Job)]
  BY DEF Logout, SessionInv, SessionTypeOK, Status, Maybe
<1>3. /\ Leaves(j, "logout", "clearToken") /\ queue' = Queued(queue, "token", j, None)
      /\ UNCHANGED <<told, store, homes>>
  BY DEF Logout
<1> QED
  BY <1>1, <1>2, <1>3, LeavesKeeps

(* So does a request that finds its session over.                          *)
LEMMA ExpireKeeps ==
    ASSUME SessionInv, NEW j \in Task, job[j].pc \in {"call", "expire"}, Expire(j)
    PROVE  SessionInv'
<1>1. j # Refresher /\ \A k \in Key : job[j].mut[k] # "queued"
  BY DEF SessionInv, KindsFit, Fits, KindsAt, Request, Mutating
<1>2. page' \in [status : Status, user : Maybe(User), request : Maybe(Job)]
  BY DEF Expire, SessionInv, SessionTypeOK
<1>3. /\ Leaves(j, "expire", "expiring")
      /\ queue' = Queued(Queued(queue, "token", j, None), "claim", j, None)
      /\ UNCHANGED <<told, store, homes>>
  BY DEF Expire
<1> QED
  BY <1>1, <1>2, <1>3, LeavesKeeps

(* A request that is about to go on.                                       *)
LEMMA RequestJob ==
    ASSUME SessionInv, NEW j \in Task, job[j].pc \in {"call", "forget", "saveClaim", "retry", "expire"},
           job[j].pc \notin {"call", "retry", "expire"} => Written(j)
    PROVE  /\ j # Refresher /\ job[j] \in JobState /\ job[j].kind \in Request
           /\ job[j].same => Current(j) /\ session # None /\ job[j].user = session
           /\ \A k \in Key : job[j].mut[k] # "queued"
           /\ session \in Maybe(User) /\ pending \in Maybe(User) /\ told \in AuthState /\ homes \subseteq User
           /\ page \in [status : Status, user : Maybe(User), request : Maybe(Job)]
<1>1. job[j] \in JobState
  BY Typed DEF SessionInv
<1>2. Fits(job[j]) /\ (j = Refresher => job[j].kind \in {"none", "refresh"})
  BY DEF SessionInv, KindsFit
<1>3. job[j].kind \in Request /\ \A k \in Key : job[j].mut[k] # "queued"
  BY <1>2 DEF Fits, KindsAt, Mutating, Written
<1>4. j # Refresher
  BY <1>2, <1>3 DEF Request
<1> QED
  BY <1>1, <1>3, <1>4 DEF SessionInv, ServedFits, SessionTypeOK

(* The call of a request with the session in force.                        *)
LEMMA RunsKeeps ==
    ASSUME SessionInv, NEW j \in Task, j # Refresher, \A k \in Key : job[j].mut[k] # "queued",
           NEW as \in JobState, as.kind \in Request, as.current, as.same,
           as.user = session, session # None,
           \/ Current(j) /\ as.kind = job[j].kind
           \/ page.status = "signed-in",
           Runs(j, as), UNCHANGED <<session, told, page, store, homes>>
    PROVE  SessionInv'
<1> DEFINE n(pc, mut) == [as EXCEPT !.pc = pc, !.mut = mut]
           m == [Untouched EXCEPT !["claim"] = "queued"]
<1>1. homes' \subseteq User
  BY DEF SessionInv, SessionTypeOK
<1>2. /\ Untouched \in [Key -> {"none", "queued", "done", "skipped", "failed"}]
      /\ \A k \in Key : Untouched[k] # "queued"
      /\ m \in [Key -> {"none", "queued", "done", "skipped", "failed"}]
  BY DEF Untouched, Key
<1>3. ASSUME NEW pc \in {"call", "forget", "saveClaim"},
             NEW mut \in [Key -> {"none", "queued", "done", "skipped", "failed"}],
             pc = "call" => \A k \in Key : mut[k] # "queued",
             job' = [job EXCEPT ![j] = n(pc, mut)],
             AsksFor(j, n(pc, mut)), pending' \in {None, pending, session}
      PROVE  SessionInv'
  <2>1. PICK o \in JobState : /\ o = n(pc, mut) /\ o.pc = pc /\ o.mut = mut
                              /\ o.kind = as.kind /\ o.current /\ o.same /\ o.user = as.user
    <3>1. pc \in Pc
      BY DEF Pc
    <3>2. /\ n(pc, mut) \in JobState /\ n(pc, mut).pc = pc /\ n(pc, mut).mut = mut
          /\ n(pc, mut).kind = as.kind /\ n(pc, mut).current = as.current
          /\ n(pc, mut).same = as.same /\ n(pc, mut).user = as.user
      BY <3>1 DEF JobState
    <3> QED
      BY <3>2
  <2> HIDE DEF n
  <2>2. Fits(o)
    BY <1>3, <2>1 DEF Fits, KindsAt, Mutating, Leaving, Request
  <2>3. MayBe(j, o)
    BY <2>1 DEF MayBe, Starting, Leaving, Request, Current
  <2>4. job' = [job EXCEPT ![j] = o] /\ AsksFor(j, o) /\ o.kind # "refresh"
    BY <1>3, <2>1 DEF Request
  <2> QED
    BY <1>1, <1>3, <2>2, <2>3, <2>4, Advances
<1>4. ASSUME NEW pc, NEW mut \in [Key -> {"none", "queued", "done", "skipped", "failed"}]
      PROVE  n(pc, mut).pc = pc /\ n(pc, mut).mut = mut /\ n(pc, mut).user = as.user
  BY DEF JobState
<1> HIDE DEF n, m
<1>5. CASE job' = [job EXCEPT ![j] = n("call", Untouched)] /\ UNCHANGED <<pending, queue>>
  <2>1. AsksFor(j, n("call", Untouched))
    BY <1>2, <1>4, <1>5 DEF AsksFor
  <2> QED
    BY <1>2, <1>3, <1>5, <2>1
<1>6. CASE /\ job' = [job EXCEPT ![j] = n("saveClaim", m)]
           /\ queue' = Queued(queue, "claim", j, as.user) /\ UNCHANGED pending
  <2>1. Put(n("saveClaim", m), "claim") = as.user
    BY <1>2, <1>4 DEF Put
  <2>2. AsksFor(j, n("saveClaim", m))
    <3>1. n("saveClaim", m).mut = [Untouched EXCEPT !["claim"] = "queued"] /\ "claim" \in Key
      <4>1. n("saveClaim", m).mut = m
        BY <1>2, <1>4
      <4> QED
        BY <4>1 DEF m, Key
    <3> QED
      BY <1>6, <2>1, <3>1 DEF AsksFor
  <2> QED
    BY <1>2, <1>3, <1>6, <2>2
<1>7. CASE /\ job' = [job EXCEPT ![j] = n("forget", m)]
           /\ queue' = Queued(queue, "claim", j, None) /\ pending' = None
  <2>1. Put(n("forget", m), "claim") = None
    BY <1>2, <1>4 DEF Put
  <2>2. AsksFor(j, n("forget", m))
    <3>1. n("forget", m).mut = [Untouched EXCEPT !["claim"] = "queued"] /\ "claim" \in Key
      <4>1. n("forget", m).mut = m
        BY <1>2, <1>4
      <4> QED
        BY <4>1 DEF m, Key
    <3> QED
      BY <1>7, <2>1, <3>1 DEF AsksFor
  <2> QED
    BY <1>2, <1>3, <1>7, <2>2
<1> QED
  BY <1>5, <1>6, <1>7 DEF Runs, n, m

(* A request that goes on with the session in force.                       *)
LEMMA AgainKeeps ==
    ASSUME SessionInv, NEW j \in Task, job[j].pc \in {"call", "retry"}, Current(j), session # None,
           Runs(j, Again(j)), UNCHANGED <<session, told, page, store, homes>>
    PROVE  SessionInv'
<1>1. /\ j # Refresher /\ job[j] \in JobState /\ job[j].kind \in Request
      /\ session \in Maybe(User)
      /\ \A k \in Key : job[j].mut[k] # "queued"
  BY RequestJob
<1>2. PICK as \in JobState : /\ as = Again(j) /\ as.kind = job[j].kind /\ as.current /\ as.same
                             /\ as.user = session
  <2>1. PICK o \in JobState : o = job[j]
    BY <1>1
  <2> DEFINE r == [o EXCEPT !.same = TRUE, !.user = session]
             a == [r EXCEPT !.tried = TRUE]
  <2>2. a \in JobState /\ a.same /\ a.user = session /\ a.kind = o.kind /\ a.current = o.current
    <3>1. r \in JobState /\ r.same /\ r.user = session /\ r.kind = o.kind /\ r.current = o.current
      BY <1>1 DEF JobState
    <3> HIDE DEF r
    <3> QED
      BY <3>1 DEF JobState
  <2>3. a = Again(j)
    BY <2>1 DEF Again, JobState
  <2> HIDE DEF a, r
  <2> QED
    BY <2>1, <2>2, <2>3 DEF Current
<1>3. Runs(j, as)
  BY <1>2
<1> QED
  BY <1>1, <1>2, <1>3, RunsKeeps

(* The page asks.                                                          *)
LEMMA AskKeeps ==
    ASSUME SessionInv, NEW j \in Job, NEW kind \in Request, Ask(j, kind)
    PROVE  SessionInv'
<1> DEFINE a == [Start(kind, "call") EXCEPT !.same = TRUE, !.user = session]
<1>1. /\ j \in Task /\ j # Refresher /\ session \in Maybe(User) /\ kind \in Kind
      /\ \A k \in Key : job[j].mut[k] # "queued"
  <2>1. j \in Task /\ j # Refresher /\ session \in Maybe(User) /\ kind \in Kind
    BY DEF Task, SessionInv, SessionTypeOK, Kind
  <2> QED
    BY <2>1 DEF Ask, At, SessionInv, KindsFit, Fits, Mutating
<1>2. PICK o \in JobState : o = Start(kind, "call") /\ o.kind = kind /\ o.current
  BY <1>1, StartJob DEF Pc
<1>3. PICK as \in JobState : as = a /\ as.kind = kind /\ as.current /\ as.same /\ as.user = session
  <2> DEFINE r == [o EXCEPT !.same = TRUE, !.user = session]
  <2>1. r \in JobState /\ r.same /\ r.user = session /\ r.kind = o.kind /\ r.current = o.current
    BY <1>1 DEF JobState
  <2>2. a = r
    BY <1>2
  <2> HIDE DEF a, r
  <2> QED
    BY <1>2, <2>1, <2>2
<1>4. /\ page.status = "signed-in" /\ session # None /\ Runs(j, a)
      /\ UNCHANGED <<session, told, page, store, homes>>
  BY DEF Ask
<1> HIDE DEF a
<1>5. Runs(j, as)
  BY <1>3, <1>4
<1> QED
  BY <1>1, <1>3, <1>4, <1>5, RunsKeeps

(* The answer to a request, which may be the end of the claim or a claim.  *)
LEMMA AnsweredKeeps ==
    ASSUME SessionInv, NEW j \in Task, Answered(j)
    PROVE  SessionInv'
<1>1. job[j].pc = "call" /\ UNCHANGED <<session, told, page, store, homes>>
  BY DEF Answered, At
<1>2. /\ j # Refresher /\ job[j] \in JobState /\ job[j].kind \in Request
      /\ job[j].same => Current(j) /\ session # None /\ job[j].user = session
      /\ \A k \in Key : job[j].mut[k] # "queued"
      /\ session \in Maybe(User) /\ pending \in Maybe(User) /\ told \in AuthState /\ homes \subseteq User
      /\ page \in [status : Status, user : Maybe(User), request : Maybe(Job)]
  BY <1>1, RequestJob
<1>3. CASE job' = [job EXCEPT ![j] = Idle] /\ UNCHANGED <<pending, queue>>
  BY <1>1, <1>2, <1>3, IdleKeeps
<1>4. ASSUME NEW v, NEW pc \in {"forget", "saveClaim"}, Mutate(j, "claim", v, pc),
             v = IF pc = "saveClaim" THEN job[j].user ELSE None,
             pending' \in {None, pending, session}
      PROVE  SessionInv'
  <2>1. PICK n \in JobState :
          /\ n.pc = pc /\ n.kind = job[j].kind /\ n.current = job[j].current
          /\ n.same = job[j].same /\ n.user = job[j].user
          /\ n.mut["claim"] = "queued" /\ \A l \in Key \ {"claim"} : n.mut[l] = "none"
          /\ job' = [job EXCEPT ![j] = n]
          /\ v = Put(n, "claim") => AsksFor(j, n)
    <3>1. "claim" \in Key /\ pc \in Pc
      BY DEF Key, Pc
    <3> QED
      BY <1>2, <1>4, <3>1, MutateJob
  <2>2. AsksFor(j, n)
    BY <1>4, <2>1 DEF Put
  <2>3. Fits(n)
    BY <1>2, <2>1 DEF Fits, KindsAt, Mutating, Leaving, Request
  <2>4. MayBe(j, n)
    BY <1>2, <2>1 DEF MayBe, Starting, Leaving, Request, Current
  <2>5. n.kind # "refresh"
    BY <1>2, <2>1 DEF Request
  <2> QED
    BY <1>1, <1>2, <1>4, <2>1, <2>2, <2>3, <2>4, <2>5, Advances
<1>5. CASE pending' = None /\ Mutate(j, "claim", None, "forget")
  BY <1>4, <1>5
<1>6. CASE Served(j) /\ pending' = job[j].user /\ Mutate(j, "claim", job[j].user, "saveClaim")
  BY <1>2, <1>4, <1>6 DEF Served
<1> QED
  BY <1>3, <1>5, <1>6 DEF Answered

(* The other steps of a request.                                           *)
LEMMA RequestSteps ==
    ASSUME SessionInv, NEW j \in Task,
           Fails(j) \/ Unauthorized(j) \/ Retries(j) \/ GivesUp(j) \/ Forgotten(j) \/ ClaimSaved(j)
    PROVE  SessionInv'
<1>1. /\ job[j].pc \in {"call", "forget", "saveClaim", "retry", "expire"}
      /\ job[j].pc \notin {"call", "retry", "expire"} => Written(j)
  BY DEF Fails, Unauthorized, Retries, GivesUp, Forgotten, ClaimSaved, At
<1>2. /\ j # Refresher /\ job[j] \in JobState /\ job[j].kind \in Request
      /\ job[j].same => Current(j) /\ session # None /\ job[j].user = session
      /\ \A k \in Key : job[j].mut[k] # "queued"
      /\ session \in Maybe(User) /\ pending \in Maybe(User) /\ told \in AuthState /\ homes \subseteq User
      /\ page \in [status : Status, user : Maybe(User), request : Maybe(Job)]
  BY <1>1, RequestJob
<1>3. CASE job' = [job EXCEPT ![j] = Idle] /\ UNCHANGED <<session, pending, told, page, store, queue, homes>>
  BY <1>2, <1>3, IdleKeeps
<1>4. CASE Unauthorized(j)
  <2>1. job[j].pc = "call"
    BY <1>4 DEF Unauthorized, At
  <2>2. CASE /\ job[j].same
             /\ job' = [job EXCEPT
                  ![j] = [@ EXCEPT !.pc = "waits", !.tried = TRUE],
                  ![Refresher] = IF @.pc = "idle" THEN Start("refresh", "readToken") ELSE @]
             /\ UNCHANGED <<session, pending, told, page, store, queue, homes>>
    BY <2>1, <2>2, AsksRefreshKeeps DEF At
  <2>3. CASE /\ session # None /\ Current(j) /\ Runs(j, Again(j))
             /\ UNCHANGED <<session, told, page, store, homes>>
    BY <2>1, <2>3, AgainKeeps
  <2>4. CASE Expire(j)
    BY <2>1, <2>4, ExpireKeeps
  <2> QED
    BY <1>3, <1>4, <2>2, <2>3, <2>4 DEF Unauthorized
<1>5. CASE Retries(j)
  <2>1. job[j].pc = "retry"
    BY <1>5 DEF Retries, At
  <2>2. CASE Served(j) /\ Runs(j, Again(j)) /\ UNCHANGED <<session, told, page, store, homes>>
    BY <1>2, <2>1, <2>2, AgainKeeps DEF Served, Current
  <2> QED
    BY <1>3, <1>5, <2>2 DEF Retries
<1>6. CASE GivesUp(j)
  BY <1>6, ExpireKeeps DEF GivesUp, At
<1>7. CASE Forgotten(j)
  <2> DEFINE n == [job[j] EXCEPT !.pc = "call"]
  <2>1. UNCHANGED <<session, pending, told, page, store, queue, homes>>
    BY <1>7 DEF Forgotten
  <2>2. CASE job' = [job EXCEPT ![j] = n]
    <3>1. PICK o \in JobState :
            /\ o = n /\ o.pc = "call" /\ o.kind = job[j].kind /\ o.current = job[j].current
            /\ o.same = job[j].same /\ o.user = job[j].user /\ o.mut = job[j].mut
      <4>1. "call" \in Pc
        BY DEF Pc
      <4>2. /\ n \in JobState /\ n.pc = "call" /\ n.kind = job[j].kind /\ n.current = job[j].current
            /\ n.same = job[j].same /\ n.user = job[j].user /\ n.mut = job[j].mut
        BY <1>2, <4>1 DEF JobState
      <4> HIDE DEF n
      <4> QED
        BY <4>2
    <3> HIDE DEF n
    <3>2. job' = [job EXCEPT ![j] = o] /\ AsksFor(j, o)
      BY <1>2, <2>1, <2>2, <3>1 DEF AsksFor
    <3>3. Fits(o)
      BY <1>2, <3>1 DEF Fits, KindsAt, Mutating, Leaving, Request
    <3>4. MayBe(j, o)
      BY <1>2, <3>1 DEF MayBe, Starting, Leaving, Request, Current
    <3>5. o.kind # "refresh"
      BY <1>2, <3>1 DEF Request
    <3> QED
      BY <1>2, <2>1, <3>1, <3>2, <3>3, <3>4, <3>5, Advances
  <2>3. job' = [job EXCEPT ![j] = n] \/ job' = [job EXCEPT ![j] = Idle]
    BY <1>7 DEF Forgotten
  <2> QED
    BY <1>3, <2>1, <2>2, <2>3
<1>8. CASE Fails(j) \/ ClaimSaved(j)
  BY <1>3, <1>8 DEF Fails, ClaimSaved
<1> QED
  BY <1>4, <1>5, <1>6, <1>7, <1>8

----------------------------------------------------------------------------
(* The app is started, for the first time or again.                        *)
Fresh ==
    /\ session = None /\ pending = None
    /\ told = [status |-> "loading", user |-> None, by |-> "restore"]
    /\ page = [status |-> "loading", user |-> None, request |-> None]
    /\ queue = [k \in Key |-> <<>>]
    /\ \E j \in Job : job = [[i \in Task |-> Idle] EXCEPT ![j] = Start("restore", "readToken")]
    /\ store \in [Key -> Maybe(User)] /\ homes \subseteq User

(* Nothing is in the queues, and one sign-in is under way.                 *)
LEMMA FreshFits == Fresh => SessionInv
<1> SUFFICES ASSUME Fresh PROVE SessionInv
  OBVIOUS
<1>1. PICK j \in Job : job = [[i \in Task |-> Idle] EXCEPT ![j] = Start("restore", "readToken")]
  BY DEF Fresh
<1>2. j \in Task /\ j # Refresher /\ Refresher \in Task
  BY DEF Task
<1>3. PICK s \in JobState : /\ s = Start("restore", "readToken") /\ s.kind = "restore" /\ s.pc = "readToken"
                            /\ s.current /\ ~s.same /\ s.mut = Untouched
  BY StartJob DEF Kind, SignIn, Pc
<1>4. PICK o \in JobState : /\ o = Idle /\ o.kind = "none" /\ o.pc = "idle"
                            /\ ~o.current /\ ~o.same /\ o.mut = Untouched
  <2>1. /\ Idle \in JobState /\ Idle.kind = "none" /\ Idle.pc = "idle" /\ ~Idle.current /\ ~Idle.same
        /\ Idle.mut = Untouched
    BY DEF Idle, JobState, Kind, Pc, Maybe, Untouched
  <2> QED
    BY <2>1
<1>5. /\ job = [i \in Task |-> IF i = j THEN s ELSE o]
      /\ job[j] = s /\ \A i \in Task \ {j} : job[i] = o
  BY <1>1, <1>2, <1>3, <1>4
<1>6. job \in [Task -> JobState]
  BY <1>5
<1>7. \A k \in Key : queue[k] = <<>> /\ Len(queue[k]) = 0 /\ DOMAIN queue[k] = {}
  BY DEF Fresh
<1>8. Fits(s) /\ Fits(o)
  BY <1>3, <1>4 DEF Fits, KindsAt, Mutating, Leaving, Untouched
<1>9. SessionTypeOK
  <2>1. queue \in [Key -> Seq(Mutation)]
    BY DEF Fresh
  <2>2. /\ told \in AuthState /\ None \in Maybe(User)
        /\ page \in [status : Status, user : Maybe(User), request : Maybe(Job)]
    BY DEF Fresh, AuthState, Status, Kind, SignIn, Maybe
  <2> QED
    BY <1>6, <1>7, <2>1, <2>2 DEF SessionTypeOK, Fresh
<1>10. KindsFit
  BY <1>2, <1>3, <1>4, <1>5, <1>8 DEF KindsFit
<1>11. QueueFits /\ \A k \in Key, u \in Maybe(User) : Brings(k, u)
  BY <1>7 DEF QueueFits, Brings
<1>12. \A i \in Task : (Current(i) => i = j) /\ ~job[i].same /\ job[i].kind \notin Leaving /\ job[i].pc # "waits"
  BY <1>3, <1>4, <1>5 DEF Current, Leaving
<1>13. session = None /\ pending = None /\ told.status = "loading" /\ page.status = "loading"
  BY DEF Fresh
<1>14. OperationFits /\ ServedFits /\ SaidFits /\ CleanFits /\ LeftFits /\ ClaimIsTheSessions
  BY <1>12, <1>13 DEF OperationFits, ServedFits, SaidFits, CleanFits, LeftFits, ClaimIsTheSessions
<1>15. RefreshFits
  BY <1>2, <1>12 DEF RefreshFits
<1>16. TokenFits
  <2>1. ~TokenKnown(job[j]) /\ Brings("token", None)
    BY <1>3, <1>5, <1>11 DEF TokenKnown, Key, Maybe
  <2> QED
    BY <1>12, <1>13, <2>1 DEF TokenFits
<1> QED
  BY <1>9, <1>10, <1>11, <1>14, <1>15, <1>16 DEF SessionInv

(* SessionInv is inductive.                                                *)
LEMMA SessionInvInit == SessionInit => SessionInv
<1>1. SessionInit => Fresh
  BY DEF SessionInit, Fresh, Maybe
<1> QED
  BY <1>1, FreshFits

(* An app started again keeps SecureStore and the server's rows only.      *)
LEMMA RestartKeeps ==
    ASSUME SessionInv, NEW j \in Job, Restart(j)
    PROVE  Fresh'
BY DEF Restart, Fresh, SessionInv, SessionTypeOK

(* The page is loaded again: it says what was told.                        *)
LEMMA ReloadPageKeeps ==
    ASSUME SessionInv, ReloadPage
    PROVE  SessionInv'
<1>1. /\ page' = [status |-> told.status, user |-> told.user, request |-> None]
      /\ UNCHANGED <<session, pending, told, store, queue, job, homes>>
  BY DEF ReloadPage
<1>2. page'.status = told.status
  BY <1>1
<1>3. SessionTypeOK'
  BY <1>1 DEF SessionInv, SessionTypeOK, AuthState, Maybe
<1>4. OperationFits' /\ SaidFits'
  BY <1>1, <1>2 DEF SessionInv, OperationFits, SaidFits, Current
<1>5. \A k \in Key, u \in Maybe(User) : Only(k, u)' = Only(k, u) /\ Brings(k, u)' = Brings(k, u)
  BY <1>1 DEF Only, Brings, Live, Current
<1>6. KindsFit' /\ QueueFits' /\ RefreshFits' /\ ServedFits' /\ ClaimIsTheSessions'
  BY <1>1 DEF SessionInv, KindsFit, QueueFits, RefreshFits, ServedFits, ClaimIsTheSessions, Current
<1>7. TokenFits' /\ CleanFits' /\ LeftFits'
  BY <1>1 DEF SessionInv, TokenFits, CleanFits, LeftFits, Only, Brings, Live, Current
<1> QED
  BY <1>3, <1>4, <1>6, <1>7 DEF SessionInv

(* Every step keeps SessionInv.                                            *)
LEMMA SessionInvNext ==
    ASSUME SessionInv, [SessionNext]_vars
    PROVE  SessionInv'
<1>1. ASSUME NEW j \in Task, JobStep(j)
      PROVE  SessionInv'
  <2>1. CASE Browser(j) \/ ReadToken(j) \/ Exchange(j) \/ TokenSaved(j) \/ TokenDropped(j)
    BY <2>1, TokenSteps
  <2>2. CASE LookupHome(j) \/ CreateHome(j) \/ LoadClaim(j) \/ ClaimLoaded(j) \/ ClaimDropped(j)
    BY <2>2, SessionSteps
  <2>3. CASE TokenCleared(j)
    BY <2>3, TokenClearedKeeps
  <2>4. CASE ClaimCleared(j) \/ Expired(j)
    BY <2>4, ClearedKeeps
  <2>5. CASE Answered(j)
    BY <2>5, AnsweredKeeps
  <2>6. CASE Fails(j) \/ Unauthorized(j) \/ Retries(j) \/ GivesUp(j) \/ Forgotten(j) \/ ClaimSaved(j)
    BY <2>6, RequestSteps
  <2> QED
    BY <1>1, <2>1, <2>2, <2>3, <2>4, <2>5, <2>6 DEF JobStep
<1>2. ASSUME NEW k \in Key, TakesTurn(k) \/ Writes(k)
      PROVE  SessionInv'
  BY <1>2, QueueKeeps
<1>3. ASSUME NEW j \in Job, Login(j) \/ Logout(j) \/ \E kind \in Request : Ask(j, kind)
      PROVE  SessionInv'
  BY <1>3, LoginKeeps, LogoutKeeps, AskKeeps
<1>4. ASSUME NEW j \in Job, Restart(j)
      PROVE  SessionInv'
  <2>1. Fresh'
    BY <1>4, RestartKeeps
  <2>2. Fresh' => SessionInv'
    BY FreshFits, PTL
  <2> QED
    BY <2>1, <2>2
<1>5. CASE ReloadPage
  BY <1>5, ReloadPageKeeps
<1>6. CASE UNCHANGED vars
  <2>1. SessionTypeOK' /\ ClaimIsTheSessions'
    BY <1>6 DEF vars, SessionInv, SessionTypeOK, ClaimIsTheSessions
  <2>2. KindsFit' /\ QueueFits' /\ OperationFits' /\ RefreshFits' /\ ServedFits' /\ SaidFits'
    BY <1>6 DEF vars, SessionInv, KindsFit, QueueFits, OperationFits, RefreshFits, ServedFits, SaidFits, Current
  <2>3. TokenFits' /\ CleanFits' /\ LeftFits'
    BY <1>6 DEF vars, SessionInv, TokenFits, CleanFits, LeftFits, Only, Brings, Live, Current
  <2> QED
    BY <2>1, <2>2, <2>3 DEF SessionInv
<1> QED
  BY <1>1, <1>2, <1>3, <1>4, <1>5, <1>6 DEF SessionNext

(* What the runs check follows from it: the token and the claim in         *)
(* SecureStore are Only the session's, or nobody's.                        *)
LEMMA SessionInvImplies ==
    SessionInv => SessionTypeOK /\ ClaimIsTheSessions /\ TokenIsTheSessions /\ LeftIsEmpty
<1>1. SessionInv => TokenIsTheSessions
  BY DEF SessionInv, TokenFits, Only, TokenIsTheSessions
<1>2. SessionInv => LeftIsEmpty
  <2> SUFFICES ASSUME SessionInv, told.status = "signed-out", told.by \in {"logout", "expire"}
               PROVE  session = None /\ pending = None /\ store = [k \in Key |-> None]
    BY DEF LeftIsEmpty
  <2>1. session = None /\ \A k \in Key : store[k] = None
    BY DEF SessionInv, LeftFits, Only, Leaving
  <2>2. pending = None
    BY <2>1 DEF SessionInv, ClaimIsTheSessions
  <2> QED
    BY <2>1, <2>2 DEF SessionInv, SessionTypeOK
<1> QED
  BY <1>1, <1>2 DEF SessionInv

----------------------------------------------------------------------------
(* So it holds in every state the app can be in.                           *)
LEMMA SessionInvHolds == SessionInit /\ [][SessionNext]_vars => []SessionInv
BY SessionInvInit, SessionInvNext, PTL

(* SessionTypeOK: jobs, both chains of mutations and SecureStore stay well *)
(* formed, and each mutation in a chain is awaited by the job it names.    *)
THEOREM SessionTyped == AppSessionSpec => []SessionTypeOK
BY SessionInvHolds, SessionInvImplies, PTL DEF AppSessionSpec

(* ClaimIsTheSessions: for any number of accounts and functions at work,   *)
(* the pending claim in memory is the user's whose session is in force.    *)
THEOREM ClaimAlwaysTheSessions == AppSessionSpec => []ClaimIsTheSessions
BY SessionInvHolds, SessionInvImplies, PTL DEF AppSessionSpec

(* TokenIsTheSessions: while a session is in force, SecureStore keeps its  *)
(* user's refresh token or none, whoever else's exchange comes late.       *)
THEOREM TokenAlwaysTheSessions == AppSessionSpec => []TokenIsTheSessions
BY SessionInvHolds, SessionInvImplies, PTL DEF AppSessionSpec

(* LeftIsEmpty: once a sign-out or an expiry is announced nothing of the   *)
(* user is left, and no write under way brings it back.                    *)
THEOREM LeftAlwaysEmpty == AppSessionSpec => []LeftIsEmpty
BY SessionInvHolds, SessionInvImplies, PTL DEF AppSessionSpec
=============================================================================
