------------------------ MODULE LampCommandsProofs ------------------------
(***************************************************************************)
(* What holds of LampCommands for any number of requests, invocations,     *)
(* boots and reports, with or without faults.                              *)
(***************************************************************************)
EXTENDS LampCommands, Sequences, TLAPS

USE CommandAssumption DEF CommandAssumption

----------------------------------------------------------------------------
(* Types *)

\* What a step of an invocation relies on.
CallRuns == \A c \in Call :
    /\ call[c].pc = "idle" => call[c].cmd = None
    /\ call[c].pc # "idle" => call[c].req # None /\ call[c].patch # None
    /\ call[c].pc = "publish" => call[c].cmd # None

\* What a step of the lamp relies on.
LampRuns ==
    /\ lamp.boot \in 0 .. MaxBoots /\ lamp.n \in 0 .. MaxReports
    /\ lamp.pc # "off" => lamp.boot >= 1
    /\ lamp.online => lamp.pc # "off"
    /\ lamp.pc = "persist" => lamp.job # None

TypeInv == CommandTypeOK /\ CallRuns /\ LampRuns

(* The state of the lamp with a change applied is a state.                 *)
LEMMA MergeType == \A base \in State, p \in Patch : Merge(base, p) \in State
<1> SUFFICES ASSUME NEW base \in State, NEW p \in Patch
             PROVE  \A f \in Field : (IF f \in DOMAIN p THEN p[f] ELSE base[f]) \in Value
  BY DEF Merge, State
<1>1. \A f \in DOMAIN p : p[f] \in Value
  OBVIOUS
<1> QED
  BY <1>1 DEF State

(* An invocation goes on to another place.                                 *)
LEMMA CallSet ==
    ASSUME call \in [Call -> CallState], NEW c \in Call, NEW job \in CallState,
           call' = [call EXCEPT ![c] = job]
    PROVE  /\ call' \in [Call -> CallState]
           /\ call'[c] = job
           /\ \A d \in Call \ {c} : call'[d] = call[d]
OBVIOUS

(* The fields of a well-formed invocation, and where it may go.            *)
LEMMA CallFields ==
    ASSUME NEW k \in CallState
    PROVE  /\ k.pc \in {"idle", "read", "write", "lookup", "publish", "done"}
           /\ k.req \in Maybe(Request) /\ k.patch \in Maybe(Patch)
           /\ k.seen \in Nat /\ k.base \in State /\ k.cmd \in Maybe(Command)
           /\ \A pc \in {"read", "lookup", "publish", "done"} : [k EXCEPT !.pc = pc] \in CallState
           /\ \A e \in Command : [k EXCEPT !.pc = "publish", !.cmd = e] \in CallState
BY DEF CallState, Maybe

(* The command an invocation is about to reserve is a command.             *)
LEMMA NewCommandType ==
    ASSUME TypeInv, NEW c \in Call, call[c].pc = "write"
    PROVE  NewCommand(c) \in Command
<1>1. call[c] \in CallState
  BY DEF TypeInv, CommandTypeOK
<1>2. call[c].req \in Request /\ call[c].patch \in Patch
  BY <1>1, CallFields DEF TypeInv, CallRuns, Maybe
<1>3. Merge(call[c].base, call[c].patch) \in State
  BY <1>1, <1>2, CallFields, MergeType
<1>4. call[c].seen + 1 \in Nat
  BY <1>1 DEF CallState
<1> QED
  BY <1>2, <1>3, <1>4 DEF NewCommand, Command

(* What goes over the wire of a command is an order.                       *)
LEMMA OrderOfType == \A e \in Command : OrderOf(e) \in Order
BY DEF OrderOf, Order, Command

(* A report numbers itself after the others of its boot.                   *)
LEMMA PublishType ==
    ASSUME NEW l \in LampState, l.boot \in 1 .. MaxBoots, l.n \in 0 .. MaxReports,
           up \subseteq Report, PublishState(l)
    PROVE  /\ lamp' \in LampState /\ lamp'.n = l.n + 1 /\ lamp'.n \in 0 .. MaxReports
           /\ lamp'.pc = l.pc /\ lamp'.online = l.online /\ lamp'.boot = l.boot
           /\ lamp'.last = l.last /\ lamp'.led = l.led /\ lamp'.job = l.job /\ lamp'.prev = l.prev
           /\ up' \subseteq Report
           /\ up' \subseteq up \cup {ReportOf(l)}
<1>1. lamp' = [l EXCEPT !.n = @ + 1] /\ l.n < MaxReports
  BY DEF PublishState
<1>2. l.n + 1 \in 1 .. MaxReports /\ l.n + 1 \in Nat
  BY <1>1
<1>3. lamp' \in LampState /\ lamp'.n = l.n + 1
  BY <1>1, <1>2 DEF LampState
<1>4. /\ lamp'.pc = l.pc /\ lamp'.online = l.online /\ lamp'.boot = l.boot
      /\ lamp'.last = l.last /\ lamp'.led = l.led /\ lamp'.job = l.job /\ lamp'.prev = l.prev
  BY <1>1 DEF LampState
<1>5. ReportOf(l) \in Report
  <2>1. l.last \in Maybe(Order) /\ l.led \in State
    BY DEF LampState
  <2>2. IdOf(l.last) \in Maybe(Call)
    BY <2>1 DEF IdOf, Maybe, Order
  <2>3. <<l.boot, l.n + 1>> \in (1 .. MaxBoots) \X (1 .. MaxReports)
    BY <1>2
  <2> QED
    BY <2>1, <2>2, <2>3 DEF ReportOf, Report
<1>6. up' \subseteq up \cup {ReportOf(l)}
  BY DEF PublishState
<1> QED
  BY <1>2, <1>3, <1>4, <1>5, <1>6

(* A step of an invocation keeps the types.                                *)
LEMMA CallTypes ==
    ASSUME TypeInv, NEW c \in Call,
           CallStep(c) \/ \E r \in Request, p \in Patch : Begin(c, r, p)
    PROVE  TypeInv'
<1> USE DEF TypeInv, CommandTypeOK
<1>0. call[c] \in CallState /\ row \in RowState
  OBVIOUS
<1>1. CASE \E r \in Request, p \in Patch : Begin(c, r, p)
  <2> PICK r \in Request, p \in Patch : Begin(c, r, p)
    BY <1>1
  <2> DEFINE job == [call[c] EXCEPT !.pc = "read", !.req = r, !.patch = p]
  <2>1. job \in CallState /\ job.req = r /\ job.patch = p /\ job.pc = "read"
    BY <1>0 DEF CallState, Maybe
  <2>2. call' = [call EXCEPT ![c] = job]
    BY DEF Begin
  <2>3. CallRuns'
    BY <2>1, <2>2, CallSet DEF CallRuns
  <2> QED
    BY <2>1, <2>2, <2>3, CallSet DEF Begin, LampRuns
<1>2. CASE ReadDevice(c)
  <2> DEFINE base == IF row.desired = None THEN row.reported ELSE row.desired
             job == [call[c] EXCEPT !.pc = "write", !.seen = row.seq, !.base = base]
  <2>1. row.seq \in Nat /\ base \in State
    BY <1>0 DEF RowState, Maybe
  <2>2. /\ job \in CallState /\ job.pc = "write" /\ job.req = call[c].req /\ job.patch = call[c].patch
    BY <1>0, <2>1 DEF CallState
  <2>3. [call[c] EXCEPT !.pc = "done"] \in CallState
    BY <1>0, CallFields
  <2>4. CASE call' = [call EXCEPT ![c].pc = "done"]
    <3>1. CallRuns'
      BY <1>0, <1>2, <2>3, <2>4, CallSet DEF CallRuns, ReadDevice, CallState
    <3> QED
      BY <1>2, <2>3, <2>4, <3>1, CallSet DEF ReadDevice, LampRuns
  <2>5. CASE call' = [call EXCEPT ![c] = job]
    <3>1. CallRuns'
      BY <1>2, <2>2, <2>5, CallSet DEF CallRuns, ReadDevice
    <3> QED
      BY <1>2, <2>2, <2>5, <3>1, CallSet DEF ReadDevice, LampRuns
  <2> QED
    BY <1>2, <2>4, <2>5 DEF ReadDevice
<1>3. CASE Reserve(c)
  <2> DEFINE job == [call[c] EXCEPT !.pc = "publish", !.cmd = NewCommand(c)]
  <2>1. NewCommand(c) \in Command
    BY <1>3, NewCommandType DEF Reserve
  <2>2. CASE Reservable(c)
    <3>1. job \in CallState /\ job.req = call[c].req /\ job.patch = call[c].patch
          /\ job.pc = "publish" /\ job.cmd = NewCommand(c)
      BY <1>0, <2>1 DEF CallState, Maybe
    <3>2. call' = [call EXCEPT ![c] = job]
      BY <1>3, <2>2 DEF Reserve
    <3>3. CallRuns'
      BY <1>3, <2>1, <3>1, <3>2, CallSet DEF CallRuns, Reserve
    <3>4. NewCommand(c).state \in State /\ call[c].seen + 1 \in Nat
      BY <1>0, <2>1 DEF Command, CallState
    <3>5. row' = [row EXCEPT !.seq = call[c].seen + 1, !.last = c, !.desired = NewCommand(c).state]
      BY <1>3, <2>2 DEF Reserve
    <3>6. c \in Maybe(Call) /\ NewCommand(c).state \in Maybe(State)
      BY <3>4 DEF Maybe
    <3>7. row' \in RowState
      BY <1>0, <3>4, <3>5, <3>6 DEF RowState
    <3> QED
      BY <1>3, <2>1, <2>2, <3>1, <3>2, <3>3, <3>7, CallSet DEF Reserve, LampRuns
  <2>3. CASE ~Reservable(c)
    <3>1. [call[c] EXCEPT !.pc = "lookup"] \in CallState
      BY <1>0, CallFields
    <3>2. CallRuns'
      BY <1>0, <1>3, <2>3, <3>1, CallSet DEF CallRuns, Reserve, CallState
    <3> QED
      BY <1>3, <2>3, <3>1, <3>2, CallSet DEF Reserve, LampRuns
  <2> QED
    BY <2>2, <2>3
<1>4. CASE Lookup(c)
  <2>1. PICK job \in CallState :
            /\ call' = [call EXCEPT ![c] = job]
            /\ job.req = call[c].req /\ job.patch = call[c].patch
            /\ job.pc # "idle" /\ (job.pc = "publish" => job.cmd # None)
    <3>1. CASE call' = [call EXCEPT ![c].pc = "read"]
      <4>1. [call[c] EXCEPT !.pc = "read"] \in CallState
        BY <1>0, CallFields
      <4> QED
        BY <1>0, <3>1, <4>1 DEF CallState
    <3>2. ASSUME NEW e \in ledger,
                 call' = [call EXCEPT ![c] =
                    IF e.patch = @.patch THEN [@ EXCEPT !.pc = "publish", !.cmd = e]
                                         ELSE [@ EXCEPT !.pc = "done"]]
          PROVE  \E job \in CallState :
            /\ call' = [call EXCEPT ![c] = job]
            /\ job.req = call[c].req /\ job.patch = call[c].patch
            /\ job.pc # "idle" /\ (job.pc = "publish" => job.cmd # None)
      <4> DEFINE found == [call[c] EXCEPT !.pc = "publish", !.cmd = e]
                 none == [call[c] EXCEPT !.pc = "done"]
      <4>1. e \in Command
        OBVIOUS
      <4>0. e # None
        BY <4>1
      <4>2. /\ found \in CallState /\ found.pc = "publish" /\ found.cmd = e
            /\ found.req = call[c].req /\ found.patch = call[c].patch
            /\ none \in CallState /\ none.pc = "done"
            /\ none.req = call[c].req /\ none.patch = call[c].patch
        BY <1>0, <4>1 DEF CallState, Maybe
      <4>3. call' = [call EXCEPT ![c] = found] \/ call' = [call EXCEPT ![c] = none]
        BY <3>2
      <4> QED
        BY <4>0, <4>2, <4>3
    <3> QED
      BY <1>4, <3>1, <3>2 DEF Lookup
  <2>2. call'[c] = job /\ (\A d \in Call \ {c} : call'[d] = call[d]) /\ call[c].pc # "idle"
    BY <1>4, <2>1, CallSet DEF Lookup
  <2>3. CallRuns'
    BY <2>1, <2>2 DEF CallRuns
  <2> QED
    BY <1>4, <2>1, <2>3, CallSet DEF Lookup, LampRuns
<1>5. CASE Publish(c)
  <2>1. [call[c] EXCEPT !.pc = "done"] \in CallState
    BY <1>0, CallFields
  <2>2. CallRuns'
    BY <1>0, <1>5, <2>1, CallSet DEF CallRuns, Publish, CallState
  <2>3. call[c].cmd \in Command
    BY <1>0, <1>5, CallFields DEF Publish, CallRuns, Maybe
  <2>4. down' \subseteq Order
    BY <1>5, <2>3, OrderOfType DEF Publish
  <2> QED
    BY <1>5, <2>1, <2>2, <2>4, CallSet DEF Publish, LampRuns
<1> QED
  BY <1>1, <1>2, <1>3, <1>4, <1>5 DEF CallStep

(* The fields of a well-formed lamp.                                       *)
LEMMA LampFields ==
    ASSUME NEW l \in LampState
    PROVE  /\ l.pc \in {"off", "idle", "persist", "report"} /\ l.online \in BOOLEAN
           /\ l.led \in State /\ l.prev \in State
           /\ l.last \in Maybe(Order) /\ l.job \in Maybe(Order)
BY DEF LampState

(* Taking a message adds none.                                             *)
LEMMA TakenLess == \A m, S : Taken(m, S) \subseteq S
BY DEF Taken

(* A step of the lamp keeps the types.                                     *)
LEMMA LampTypes ==
    ASSUME TypeInv, LampStep \/ Disconnect \/ PowerCut
    PROVE  TypeInv'
<1> USE DEF TypeInv, CommandTypeOK
<1>0. /\ lamp \in LampState /\ nvs \in Maybe(Order)
      /\ lamp.boot \in 0 .. MaxBoots /\ lamp.n \in 0 .. MaxReports
  BY DEF LampRuns
\* It is enough to look at the firmware and its messages.
<1>1. SUFFICES UNCHANGED backend /\ down' \subseteq down /\ lamp' \in LampState
               /\ nvs' \in Maybe(Order) /\ up' \subseteq Report /\ LampRuns'
  BY DEF backend, CallRuns
<1>2. CASE Start
  <2>0. PICK led \in State :
            lamp' = [lamp EXCEPT !.pc = "idle", !.boot = @ + 1, !.n = 0, !.last = nvs, !.job = None,
                                 !.led = led]
    <3>1. (IF nvs = None THEN Dark ELSE nvs.state) \in State
      BY <1>0 DEF Maybe, Order
    <3> QED
      BY <1>2, <3>1 DEF Start
  <2>1. lamp' \in LampState /\ lamp'.pc = "idle" /\ lamp'.boot = lamp.boot + 1 /\ lamp'.n = 0
        /\ lamp'.online = lamp.online
    <3>1. lamp.boot + 1 \in Nat /\ None \in Maybe(Order)
      BY <1>0 DEF Maybe
    <3>2. lamp' \in LampState
      BY <1>0, <2>0, <3>1 DEF LampState
    <3> QED
      BY <1>0, <2>0, <3>2 DEF LampState
  <2>2. lamp.boot + 1 \in 1 .. MaxBoots
    BY <1>0, <1>2 DEF Start
  <2> QED
    BY <1>2, <2>1, <2>2 DEF Start, LampRuns
<1>3. CASE Connect
  <2> DEFINE l == [lamp EXCEPT !.online = TRUE]
  <2>1. l \in LampState /\ l.boot = lamp.boot /\ l.n = lamp.n /\ l.pc = "idle"
    BY <1>0, <1>3 DEF Connect, LampState
  <2>2. l.boot \in 1 .. MaxBoots
    BY <1>0, <1>3, <2>1 DEF Connect, LampRuns
  <2> HIDE DEF l
  <2>3. PublishState(l)
    BY <1>3 DEF Connect, l
  <2>4. lamp' \in LampState /\ lamp'.n \in 0 .. MaxReports /\ lamp'.boot = l.boot
        /\ lamp'.pc = l.pc /\ up' \subseteq Report
    BY <1>0, <2>1, <2>2, <2>3, PublishType
  <2> QED
    BY <1>3, <2>1, <2>2, <2>4 DEF Connect, LampRuns
<1>4. CASE \E m \in down : HandleRetry(m) \/ HandleStale(m) \/ HandleCommand(m)
  <2> PICK m \in down : HandleRetry(m) \/ HandleStale(m) \/ HandleCommand(m)
    BY <1>4
  <2>0. m \in Order /\ Deliver(m)
    BY DEF HandleRetry, HandleStale, HandleCommand
  <2>1. UNCHANGED <<backend, nvs>> /\ down' \subseteq down
    BY <2>0, TakenLess DEF Deliver
  <2>2. CASE HandleRetry(m)
    <3>1. lamp.boot \in 1 .. MaxBoots /\ PublishState(lamp)
      BY <1>0, <2>0, <2>2 DEF HandleRetry, Deliver, LampRuns
    <3>2. lamp' \in LampState /\ lamp'.n \in 0 .. MaxReports /\ lamp'.boot = lamp.boot
          /\ lamp'.pc = lamp.pc /\ up' \subseteq Report
      BY <1>0, <3>1, PublishType
    <3> QED
      BY <2>0, <2>1, <3>1, <3>2 DEF LampRuns, Deliver
  <2>3. CASE HandleStale(m)
    BY <2>1, <2>3 DEF HandleStale, LampRuns
  <2>4. CASE HandleCommand(m)
    <3>1. m # None
      BY <2>0
    <3>2. /\ lamp' \in LampState /\ lamp'.pc = "persist" /\ lamp'.job = m
          /\ lamp'.boot = lamp.boot /\ lamp'.n = lamp.n
      BY <1>0, <2>0, <2>4 DEF HandleCommand, LampState, Maybe, Order
    <3> QED
      BY <2>0, <2>1, <2>4, <3>1, <3>2 DEF HandleCommand, LampRuns, Deliver
  <2> QED
    BY <2>2, <2>3, <2>4
<1>5. CASE Persist
  <2>0. lamp.job \in Maybe(Order)
    BY <1>0 DEF LampState
  <2>1. nvs' \in Maybe(Order) /\ UNCHANGED <<backend, down, up>>
    BY <1>0, <1>5, <2>0 DEF Persist
  <2>2. /\ lamp' \in LampState /\ lamp'.pc \in {"report", "idle"}
        /\ lamp'.boot = lamp.boot /\ lamp'.n = lamp.n
    <3>1. CASE lamp' = [lamp EXCEPT !.pc = "report", !.last = lamp.job, !.job = None]
      BY <1>0, <3>1 DEF LampState, Maybe
    <3>2. CASE lamp' = [lamp EXCEPT !.pc = "report", !.led = lamp.prev, !.job = None]
      BY <1>0, <3>2 DEF LampState, Maybe
    <3>3. CASE lamp' = [lamp EXCEPT !.pc = "idle", !.job = None]
      BY <1>0, <3>3 DEF LampState, Maybe
    <3> QED
      BY <1>5, <3>1, <3>2, <3>3 DEF Persist
  <2> QED
    BY <1>5, <2>1, <2>2 DEF Persist, LampRuns
<1>6. CASE ReportState
  <2> DEFINE l == [lamp EXCEPT !.pc = "idle"]
  <2>1. l \in LampState /\ l.boot = lamp.boot /\ l.n = lamp.n /\ l.pc = "idle"
    BY <1>0 DEF LampState
  <2>2. l.boot \in 1 .. MaxBoots
    BY <1>0, <1>6, <2>1 DEF ReportState, LampRuns
  <2> HIDE DEF l
  <2>3. PublishState(l)
    BY <1>6 DEF ReportState, l
  <2>4. lamp' \in LampState /\ lamp'.n \in 0 .. MaxReports /\ lamp'.boot = l.boot
        /\ lamp'.pc = l.pc /\ up' \subseteq Report
    BY <1>0, <2>1, <2>2, <2>3, PublishType
  <2> QED
    BY <1>6, <2>1, <2>2, <2>4 DEF ReportState, LampRuns
<1>7. CASE Disconnect \/ PowerCut
  <2>1. /\ lamp' \in LampState /\ lamp'.boot = lamp.boot /\ lamp'.n = lamp.n
        /\ lamp'.online = FALSE /\ lamp'.pc \in {"idle", "off"} /\ (lamp'.pc = "idle" => lamp.pc = "idle")
    <3>1. CASE Disconnect
      BY <1>0, <3>1 DEF Disconnect, LampState
    <3>2. CASE PowerCut
      BY <1>0, <3>2 DEF PowerCut, LampState, Maybe
    <3> QED
      BY <1>7, <3>1, <3>2
  <2> QED
    BY <1>7, <2>1 DEF Disconnect, PowerCut, LampRuns
<1> QED
  BY <1>2, <1>3, <1>4, <1>5, <1>6, <1>7 DEF LampStep

(* Ingest and a release keep the types.                                    *)
LEMMA RowTypes ==
    ASSUME TypeInv, Release \/ \E r \in up : ApplyState(r)
    PROVE  TypeInv'
<1> USE DEF TypeInv, CommandTypeOK
<1>1. CASE Release
  <2>1. row' \in RowState
    BY <1>1 DEF Release, RowState
  <2>2. /\ lamp' \in LampState /\ lamp'.pc = lamp.pc /\ lamp'.boot = lamp.boot /\ lamp'.n = lamp.n
        /\ lamp'.job = lamp.job /\ lamp'.online = FALSE
    BY <1>1 DEF Release, LampState
  <2> QED
    BY <1>1, <2>1, <2>2 DEF Release, LampRuns, CallRuns
<1>2. CASE \E r \in up : ApplyState(r)
  <2> PICK r \in up : ApplyState(r)
    BY <1>2
  <2>1. r.at \in Nat \X Nat /\ r.id \in Maybe(Call) /\ r.state \in State
    BY DEF Report
  <2>2. row' \in RowState
    <3> DEFINE applied == IF r.id = None THEN row.applied ELSE r.id
               new == [row EXCEPT !.status = "ACTIVE", !.reported = r.state, !.at = r.at,
                                  !.applied = applied]
    <3>1. applied \in Maybe(Call)
      BY <2>1 DEF RowState
    <3>2. new \in RowState
      BY <2>1, <3>1 DEF RowState
    <3>3. row' = new \/ row' = row
      BY DEF ApplyState
    <3> QED
      BY <3>2, <3>3
  <2>3. up' \subseteq Report
    BY TakenLess DEF ApplyState
  <2> QED
    BY <2>2, <2>3 DEF ApplyState, LampRuns, CallRuns
<1> QED
  BY <1>1, <1>2

(* The initial state is well formed, and every step keeps it so.           *)
LEMMA InitTypes == CommandInit => TypeInv
<1> SUFFICES ASSUME CommandInit PROVE TypeInv
  OBVIOUS
<1>1. row \in RowState
  BY DEF CommandInit, RowState, Maybe
<1>2. NoCall \in CallState /\ NoCall.pc = "idle" /\ NoCall.cmd = None
  BY DEF NoCall, CallState, Maybe
<1>3. lamp \in LampState
  BY DEF CommandInit, LampState, Maybe
<1>4. CallRuns
  BY <1>2 DEF CallRuns, CommandInit
<1>5. LampRuns
  BY DEF LampRuns, CommandInit
<1> QED
  BY <1>1, <1>2, <1>3, <1>4, <1>5 DEF TypeInv, CommandTypeOK, CommandInit, Maybe

LEMMA NextTypes == TypeInv /\ [CommandNext]_vars => TypeInv'
<1>1. TypeInv /\ UNCHANGED vars => TypeInv'
  BY DEF vars, TypeInv, CommandTypeOK, CallRuns, LampRuns
<1> QED
  BY <1>1, CallTypes, LampTypes, RowTypes DEF CommandNext

LEMMA TypeInvariant == Commands => []TypeInv
BY InitTypes, NextTypes, PTL DEF Commands

(* CommandTypeOK: the row, the ledger, the invocations, the lamp and the   *)
(* messages stay well formed.                                              *)
THEOREM CommandTypeCorrect == Commands => []CommandTypeOK
<1>1. TypeInv => CommandTypeOK
  BY DEF TypeInv
<1> QED
  BY <1>1, TypeInvariant, PTL

----------------------------------------------------------------------------
(* The ledger *)

(* Behind NoUpdateLost: a command belongs to an invocation that is past    *)
(* its reservation, and an invocation that may still reserve the next      *)
(* sequence has computed its state from the current one.                   *)
LedgerInv ==
    /\ NoUpdateLost
    /\ CallerGetsItsCommand
    /\ \A e \in ledger : call[e.id].pc \in {"publish", "done"}
    /\ \A c \in Call : call[c].pc = "write" =>
           /\ call[c].seen <= row.seq
           /\ call[c].seen = row.seq /\ row.seq > 0 => call[c].base = row.desired

(* Of the row, LedgerInv reads the sequence and the last command.          *)
SameCommands == ledger' = ledger /\ row'.seq = row.seq /\ row'.last = row.last /\ row'.desired = row.desired

LEMMA LedgerKept == LedgerInv /\ SameCommands /\ UNCHANGED call => LedgerInv'
BY DEF LedgerInv, NoUpdateLost, CallerGetsItsCommand, SameCommands

(* An invocation that reserves nothing.                                    *)
LEMMA CallGoesOn ==
    ASSUME TypeInv, LedgerInv, SameCommands, NEW c \in Call, NEW job \in CallState,
           call' = [call EXCEPT ![c] = job],
           call[c].pc \in {"publish", "done"} => job.pc \in {"publish", "done"},
           job.cmd # None =>
               job.cmd \in ledger /\ job.cmd.req = job.req /\ job.cmd.patch = job.patch,
           job.pc = "write" =>
               /\ job.seen <= row.seq
               /\ job.seen = row.seq /\ row.seq > 0 => job.base = row.desired
    PROVE  LedgerInv'
<1>1. call'[c] = job /\ \A d \in Call \ {c} : call'[d] = call[d]
  BY CallSet DEF TypeInv, CommandTypeOK
<1>2. NoUpdateLost'
  BY DEF LedgerInv, NoUpdateLost, SameCommands
<1>3. CallerGetsItsCommand'
  BY <1>1 DEF LedgerInv, CallerGetsItsCommand, SameCommands
<1>4. \A e \in ledger : e.id \in Call
  BY DEF TypeInv, CommandTypeOK, Command
<1>5. \A e \in ledger' : call'[e.id].pc \in {"publish", "done"}
  BY <1>1, <1>4 DEF LedgerInv, SameCommands
<1>6. \A d \in Call : call'[d].pc = "write" =>
          /\ call'[d].seen <= row'.seq
          /\ call'[d].seen = row'.seq /\ row'.seq > 0 => call'[d].base = row'.desired
  BY <1>1 DEF LedgerInv, SameCommands
<1> QED
  BY <1>2, <1>3, <1>5, <1>6 DEF LedgerInv

(* A reservation appends the next command.                                 *)
LEMMA ReservedNext ==
    ASSUME TypeInv, LedgerInv, NEW c \in Call, Reserve(c), Reservable(c)
    PROVE  LedgerInv'
<1> DEFINE new == NewCommand(c)
           job == [call[c] EXCEPT !.pc = "publish", !.cmd = new]
<1>0. call \in [Call -> CallState] /\ call[c] \in CallState /\ row \in RowState /\ ledger \subseteq Command
  BY DEF TypeInv, CommandTypeOK
<1>1. call[c].pc = "write" /\ row.seq = call[c].seen /\ \A e \in ledger : e.req # call[c].req
  BY DEF Reserve, Reservable
<1>2. new \in Command
  BY <1>1, NewCommandType
<1>3. /\ new.id = c /\ new.seq = row.seq + 1 /\ new.req = call[c].req /\ new.patch = call[c].patch
      /\ new.state = Merge(call[c].base, call[c].patch)
  BY <1>1 DEF NewCommand
<1>4. row.seq \in Nat /\ \A e \in ledger : e.id \in Call /\ e.seq \in Nat /\ e.seq <= row.seq
  BY <1>0 DEF RowState, Command, LedgerInv, NoUpdateLost
<1>5. \A e \in ledger : e.id # c
  BY <1>1 DEF LedgerInv
<1>6. ledger' = ledger \cup {new} /\ row'.seq = row.seq + 1 /\ row'.last = c /\ row'.desired = new.state
  <2>1. /\ ledger' = ledger \cup {new}
        /\ row' = [row EXCEPT !.seq = call[c].seen + 1, !.last = c, !.desired = new.state]
    BY DEF Reserve
  <2> HIDE DEF new
  <2> QED
    BY <1>0, <1>1, <2>1 DEF RowState
<1> HIDE DEF new
<1>7. /\ job \in CallState /\ job.pc = "publish" /\ job.cmd = new
      /\ job.req = call[c].req /\ job.patch = call[c].patch
  BY <1>0, <1>2 DEF CallState, Maybe
<1>8. call' = [call EXCEPT ![c] = job]
  BY DEF Reserve, new
<1> HIDE DEF job
<1>9. call'[c] = job /\ \A d \in Call \ {c} : call'[d] = call[d]
  BY <1>0, <1>7, <1>8, CallSet
<1>10. NoUpdateLost'
  <2>1. \A e, f \in ledger' : e.req = f.req \/ e.seq = f.seq \/ e.id = f.id => e = f
    <3>1. \A e \in ledger : e.req # new.req /\ e.seq # new.seq /\ e.id # new.id
      BY <1>1, <1>3, <1>4, <1>5
    <3>2. \A e, f \in ledger : e.req = f.req \/ e.seq = f.seq \/ e.id = f.id => e = f
      BY DEF LedgerInv, NoUpdateLost
    <3> QED
      BY <1>6, <3>1, <3>2
  <2>2. \A e \in ledger' : e.seq \in 1 .. row'.seq
    BY <1>3, <1>4, <1>6 DEF LedgerInv, NoUpdateLost
  <2>3. new.seq > 1 => \E f \in ledger : f.seq = new.seq - 1 /\ new.state = Merge(f.state, new.patch)
    <3>1. CASE row.seq > 0
      <4>1. call[c].base = row.desired
        BY <1>1, <3>1 DEF LedgerInv
      <4>2. PICK f \in ledger : f.seq = row.seq
        BY <3>1 DEF LedgerInv, NoUpdateLost
      <4>3. f.state = row.desired
        BY <4>2 DEF LedgerInv, NoUpdateLost
      <4>4. new.seq - 1 = row.seq
        BY <1>3, <1>4
      <4> QED
        BY <1>3, <4>1, <4>2, <4>3, <4>4
    <3> QED
      BY <1>3, <1>4, <3>1
  <2>4. \A e \in ledger' : e.seq > 1 =>
            \E f \in ledger' : f.seq = e.seq - 1 /\ e.state = Merge(f.state, e.patch)
    BY <1>6, <2>3 DEF LedgerInv, NoUpdateLost
  <2>5. \A e \in ledger' : e.seq = row'.seq => row'.last = e.id /\ row'.desired = e.state
    BY <1>3, <1>4, <1>6
  <2>6. \E e \in ledger' : e.seq = row'.seq
    BY <1>3, <1>6
  <2> QED
    BY <2>1, <2>2, <2>4, <2>5, <2>6 DEF NoUpdateLost
<1>11. CallerGetsItsCommand'
  BY <1>3, <1>6, <1>7, <1>9 DEF LedgerInv, CallerGetsItsCommand
<1>12. \A e \in ledger' : call'[e.id].pc \in {"publish", "done"}
  BY <1>3, <1>4, <1>5, <1>6, <1>7, <1>9 DEF LedgerInv
<1>13. \A d \in Call : call'[d].pc = "write" =>
           /\ call'[d].seen <= row'.seq
           /\ call'[d].seen = row'.seq /\ row'.seq > 0 => call'[d].base = row'.desired
  <2>1. \A d \in Call : call[d].seen \in Nat
    BY <1>0, CallFields
  <2>2. \A d \in Call \ {c} : call[d].pc = "write" => call[d].seen <= row.seq
    BY DEF LedgerInv
  <2> QED
    BY <1>4, <1>6, <1>7, <1>9, <2>1, <2>2
<1> QED
  BY <1>10, <1>11, <1>12, <1>13 DEF LedgerInv

(* Every step keeps the ledger in order.                                   *)
LEMMA NextLedger == TypeInv /\ LedgerInv /\ [CommandNext]_vars => LedgerInv'
<1> SUFFICES ASSUME TypeInv, LedgerInv, [CommandNext]_vars PROVE LedgerInv'
  OBVIOUS
<1>0. call \in [Call -> CallState] /\ row \in RowState /\ ledger \subseteq Command
  BY DEF TypeInv, CommandTypeOK
<1>1. ASSUME NEW c \in Call, NEW r \in Request, NEW p \in Patch, Begin(c, r, p)
      PROVE  LedgerInv'
  <2> DEFINE job == [call[c] EXCEPT !.pc = "read", !.req = r, !.patch = p]
  <2>1. call[c] \in CallState /\ call[c].pc = "idle" /\ call[c].cmd = None
    BY <1>0, <1>1 DEF Begin, TypeInv, CallRuns
  <2>2. job \in CallState /\ job.pc = "read" /\ job.cmd = None
    BY <2>1 DEF CallState, Maybe
  <2>3. call' = [call EXCEPT ![c] = job] /\ SameCommands
    BY <1>1 DEF Begin, SameCommands
  <2> QED
    BY <2>1, <2>2, <2>3, CallGoesOn
<1>2. ASSUME NEW c \in Call, ReadDevice(c) PROVE LedgerInv'
  <2> DEFINE base == IF row.desired = None THEN row.reported ELSE row.desired
             read == [call[c] EXCEPT !.pc = "write", !.seen = row.seq, !.base = base]
             over == [call[c] EXCEPT !.pc = "done"]
  <2>1. call[c] \in CallState /\ call[c].pc = "read" /\ SameCommands
    BY <1>0, <1>2 DEF ReadDevice, SameCommands
  <2>2. call[c].cmd # None =>
            call[c].cmd \in ledger /\ call[c].cmd.req = call[c].req /\ call[c].cmd.patch = call[c].patch
    BY DEF LedgerInv, CallerGetsItsCommand
  <2>3. row.seq \in Nat /\ base \in State
    BY <1>0 DEF RowState, Maybe
  <2>4. row.seq > 0 => base = row.desired
    <3> SUFFICES ASSUME row.seq > 0 PROVE row.desired # None
      OBVIOUS
    <3>1. PICK e \in ledger : e.seq = row.seq
      BY DEF LedgerInv, NoUpdateLost
    <3>2. row.desired = e.state /\ e.state \in State
      BY <1>0, <3>1 DEF LedgerInv, NoUpdateLost, Command
    <3> QED
      BY <3>2
  <2> HIDE DEF base
  <2>5. CASE call' = [call EXCEPT ![c] = read]
    <3>1. /\ read \in CallState /\ read.pc = "write" /\ read.seen = row.seq /\ read.base = base
          /\ read.cmd = call[c].cmd /\ read.req = call[c].req /\ read.patch = call[c].patch
      BY <2>1, <2>3 DEF CallState
    <3>2. call[c].pc \notin {"publish", "done"} /\ read.seen <= row.seq
      BY <2>1, <2>3, <3>1
    <3> HIDE DEF read
    <3> QED
      BY <2>1, <2>2, <2>4, <2>5, <3>1, <3>2, CallGoesOn
  <2>6. CASE call' = [call EXCEPT ![c] = over]
    <3>1. /\ over \in CallState /\ over.pc = "done"
          /\ over.cmd = call[c].cmd /\ over.req = call[c].req /\ over.patch = call[c].patch
      BY <2>1 DEF CallState
    <3>2. call[c].pc \notin {"publish", "done"}
      BY <2>1
    <3> HIDE DEF over
    <3> QED
      BY <2>1, <2>2, <2>6, <3>1, <3>2, CallGoesOn
  <2> QED
    BY <1>2, <2>5, <2>6 DEF ReadDevice, base
<1>3. ASSUME NEW c \in Call, Reserve(c) PROVE LedgerInv'
  <2>1. CASE ~Reservable(c)
    <3> DEFINE job == [call[c] EXCEPT !.pc = "lookup"]
    <3>1. call[c] \in CallState /\ call[c].pc = "write"
      BY <1>0, <1>3 DEF Reserve
    <3>2. /\ job \in CallState /\ job.pc = "lookup"
          /\ job.cmd = call[c].cmd /\ job.req = call[c].req /\ job.patch = call[c].patch
      BY <3>1 DEF CallState
    <3>3. call' = [call EXCEPT ![c] = job] /\ SameCommands
      BY <1>3, <2>1 DEF Reserve, SameCommands
    <3>4. call[c].cmd # None =>
              call[c].cmd \in ledger /\ call[c].cmd.req = call[c].req /\ call[c].cmd.patch = call[c].patch
      BY DEF LedgerInv, CallerGetsItsCommand
    <3> QED
      BY <3>1, <3>2, <3>3, <3>4, CallGoesOn
  <2> QED
    BY <1>3, <2>1, ReservedNext
<1>4. ASSUME NEW c \in Call, Lookup(c) PROVE LedgerInv'
  <2> DEFINE again == [call[c] EXCEPT !.pc = "read"]
             over == [call[c] EXCEPT !.pc = "done"]
             found(e) == [call[c] EXCEPT !.pc = "publish", !.cmd = e]
  <2>1. call[c] \in CallState /\ call[c].pc = "lookup" /\ SameCommands
    BY <1>0, <1>4 DEF Lookup, SameCommands
  <2>2. call[c].cmd # None =>
            call[c].cmd \in ledger /\ call[c].cmd.req = call[c].req /\ call[c].cmd.patch = call[c].patch
    BY DEF LedgerInv, CallerGetsItsCommand
  <2>3. CASE call' = [call EXCEPT ![c] = again] \/ call' = [call EXCEPT ![c] = over]
    <3>1. /\ again \in CallState /\ again.pc = "read"
          /\ again.cmd = call[c].cmd /\ again.req = call[c].req /\ again.patch = call[c].patch
          /\ over \in CallState /\ over.pc = "done"
          /\ over.cmd = call[c].cmd /\ over.req = call[c].req /\ over.patch = call[c].patch
      BY <2>1 DEF CallState
    <3>2. CASE call' = [call EXCEPT ![c] = again]
      BY <2>1, <2>2, <3>1, <3>2, CallGoesOn
    <3>3. CASE call' = [call EXCEPT ![c] = over]
      BY <2>1, <2>2, <3>1, <3>3, CallGoesOn
    <3> QED
      BY <2>3, <3>2, <3>3
  <2>4. ASSUME NEW e \in ledger, e.req = call[c].req, e.patch = call[c].patch,
               call' = [call EXCEPT ![c] = found(e)]
        PROVE  LedgerInv'
    <3>1. /\ found(e) \in CallState /\ found(e).pc = "publish" /\ found(e).cmd = e
          /\ found(e).req = call[c].req /\ found(e).patch = call[c].patch
      BY <1>0, <2>1 DEF CallState, Maybe
    <3> QED
      BY <2>1, <2>4, <3>1, CallGoesOn
  <2> QED
    BY <1>4, <2>3, <2>4 DEF Lookup
<1>5. ASSUME NEW c \in Call, Publish(c) PROVE LedgerInv'
  <2> DEFINE over == [call[c] EXCEPT !.pc = "done"]
  <2>1. call[c] \in CallState /\ call' = [call EXCEPT ![c] = over] /\ SameCommands
    BY <1>0, <1>5 DEF Publish, SameCommands
  <2>2. /\ over \in CallState /\ over.pc = "done"
        /\ over.cmd = call[c].cmd /\ over.req = call[c].req /\ over.patch = call[c].patch
    BY <2>1 DEF CallState
  <2>3. call[c].cmd # None =>
            call[c].cmd \in ledger /\ call[c].cmd.req = call[c].req /\ call[c].cmd.patch = call[c].patch
    BY DEF LedgerInv, CallerGetsItsCommand
  <2> QED
    BY <2>1, <2>2, <2>3, CallGoesOn
<1>6. CASE LampStep \/ Disconnect \/ PowerCut \/ UNCHANGED vars
  <2>1. UNCHANGED backend
    BY <1>6 DEF LampStep, Start, Connect, Persist, ReportState, HandleRetry, HandleStale,
                HandleCommand, Deliver, Disconnect, PowerCut, vars, backend
  <2> QED
    BY <2>1, LedgerKept DEF backend, SameCommands
<1>7. CASE Release \/ \E r \in up : ApplyState(r)
  <2>1. SameCommands /\ UNCHANGED call
    <3>1. CASE Release
      BY <1>0, <3>1 DEF Release, SameCommands, RowState
    <3>2. ASSUME NEW r \in up, ApplyState(r) PROVE SameCommands /\ UNCHANGED call
      BY <1>0, <3>2 DEF ApplyState, SameCommands, RowState
    <3> QED
      BY <1>7, <3>1, <3>2
  <2> QED
    BY <2>1, LedgerKept
<1> QED
  BY <1>1, <1>2, <1>3, <1>4, <1>5, <1>6, <1>7 DEF CommandNext, CallStep

LEMMA InitLedger == CommandInit => LedgerInv
<1> SUFFICES ASSUME CommandInit PROVE LedgerInv
  OBVIOUS
<1>1. ledger = {} /\ row.seq = 0 /\ \A c \in Call : call[c].pc = "idle" /\ call[c].cmd = None
  BY DEF CommandInit, NoCall
<1> QED
  BY <1>1 DEF LedgerInv, NoUpdateLost, CallerGetsItsCommand

LEMMA LedgerInvariant == Commands => []LedgerInv
BY InitLedger, NextLedger, TypeInvariant, PTL DEF Commands

(* NoUpdateLost: however many invocations read and reserve concurrently,   *)
(* each command is its predecessor with its own change applied.            *)
THEOREM NoUpdateIsLost == Commands => []NoUpdateLost
<1>1. LedgerInv => NoUpdateLost
  BY DEF LedgerInv
<1> QED
  BY <1>1, LedgerInvariant, PTL

(* CallerGetsItsCommand: a repeated request is answered with the command   *)
(* of its request id and change, whichever invocation reserved it.         *)
THEOREM CallersGetTheirCommands == Commands => []CallerGetsItsCommand
<1>1. LedgerInv => CallerGetsItsCommand
  BY DEF LedgerInv
<1> QED
  BY <1>1, LedgerInvariant, PTL

----------------------------------------------------------------------------
(* What the lamp holds *)

\* The rank of a command id among the commands L: SeqOfId, of any ledger.
RankIn(L, id) == IF id = None THEN 0 ELSE (CHOOSE c \in L : c.id = id).seq
OrderedBy(L, o) == \E e \in L : o = OrderOf(e)
\* A state that some command of L asks for, not older than an order.
ShownBy(L, o, s) == o # None => \E e \in L : e.state = s /\ e.seq >= o.seq

(* Behind AckedIsDurable: the record in flash is never behind what the     *)
(* lamp answers by, a command being applied is newer than both, and the    *)
(* LED shows a command not older than the last, rolled back or not.        *)
LampInv ==
    /\ \A m \in down : OrderedBy(ledger, m)
    /\ \A o \in {nvs, lamp.last, lamp.job} : o # None => OrderedBy(ledger, o)
    /\ lamp.pc # "off" => SeqOf(lamp.last) <= SeqOf(nvs) /\ ShownBy(ledger, lamp.last, lamp.led)
    /\ lamp.pc = "persist" =>
        /\ SeqOf(lamp.job) > SeqOf(lamp.last)
        /\ lamp.led = lamp.job.state
        /\ ShownBy(ledger, lamp.last, lamp.prev)

(* The rank of a command of the ledger is its sequence.                    *)
LEMMA RankOfCommand ==
    ASSUME NEW L, L \subseteq Command, \A e, f \in L : e.id = f.id => e = f
    PROVE  RankIn(L, None) = 0 /\ \A e \in L : RankIn(L, e.id) = e.seq
<1>1. ASSUME NEW e \in L PROVE RankIn(L, e.id) = e.seq
  <2>1. e.id # None
    BY DEF Command
  <2>2. (CHOOSE c \in L : c.id = e.id) = e
    OBVIOUS
  <2> QED
    BY <2>1, <2>2 DEF RankIn
<1> QED
  BY <1>1 DEF RankIn

(* An order's sequence and what it takes from its command.                 *)
LEMMA SeqOfOrder ==
    ASSUME NEW L, L \subseteq Command
    PROVE  /\ SeqOf(None) = 0
           /\ \A o \in Order : o # None /\ SeqOf(o) = o.seq /\ IdOf(o) = o.id /\ o.seq \in Nat
           /\ \A o \in Maybe(Order) : SeqOf(o) \in Nat
           /\ \A e \in L : /\ OrderOf(e).id = e.id /\ OrderOf(e).seq = e.seq
                           /\ OrderOf(e).state = e.state /\ e.seq \in Nat
<1>1. \A o \in Order : o # None /\ o.seq \in Nat
  BY DEF Order
<1>2. \A o \in Order : SeqOf(o) = o.seq /\ IdOf(o) = o.id
  BY <1>1 DEF SeqOf, IdOf
<1>3. \A e \in L : /\ OrderOf(e).id = e.id /\ OrderOf(e).seq = e.seq
                   /\ OrderOf(e).state = e.state /\ e.seq \in Nat
  BY DEF OrderOf, Command
<1> QED
  BY <1>1, <1>2, <1>3 DEF SeqOf, Maybe

(* The ledger only grows, and an invocation that publishes has its command *)
(* there.                                                                  *)
LEMMA BackendStep ==
    ASSUME TypeInv, LedgerInv,
           \/ \E c \in Call : CallStep(c) \/ \E r \in Request, p \in Patch : Begin(c, r, p)
           \/ Release \/ \E r \in up : ApplyState(r)
    PROVE  /\ ledger \subseteq ledger'
           /\ \A m \in down' \ down : OrderedBy(ledger, m)
           /\ nvs' = nvs /\ lamp'.pc = lamp.pc /\ lamp'.last = lamp.last /\ lamp'.job = lamp.job
           /\ lamp'.led = lamp.led /\ lamp'.prev = lamp.prev /\ lamp'.boot = lamp.boot /\ lamp'.n = lamp.n
<1>1. ASSUME NEW c \in Call, Publish(c)
      PROVE  \A m \in down' \ down : OrderedBy(ledger, m)
  <2>1. call[c].cmd \in ledger
    BY <1>1 DEF Publish, TypeInv, CallRuns, LedgerInv, CallerGetsItsCommand
  <2> QED
    BY <1>1, <2>1 DEF Publish, OrderedBy
<1>2. ASSUME NEW c \in Call, CallStep(c)
      PROVE  ledger \subseteq ledger' /\ UNCHANGED <<lamp, nvs>> /\ (down' # down => Publish(c))
  BY <1>2 DEF CallStep, ReadDevice, Reserve, Lookup, Publish
<1>3. CASE Release
  <2>1. lamp \in LampState
    BY DEF TypeInv, CommandTypeOK
  <2> QED
    BY <1>3, <2>1 DEF Release, LampState
<1>4. CASE \E c \in Call, r \in Request, p \in Patch : Begin(c, r, p)
  BY <1>4 DEF Begin
<1>5. CASE \E r \in up : ApplyState(r)
  BY <1>5 DEF ApplyState
<1> QED
  BY <1>1, <1>2, <1>3, <1>4, <1>5

(* The states of the lamp that matter here, after each of its steps.       *)
LEMMA LampMoves ==
    ASSUME TypeInv, LampStep \/ Disconnect \/ PowerCut
    PROVE  /\ UNCHANGED ledger /\ down' \subseteq down
           /\ \/ Start
              \/ \E m \in down : HandleCommand(m)
              \/ Persist
              \/ /\ lamp'.pc \in {lamp.pc, "idle"} /\ lamp.pc \in {"idle", "report"}
                 /\ lamp'.last = lamp.last /\ lamp'.led = lamp.led /\ lamp'.job = lamp.job /\ nvs' = nvs
              \/ PowerCut
<1>0. lamp \in LampState /\ lamp.n \in 0 .. MaxReports
  BY DEF TypeInv, CommandTypeOK, LampRuns
<1>1. UNCHANGED ledger /\ down' \subseteq down
  BY TakenLess DEF LampStep, Start, Connect, Persist, ReportState, HandleRetry, HandleStale,
     HandleCommand, Deliver, Disconnect, PowerCut, backend
<1>2. CASE Connect
  <2>1. lamp' = [[lamp EXCEPT !.online = TRUE] EXCEPT !.n = @ + 1] /\ lamp.pc = "idle" /\ nvs' = nvs
    BY <1>2 DEF Connect, PublishState
  <2> QED
    BY <1>0, <1>1, <2>1 DEF LampState
<1>3. CASE ReportState
  <2>1. lamp' = [[lamp EXCEPT !.pc = "idle"] EXCEPT !.n = @ + 1] /\ lamp.pc = "report" /\ nvs' = nvs
    BY <1>3 DEF ReportState, PublishState
  <2> QED
    BY <1>0, <1>1, <2>1 DEF LampState
<1>4. ASSUME NEW m \in down, HandleRetry(m) \/ HandleStale(m)
      PROVE  /\ lamp'.pc = lamp.pc /\ lamp.pc = "idle"
             /\ lamp'.last = lamp.last /\ lamp'.led = lamp.led /\ lamp'.job = lamp.job /\ nvs' = nvs
  <2>1. (lamp' = lamp \/ lamp' = [lamp EXCEPT !.n = @ + 1]) /\ lamp.pc = "idle" /\ nvs' = nvs
    BY <1>4 DEF HandleRetry, HandleStale, Deliver, PublishState
  <2> QED
    BY <1>0, <2>1 DEF LampState
<1>5. CASE Disconnect
  BY <1>0, <1>1, <1>5 DEF Disconnect, LampState
<1> QED
  BY <1>1, <1>2, <1>3, <1>4, <1>5 DEF LampStep

(* Every step keeps LampInv.                                               *)
LEMMA NextLamp == TypeInv /\ LedgerInv /\ LampInv /\ [CommandNext]_vars => LampInv'
<1> SUFFICES ASSUME TypeInv, LedgerInv, LampInv, [CommandNext]_vars PROVE LampInv'
  OBVIOUS
<1>0. lamp \in LampState /\ nvs \in Maybe(Order) /\ ledger \subseteq Command /\ down \subseteq Order
  BY DEF TypeInv, CommandTypeOK
<1>1. lamp.last \in Maybe(Order) /\ lamp.job \in Maybe(Order)
  BY <1>0, LampFields
<1>2. CASE \/ \E c \in Call : CallStep(c) \/ \E r \in Request, p \in Patch : Begin(c, r, p)
           \/ Release \/ \E r \in up : ApplyState(r)
  <2>1. /\ ledger \subseteq ledger'
        /\ \A m \in down' \ down : OrderedBy(ledger, m)
        /\ nvs' = nvs /\ lamp'.pc = lamp.pc /\ lamp'.last = lamp.last /\ lamp'.job = lamp.job
        /\ lamp'.led = lamp.led /\ lamp'.prev = lamp.prev
    BY <1>2, BackendStep
  <2>2. \A o : OrderedBy(ledger, o) => OrderedBy(ledger', o)
    BY <2>1 DEF OrderedBy
  <2>3. \A o, s : ShownBy(ledger, o, s) => ShownBy(ledger', o, s)
    BY <2>1 DEF ShownBy
  <2>4. \A m \in down' : OrderedBy(ledger', m)
    BY <2>1, <2>2 DEF LampInv
  <2>5. \A o \in {nvs', lamp'.last, lamp'.job} : o # None => OrderedBy(ledger', o)
    BY <2>1, <2>2 DEF LampInv
  <2>6. SeqOf(lamp.last)' = SeqOf(lamp.last) /\ SeqOf(nvs)' = SeqOf(nvs) /\ SeqOf(lamp.job)' = SeqOf(lamp.job)
    BY <2>1 DEF SeqOf
  <2>7. lamp'.pc # "off" => SeqOf(lamp.last)' <= SeqOf(nvs)' /\ ShownBy(ledger', lamp'.last, lamp'.led)
    BY <2>1, <2>3, <2>6 DEF LampInv
  <2>8. lamp'.pc = "persist" =>
            /\ SeqOf(lamp.job)' > SeqOf(lamp.last)'
            /\ lamp'.led = lamp'.job.state
            /\ ShownBy(ledger', lamp'.last, lamp'.prev)
    BY <2>1, <2>3, <2>6 DEF LampInv
  <2> QED
    BY <2>4, <2>5, <2>7, <2>8 DEF LampInv
<1>3. CASE UNCHANGED vars
  BY <1>3 DEF vars, LampInv, SeqOf
<1>4. CASE LampStep \/ Disconnect \/ PowerCut
  <2>0. ledger' = ledger /\ \A m \in down' : OrderedBy(ledger, m)
    BY <1>4, LampMoves DEF LampInv
  <2>1. CASE Start
    <3>1. lamp'.pc = "idle" /\ lamp'.last = nvs /\ lamp'.job = None /\ nvs' = nvs
          /\ lamp'.led = IF nvs = None THEN Dark ELSE nvs.state
      BY <1>0, <2>1 DEF Start, LampState
    <3>2. ShownBy(ledger, nvs, lamp'.led)
      <4> SUFFICES ASSUME nvs # None PROVE \E e \in ledger : e.state = nvs.state /\ e.seq >= nvs.seq
        BY <3>1 DEF ShownBy
      <4>1. PICK e \in ledger : nvs = OrderOf(e)
        BY DEF LampInv, OrderedBy
      <4> QED
        BY <1>0, <4>1, SeqOfOrder
    <3>3. SeqOf(nvs) <= SeqOf(nvs)
      BY <1>0, SeqOfOrder
    <3> QED
      BY <2>0, <3>1, <3>2, <3>3 DEF LampInv
  <2>2. ASSUME NEW m \in down, HandleCommand(m) PROVE LampInv'
    <3>0. m \in Order /\ OrderedBy(ledger, m) /\ lamp.pc = "idle" /\ nvs' = nvs
      BY <1>0, <2>2 DEF LampInv, HandleCommand, Deliver
    <3>1. lamp'.pc = "persist" /\ lamp'.job = m /\ lamp'.led = m.state /\ lamp'.prev = lamp.led
          /\ lamp'.last = lamp.last
      BY <1>0, <2>2 DEF HandleCommand, LampState
    <3>2. PICK e \in ledger : m = OrderOf(e)
      BY <3>0 DEF OrderedBy
    <3>3. m.seq = e.seq /\ m.state = e.state /\ e.seq \in Nat /\ e.seq >= 1 /\ SeqOf(m) = m.seq
      BY <1>0, <3>0, <3>2, SeqOfOrder DEF LedgerInv, NoUpdateLost
    <3>4. SeqOf(m) > SeqOf(lamp.last)
      <4>1. CASE lamp.last = None
        BY <3>3, <4>1, SeqOfOrder DEF SeqOf
      <4>2. CASE lamp.last # None
        <5>1. SeqOf(lamp.last) = lamp.last.seq /\ lamp.last.seq \in Nat
          BY <1>0, <1>1, <4>2, SeqOfOrder DEF Maybe
        <5>2. ~(m.seq <= lamp.last.seq)
          BY <2>2, <4>2 DEF HandleCommand, Rejected
        <5> QED
          BY <3>3, <5>1, <5>2
      <4> QED
        BY <4>1, <4>2
    <3>5. ShownBy(ledger, lamp.last, m.state)
      <4> SUFFICES ASSUME lamp.last # None PROVE e.seq >= lamp.last.seq
        BY <3>3 DEF ShownBy
      <4>1. SeqOf(lamp.last) = lamp.last.seq /\ lamp.last.seq \in Nat
        BY <1>0, <1>1, SeqOfOrder DEF Maybe
      <4> QED
        BY <3>3, <3>4, <4>1
    <3>6. ShownBy(ledger, lamp.last, lamp.led) /\ SeqOf(lamp.last) <= SeqOf(nvs)
      BY <3>0 DEF LampInv
    <3> QED
      BY <2>0, <3>0, <3>1, <3>4, <3>5, <3>6 DEF LampInv
  <2>3. CASE Persist
    <3>0. /\ lamp.pc = "persist" /\ SeqOf(lamp.job) > SeqOf(lamp.last) /\ SeqOf(lamp.last) <= SeqOf(nvs)
          /\ lamp.led = lamp.job.state /\ lamp.job # None /\ OrderedBy(ledger, lamp.job)
          /\ ShownBy(ledger, lamp.last, lamp.prev) /\ ShownBy(ledger, lamp.last, lamp.led)
          /\ SeqOf(lamp.job) \in Nat /\ SeqOf(lamp.last) \in Nat
      BY <1>0, <1>1, <2>3, SeqOfOrder DEF Persist, LampInv, TypeInv, LampRuns
    <3>1. ShownBy(ledger, lamp.job, lamp.led)
      <4>1. PICK e \in ledger : lamp.job = OrderOf(e)
        BY <3>0 DEF OrderedBy
      <4>2. e.state = lamp.led /\ e.seq >= lamp.job.seq
        BY <1>0, <3>0, <4>1, SeqOfOrder
      <4> QED
        BY <4>2 DEF ShownBy
    <3>2. CASE nvs' = lamp.job /\ lamp' = [lamp EXCEPT !.pc = "report", !.last = lamp.job, !.job = None]
      <4>1. lamp'.pc = "report" /\ lamp'.last = lamp.job /\ lamp'.job = None /\ lamp'.led = lamp.led
        BY <1>0, <3>2 DEF LampState
      <4>2. SeqOf(lamp.job) <= SeqOf(lamp.job)
        BY <3>0
      <4> QED
        BY <2>0, <3>0, <3>1, <3>2, <4>1, <4>2 DEF LampInv
    <3>3. CASE /\ nvs' \in {nvs, lamp.job}
               /\ \/ lamp' = [lamp EXCEPT !.pc = "report", !.led = lamp.prev, !.job = None]
                  \/ lamp' = [lamp EXCEPT !.pc = "idle", !.job = None]
      <4>1. /\ lamp'.pc \in {"report", "idle"} /\ lamp'.last = lamp.last /\ lamp'.job = None
            /\ lamp'.led \in {lamp.prev, lamp.led}
        BY <1>0, <3>3 DEF LampState
      <4>2. SeqOf(lamp.last) <= SeqOf(nvs') /\ (nvs' # None => OrderedBy(ledger, nvs'))
        BY <3>0, <3>3 DEF LampInv
      <4>3. ShownBy(ledger, lamp.last, lamp'.led)
        BY <3>0, <4>1
      <4>4. lamp.last # None => OrderedBy(ledger, lamp.last)
        BY DEF LampInv
      <4> QED
        BY <2>0, <4>1, <4>2, <4>3, <4>4 DEF LampInv
    <3> QED
      BY <2>3, <3>2, <3>3 DEF Persist
  <2>4. CASE /\ lamp'.pc \in {lamp.pc, "idle"} /\ lamp.pc \in {"idle", "report"}
             /\ lamp'.last = lamp.last /\ lamp'.led = lamp.led /\ lamp'.job = lamp.job /\ nvs' = nvs
    BY <2>0, <2>4 DEF LampInv
  <2>5. CASE PowerCut
    <3>1. lamp'.pc = "off" /\ lamp'.last = None /\ lamp'.job = None /\ nvs' = nvs
      BY <1>0, <2>5 DEF PowerCut, LampState
    <3> QED
      BY <2>0, <3>1 DEF LampInv
  <2> QED
    BY <1>4, <2>1, <2>2, <2>3, <2>4, <2>5, LampMoves
<1> QED
  BY <1>2, <1>3, <1>4 DEF CommandNext

LEMMA InitLamp == CommandInit => LampInv
<1> SUFFICES ASSUME CommandInit PROVE LampInv
  OBVIOUS
<1>1. down = {} /\ nvs = None /\ lamp.last = None /\ lamp.job = None /\ lamp.pc = "off"
  BY DEF CommandInit
<1> QED
  BY <1>1 DEF LampInv

LEMMA LampInvariant == Commands => []LampInv
BY InitLamp, NextLamp, TypeInvariant, LedgerInvariant, PTL DEF Commands

----------------------------------------------------------------------------
(* What the lamp acknowledged *)

\* The row holds the last report it took.
Shown == [at |-> row.at, id |-> row.applied, state |-> row.reported]
Reports == up \cup {Shown}

\* A report names a command of L, and shows it or a newer one.
SoundBy(L, r) == r.id # None =>
    /\ \E e \in L : e.id = r.id
    /\ \E e \in L : e.state = r.state /\ e.seq >= RankIn(L, r.id)

(* Behind AckedIsDurable, ShownIsCurrent and AppliedGoesForward: a newer   *)
(* report never names an older command, and none is ahead of the lamp.     *)
AckInv ==
    /\ \A r \in Reports :
        /\ SoundBy(ledger, r)
        /\ RankIn(ledger, r.id) <= SeqOf(nvs)
        /\ lamp.pc # "off" => RankIn(ledger, r.id) <= SeqOf(lamp.last)
        /\ ~Newer(r.at, <<lamp.boot, lamp.n>>)
    /\ \A r, s \in Reports : Newer(r.at, s.at) => RankIn(ledger, s.id) <= RankIn(ledger, r.id)

(* The ranks and times of reports are numbers.                             *)
LEMMA ReportsType ==
    ASSUME TypeInv, LedgerInv, AckInv
    PROVE  /\ RankIn(ledger, None) = 0
           /\ \A e \in ledger : RankIn(ledger, e.id) = e.seq /\ e.seq \in Nat /\ e.seq >= 1
           /\ \A r \in Reports : RankIn(ledger, r.id) \in Nat /\ r.at \in Nat \X Nat
<1>1. ledger \subseteq Command /\ \A e, f \in ledger : e.id = f.id => e = f
  BY DEF TypeInv, CommandTypeOK, LedgerInv, NoUpdateLost
<1>2. RankIn(ledger, None) = 0 /\ \A e \in ledger : RankIn(ledger, e.id) = e.seq
  BY <1>1, RankOfCommand
<1>3. \A e \in ledger : e.seq \in Nat /\ e.seq >= 1
  BY <1>1 DEF Command, LedgerInv, NoUpdateLost
<1>4. \A r \in Reports : RankIn(ledger, r.id) \in Nat
  BY <1>2, <1>3 DEF AckInv, SoundBy
<1>5. row.at \in Nat \X Nat /\ \A r \in up : r.at \in Nat \X Nat
  BY DEF TypeInv, CommandTypeOK, RowState, Report
<1>6. \A r \in Reports : r.at \in Nat \X Nat
  BY <1>5 DEF Reports, Shown
<1> QED
  BY <1>2, <1>3, <1>4, <1>6

(* Ingest only ever shows a report, and an acknowledgement is never        *)
(* followed by a report that names no command.                             *)
LEMMA ApplyShows ==
    ASSUME TypeInv, LedgerInv, AckInv, NEW r \in up, ApplyState(r)
    PROVE  /\ Shown' = Shown \/ (Shown' = r /\ Newer(r.at, row.at))
           /\ Reports' \subseteq Reports
<1>0. r \in Report /\ row \in RowState
  BY DEF TypeInv, CommandTypeOK
<1>1. Shown' = Shown \/ (Shown' = r /\ Newer(r.at, row.at))
  <2>1. CASE row' = row
    BY <2>1 DEF Shown
  <2>2. CASE /\ Newer(r.at, row.at)
             /\ row' = [row EXCEPT !.status = "ACTIVE", !.reported = r.state, !.at = r.at,
                                   !.applied = IF r.id = None THEN @ ELSE r.id]
    <3>1. r.id = None => row.applied = None
      <4> SUFFICES ASSUME r.id = None, row.applied # None PROVE FALSE
        OBVIOUS
      <4>1. r \in Reports /\ Shown \in Reports /\ Shown.at = row.at /\ Shown.id = row.applied
        BY DEF Reports, Shown
      <4>2. RankIn(ledger, row.applied) <= RankIn(ledger, r.id)
        BY <2>2, <4>1 DEF AckInv
      <4>3. PICK e \in ledger : e.id = row.applied
        BY <4>1 DEF AckInv, SoundBy
      <4> QED
        BY <4>2, <4>3, ReportsType
    <3>2. row'.at = r.at /\ row'.reported = r.state /\ row'.applied = r.id
      BY <1>0, <2>2, <3>1 DEF RowState
    <3>3. r = [at |-> r.at, id |-> r.id, state |-> r.state]
      BY <1>0 DEF Report
    <3> QED
      BY <2>2, <3>2, <3>3 DEF Shown
  <2> QED
    BY <2>1, <2>2 DEF ApplyState
<1>2. up' \subseteq up
  BY TakenLess DEF ApplyState
<1> QED
  BY <1>1, <1>2 DEF Reports

(* A command keeps its rank while the ledger grows.                        *)
LEMMA RanksStay ==
    ASSUME TypeInv, LedgerInv, TypeInv', LedgerInv', ledger \subseteq ledger'
    PROVE  /\ \A e \in ledger : RankIn(ledger', e.id) = RankIn(ledger, e.id)
           /\ RankIn(ledger', None) = RankIn(ledger, None)
<1>1. ledger \subseteq Command /\ \A e, f \in ledger : e.id = f.id => e = f
  BY DEF TypeInv, CommandTypeOK, LedgerInv, NoUpdateLost
<1>2. ledger' \subseteq Command /\ \A e, f \in ledger' : e.id = f.id => e = f
  BY DEF TypeInv, CommandTypeOK, LedgerInv, NoUpdateLost
<1> QED
  BY <1>1, <1>2, RankOfCommand

(* So a report stays as sound as it was.                                   *)
LEMMA SoundStays ==
    ASSUME TypeInv, LedgerInv, TypeInv', LedgerInv', ledger \subseteq ledger'
    PROVE  \A r : SoundBy(ledger, r) =>
               SoundBy(ledger', r) /\ RankIn(ledger', r.id) = RankIn(ledger, r.id)
<1> SUFFICES ASSUME NEW r, SoundBy(ledger, r)
             PROVE  SoundBy(ledger', r) /\ RankIn(ledger', r.id) = RankIn(ledger, r.id)
  OBVIOUS
<1>1. CASE r.id = None
  BY <1>1, RanksStay DEF SoundBy
<1>2. CASE r.id # None
  <2>1. PICK e \in ledger : e.id = r.id
    BY <1>2 DEF SoundBy
  <2>2. RankIn(ledger', r.id) = RankIn(ledger, r.id)
    BY <2>1, RanksStay
  <2> QED
    BY <1>2, <2>2 DEF SoundBy
<1> QED
  BY <1>1, <1>2

(* The backend's steps keep AckInv: none takes the row back.               *)
LEMMA BackendAcks ==
    ASSUME TypeInv, LedgerInv, AckInv, TypeInv', LedgerInv',
           ledger \subseteq ledger', Reports' \subseteq Reports, nvs' = nvs,
           lamp'.pc = lamp.pc, lamp'.last = lamp.last, lamp'.boot = lamp.boot, lamp'.n = lamp.n
    PROVE  AckInv'
<1>1. SeqOf(nvs)' = SeqOf(nvs) /\ SeqOf(lamp.last)' = SeqOf(lamp.last)
  BY DEF SeqOf
<1>2. \A r \in Reports : SoundBy(ledger', r) /\ RankIn(ledger', r.id) = RankIn(ledger, r.id)
  BY SoundStays DEF AckInv
<1>3. \A r \in Reports' :
          /\ SoundBy(ledger', r)
          /\ RankIn(ledger', r.id) <= SeqOf(nvs)'
          /\ lamp'.pc # "off" => RankIn(ledger', r.id) <= SeqOf(lamp.last)'
          /\ ~Newer(r.at, <<lamp'.boot, lamp'.n>>)
  BY <1>1, <1>2 DEF AckInv
<1>4. \A r, s \in Reports' : Newer(r.at, s.at) => RankIn(ledger', s.id) <= RankIn(ledger', r.id)
  BY <1>2 DEF AckInv
<1> QED
  BY <1>3, <1>4 DEF AckInv

(* The lamp reports its last command under the next number.                *)
LEMMA ReportAcks ==
    ASSUME TypeInv, LedgerInv, LampInv, AckInv, UNCHANGED <<ledger, row, nvs>>,
           NEW l \in LampState, l.boot = lamp.boot, l.n = lamp.n, l.last = lamp.last, l.led = lamp.led,
           lamp.pc # "off", PublishState(l)
    PROVE  AckInv'
<1> DEFINE new == ReportOf(l)
<1>0. /\ lamp.boot \in Nat /\ lamp.n \in Nat /\ lamp.last \in Maybe(Order)
      /\ ledger \subseteq Command /\ lamp.boot \in 1 .. MaxBoots /\ lamp.n \in 0 .. MaxReports
      /\ up \subseteq Report
  BY LampFields DEF TypeInv, CommandTypeOK, LampRuns, LampState
<1>1. /\ Reports' \subseteq Reports \cup {new}
      /\ lamp'.pc = l.pc /\ lamp'.last = lamp.last /\ lamp'.boot = lamp.boot /\ lamp'.n = lamp.n + 1
  BY <1>0, PublishType DEF Reports, Shown
<1>2. new.at = <<lamp.boot, lamp.n + 1>> /\ new.id = IdOf(lamp.last) /\ new.state = lamp.led
  BY DEF ReportOf
<1>3. SoundBy(ledger, new) /\ RankIn(ledger, new.id) = SeqOf(lamp.last)
  <2>1. CASE lamp.last = None
    BY <1>0, <1>2, <2>1, ReportsType DEF SoundBy, IdOf, SeqOf
  <2>2. CASE lamp.last # None
    <3>1. PICK e \in ledger : lamp.last = OrderOf(e)
      BY <2>2 DEF LampInv, OrderedBy
    <3>2. lamp.last \in Order
      BY <1>0, <2>2 DEF Maybe
    <3>3. new.id = e.id /\ lamp.last.seq = e.seq /\ SeqOf(lamp.last) = e.seq
      BY <1>0, <1>2, <3>1, <3>2, SeqOfOrder
    <3>4. RankIn(ledger, new.id) = e.seq
      BY <3>3, ReportsType
    <3>5. \E f \in ledger : f.state = new.state /\ f.seq >= lamp.last.seq
      BY <1>2, <2>2 DEF LampInv, ShownBy
    <3> QED
      BY <3>3, <3>4, <3>5 DEF SoundBy
  <2> QED
    BY <2>1, <2>2
<1>4. SeqOf(lamp.last) \in Nat /\ SeqOf(lamp.last) <= SeqOf(nvs)
  BY <1>0, SeqOfOrder DEF LampInv
<1> HIDE DEF new
<1>5. \A r \in Reports : r.at \in Nat \X Nat /\ ~Newer(r.at, <<lamp.boot, lamp.n>>)
  BY ReportsType DEF AckInv
<1>6. \A r \in Reports : ~Newer(r.at, new.at) /\ ~Newer(r.at, <<lamp.boot, lamp.n + 1>>)
  BY <1>0, <1>2, <1>5 DEF Newer
<1>7. ~Newer(new.at, new.at) /\ ~Newer(new.at, <<lamp.boot, lamp.n + 1>>)
  BY <1>0, <1>2 DEF Newer
<1>8. \A r \in Reports : RankIn(ledger, r.id) <= SeqOf(lamp.last) /\ RankIn(ledger, r.id) <= SeqOf(nvs)
  BY DEF AckInv
<1>9. \A r \in Reports \cup {new} :
          /\ SoundBy(ledger, r)
          /\ RankIn(ledger, r.id) <= SeqOf(nvs)
          /\ RankIn(ledger, r.id) <= SeqOf(lamp.last)
          /\ ~Newer(r.at, <<lamp.boot, lamp.n + 1>>)
  BY <1>3, <1>4, <1>6, <1>7, <1>8 DEF AckInv
<1>10. \A r, s \in Reports \cup {new} : Newer(r.at, s.at) => RankIn(ledger, s.id) <= RankIn(ledger, r.id)
  BY <1>3, <1>6, <1>7, <1>8 DEF AckInv
<1> QED
  BY <1>1, <1>9, <1>10 DEF AckInv

(* Every step keeps AckInv.                                                *)
LEMMA NextAcks ==
    ASSUME TypeInv, LedgerInv, LampInv, AckInv, TypeInv', LedgerInv', [CommandNext]_vars
    PROVE  AckInv'
<1>0. /\ lamp \in LampState /\ nvs \in Maybe(Order) /\ ledger \subseteq Command
      /\ lamp.boot \in Nat /\ lamp.n \in Nat
  BY DEF TypeInv, CommandTypeOK, LampState
<1>1. CASE \E c \in Call : CallStep(c) \/ \E r \in Request, p \in Patch : Begin(c, r, p)
  <2>1. Reports' = Reports
    <3>1. UNCHANGED up /\ row'.at = row.at /\ row'.applied = row.applied /\ row'.reported = row.reported
      <4>1. row \in RowState
        BY DEF TypeInv, CommandTypeOK
      <4> QED
        BY <1>1, <4>1 DEF CallStep, Begin, ReadDevice, Reserve, Lookup, Publish, RowState
    <3> QED
      BY <3>1 DEF Reports, Shown
  <2> QED
    BY <1>1, <2>1, BackendStep, BackendAcks
<1>2. CASE Release
  <2>1. Reports' = Reports
    <3>1. row \in RowState
      BY DEF TypeInv, CommandTypeOK
    <3> QED
      BY <1>2, <3>1 DEF Release, RowState, Reports, Shown
  <2> QED
    BY <1>2, <2>1, BackendStep, BackendAcks
<1>3. CASE \E r \in up : ApplyState(r)
  <2>1. Reports' \subseteq Reports
    BY <1>3, ApplyShows
  <2> QED
    BY <1>3, <2>1, BackendStep, BackendAcks
<1>4. CASE UNCHANGED vars
  BY <1>4, BackendAcks DEF vars, Reports, Shown
<1>5. CASE Connect
  <2> DEFINE l == [lamp EXCEPT !.online = TRUE]
  <2>1. /\ l \in LampState /\ l.boot = lamp.boot /\ l.n = lamp.n /\ l.last = lamp.last /\ l.led = lamp.led
        /\ lamp.pc # "off"
    BY <1>0, <1>5 DEF Connect, LampState
  <2>2. PublishState(l) /\ UNCHANGED <<ledger, row, nvs>>
    BY <1>5 DEF Connect, backend
  <2> HIDE DEF l
  <2> QED
    BY <2>1, <2>2, ReportAcks
<1>6. CASE ReportState
  <2> DEFINE l == [lamp EXCEPT !.pc = "idle"]
  <2>1. /\ l \in LampState /\ l.boot = lamp.boot /\ l.n = lamp.n /\ l.last = lamp.last /\ l.led = lamp.led
        /\ lamp.pc # "off"
    BY <1>0, <1>6 DEF ReportState, LampState
  <2>2. PublishState(l) /\ UNCHANGED <<ledger, row, nvs>>
    BY <1>6 DEF ReportState, backend
  <2> HIDE DEF l
  <2> QED
    BY <2>1, <2>2, ReportAcks
<1>7. ASSUME NEW m \in down, HandleRetry(m) PROVE AckInv'
  <2>1. PublishState(lamp) /\ UNCHANGED <<ledger, row, nvs>> /\ lamp.pc # "off"
    BY <1>7 DEF HandleRetry, Deliver, backend
  <2> QED
    BY <1>0, <2>1, ReportAcks
\* The other steps of the lamp report nothing.
<1>8. ASSUME Reports' = Reports, ledger' = ledger,
             \A r \in Reports : RankIn(ledger, r.id) <= SeqOf(nvs'),
             lamp'.pc # "off" =>
                 \A r \in Reports : RankIn(ledger, r.id) <= SeqOf(lamp'.last),
             \A r \in Reports : ~Newer(r.at, <<lamp'.boot, lamp'.n>>)
      PROVE  AckInv'
  BY <1>8 DEF AckInv
<1>9. ASSUME NEW m \in down, HandleStale(m) \/ HandleCommand(m) PROVE AckInv'
  <2>1. /\ Reports' = Reports /\ ledger' = ledger /\ nvs' = nvs
        /\ lamp'.last = lamp.last /\ lamp'.boot = lamp.boot /\ lamp'.n = lamp.n /\ lamp.pc # "off"
    BY <1>0, <1>9 DEF HandleStale, HandleCommand, Deliver, backend, LampState, Reports, Shown
  <2> QED
    BY <1>8, <2>1 DEF AckInv
<1>10. CASE Disconnect
  <2>1. /\ Reports' = Reports /\ ledger' = ledger /\ nvs' = nvs
        /\ lamp'.last = lamp.last /\ lamp'.boot = lamp.boot /\ lamp'.n = lamp.n /\ lamp.pc # "off"
    BY <1>0, <1>10 DEF Disconnect, backend, LampState, Reports, Shown
  <2> QED
    BY <1>8, <2>1 DEF AckInv
<1>11. CASE PowerCut
  <2>1. /\ Reports' = Reports /\ ledger' = ledger /\ nvs' = nvs
        /\ lamp'.boot = lamp.boot /\ lamp'.n = lamp.n /\ lamp'.pc = "off"
    BY <1>0, <1>11 DEF PowerCut, backend, LampState, Reports, Shown
  <2> QED
    BY <1>8, <2>1 DEF AckInv
<1>12. CASE Start
  <2>1. /\ Reports' = Reports /\ ledger' = ledger /\ nvs' = nvs
        /\ lamp'.last = nvs /\ lamp'.boot = lamp.boot + 1 /\ lamp'.n = 0
    BY <1>0, <1>12 DEF Start, backend, LampState, Reports, Shown
  <2>2. \A r \in Reports : r.at \in Nat \X Nat /\ ~Newer(r.at, <<lamp.boot, lamp.n>>)
    BY ReportsType DEF AckInv
  <2>3. \A r \in Reports : ~Newer(r.at, <<lamp.boot + 1, 0>>)
    BY <1>0, <2>2 DEF Newer
  <2> QED
    BY <1>8, <2>1, <2>3 DEF AckInv
<1>13. CASE Persist
  <2>1. /\ lamp.pc = "persist" /\ SeqOf(lamp.job) > SeqOf(lamp.last)
        /\ SeqOf(lamp.job) \in Nat /\ SeqOf(lamp.last) \in Nat
    BY <1>0, <1>13, LampFields, SeqOfOrder DEF Persist, LampInv
  <2>2. /\ Reports' = Reports /\ ledger' = ledger
        /\ nvs' \in {nvs, lamp.job} /\ lamp'.last \in {lamp.last, lamp.job}
        /\ lamp'.boot = lamp.boot /\ lamp'.n = lamp.n
    <3>1. UNCHANGED <<ledger, row, up>> /\ nvs' \in {nvs, lamp.job}
      BY <1>13 DEF Persist, backend
    <3>2. lamp'.last \in {lamp.last, lamp.job} /\ lamp'.boot = lamp.boot /\ lamp'.n = lamp.n
      BY <1>0, <1>13 DEF Persist, LampState
    <3> QED
      BY <3>1, <3>2 DEF Reports, Shown
  <2>3. \A r \in Reports : /\ RankIn(ledger, r.id) \in Nat
                           /\ RankIn(ledger, r.id) <= SeqOf(nvs)
                           /\ RankIn(ledger, r.id) <= SeqOf(lamp.last)
                           /\ ~Newer(r.at, <<lamp.boot, lamp.n>>)
    BY <2>1, ReportsType DEF AckInv
  <2>4. \A r \in Reports : RankIn(ledger, r.id) <= SeqOf(lamp.job)
    BY <2>1, <2>3
  <2> QED
    BY <1>8, <2>2, <2>3, <2>4
<1> QED
  BY <1>1, <1>2, <1>3, <1>4, <1>5, <1>6, <1>7, <1>9, <1>10, <1>11, <1>12, <1>13
     DEF CommandNext, LampStep

LEMMA InitAcks == CommandInit => AckInv
<1> SUFFICES ASSUME CommandInit PROVE AckInv
  OBVIOUS
<1>1. Reports = {Shown} /\ Shown.id = None /\ Shown.at = <<0, 0>> /\ lamp.boot = 0 /\ lamp.n = 0
      /\ nvs = None /\ lamp.last = None
  BY DEF CommandInit, Reports, Shown
<1>2. RankIn(ledger, None) = 0 /\ SeqOf(None) = 0
  BY DEF RankIn, SeqOf
<1> QED
  BY <1>1, <1>2 DEF AckInv, SoundBy, Newer

LEMMA AckInvariant == Commands => []AckInv
BY InitAcks, NextAcks, TypeInvariant, LedgerInvariant, LampInvariant, PTL DEF Commands

(* AckedIsDurable: no report, under way or shown, names a command newer    *)
(* than the record in flash or than what a running lamp answers by.        *)
THEOREM AcksAreDurable == Commands => []AckedIsDurable
<1>1. AckInv => AckedIsDurable
  <2> SUFFICES ASSUME AckInv, NEW id \in {r.id : r \in up} \cup {row.applied}
               PROVE  /\ SeqOfId(id) <= SeqOf(nvs)
                      /\ lamp.pc # "off" => SeqOfId(id) <= SeqOf(lamp.last)
    BY DEF AckedIsDurable
  <2>1. \E r \in Reports : r.id = id
    <3>1. Shown \in Reports /\ Shown.id = row.applied /\ up \subseteq Reports
      BY DEF Reports, Shown
    <3> QED
      BY <3>1
  <2>2. SeqOfId(id) = RankIn(ledger, id)
    BY DEF SeqOfId, RankIn
  <2> QED
    BY <2>1, <2>2 DEF AckInv
<1> QED
  BY <1>1, AckInvariant, PTL

(* ShownIsCurrent is AckInv of what the row shows.                         *)
LEMMA ShownStep == AckInv => ShownIsCurrent
<1> SUFFICES ASSUME AckInv, row.applied # None
             PROVE  \E e \in ledger : e.state = row.reported /\ e.seq >= SeqOfId(row.applied)
  BY DEF ShownIsCurrent
<1>1. Shown \in Reports /\ Shown.id = row.applied /\ Shown.state = row.reported
  BY DEF Reports, Shown
<1>2. SeqOfId(row.applied) = RankIn(ledger, row.applied)
  BY DEF SeqOfId, RankIn
<1> QED
  BY <1>1, <1>2 DEF AckInv, SoundBy

(* ShownIsCurrent: the state the app shows was asked for by the command it *)
(* shows as applied, or by a newer one.                                    *)
THEOREM ShownIsAlwaysCurrent == Commands => []ShownIsCurrent
BY ShownStep, AckInvariant, PTL

(* NotPendingIsApplied: when the last command is the applied one, the lamp *)
(* has reported the state that was asked for.                              *)
THEOREM NotPendingIsAlwaysApplied == Commands => []NotPendingIsApplied
<1>1. TypeInv /\ LedgerInv /\ AckInv => NotPendingIsApplied
  <2> SUFFICES ASSUME TypeInv, LedgerInv, AckInv, row.last # None, row.applied = row.last
               PROVE  row.reported = row.desired
    BY DEF NotPendingIsApplied
  <2>1. PICK e \in ledger : e.state = row.reported /\ e.seq >= SeqOfId(row.applied)
    BY ShownStep DEF ShownIsCurrent
  <2>2. SeqOfId(row.applied) = RankIn(ledger, row.applied)
    BY DEF SeqOfId, RankIn
  <2>3. PICK a \in ledger : a.id = row.applied
    <3>1. Shown \in Reports /\ Shown.id = row.applied /\ row.applied # None
      BY DEF Reports, Shown
    <3> QED
      BY <3>1 DEF AckInv, SoundBy
  <2>4. RankIn(ledger, row.applied) = a.seq /\ a.seq \in Nat /\ a.seq >= 1
    BY <2>3, ReportsType
  <2>5. row.seq \in Nat /\ a.seq <= row.seq /\ e.seq \in Nat /\ e.seq <= row.seq
    BY DEF LedgerInv, NoUpdateLost, TypeInv, CommandTypeOK, RowState, Command
  <2>6. PICK f \in ledger : f.seq = row.seq
    BY <2>4, <2>5 DEF LedgerInv, NoUpdateLost
  <2>7. f.id = row.last
    BY <2>6 DEF LedgerInv, NoUpdateLost
  <2>8. a = f
    BY <2>3, <2>7 DEF LedgerInv, NoUpdateLost
  <2>9. e.seq = row.seq
    BY <2>1, <2>2, <2>4, <2>5, <2>6, <2>8
  <2> QED
    BY <2>1, <2>9 DEF LedgerInv, NoUpdateLost
<1> QED
  BY <1>1, TypeInvariant, LedgerInvariant, AckInvariant, PTL

(* No step takes the row back to an older command.                         *)
LEMMA StepForward ==
    ASSUME TypeInv, LedgerInv, AckInv, TypeInv', LedgerInv', [CommandNext]_vars
    PROVE  [SeqOfId(row.applied)' >= SeqOfId(row.applied)]_vars
<1>0. Shown \in Reports /\ Shown.id = row.applied /\ Shown.at = row.at /\ Shown'.id = row'.applied
  BY DEF Reports, Shown
<1>1. /\ SeqOfId(row.applied) = RankIn(ledger, row.applied)
      /\ SeqOfId(row.applied)' = RankIn(ledger', row'.applied)
  BY DEF SeqOfId, RankIn
<1>2. RankIn(ledger, row.applied) \in Nat
  BY <1>0, ReportsType
<1>3. ASSUME NEW r \in up, ApplyState(r)
      PROVE  RankIn(ledger', row'.applied) >= RankIn(ledger, row.applied)
  <2>1. r \in Reports /\ ledger' = ledger
    BY <1>3 DEF Reports, ApplyState
  <2>2. CASE Shown' = Shown
    BY <1>0, <1>2, <2>1, <2>2
  <2>3. CASE Shown' = r /\ Newer(r.at, row.at)
    <3>1. RankIn(ledger, row.applied) <= RankIn(ledger, r.id)
      BY <1>0, <2>1, <2>3 DEF AckInv
    <3>2. RankIn(ledger, r.id) \in Nat /\ row'.applied = r.id
      BY <1>0, <2>1, <2>3, ReportsType
    <3> QED
      BY <1>2, <2>1, <3>1, <3>2
  <2> QED
    BY <1>3, <2>2, <2>3, ApplyShows
<1>4. ASSUME row'.applied = row.applied, ledger \subseteq ledger'
      PROVE  RankIn(ledger', row'.applied) >= RankIn(ledger, row.applied)
  <2>1. PICK r \in Reports : r.id = row.applied
    BY <1>0
  <2>2. RankIn(ledger', r.id) = RankIn(ledger, r.id)
    BY <1>4, SoundStays DEF AckInv
  <2> QED
    BY <1>2, <1>4, <2>1, <2>2
<1>5. CASE LampStep \/ Disconnect \/ PowerCut
  <2>1. UNCHANGED backend
    BY <1>5 DEF LampStep, Start, Connect, Persist, ReportState, HandleRetry, HandleStale,
                HandleCommand, Deliver, Disconnect, PowerCut
  <2> QED
    BY <1>1, <1>4, <2>1 DEF backend
<1>6. CASE \E c \in Call : CallStep(c) \/ \E r \in Request, p \in Patch : Begin(c, r, p)
  <2>1. row \in RowState
    BY DEF TypeInv, CommandTypeOK
  <2>2. row'.applied = row.applied /\ ledger \subseteq ledger'
    BY <1>6, <2>1 DEF CallStep, Begin, ReadDevice, Reserve, Lookup, Publish, RowState
  <2> QED
    BY <1>1, <1>4, <2>2
<1>7. CASE Release
  <2>1. row \in RowState
    BY DEF TypeInv, CommandTypeOK
  <2>2. row'.applied = row.applied /\ ledger \subseteq ledger'
    BY <1>7, <2>1 DEF Release, RowState
  <2> QED
    BY <1>1, <1>4, <2>2
<1> QED
  BY <1>1, <1>3, <1>5, <1>6, <1>7 DEF CommandNext

(* A late or repeated report never brings an older command back into the   *)
(* row.                                                                    *)
AppliedGoesForward ==
    [][SeqOfId(row.applied)' >= SeqOfId(row.applied)]_vars

THEOREM AppliedAlwaysForward == Commands => AppliedGoesForward
BY StepForward, TypeInvariant, LedgerInvariant, AckInvariant, PTL DEF Commands, AppliedGoesForward

----------------------------------------------------------------------------
(* The register: what the rows and the lamp promise together *)

\* A state that a command of L asks for, or that of a lamp never commanded.
KnownIn(L, s) == s = Dark \/ \E e \in L : e.state = s
\* A request as the register has it, and all of them.
Entry == [req : Request, patch : Patch, state : State]
EntryOf(e) == [req |-> e.req, patch |-> e.patch, state |-> e.state]

(* Behind CommandsAsPromised: there is a command for every number, the     *)
(* first one changes the state of a lamp never commanded, and what is      *)
(* shown or reported without naming a command was asked for, too.          *)
FollowInv ==
    /\ \A n \in 1 .. row.seq : \E e \in ledger : e.seq = n
    /\ row.seq = 0 => row.desired = None
    /\ \A c \in Call : call[c].pc = "write" /\ call[c].seen = 0 => call[c].base = Dark
    /\ KnownIn(ledger, row.reported) /\ KnownIn(ledger, lamp.led) /\ KnownIn(ledger, lamp.prev)
    /\ \A r \in up : KnownIn(ledger, r.state)

(* Steps that leave the row's requests alone, and the lamp as it is.       *)
LEMMA FollowKept ==
    ASSUME FollowInv, SameCommands,
           \A c \in Call : call'[c].pc = "write" =>
               call[c].pc = "write" /\ call'[c].seen = call[c].seen /\ call'[c].base = call[c].base,
           KnownIn(ledger, row'.reported), KnownIn(ledger, lamp'.led), KnownIn(ledger, lamp'.prev),
           \A r \in up' : KnownIn(ledger, r.state)
    PROVE  FollowInv'
BY DEF FollowInv, SameCommands

(* A step of an invocation keeps FollowInv.                                *)
LEMMA CallFollow ==
    ASSUME TypeInv, LedgerInv, FollowInv, NEW c \in Call,
           CallStep(c) \/ \E r \in Request, p \in Patch : Begin(c, r, p)
    PROVE  FollowInv'
<1>0. /\ call \in [Call -> CallState] /\ call[c] \in CallState /\ row \in RowState
      /\ ledger \subseteq Command /\ row.seq \in Nat
  BY DEF TypeInv, CommandTypeOK, RowState
<1>1. ASSUME NEW job \in CallState, job.pc # "write", call' = [call EXCEPT ![c] = job],
             UNCHANGED <<row, ledger, lamp, up>>
      PROVE  FollowInv'
  <2>1. \A d \in Call : call'[d].pc = "write" => call'[d] = call[d]
    BY <1>0, <1>1, CallSet
  <2> QED
    BY <1>1, <2>1, FollowKept DEF FollowInv, SameCommands
<1>2. CASE \E r \in Request, p \in Patch : Begin(c, r, p)
  <2> PICK r \in Request, p \in Patch : Begin(c, r, p)
    BY <1>2
  <2> DEFINE job == [call[c] EXCEPT !.pc = "read", !.req = r, !.patch = p]
  <2>1. job \in CallState /\ job.pc = "read"
    BY <1>0 DEF CallState, Maybe
  <2> QED
    BY <1>1, <2>1 DEF Begin
<1>3. CASE ReadDevice(c)
  <2> DEFINE base == IF row.desired = None THEN row.reported ELSE row.desired
             job == [call[c] EXCEPT !.pc = "write", !.seen = row.seq, !.base = base]
  <2>1. CASE call' = [call EXCEPT ![c].pc = "done"]
    <3>1. [call[c] EXCEPT !.pc = "done"] \in CallState /\ [call[c] EXCEPT !.pc = "done"].pc = "done"
      BY <1>0, CallFields DEF CallState
    <3> QED
      BY <1>1, <1>3, <2>1, <3>1 DEF ReadDevice
  <2>2. CASE call' = [call EXCEPT ![c] = job]
    <3>1. base \in State
      BY <1>0 DEF RowState, Maybe
    <3>2. row.seq = 0 => base = Dark
      <4> SUFFICES ASSUME row.seq = 0 PROVE row.reported = Dark
        BY DEF FollowInv
      <4>1. ledger = {}
        BY DEF LedgerInv, NoUpdateLost
      <4> QED
        BY <4>1 DEF FollowInv, KnownIn
    <3>3. job \in CallState /\ job.seen = row.seq /\ job.base = base
      BY <1>0, <3>1 DEF CallState
    <3> HIDE DEF job, base
    <3>4. call'[c] = job /\ \A d \in Call \ {c} : call'[d] = call[d]
      BY <1>0, <2>2, <3>3, CallSet
    <3>5. \A d \in Call : call'[d].pc = "write" /\ call'[d].seen = 0 => call'[d].base = Dark
      BY <3>2, <3>3, <3>4 DEF FollowInv
    <3> QED
      BY <1>3, <3>5 DEF ReadDevice, FollowInv
  <2> QED
    BY <1>3, <2>1, <2>2 DEF ReadDevice
<1>4. CASE Reserve(c)
  <2>1. CASE Reservable(c)
    <3> DEFINE new == NewCommand(c)
               job == [call[c] EXCEPT !.pc = "publish", !.cmd = new]
    <3>1. new \in Command /\ new.seq = row.seq + 1
      BY <1>4, <2>1, NewCommandType DEF Reserve, Reservable, NewCommand
    <3>2. job \in CallState /\ job.pc = "publish" /\ call' = [call EXCEPT ![c] = job]
      BY <1>0, <1>4, <2>1, <3>1 DEF CallState, Maybe, Reserve
    <3>3. /\ ledger' = ledger \cup {new} /\ UNCHANGED <<lamp, up>>
          /\ row'.seq = row.seq + 1 /\ row'.reported = row.reported
      <4>1. /\ ledger' = ledger \cup {new} /\ UNCHANGED <<lamp, up>>
            /\ row' = [row EXCEPT !.seq = call[c].seen + 1, !.last = c, !.desired = new.state]
            /\ row.seq = call[c].seen
        BY <1>4, <2>1 DEF Reserve, Reservable
      <4> HIDE DEF new
      <4> QED
        BY <1>0, <4>1 DEF RowState
    <3> HIDE DEF new, job
    <3>4. \A d \in Call : call'[d].pc = "write" => call'[d] = call[d]
      BY <1>0, <3>2, CallSet
    <3>5. \A n \in 1 .. row'.seq : \E e \in ledger' : e.seq = n
      <4> SUFFICES ASSUME NEW n \in 1 .. row.seq + 1 PROVE \E e \in ledger' : e.seq = n
        BY <3>3
      <4>1. CASE n = row.seq + 1
        BY <3>1, <3>3, <4>1
      <4>2. CASE n \in 1 .. row.seq
        BY <3>3, <4>2 DEF FollowInv
      <4> QED
        BY <1>0, <4>1, <4>2
    <3>6. \A s : KnownIn(ledger, s) => KnownIn(ledger', s)
      BY <3>3 DEF KnownIn
    <3>7. row'.seq # 0
      BY <1>0, <3>3
    <3> QED
      BY <3>3, <3>4, <3>5, <3>6, <3>7 DEF FollowInv
  <2>2. CASE ~Reservable(c)
    <3>1. [call[c] EXCEPT !.pc = "lookup"] \in CallState /\ [call[c] EXCEPT !.pc = "lookup"].pc = "lookup"
      BY <1>0, CallFields DEF CallState
    <3> QED
      BY <1>1, <1>4, <2>2, <3>1 DEF Reserve
  <2> QED
    BY <2>1, <2>2
<1>5. CASE Lookup(c)
  <2>1. PICK job \in CallState : job.pc # "write" /\ call' = [call EXCEPT ![c] = job]
    <3>1. CASE call' = [call EXCEPT ![c].pc = "read"]
      <4>1. [call[c] EXCEPT !.pc = "read"] \in CallState /\ [call[c] EXCEPT !.pc = "read"].pc = "read"
        BY <1>0, CallFields DEF CallState
      <4> QED
        BY <3>1, <4>1
    <3>2. ASSUME NEW e \in ledger,
                 call' = [call EXCEPT ![c] =
                    IF e.patch = @.patch THEN [@ EXCEPT !.pc = "publish", !.cmd = e]
                                         ELSE [@ EXCEPT !.pc = "done"]]
          PROVE  \E job \in CallState : job.pc # "write" /\ call' = [call EXCEPT ![c] = job]
      <4> DEFINE found == [call[c] EXCEPT !.pc = "publish", !.cmd = e]
                 none == [call[c] EXCEPT !.pc = "done"]
      <4>1. e \in Command
        BY <1>0
      <4>2. found \in CallState /\ found.pc = "publish" /\ none \in CallState /\ none.pc = "done"
        BY <1>0, <4>1 DEF CallState, Maybe
      <4>3. call' = [call EXCEPT ![c] = found] \/ call' = [call EXCEPT ![c] = none]
        BY <3>2
      <4> QED
        BY <4>2, <4>3
    <3> QED
      BY <1>5, <3>1, <3>2 DEF Lookup
  <2> QED
    BY <1>1, <1>5, <2>1 DEF Lookup
<1>6. CASE Publish(c)
  <2>1. [call[c] EXCEPT !.pc = "done"] \in CallState /\ [call[c] EXCEPT !.pc = "done"].pc = "done"
    BY <1>0, CallFields DEF CallState
  <2> QED
    BY <1>1, <1>6, <2>1 DEF Publish
<1> QED
  BY <1>2, <1>3, <1>4, <1>5, <1>6 DEF CallStep

(* A step of the lamp keeps FollowInv: it shows and reports what it was    *)
(* asked for, kept in flash, or showed before.                             *)
LEMMA LampFollow ==
    ASSUME TypeInv, LedgerInv, LampInv, FollowInv, LampStep \/ Disconnect \/ PowerCut
    PROVE  FollowInv'
<1>0. /\ lamp \in LampState /\ nvs \in Maybe(Order) /\ ledger \subseteq Command /\ down \subseteq Order
      /\ up \subseteq Report /\ lamp.boot \in 0 .. MaxBoots /\ lamp.n \in 0 .. MaxReports
  BY DEF TypeInv, CommandTypeOK, LampRuns
<1>1. UNCHANGED backend
  BY DEF LampStep, Start, Connect, Persist, ReportState, HandleRetry, HandleStale,
         HandleCommand, Deliver, Disconnect, PowerCut
<1>2. ASSUME KnownIn(ledger, lamp'.led), KnownIn(ledger, lamp'.prev),
             \A r \in up' : KnownIn(ledger, r.state)
      PROVE  FollowInv'
  BY <1>1, <1>2, FollowKept DEF FollowInv, SameCommands, backend
<1>3. ASSUME NEW l \in LampState, l.boot = lamp.boot, l.n = lamp.n, l.led = lamp.led, l.prev = lamp.prev,
             lamp.pc # "off", PublishState(l)
      PROVE  FollowInv'
  <2>1. lamp.boot \in 1 .. MaxBoots
    BY <1>0, <1>3 DEF TypeInv, LampRuns
  <2>2. lamp'.led = lamp.led /\ lamp'.prev = lamp.prev /\ up' \subseteq up \cup {ReportOf(l)}
    BY <1>0, <1>3, <2>1, PublishType
  <2>3. ReportOf(l).state = lamp.led
    BY <1>3 DEF ReportOf
  <2> QED
    BY <1>2, <2>2, <2>3 DEF FollowInv
<1>4. CASE Connect
  <2> DEFINE l == [lamp EXCEPT !.online = TRUE]
  <2>1. /\ l \in LampState /\ l.boot = lamp.boot /\ l.n = lamp.n /\ l.led = lamp.led /\ l.prev = lamp.prev
        /\ lamp.pc # "off" /\ PublishState(l)
    BY <1>0, <1>4 DEF Connect, LampState
  <2> QED
    BY <1>3, <2>1
<1>5. CASE ReportState
  <2> DEFINE l == [lamp EXCEPT !.pc = "idle"]
  <2>1. /\ l \in LampState /\ l.boot = lamp.boot /\ l.n = lamp.n /\ l.led = lamp.led /\ l.prev = lamp.prev
        /\ lamp.pc # "off" /\ PublishState(l)
    BY <1>0, <1>5 DEF ReportState, LampState
  <2> QED
    BY <1>3, <2>1
<1>6. ASSUME NEW m \in down, HandleRetry(m) PROVE FollowInv'
  BY <1>0, <1>3, <1>6 DEF HandleRetry, Deliver
<1>7. CASE Disconnect \/ \E m \in down : HandleStale(m)
  <2>1. lamp'.led = lamp.led /\ lamp'.prev = lamp.prev /\ up' = up
    BY <1>0, <1>7 DEF Disconnect, HandleStale, LampState
  <2> QED
    BY <1>2, <2>1 DEF FollowInv
<1>8. ASSUME NEW m \in down, HandleCommand(m) PROVE FollowInv'
  <2>1. lamp'.led = m.state /\ lamp'.prev = lamp.led /\ up' = up
    BY <1>0, <1>8 DEF HandleCommand, LampState
  <2>2. KnownIn(ledger, m.state)
    BY <1>0, <1>8, SeqOfOrder DEF LampInv, OrderedBy, KnownIn
  <2> QED
    BY <1>2, <2>1, <2>2 DEF FollowInv
<1>9. CASE Start
  <2>1. lamp'.led = (IF nvs = None THEN Dark ELSE nvs.state) /\ lamp'.prev = lamp.prev /\ up' = up
    BY <1>0, <1>9 DEF Start, LampState
  <2>2. nvs # None => KnownIn(ledger, nvs.state)
    BY <1>0, SeqOfOrder DEF LampInv, OrderedBy, KnownIn
  <2>3. KnownIn(ledger, lamp'.led)
    BY <2>1, <2>2 DEF KnownIn
  <2> QED
    BY <1>2, <2>1, <2>3 DEF FollowInv
<1>10. CASE Persist
  <2>1. lamp'.led \in {lamp.led, lamp.prev} /\ lamp'.prev = lamp.prev /\ up' = up
    BY <1>0, <1>10 DEF Persist, LampState
  <2> QED
    BY <1>2, <2>1 DEF FollowInv
<1>11. CASE PowerCut
  <2>1. lamp'.led = Dark /\ lamp'.prev = lamp.prev /\ up' = up
    BY <1>0, <1>11 DEF PowerCut, LampState
  <2>2. KnownIn(ledger, Dark)
    BY DEF KnownIn
  <2> QED
    BY <1>2, <2>1, <2>2 DEF FollowInv
<1> QED
  BY <1>4, <1>5, <1>6, <1>7, <1>8, <1>9, <1>10, <1>11 DEF LampStep

(* Every step keeps FollowInv.                                             *)
LEMMA NextFollow ==
    TypeInv /\ LedgerInv /\ LampInv /\ FollowInv /\ [CommandNext]_vars => FollowInv'
<1> SUFFICES ASSUME TypeInv, LedgerInv, LampInv, FollowInv, [CommandNext]_vars PROVE FollowInv'
  OBVIOUS
<1>0. row \in RowState /\ lamp \in LampState
  BY DEF TypeInv, CommandTypeOK
<1>1. CASE UNCHANGED vars
  BY <1>1 DEF vars, FollowInv
<1>2. CASE Release
  <2>1. /\ SameCommands /\ UNCHANGED <<call, up>> /\ row'.reported = row.reported
        /\ lamp'.led = lamp.led /\ lamp'.prev = lamp.prev
    BY <1>0, <1>2 DEF Release, RowState, LampState, SameCommands
  <2> QED
    BY <2>1, FollowKept DEF FollowInv
<1>3. ASSUME NEW r \in up, ApplyState(r) PROVE FollowInv'
  <2>1. /\ SameCommands /\ UNCHANGED <<call, lamp>>
        /\ row'.reported \in {row.reported, r.state}
    BY <1>0, <1>3 DEF ApplyState, RowState, SameCommands
  <2>2. up' \subseteq up
    BY <1>3, TakenLess DEF ApplyState
  <2> QED
    BY <2>1, <2>2, FollowKept DEF FollowInv
<1> QED
  BY <1>1, <1>2, <1>3, CallFollow, LampFollow DEF CommandNext

LEMMA InitFollow == CommandInit => FollowInv
<1> SUFFICES ASSUME CommandInit PROVE FollowInv
  OBVIOUS
<1>1. /\ row.seq = 0 /\ row.desired = None /\ row.reported = Dark /\ up = {}
      /\ lamp.led = Dark /\ lamp.prev = Dark /\ \A c \in Call : call[c].pc = "idle"
  BY DEF CommandInit, NoCall
<1> QED
  BY <1>1 DEF FollowInv, KnownIn

LEMMA FollowInvariant == Commands => []FollowInv
BY InitFollow, NextFollow, TypeInvariant, LedgerInvariant, LampInvariant, PTL DEF Commands

(* The register's requests are the commands of the ledger by their numbers. *)
AskedFits ==
    /\ Asked \in Seq(Entry) /\ Len(Asked) = row.seq /\ row.seq \in Nat
    /\ \A e \in ledger : EntryOf(e) \in Entry /\ e.seq \in 1 .. row.seq /\ Asked[e.seq] = EntryOf(e)
    /\ \A n \in 1 .. row.seq : \E e \in ledger : e.seq = n /\ Asked[n] = EntryOf(e)

LEMMA AskedOf == TypeInv /\ LedgerInv /\ FollowInv => AskedFits
<1> SUFFICES ASSUME TypeInv, LedgerInv, FollowInv PROVE AskedFits
  OBVIOUS
<1>1. row.seq \in Nat /\ ledger \subseteq Command
  BY DEF TypeInv, CommandTypeOK, RowState
<1>2. \A e \in ledger : EntryOf(e) \in Entry /\ e.seq \in 1 .. row.seq
  BY <1>1 DEF Command, EntryOf, Entry, LedgerInv, NoUpdateLost
<1>3. ASSUME NEW e \in ledger PROVE Asked[e.seq] = EntryOf(e)
  <2>1. (CHOOSE c \in ledger : c.seq = e.seq) = e
    BY DEF LedgerInv, NoUpdateLost
  <2> QED
    BY <1>2, <2>1 DEF Asked, EntryOf
<1>4. \A n \in 1 .. row.seq : \E e \in ledger : e.seq = n /\ Asked[n] = EntryOf(e)
  BY <1>3 DEF FollowInv
<1>5. Asked = [n \in 1 .. row.seq |-> Asked[n]]
  BY DEF Asked
<1>6. \A n \in 1 .. row.seq : Asked[n] \in Entry
  BY <1>2, <1>4
<1>7. Asked \in Seq(Entry) /\ Len(Asked) = row.seq
  <2> DEFINE f == Asked
  <2>1. f = [n \in 1 .. row.seq |-> f[n]] /\ \A n \in 1 .. row.seq : f[n] \in Entry
    BY <1>5, <1>6
  <2> HIDE DEF f
  <2>2. f \in [1 .. row.seq -> Entry]
    BY <2>1
  <2>3. f \in Seq(Entry)
    BY <1>1, <2>2
  <2>4. DOMAIN f = 1 .. row.seq /\ DOMAIN f = 1 .. Len(f) /\ Len(f) \in Nat
    BY <2>2, <2>3
  <2>5. Len(f) = row.seq
    BY <1>1, <2>4
  <2> QED
    BY <2>3, <2>5 DEF f
<1> QED
  BY <1>1, <1>2, <1>3, <1>4, <1>7 DEF AskedFits

LEMMA AskedNext == (TypeInv /\ LedgerInv /\ FollowInv => AskedFits)'
BY AskedOf, PTL

(* Two sequences with the same elements are one.                           *)
LEMMA SameSequence ==
    ASSUME NEW S, NEW s \in Seq(S), NEW t \in Seq(S),
           Len(s) = Len(t), \A i \in 1 .. Len(s) : s[i] = t[i]
    PROVE  s = t
OBVIOUS

(* The register's state after n requests is that of the n-th command.      *)
LEMMA StateAfterOf ==
    ASSUME TypeInv, LedgerInv, FollowInv
    PROVE  \A e \in ledger : Register!StateAfter(e.seq) = e.state
<1> SUFFICES ASSUME NEW e \in ledger PROVE Register!StateAfter(e.seq) = e.state
  OBVIOUS
<1>1. e.seq \in 1 .. row.seq /\ Asked[e.seq] = EntryOf(e) /\ row.seq \in Nat
  BY AskedOf DEF AskedFits
<1>2. e.seq # 0 /\ EntryOf(e).state = e.state
  BY <1>1 DEF EntryOf
<1> QED
  BY <1>1, <1>2 DEF Register!StateAfter

(* A reservation is a request to the register.                             *)
LEMMA ReserveAsks ==
    ASSUME TypeInv, LedgerInv, FollowInv, TypeInv', LedgerInv', FollowInv',
           NEW c \in Call, Reserve(c), Reservable(c),
           SeqOfId(row.applied)' = SeqOfId(row.applied), row'.reported = row.reported
    PROVE  \E r \in Request, p \in Patch : Register!Ask(r, p)
<1> DEFINE new == NewCommand(c)
           r == call[c].req
           p == call[c].patch
<1>0. /\ call[c] \in CallState /\ row \in RowState /\ row.seq \in Nat /\ ledger \subseteq Command
      /\ call[c].pc = "write" /\ row.seq = call[c].seen /\ \A e \in ledger : e.req # r
  BY DEF TypeInv, CommandTypeOK, RowState, Reserve, Reservable
<1>1. r \in Request /\ p \in Patch
  BY <1>0, CallFields DEF TypeInv, CallRuns, Maybe
<1>2. /\ new \in Command /\ new.seq = row.seq + 1 /\ new.req = r /\ new.patch = p
      /\ new.state = Merge(call[c].base, p)
  BY <1>0, NewCommandType DEF NewCommand
<1>3. ledger' = ledger \cup {new} /\ row'.seq = row.seq + 1
  <2>1. /\ ledger' = ledger \cup {new}
        /\ row' = [row EXCEPT !.seq = call[c].seen + 1, !.last = c, !.desired = new.state]
    BY DEF Reserve
  <2> HIDE DEF new
  <2> QED
    BY <1>0, <2>1 DEF RowState
<1>4. call[c].base = Register!StateAfter(row.seq)
  <2>1. CASE row.seq = 0
    BY <1>0, <2>1 DEF FollowInv, Register!StateAfter
  <2>2. CASE row.seq # 0
    <3>1. PICK e \in ledger : e.seq = row.seq
      BY <1>0, <2>2 DEF LedgerInv, NoUpdateLost
    <3>2. e.state = row.desired /\ call[c].base = row.desired
      BY <1>0, <2>2, <3>1 DEF LedgerInv, NoUpdateLost
    <3> QED
      BY <3>1, <3>2, StateAfterOf
  <2> QED
    BY <2>1, <2>2
<1> HIDE DEF new, r, p
<1> DEFINE entry == EntryOf(new)
<1>5. /\ Asked \in Seq(Entry) /\ Len(Asked) = row.seq
      /\ \A i \in 1 .. row.seq : \E e \in ledger : e.seq = i /\ Asked[i] = EntryOf(e)
      /\ \A e \in ledger : Asked[e.seq] = EntryOf(e)
  BY AskedOf DEF AskedFits
<1>6. /\ Asked' \in Seq(Entry) /\ Len(Asked') = row.seq + 1
      /\ \A e \in ledger' : Asked'[e.seq] = EntryOf(e) /\ EntryOf(e) \in Entry
  BY <1>3, AskedNext DEF AskedFits
<1>7. entry \in Entry
  BY <1>3, <1>6
<1>8. Asked' = Append(Asked, entry)
  <2>1. /\ Append(Asked, entry) \in Seq(Entry) /\ Len(Append(Asked, entry)) = row.seq + 1
        /\ \A i \in 1 .. row.seq : Append(Asked, entry)[i] = Asked[i]
        /\ Append(Asked, entry)[row.seq + 1] = entry
    <3> DEFINE s == Asked
    <3>1. s \in Seq(Entry) /\ Len(s) = row.seq
      BY <1>5
    <3> HIDE DEF s, entry
    <3>2. /\ Append(s, entry) \in Seq(Entry) /\ Len(Append(s, entry)) = row.seq + 1
          /\ \A i \in 1 .. row.seq : Append(s, entry)[i] = s[i]
          /\ Append(s, entry)[row.seq + 1] = entry
      BY <1>0, <1>7, <3>1
    <3> QED
      BY <3>2 DEF s
  <2>2. \A i \in 1 .. row.seq : Asked'[i] = Asked[i]
    BY <1>3, <1>5, <1>6
  <2>3. Asked'[row.seq + 1] = entry
    BY <1>2, <1>3, <1>6
  <2>4. \A i \in 1 .. row.seq + 1 : i \in 1 .. row.seq \/ i = row.seq + 1
    BY <1>0
  <2>5. \A i \in 1 .. Len(Asked') : Asked'[i] = Append(Asked, entry)[i]
    BY <1>6, <2>1, <2>2, <2>3, <2>4
  <2> QED
    BY <1>6, <2>1, <2>5, SameSequence
<1>9. entry = [req |-> r, patch |-> p, state |-> Register!Changed(Register!StateAfter(row.seq), p)]
  BY <1>2, <1>4 DEF EntryOf, Merge, Register!Changed
<1>10. \A i \in 1 .. Len(Asked) : Asked[i].req # r
  <2> SUFFICES ASSUME NEW i \in 1 .. row.seq PROVE Asked[i].req # r
    BY <1>5
  <2>1. PICK e \in ledger : Asked[i] = EntryOf(e)
    BY <1>5
  <2>2. EntryOf(e).req = e.req
    BY DEF EntryOf
  <2> QED
    BY <1>0, <2>1, <2>2
<1> QED
  BY <1>1, <1>5, <1>8, <1>9, <1>10 DEF Register!Ask

(* A report that is taken is shown by the register.                        *)
LEMMA ReportShows ==
    ASSUME TypeInv, LedgerInv, AckInv, FollowInv, NEW r \in up, ApplyState(r),
           Shown' = r, Newer(r.at, row.at)
    PROVE  \E n, m \in 0 .. Len(Asked) : Register!Show(n, m)
<1>1. /\ r \in Reports /\ Shown \in Reports /\ Shown.at = row.at /\ Shown.id = row.applied
      /\ row'.applied = r.id /\ row'.reported = r.state
  BY DEF Reports, Shown
<1>2. ledger' = ledger /\ row'.seq = row.seq /\ Len(Asked) = row.seq /\ row.seq \in Nat
  <2>1. row \in RowState
    BY DEF TypeInv, CommandTypeOK
  <2> QED
    BY <2>1, AskedOf DEF ApplyState, RowState, AskedFits
<1>3. Asked' = Asked
  BY <1>2 DEF Asked
<1> DEFINE n == RankIn(ledger, r.id)
<1>4. SeqOfId(row.applied) = RankIn(ledger, row.applied) /\ SeqOfId(row.applied)' = n
  BY <1>1, <1>2 DEF SeqOfId, RankIn
<1>5. RankIn(ledger, row.applied) <= n
  BY <1>1 DEF AckInv
<1>6. \A e \in ledger : e.seq \in 1 .. row.seq /\ RankIn(ledger, e.id) = e.seq
  BY AskedOf, ReportsType DEF AskedFits
<1>7. n \in 0 .. row.seq
  <2>1. r.id = None \/ \E e \in ledger : e.id = r.id
    BY <1>1 DEF AckInv, SoundBy
  <2> QED
    BY <1>2, <1>6, <2>1, ReportsType
<1>8. PICK m \in 0 .. row.seq : n <= m /\ Register!StateAfter(m) = r.state
  <2>1. CASE r.id # None
    <3>1. PICK e \in ledger : e.state = r.state /\ e.seq >= n
      BY <1>1, <2>1 DEF AckInv, SoundBy
    <3>2. e.seq \in 0 .. row.seq /\ n <= e.seq /\ Register!StateAfter(e.seq) = r.state
      BY <1>2, <1>6, <1>7, <3>1, StateAfterOf
    <3> QED
      BY <3>2
  <2>2. CASE r.id = None
    <3>1. n = 0
      BY <2>2, ReportsType
    <3>2. CASE r.state = Dark
      BY <1>2, <3>1, <3>2 DEF Register!StateAfter
    <3>3. CASE \E e \in ledger : e.state = r.state
      <4>1. PICK e \in ledger : e.state = r.state
        BY <3>3
      <4>2. e.seq \in 0 .. row.seq /\ 0 <= e.seq /\ Register!StateAfter(e.seq) = r.state
        BY <1>2, <1>6, <4>1, StateAfterOf
      <4> QED
        BY <3>1, <4>2
    <3> QED
      BY <3>2, <3>3 DEF FollowInv, KnownIn
  <2> QED
    BY <2>1, <2>2
<1> HIDE DEF n
<1>9. Register!Show(n, m)
  BY <1>1, <1>3, <1>4, <1>5, <1>8 DEF Register!Show
<1> QED
  BY <1>2, <1>7, <1>8, <1>9

(* Every step maps to a step of the register, or is not seen.              *)
LEMMA StepFollows ==
    TypeInv /\ LedgerInv /\ AckInv /\ FollowInv /\ TypeInv' /\ LedgerInv' /\ FollowInv'
            /\ [CommandNext]_vars
        => [Register!RNext]_Register!rvars
<1> SUFFICES ASSUME TypeInv, LedgerInv, AckInv, FollowInv, TypeInv', LedgerInv', FollowInv',
                    [CommandNext]_vars
             PROVE  [Register!RNext]_Register!rvars
  OBVIOUS
<1>0. row \in RowState
  BY DEF TypeInv, CommandTypeOK
<1>1. ASSUME ledger' = ledger, row'.seq = row.seq, row'.applied = row.applied,
             row'.reported = row.reported
      PROVE  UNCHANGED Register!rvars
  BY <1>1 DEF Asked, SeqOfId, Register!rvars
<1>2. CASE LampStep \/ Disconnect \/ PowerCut \/ UNCHANGED vars
  <2>1. UNCHANGED backend
    BY <1>2 DEF LampStep, Start, Connect, Persist, ReportState, HandleRetry, HandleStale,
                HandleCommand, Deliver, Disconnect, PowerCut, backend, vars
  <2> QED
    BY <1>1, <2>1 DEF backend
<1>3. CASE Release
  BY <1>0, <1>1, <1>3 DEF Release, RowState
<1>4. ASSUME NEW r \in up, ApplyState(r) PROVE [Register!RNext]_Register!rvars
  <2>1. CASE Shown' = Shown
    <3>1. ledger' = ledger /\ row'.seq = row.seq
      BY <1>0, <1>4 DEF ApplyState, RowState
    <3> QED
      BY <1>1, <2>1, <3>1 DEF Shown
  <2>2. CASE Shown' = r /\ Newer(r.at, row.at)
    BY <1>4, <2>2, ReportShows DEF Register!RNext
  <2> QED
    BY <1>4, <2>1, <2>2, ApplyShows
<1>5. ASSUME NEW c \in Call, Reserve(c), Reservable(c) PROVE [Register!RNext]_Register!rvars
  <2>1. row'.applied = row.applied /\ row'.reported = row.reported /\ ledger \subseteq ledger'
    BY <1>0, <1>5 DEF Reserve, RowState
  <2>2. SeqOfId(row.applied)' = SeqOfId(row.applied)
    <3>1. RankIn(ledger', row.applied) = RankIn(ledger, row.applied)
      <4>1. Shown \in Reports /\ Shown.id = row.applied
        BY DEF Reports, Shown
      <4> QED
        BY <2>1, <4>1, SoundStays DEF AckInv
    <3> QED
      BY <2>1, <3>1 DEF SeqOfId, RankIn
  <2> QED
    BY <1>5, <2>1, <2>2, ReserveAsks DEF Register!RNext
<1>6. ASSUME NEW c \in Call, CallStep(c), ~(Reserve(c) /\ Reservable(c)) PROVE UNCHANGED Register!rvars
  <2>1. ledger' = ledger /\ row' = row
    BY <1>6 DEF CallStep, ReadDevice, Reserve, Lookup, Publish
  <2> QED
    BY <1>1, <2>1
<1>7. CASE \E c \in Call, r \in Request, p \in Patch : Begin(c, r, p)
  BY <1>1, <1>7 DEF Begin
<1> QED
  BY <1>2, <1>3, <1>4, <1>5, <1>6, <1>7 DEF CommandNext

LEMMA InitFollows == CommandInit => Register!RInit
<1> SUFFICES ASSUME CommandInit PROVE Register!RInit
  OBVIOUS
<1>1. row.seq = 0 /\ row.applied = None /\ row.reported = Dark
  BY DEF CommandInit
<1>2. Asked = <<>>
  <2>1. Asked \in Seq(Entry) /\ Len(Asked) = 0
    BY <1>1, AskedOf, InitTypes, InitLedger, InitFollow DEF AskedFits
  <2> QED
    BY <2>1
<1> QED
  BY <1>1, <1>2 DEF Register!RInit, SeqOfId

(* CommandsAsPromised: whatever conflicts, retries, late or repeated       *)
(* reports and power cuts there are, the device is one register that       *)
(* requests change one after the other, and what the app shows follows it, *)
(* never back.                                                             *)
THEOREM CommandsFollowRegister == Commands => CommandsAsPromised
BY InitFollows, StepFollows, TypeInvariant, LedgerInvariant, AckInvariant, FollowInvariant, PTL
   DEF Commands, CommandsAsPromised, Register!RSpec
=============================================================================
