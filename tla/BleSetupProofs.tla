--------------------------- MODULE BleSetupProofs ---------------------------
(***************************************************************************)
(* What holds of BleSetup for any number of attempts and any set of lamps. *)
(* The properties compare the page's screen with the lamp, two ends that   *)
(* only share messages: the invariant BleInv says of everything between    *)
(* them (requests, jobs, promises, answers) what it is still about.  Each  *)
(* attempt of the page has one thing under way (OneEach, Asked, ScansFirst,*)
(* ResultsFit); so the shell's stage tells the module's session            *)
(* (ConnectingFits, SessionFits, ModuleFits), and the page's stage tells   *)
(* the shell's (CreateFits, PlaceFits, BoundFits, ListingFits).            *)
(***************************************************************************)
EXTENDS BleSetup, TLAPS

USE BleAssumption DEF BleAssumption

\* What page and shell send each other, and what the module settles a
\* promise with.
Message == [type : Request \cup {"cancelScan", "disconnect", "ready"},
            attempt : Maybe(Attempt), lamp : Maybe(Lamp)]
Final == {"connected", "created", "networks", "provisioned"}
AnswerType == Final \cup {"snapshot", "found", "scanned", "blocked", "error"}
Answer == [type : AnswerType, of : Request, attempt : Maybe(Attempt), lamp : Maybe(Lamp)]
Result == [op : Request \ {"scan"}, attempt : Attempt, ok : BOOLEAN]

\* What is in a channel; the attempts that were begun.
Elems(s) == {s[i] : i \in 1 .. Len(s)}
Sent == Elems(toNative)
Told == Elems(toPage)
Begun == 1 .. attempts

\* The channels, which BleTypeOK leaves out, are typed.
ChannelsOK ==
    /\ attempts \in 0 .. MaxAttempt
    /\ toNative \in Seq(Message) /\ toPage \in Seq(Answer) /\ results \in Seq(Result)

\* What is under way names an attempt that was begun, and a lamp where one
\* is needed.
MessageFits(m) ==
    /\ m.type # "ready" => m.attempt \in Begun
    /\ m.type \in Request \ {"scan"} => m.lamp \in Lamp

AnswerFits(m) ==
    /\ m.type = "connected" => m.of = "connect"
    /\ m.type = "created" => m.of = "create"
    /\ m.type = "networks" => m.of = "wifiScan"
    /\ m.type = "provisioned" => m.of = "provision"
    /\ m.type \in {"snapshot", "found", "scanned", "blocked"} => m.of = "scan"
    /\ m.attempt \in Begun \/ (m.attempt = None /\ m.type \in {"snapshot", "blocked"})
    /\ m.type \in Final \cup {"found"} => m.lamp \in Lamp

JobFits(j) ==
    /\ j.attempt \in Begun
    /\ j.op = "scan" <=> j.at = "permission"
    /\ j.op # "scan" => j.lamp \in Lamp
    /\ j.at \in {"server", "save"} => j.op = "create"
    /\ j.op = "create" => j.claim \in Lamp

Fitting ==
    /\ \A m \in Sent : MessageFits(m)
    /\ \A m \in Told : AnswerFits(m)
    /\ \A j \in jobs : JobFits(j)
    /\ ble.attempt \in Begun \cup {None}

\* The page's stage says what it waits for (pendingRef).
WantsFit(p) ==
    /\ p.stage = "scanning" => p.wants = {"scan"}
    /\ p.stage = "connecting" => p.wants = {"connect"}
    /\ p.stage = "provisioning" => p.wants \in {{"create"}, {"wifiScan"}, {"provision"}}
    /\ p.stage = "wifi" => p.wants \in {{}, {"wifiScan"}}
    /\ p.stage \in {"idle", "wifi-connected", "failed"} => p.wants = {}

PageFits ==
    /\ page.attempt = None => page = BlankPage
    /\ page.attempt # None => page.attempt = attempts
    /\ WantsFit(page)
    /\ page.listing <=> "wifiScan" \in page.wants
    /\ page.stage \in {"connecting", "provisioning", "wifi"} => page.connected \in Lamp

\* What the shell answers with one reply, and that reply.
IsAsk(m) == m.type \in Request
IsReply(m) == m.of # "scan"

\* Of every attempt there is one request, job or reply: the page asks for
\* the next thing when it has the answer, and the shell answers once.
OneEachOf(tn, tp, js) ==
    /\ \A i, n \in 1 .. Len(tn) :
         IsAsk(tn[i]) /\ IsAsk(tn[n]) /\ tn[i].attempt = tn[n].attempt => i = n
    /\ \A i, n \in 1 .. Len(tp) :
         IsReply(tp[i]) /\ IsReply(tp[n]) /\ tp[i].attempt = tp[n].attempt => i = n
    /\ \A i, j \in js : i.attempt = j.attempt => i = j
    /\ \A i \in 1 .. Len(tn) : IsAsk(tn[i]) =>
         /\ \A j \in js : j.attempt # tn[i].attempt
         /\ \A n \in 1 .. Len(tp) : IsReply(tp[n]) => tp[n].attempt # tn[i].attempt
    /\ \A j \in js, n \in 1 .. Len(tp) : IsReply(tp[n]) => tp[n].attempt # j.attempt

OneEach == OneEachOf(toNative, toPage, jobs)

\* What is under way of the page's attempt is what it waits for, about the
\* lamp it shows.
Asked ==
    /\ \A m \in Sent : m.type \notin {"scan", "ready"} /\ m.attempt = page.attempt =>
         m.type \in page.wants /\ m.lamp = page.connected
    /\ \A j \in jobs : j.op # "scan" /\ j.attempt = page.attempt =>
         j.op \in page.wants /\ j.lamp = page.connected
    /\ \A m \in Told : IsReply(m) /\ m.attempt = page.attempt =>
         /\ m.of \in page.wants
         /\ m.type \in {"connected", "networks", "provisioned"} => m.lamp = page.connected

\* A scan of attempt b was asked for and has not begun.
Scans(b) ==
    \/ \E m \in Sent : m.type = "scan" /\ m.attempt = b
    \/ \E j \in jobs : j.op = "scan" /\ j.attempt = b

\* Scans are asked for and begun in the order of their attempts.
ScanOrderOf(tn, js) ==
    /\ \A i, n \in 1 .. Len(tn) : i < n /\ tn[i].type = "scan" /\ tn[n].type = "scan"
         => tn[i].attempt < tn[n].attempt
    /\ \A i \in 1 .. Len(tn), j \in js : tn[i].type = "scan" /\ j.op = "scan"
         => j.attempt < tn[i].attempt

\* Until the scan of an attempt has begun, nothing else of that attempt
\* exists: the shell is in an earlier one, and the page has found no lamp.
ScansFirst ==
    /\ \A b \in Begun : Scans(b) =>
         /\ ble.attempt # None => ble.attempt < b
         /\ \A m \in Told : m.attempt # b
         /\ page.attempt = b => page.nearby = {} /\ page.stage \in {"scanning", "failed"}
    /\ ScanOrderOf(toNative, jobs)

\* A job among js awaits the promise of op for attempt a.
AwaitedIn(js, op, a) == \E j \in js : j.op = op /\ j.attempt = a /\ j.at = "module"

\* Every promise, pending or settled, is awaited by one job.
ResultsFitOf(res, mod, js) ==
    /\ mod.op # "none" => AwaitedIn(js, mod.op, mod.by)
    /\ \A i \in 1 .. Len(res) :
         /\ AwaitedIn(js, res[i].op, res[i].attempt)
         /\ mod.op # "none" => res[i].attempt # mod.by
         /\ \A n \in 1 .. Len(res) : res[n].attempt = res[i].attempt => n = i

ResultsFit == ResultsFitOf(results, module, jobs)

\* The stages of the shell in which it has a session, and those after one.
InUse == {"secure-session", "wifi", "provisioning"}
Late == InUse \cup {"failed", "wifi-connected"}

Pending(j) == module.op = j.op /\ module.by = j.attempt

\* Job j's connect is pending, or its result is on its way and says what
\* the module is in.
Connecting(j) ==
    \/ Pending(j) /\ module.target = j.lamp /\ module.session \in {None, j.lamp}
    \/ \E i \in 1 .. Len(results) :
         /\ results[i].op = "connect" /\ results[i].attempt = j.attempt
         /\ results[i].ok => i = Len(results) /\ module.op = "none" /\ module.session = j.lamp

\* Job j uses the session: its promise is pending in it, or its result is
\* the only one on its way.
Holding(j) ==
    \/ /\ results = <<>> /\ Pending(j) /\ module.session = ble.connected
       /\ j.op = "create" => module.claim = j.claim
    \/ /\ Len(results) = 1 /\ results[1].op = j.op /\ results[1].attempt = j.attempt
       /\ module.op = "none"
       /\ results[1].ok /\ j.op # "provision" =>
             /\ module.session = ble.connected
             /\ j.op = "create" => module.bound # None

\* The shell shows 'connecting' while its own connect is under way, and
\* only then.
ConnectingFits ==
    /\ ble.stage = "connecting" =>
         \E j \in jobs : /\ j.op = "connect" /\ j.attempt = ble.attempt /\ j.at = "module"
                         /\ Connecting(j)
    /\ \A j \in jobs : j.op = "connect" /\ j.attempt = ble.attempt => ble.stage = "connecting"

Working(ops) ==
    \E j \in jobs : /\ j.op \in ops /\ j.attempt = ble.attempt /\ j.at = "module" /\ j.fresh
                    /\ j.lamp = ble.connected /\ Holding(j)

\* The shell's stage tells what the module does: nothing, a scan for
\* networks, or a bind or a provisioning, in the session with the shell's
\* lamp.
SessionFits ==
    /\ ble.stage = "secure-session" =>
         results = <<>> /\ module.op = "none" /\ module.session = ble.connected
    /\ ble.stage = "wifi" => Working({"wifiScan"})
    /\ ble.stage = "provisioning" => Working({"create", "provision"})
    /\ ble.stage \in InUse => ble.connected \in Lamp /\ phone.registration \in {None, ble.connected}

\* A shell that is in no attempt has left no session behind.
LeftFits == ble.attempt = None => module = FreeModule /\ ble.stage = "idle"

\* The module works in its session only, binds the claim of its own lamp,
\* provisions after the bind, and believes in no binding that the lamp does
\* not have.
ModuleFits ==
    /\ module.op \in {"create", "wifiScan", "provision"} => module.session \in Lamp
    /\ module.op = "create" => module.claim = module.session
    /\ module.op = "connect" => module.target \in Lamp
    /\ module.bound # None => module.bound = module.session /\ lamp[module.session].bound = module.session
    /\ module.op = "create" /\ module.done => lamp[module.session].bound = module.session
    /\ module.op = "provision" => module.bound # None

\* The shell is in the session with lamp d, or past any session.
InPlace(d) == ble.stage \in Late /\ (ble.stage \in InUse => ble.connected = d)

\* From the reply 'connected' to the bind, the claim is for the lamp of the
\* session.
CreateFits ==
    /\ \A m \in Told : m.type = "connected" /\ ble.attempt = m.attempt => InPlace(m.lamp)
    /\ \A m \in Sent : m.type = "create" /\ ble.attempt = m.attempt => InPlace(m.lamp)
    /\ \A j \in jobs : j.op = "create" /\ ble.attempt = j.attempt =>
         InPlace(j.lamp) /\ (ble.stage \in InUse => j.claim = j.lamp)

\* The shell is in the page's attempt; its session, if it rests there, is
\* bound.
Here == ble.attempt = page.attempt
Bound == Here /\ ble.stage \in {"secure-session", "wifi"} => module.session = None \/ module.bound # None

\* While the page provisions, the shell is at that lamp.
PlaceFits == page.stage \in {"provisioning", "wifi"} /\ Here => InPlace(page.connected)

\* Once the page was told 'created', it has the claim of the lamp it shows,
\* and the session is bound.
BoundFits ==
    /\ page.stage \in {"provisioning", "wifi"} /\ page.wants \in {{}, {"wifiScan"}} =>
         page.claim = page.connected /\ Bound
    /\ \A m \in Told : m.attempt = page.attempt /\ m.type = "created" =>
         m.lamp = page.connected /\ Bound

\* The page's list of networks stays in step with the shell's scan for
\* them.
ListingFits ==
    /\ page.stage = "wifi" /\ page.wants = {} => Here /\ ble.stage = "secure-session"
    /\ \A m \in Told : m.attempt = page.attempt /\ m.type = "networks" =>
         Here /\ ble.stage = "secure-session"
    /\ \A j \in jobs : j.attempt = page.attempt /\ j.op = "wifiScan" => Here /\ ble.stage = "wifi"
    /\ page.wants = {"wifiScan"} =>
         \/ \E m \in Sent : m.type = "wifiScan" /\ m.attempt = page.attempt
         \/ \E j \in jobs : j.op = "wifiScan" /\ j.attempt = page.attempt
         \/ \E m \in Told : m.of = "wifiScan" /\ m.attempt = page.attempt

\* The inductive invariant.
BleInv ==
    /\ BleTypeOK /\ ChannelsOK /\ Fitting /\ PageFits /\ OneEach /\ Asked /\ ScansFirst
    /\ ResultsFit /\ ConnectingFits /\ SessionFits /\ LeftFits /\ ModuleFits /\ CreateFits
    /\ PlaceFits /\ BoundFits /\ ListingFits /\ LampHasItsClaim

----------------------------------------------------------------------------
(* Sequences.                                                              *)

\* A sequence that is not empty, and what is left of it.
LEMMA TailOf ==
    ASSUME NEW S, NEW s \in Seq(S), s # <<>>
    PROVE  /\ Len(s) \in Nat /\ Len(s) > 0
           /\ Head(s) = s[1] /\ Head(s) \in S
           /\ Tail(s) \in Seq(S) /\ Len(Tail(s)) = Len(s) - 1
           /\ \A i \in 1 .. Len(Tail(s)) : i + 1 \in 1 .. Len(s) /\ Tail(s)[i] = s[i + 1]
OBVIOUS

\* A sequence with one more element at its end.
LEMMA AppendOf ==
    ASSUME NEW S, NEW s \in Seq(S), NEW m
    PROVE  /\ Len(s) \in Nat /\ Len(Append(s, m)) = Len(s) + 1
           /\ \A i \in 1 .. Len(s) : Append(s, m)[i] = s[i]
           /\ Append(s, m)[Len(s) + 1] = m
           /\ m \in S => Append(s, m) \in Seq(S)
           /\ s \o <<m>> = Append(s, m)
           /\ s \o <<>> = s
OBVIOUS

\* The page posts a cancelScan and a disconnect, or an answer to two
\* requests, in one go.
LEMMA AppendTwo ==
    ASSUME NEW S, NEW s \in Seq(S), NEW a \in S, NEW b \in S
    PROVE  s \o <<a, b>> = Append(Append(s, a), b)
OBVIOUS

\* Taking the first element of a channel takes nothing else.
LEMMA ElemsOfTail ==
    ASSUME NEW S, NEW s \in Seq(S), s # <<>>
    PROVE  /\ Head(s) \in Elems(s)
           /\ Elems(Tail(s)) \subseteq Elems(s)
           /\ Elems(s) \subseteq Elems(Tail(s)) \cup {Head(s)}
<1>1. \A i \in 1 .. Len(s) : i = 1 \/ (i - 1 \in 1 .. Len(Tail(s)) /\ Tail(s)[i - 1] = s[i])
  BY TailOf
<1>2. Head(s) \in Elems(s)
  BY TailOf DEF Elems
<1>3. ASSUME NEW x \in Elems(Tail(s)) PROVE x \in Elems(s)
  BY TailOf DEF Elems
<1>4. ASSUME NEW x \in Elems(s) PROVE x \in Elems(Tail(s)) \cup {Head(s)}
  BY <1>1, TailOf DEF Elems
<1> QED
  BY <1>2, <1>3, <1>4

\* Putting an element into a channel adds just that.
LEMMA ElemsOfAppend ==
    ASSUME NEW S, NEW s \in Seq(S), NEW m
    PROVE  Elems(Append(s, m)) = Elems(s) \cup {m}
<1>1. \A i : i \in 1 .. Len(Append(s, m)) <=> i \in 1 .. Len(s) \/ i = Len(s) + 1
  BY AppendOf
<1>2. ASSUME NEW x \in Elems(Append(s, m)) PROVE x \in Elems(s) \cup {m}
  BY <1>1, AppendOf DEF Elems
<1>3. ASSUME NEW x \in Elems(s) PROVE x \in Elems(Append(s, m))
  BY <1>1, AppendOf DEF Elems
<1>4. m \in Elems(Append(s, m))
  BY <1>1, AppendOf DEF Elems
<1> QED
  BY <1>2, <1>3, <1>4

\* What the channels hold after a step.
LEMMA Moves ==
    ASSUME ChannelsOK
    PROVE  /\ UNCHANGED toNative => Sent' = Sent
           /\ \A m : Posts(<<m>>) => Sent' = Sent \cup {m}
           /\ Posts(<<>>) => Sent' = Sent
           /\ \A a, b : Posts(<<a, b>>) => Sent' = Sent \cup {a, b}
           /\ toNative # <<>> => Head(toNative) \in Sent /\ Head(toNative) \in Message
           /\ toNative # <<>> /\ toNative' = Tail(toNative) =>
                Sent' \subseteq Sent /\ Sent \subseteq Sent' \cup {Head(toNative)}
           /\ UNCHANGED toPage => Told' = Told
           /\ Silently => Told' = Told
           /\ \A m : Says(m) => Told' = Told \cup {m}
           /\ toPage # <<>> => Head(toPage) \in Told /\ Head(toPage) \in Answer
           /\ toPage # <<>> /\ toPage' = Tail(toPage) =>
                Told' \subseteq Told /\ Told \subseteq Told' \cup {Head(toPage)}
           /\ toPage' = <<>> => Told' = {}
<1>1. toNative \in Seq(Message) /\ toPage \in Seq(Answer)
  BY DEF ChannelsOK
<1>2. UNCHANGED toNative => Sent' = Sent
  BY DEF Sent, Elems
<1>3. ASSUME NEW m, Posts(<<m>>) PROVE Sent' = Sent \cup {m}
  <2>1. toNative' = Append(toNative, m)
    BY <1>1, <1>3, AppendOf DEF Posts
  <2> QED
    BY <1>1, <2>1, ElemsOfAppend DEF Sent
<1>4. Posts(<<>>) => Sent' = Sent
  BY <1>1, <1>2, AppendOf DEF Posts
<1>5. ASSUME NEW a, NEW b, Posts(<<a, b>>) PROVE Sent' = Sent \cup {a, b}
  <2> DEFINE S == Message \cup {a, b}
  <2>1. toNative \in Seq(S)
    BY <1>1
  <2>2. toNative' = Append(Append(toNative, a), b)
    BY <2>1, <1>5, AppendTwo DEF Posts
  <2>3. Append(toNative, a) \in Seq(S)
    BY <2>1
  <2>4. Elems(Append(toNative, a)) = Elems(toNative) \cup {a}
    BY <2>1, ElemsOfAppend
  <2>5. Elems(toNative') = Elems(Append(toNative, a)) \cup {b}
    BY <2>2, <2>3, ElemsOfAppend
  <2> QED
    BY <2>4, <2>5 DEF Sent
<1>6. toNative # <<>> => Head(toNative) \in Sent /\ Head(toNative) \in Message
  BY <1>1, ElemsOfTail, TailOf DEF Sent
<1>7. toNative # <<>> /\ toNative' = Tail(toNative) =>
        Sent' \subseteq Sent /\ Sent \subseteq Sent' \cup {Head(toNative)}
  BY <1>1, ElemsOfTail DEF Sent
<1>8. UNCHANGED toPage => Told' = Told
  BY DEF Told, Elems
<1>9. ASSUME NEW m, Says(m) PROVE Told' = Told \cup {m}
  BY <1>1, <1>9, ElemsOfAppend DEF Says, Told
<1>10. toPage # <<>> => Head(toPage) \in Told /\ Head(toPage) \in Answer
  BY <1>1, ElemsOfTail, TailOf DEF Told
<1>11. toPage # <<>> /\ toPage' = Tail(toPage) =>
         Told' \subseteq Told /\ Told \subseteq Told' \cup {Head(toPage)}
  BY <1>1, ElemsOfTail DEF Told
<1>12. toPage' = <<>> => Told' = {}
  BY DEF Told, Elems
<1> QED
  BY <1>2, <1>3, <1>4, <1>5, <1>6, <1>7, <1>8, <1>9, <1>10, <1>11, <1>12 DEF Silently

----------------------------------------------------------------------------
(* One request, job or reply of every attempt.                             *)

FreeOf(a, tn, tp, js) ==
    /\ \A i \in 1 .. Len(tn) : IsAsk(tn[i]) => tn[i].attempt # a
    /\ \A n \in 1 .. Len(tp) : IsReply(tp[n]) => tp[n].attempt # a
    /\ \A j \in js : j.attempt # a

\* A request that the shell takes leaves its attempt without a request, job
\* or reply.
LEMMA OneEachOfTail ==
    ASSUME NEW S, NEW tn \in Seq(S), tn # <<>>, NEW tp, NEW js, OneEachOf(tn, tp, js)
    PROVE  /\ OneEachOf(Tail(tn), tp, js)
           /\ IsAsk(Head(tn)) => FreeOf(Head(tn).attempt, Tail(tn), tp, js)
<1> DEFINE t == Tail(tn)
<1>1. Len(tn) \in Nat /\ Len(tn) > 0 /\ Head(tn) = tn[1] /\ 1 \in 1 .. Len(tn)
  BY TailOf
<1>2. \A i \in 1 .. Len(t) : i \in Nat /\ i + 1 \in 1 .. Len(tn) /\ i + 1 # 1 /\ t[i] = tn[i + 1]
  BY TailOf
<1> HIDE DEF t
<1>3. \A i, n \in 1 .. Len(t) :
        IsAsk(t[i]) /\ IsAsk(t[n]) /\ t[i].attempt = t[n].attempt => i = n
  BY <1>2 DEF OneEachOf
<1>4. \A i \in 1 .. Len(t) : IsAsk(t[i]) =>
        /\ \A j \in js : j.attempt # t[i].attempt
        /\ \A n \in 1 .. Len(tp) : IsReply(tp[n]) => tp[n].attempt # t[i].attempt
  BY <1>2 DEF OneEachOf
<1>5. OneEachOf(t, tp, js)
  BY <1>3, <1>4 DEF OneEachOf
<1>6. ASSUME IsAsk(tn[1]) PROVE FreeOf(tn[1].attempt, t, tp, js)
  <2>1. \A i \in 1 .. Len(t) : IsAsk(t[i]) => t[i].attempt # tn[1].attempt
    BY <1>1, <1>2, <1>6 DEF OneEachOf
  <2>2. /\ \A n \in 1 .. Len(tp) : IsReply(tp[n]) => tp[n].attempt # tn[1].attempt
        /\ \A j \in js : j.attempt # tn[1].attempt
    BY <1>1, <1>6 DEF OneEachOf
  <2> QED
    BY <2>1, <2>2 DEF FreeOf
<1> QED
  BY <1>1, <1>5, <1>6 DEF t

\* So does a reply that the page takes.
LEMMA OneEachOfTailOfReplies ==
    ASSUME NEW S, NEW tp \in Seq(S), tp # <<>>, NEW tn, NEW js, OneEachOf(tn, tp, js)
    PROVE  /\ OneEachOf(tn, Tail(tp), js)
           /\ IsReply(Head(tp)) => FreeOf(Head(tp).attempt, tn, Tail(tp), js)
<1> DEFINE t == Tail(tp)
<1>1. Len(tp) \in Nat /\ Len(tp) > 0 /\ Head(tp) = tp[1] /\ 1 \in 1 .. Len(tp)
  BY TailOf
<1>2. \A i \in 1 .. Len(t) : i \in Nat /\ i + 1 \in 1 .. Len(tp) /\ i + 1 # 1 /\ t[i] = tp[i + 1]
  BY TailOf
<1> HIDE DEF t
<1>3. \A i, n \in 1 .. Len(t) :
        IsReply(t[i]) /\ IsReply(t[n]) /\ t[i].attempt = t[n].attempt => i = n
  <2> SUFFICES ASSUME NEW i \in 1 .. Len(t), NEW n \in 1 .. Len(t), IsReply(t[i]),
                      IsReply(t[n]), t[i].attempt = t[n].attempt
               PROVE  i = n
    OBVIOUS
  <2>1. /\ i \in Nat /\ i + 1 \in 1 .. Len(tp) /\ t[i] = tp[i + 1]
        /\ n \in Nat /\ n + 1 \in 1 .. Len(tp) /\ t[n] = tp[n + 1]
    BY <1>2
  <2>2. i + 1 = n + 1
    BY <2>1 DEF OneEachOf
  <2> QED
    BY <2>1, <2>2
<1>4. /\ \A j \in js, n \in 1 .. Len(t) : IsReply(t[n]) => t[n].attempt # j.attempt
      /\ \A i \in 1 .. Len(tn) : IsAsk(tn[i]) =>
           \A n \in 1 .. Len(t) : IsReply(t[n]) => t[n].attempt # tn[i].attempt
  BY <1>2 DEF OneEachOf
<1>5. OneEachOf(tn, t, js)
  BY <1>3, <1>4 DEF OneEachOf
<1>6. IsReply(tp[1]) => FreeOf(tp[1].attempt, tn, t, js)
  BY <1>1, <1>2 DEF OneEachOf, FreeOf
<1> QED
  BY <1>1, <1>5, <1>6 DEF t

\* The page may ask for an attempt that nothing is under way of.
LEMMA OneEachOfAsk ==
    ASSUME NEW S, NEW tn \in Seq(S), NEW tp, NEW js, NEW m,
           OneEachOf(tn, tp, js), IsAsk(m) => FreeOf(m.attempt, tn, tp, js)
    PROVE  OneEachOf(Append(tn, m), tp, js)
<1> DEFINE t == Append(tn, m)
<1>1. Len(tn) \in Nat /\ Len(t) = Len(tn) + 1
  BY AppendOf
<1>2. \A i \in 1 .. Len(t) : (i \in 1 .. Len(tn) /\ t[i] = tn[i]) \/ (i = Len(tn) + 1 /\ t[i] = m)
  BY <1>1, AppendOf
<1> HIDE DEF t
<1>3. \A i, n \in 1 .. Len(t) :
        IsAsk(t[i]) /\ IsAsk(t[n]) /\ t[i].attempt = t[n].attempt => i = n
  BY <1>2 DEF OneEachOf, FreeOf
<1>4. \A i \in 1 .. Len(t) : IsAsk(t[i]) =>
        /\ \A j \in js : j.attempt # t[i].attempt
        /\ \A n \in 1 .. Len(tp) : IsReply(tp[n]) => tp[n].attempt # t[i].attempt
  BY <1>2 DEF OneEachOf, FreeOf
<1> QED
  BY <1>3, <1>4 DEF OneEachOf, t

\* The shell may reply for such an attempt,
LEMMA OneEachOfReply ==
    ASSUME NEW S, NEW tp \in Seq(S), NEW tn, NEW js, NEW m,
           OneEachOf(tn, tp, js), IsReply(m) => FreeOf(m.attempt, tn, tp, js)
    PROVE  OneEachOf(tn, Append(tp, m), js)
<1> DEFINE t == Append(tp, m)
<1>1. Len(tp) \in Nat /\ Len(t) = Len(tp) + 1
  BY AppendOf
<1>2. \A i \in 1 .. Len(t) : (i \in 1 .. Len(tp) /\ t[i] = tp[i]) \/ (i = Len(tp) + 1 /\ t[i] = m)
  BY <1>1, AppendOf
<1> HIDE DEF t
<1>3. \A i, n \in 1 .. Len(t) :
        IsReply(t[i]) /\ IsReply(t[n]) /\ t[i].attempt = t[n].attempt => i = n
  BY <1>2 DEF OneEachOf, FreeOf
<1>4. /\ \A j \in js, n \in 1 .. Len(t) : IsReply(t[n]) => t[n].attempt # j.attempt
      /\ \A i \in 1 .. Len(tn) : IsAsk(tn[i]) =>
           \A n \in 1 .. Len(t) : IsReply(t[n]) => t[n].attempt # tn[i].attempt
  BY <1>2 DEF OneEachOf, FreeOf
<1> QED
  BY <1>3, <1>4 DEF OneEachOf, t

\* or start a job for it.
LEMMA OneEachOfJob ==
    ASSUME NEW tn, NEW tp, NEW js, NEW k, OneEachOf(tn, tp, js), FreeOf(k.attempt, tn, tp, js)
    PROVE  OneEachOf(tn, tp, js \cup {k})
BY DEF OneEachOf, FreeOf

\* A job that is over leaves its attempt free.
LEMMA FreeOfFewer ==
    ASSUME NEW tn, NEW tp, NEW js, OneEachOf(tn, tp, js), NEW j \in js
    PROVE  FreeOf(j.attempt, tn, tp, js \ {j}) /\ OneEachOf(tn, tp, js \ {j})
BY DEF OneEachOf, FreeOf

----------------------------------------------------------------------------
(* What the parts of the invariant give to every step.                     *)

\* What is in the channels and among the jobs has its type and names an
\* attempt that was begun.
LEMMA Basics ==
    ASSUME BleInv
    PROVE  /\ attempts \in Nat /\ attempts <= MaxAttempt /\ MaxAttempt \in Nat
           /\ \A a \in Begun : a \in Attempt /\ a \in Nat /\ a # None /\ 1 <= a /\ a <= attempts
           /\ \A m \in Sent : m \in Message /\ MessageFits(m)
           /\ \A m \in Told : m \in Answer /\ AnswerFits(m)
           /\ \A j \in jobs : j \in Job /\ JobFits(j)
           /\ page \in Page /\ ble \in Ble /\ phone \in Phone /\ module \in Module
           /\ ble.attempt \in Begun \cup {None}
           /\ page.attempt \in Begun \cup {None}
<1>1. attempts \in Nat /\ attempts <= MaxAttempt /\ MaxAttempt \in Nat
  BY DEF BleInv, ChannelsOK
<1>2. \A a \in Begun : a \in Attempt /\ a \in Nat /\ a # None /\ 1 <= a /\ a <= attempts
  BY <1>1 DEF Begun, Attempt
<1>3. toNative \in Seq(Message) /\ toPage \in Seq(Answer)
  BY DEF BleInv, ChannelsOK
<1>4. \A m \in Sent : m \in Message /\ MessageFits(m)
  BY <1>3 DEF BleInv, Fitting, Sent, Elems
<1>5. \A m \in Told : m \in Answer /\ AnswerFits(m)
  BY <1>3 DEF BleInv, Fitting, Told, Elems
<1>6. \A j \in jobs : j \in Job /\ JobFits(j)
  BY DEF BleInv, BleTypeOK, Fitting
<1>7. page \in Page /\ ble \in Ble /\ phone \in Phone /\ module \in Module
  BY DEF BleInv, BleTypeOK
<1>8. ble.attempt \in Begun \cup {None}
  BY DEF BleInv, Fitting
<1>9. page.attempt \in Begun \cup {None}
  BY <1>1, <1>7 DEF BleInv, PageFits, Page, Begun, Attempt, Maybe
<1> QED
  BY <1>1, <1>2, <1>4, <1>5, <1>6, <1>7, <1>8, <1>9

\* The module's pending promise is one of the shell's jobs.
LEMMA PendingFits ==
    ASSUME BleInv, module.op # "none"
    PROVE  /\ module.op \in Request \ {"scan"} /\ module.by \in Begun
           /\ \E j \in jobs : j.op = module.op /\ j.attempt = module.by /\ j.at = "module"
<1>1. PICK j \in jobs : j.op = module.op /\ j.attempt = module.by /\ j.at = "module"
  BY DEF BleInv, BleTypeOK
<1>2. j \in Job /\ JobFits(j)
  BY Basics
<1> QED
  BY <1>1, <1>2 DEF Job, JobFits

----------------------------------------------------------------------------
(* The channels.                                                           *)

\* The shell only sends answers.
LEMMA SaysOK ==
    ASSUME ChannelsOK, NEW m \in Answer, Says(m)
    PROVE  toPage' \in Seq(Answer)
BY DEF ChannelsOK, Says

\* The page only sends requests.
LEMMA PostsOK ==
    ASSUME ChannelsOK, NEW m \in Message, Posts(<<m>>)
    PROVE  toNative' \in Seq(Message)
BY AppendOf DEF ChannelsOK, Posts

\* The module settles promises with results,
LEMMA SettlesOK ==
    ASSUME ChannelsOK, NEW op \in Request \ {"scan"}, NEW a \in Attempt, NEW ok \in BOOLEAN,
           Settles(op, a, ok)
    PROVE  results' \in Seq(Result)
<1>1. Settled(op, a, ok) \in Result
  BY DEF Settled, Result
<1> QED
  BY <1>1, AppendOf DEF ChannelsOK, Settles

\* also when it refuses a call at once,
LEMMA CallOK ==
    ASSUME BleInv, NEW op \in {"create", "wifiScan", "provision"}, NEW a \in Attempt, NEW d,
           NEW claim, Call(op, a, d, claim)
    PROVE  results' \in Seq(Result)
<1>1. ChannelsOK
  BY DEF BleInv
<1>2. op \in Request \ {"scan"}
  BY DEF Request
<1>3. UNCHANGED results \/ \E ok \in BOOLEAN : Settles(op, a, ok)
  BY DEF Call
<1> QED
  BY <1>1, <1>2, <1>3, SettlesOK DEF ChannelsOK

\* as for connectProvisioning,
LEMMA CallConnectOK ==
    ASSUME BleInv, NEW a \in Attempt, NEW d, CallConnect(a, d)
    PROVE  results' \in Seq(Result)
<1>1. ChannelsOK
  BY DEF BleInv
<1>2. UNCHANGED results \/ Settles("connect", a, FALSE)
  BY DEF CallConnect
<1> QED
  BY <1>1, <1>2, SettlesOK DEF ChannelsOK, Request

\* and cleanupProvisioning settles what was pending.
LEMMA CallDisconnectOK ==
    ASSUME BleInv, CallDisconnect
    PROVE  results' \in Seq(Result)
<1>1. CASE Idle
  BY <1>1 DEF BleInv, ChannelsOK, CallDisconnect
<1>2. CASE ~Idle
  BY <1>2, PendingFits, Basics, SettlesOK DEF BleInv, CallDisconnect, Idle
<1> QED
  BY <1>1, <1>2

\* The steps of the page, and those of the shell, the module and the lamp.
PageStep ==
    \/ StartScan \/ CleanupProvisioning \/ ScanWifiAgain \/ Provision \/ Reload
    \/ (\E d \in Lamp : ConnectDevice(d)) \/ Dispatch
ModuleStep == QrRead \/ LampActs \/ Succeeds \/ Fails
ShellStep ==
    \/ Handle \/ Continue \/ ScanEnds \/ (\E d \in Lamp : Found(d))
    \/ \E j \in jobs : Permission(j) \/ ServerAnswers(j) \/ BindClaim(j)

\* A step is the page's, the native module's or the shell's.
LEMMA Steps == BleNext <=> PageStep \/ ModuleStep \/ ShellStep
BY DEF BleNext, PageStep, ModuleStep, ShellStep

\* The page changes neither the shell nor the module: it only sends
\* requests.
LEMMA PageFrame ==
    ASSUME PageStep
    PROVE  UNCHANGED <<ble, phone, jobs, module, results, lamp>>
BY DEF PageStep, StartScan, CleanupProvisioning, ScanWifiAgain, Provision, Reload,
       ConnectDevice, Dispatch

\* The module changes nothing of the page or the shell but its promises.
LEMMA ModuleFrame ==
    ASSUME ModuleStep
    PROVE  UNCHANGED <<page, attempts, toNative, toPage, ble, phone, jobs>>
BY DEF ModuleStep, QrRead, LampActs, Succeeds, Fails

\* The shell leaves page and lamps alone, and takes requests only to handle
\* them.
LEMMA ShellFrame ==
    ASSUME ShellStep
    PROVE  UNCHANGED <<page, attempts, lamp>> /\ (UNCHANGED toNative \/ Handle)
BY DEF ShellStep, Handle, Continue, ScanEnds, Found, Permission, ServerAnswers, BindClaim

\* The page keeps the channels typed.
LEMMA ChannelsOfPage ==
    ASSUME BleInv, PageStep
    PROVE  ChannelsOK'
<1>1. ChannelsOK /\ toNative \in Seq(Message) /\ toPage \in Seq(Answer)
      /\ attempts \in Nat /\ MaxAttempt \in Nat
  BY DEF BleInv, ChannelsOK
<1>2. page.connected \in Maybe(Lamp) /\ page.attempt \in Maybe(Attempt)
  BY Basics DEF Page
<1> SUFFICES attempts' \in 0 .. MaxAttempt /\ toNative' \in Seq(Message) /\ toPage' \in Seq(Answer)
  BY <1>1, PageFrame DEF ChannelsOK
<1>3. CASE StartScan
  <2>1. Ask("scan", attempts', None) \in Message /\ attempts' \in 0 .. MaxAttempt
    BY <1>1, <1>3 DEF StartScan, Ask, Message, Maybe, Attempt, Request
  <2> QED
    BY <1>1, <1>3, <2>1, PostsOK DEF StartScan
<1>4. ASSUME NEW d \in Lamp, ConnectDevice(d)
      PROVE  attempts' \in 0 .. MaxAttempt /\ toNative' \in Seq(Message) /\ toPage' \in Seq(Answer)
  <2>1. Ask("connect", page.attempt, d) \in Message
    BY <1>2 DEF Ask, Message, Maybe, Request
  <2> QED
    BY <1>1, <1>4, <2>1, PostsOK DEF ConnectDevice, ChannelsOK
<1>5. Posts(WifiScanOf(page)) => toNative' \in Seq(Message)
  <2>1. Ask("wifiScan", page.attempt, page.connected) \in Message
    BY <1>2 DEF Ask, Message, Request
  <2> QED
    BY <1>1, <2>1, PostsOK, AppendOf DEF WifiScanOf, Posts
<1>6. CASE ScanWifiAgain
  BY <1>1, <1>5, <1>6 DEF ScanWifiAgain, ChannelsOK
<1>7. CASE Provision
  <2>1. Ask("provision", page.attempt, page.connected) \in Message
    BY <1>2 DEF Ask, Message, Request
  <2> QED
    BY <1>1, <1>7, <2>1, PostsOK DEF Provision, ChannelsOK
<1>8. CASE CleanupProvisioning
  <2> DEFINE a == Ask("cancelScan", page.attempt, None)
             b == Ask("disconnect", page.attempt, None)
  <2>1. a \in Message /\ b \in Message
    BY <1>2 DEF Ask, Message, Maybe
  <2>2. toNative' = toNative \o <<a, b>>
    BY <1>8 DEF CleanupProvisioning, Posts
  <2> HIDE DEF a, b
  <2>3. toNative' \in Seq(Message)
    BY <1>1, <2>1, <2>2, AppendTwo, AppendOf
  <2> QED
    BY <1>1, <1>8, <2>3 DEF CleanupProvisioning, ChannelsOK
<1>9. CASE Reload
  <2>1. Ask("ready", None, None) \in Message
    BY DEF Ask, Message, Maybe
  <2> QED
    BY <1>1, <1>9, <2>1, PostsOK DEF Reload, ChannelsOK
<1>10. CASE Dispatch
  <2> DEFINE m == Head(toPage)
  <2>1. toPage # <<>> /\ m \in Answer /\ toPage' \in Seq(Answer) /\ attempts' = attempts
    BY <1>1, <1>10, TailOf DEF Dispatch
  <2>2. /\ Ask("disconnect", m.attempt, None) \in Message
        /\ Ask("create", m.attempt, m.lamp) \in Message
    BY <2>1 DEF Answer, Ask, Message, Maybe, Request
  <2>3. \/ Posts(<<>>) \/ Posts(<<Ask("disconnect", m.attempt, None)>>)
        \/ Posts(<<Ask("create", m.attempt, m.lamp)>>) \/ Posts(WifiScanOf(page))
        \/ UNCHANGED toNative
    BY <1>10 DEF Dispatch, Replies
  <2> HIDE DEF m
  <2>4. toNative' \in Seq(Message)
    BY <1>1, <1>5, <2>2, <2>3, PostsOK, AppendOf DEF Posts
  <2> QED
    BY <1>1, <2>1, <2>4 DEF ChannelsOK
<1> QED
  BY <1>3, <1>4, <1>6, <1>7, <1>8, <1>9, <1>10 DEF PageStep

\* An answer built by the shell is one.
LEMMA TellOK ==
    ASSUME NEW type \in AnswerType, NEW of \in Request, NEW a \in Maybe(Attempt), NEW d \in Maybe(Lamp)
    PROVE  Tell(type, of, a, d) \in Answer
BY DEF Tell, Answer

\* The module keeps the channels typed.
LEMMA ChannelsOfModule ==
    ASSUME BleInv, ModuleStep
    PROVE  ChannelsOK'
<1>1. ChannelsOK /\ results \in Seq(Result)
  BY DEF BleInv, ChannelsOK
<1>2. CASE QrRead \/ LampActs
  BY <1>1, <1>2 DEF QrRead, LampActs, ChannelsOK
<1>3. CASE Succeeds
  <2>1. module.op # "none" /\ Settles(module.op, module.by, TRUE)
    BY <1>3 DEF Succeeds
  <2>2. results' \in Seq(Result)
    BY <1>1, <2>1, PendingFits, Basics, SettlesOK
  <2> QED
    BY <1>1, <1>3, <2>2 DEF Succeeds, ChannelsOK
<1>4. CASE Fails
  <2>1. results' \in Seq(Result)
    BY <1>4, CallDisconnectOK DEF Fails
  <2> QED
    BY <1>1, <1>4, <2>1 DEF Fails, ChannelsOK
<1> QED
  BY <1>2, <1>3, <1>4 DEF ModuleStep

\* The shell keeps the channels typed.
LEMMA ChannelsOfShell ==
    ASSUME BleInv, ShellStep
    PROVE  ChannelsOK'
<1>1. ChannelsOK /\ toNative \in Seq(Message) /\ toPage \in Seq(Answer) /\ results \in Seq(Result)
  BY DEF BleInv, ChannelsOK
<1>2. ASSUME NEW type \in AnswerType, NEW of \in Request, NEW a \in Maybe(Attempt),
             NEW d \in Maybe(Lamp), Says(Tell(type, of, a, d))
      PROVE  toPage' \in Seq(Answer)
  BY <1>1, <1>2, TellOK, SaysOK
<1>3. None \in Maybe(Attempt) /\ None \in Maybe(Lamp) /\ \A a \in Begun : a \in Maybe(Attempt)
  BY Basics DEF Maybe
<1>4. \A of \in Request, a \in Begun : Says(Error(of, a)) => toPage' \in Seq(Answer)
  BY <1>2, <1>3 DEF Error, AnswerType
<1>5. UNCHANGED toPage => toPage' \in Seq(Answer)
  BY <1>1
<1>6. UNCHANGED results => results' \in Seq(Result)
  BY <1>1
<1>7. "scan" \in Request /\ "connect" \in Request /\ "create" \in Request
      /\ "wifiScan" \in Request /\ "provision" \in Request
  BY DEF Request
<1> SUFFICES toNative' \in Seq(Message) /\ toPage' \in Seq(Answer) /\ results' \in Seq(Result)
  BY <1>1, ShellFrame DEF ChannelsOK
<1>8. CASE Handle
  <2> DEFINE m == Head(toNative)
  <2>1. toNative # <<>> /\ toNative' \in Seq(Message)
    BY <1>1, <1>8, TailOf DEF Handle
  <2>2. m \in Message /\ (m.type # "ready" => m.attempt \in Begun)
    BY <1>1, <2>1, Moves, Basics DEF MessageFits
  <2>3. HandleScan(m) \/ HandleCancelScan(m) \/ HandleConnect(m) \/ HandleCreate(m)
        \/ HandleWifi(m) \/ HandleDisconnect(m) \/ HandleReady(m)
    BY <1>8 DEF Handle
  <2> HIDE DEF m
  <2>4. m.attempt \in Begun => m.attempt \in Attempt
    BY Basics
  <2>5. CASE HandleScan(m)
    BY <1>5, <1>6, <2>1, <2>5 DEF HandleScan
  <2>6. CASE HandleCancelScan(m)
    <3>1. m.attempt \in Begun
      BY <2>2, <2>6 DEF HandleCancelScan
    <3> QED
      BY <1>2, <1>3, <1>5, <1>6, <1>7, <2>1, <2>6, <3>1 DEF HandleCancelScan, AnswerType
  <2>7. CASE HandleConnect(m)
    <3>1. m.attempt \in Begun
      BY <2>2, <2>7 DEF HandleConnect
    <3> QED
      BY <1>4, <1>5, <1>6, <1>7, <2>1, <2>4, <2>7, <3>1, CallConnectOK DEF HandleConnect, Silently
  <2>8. CASE HandleCreate(m)
    <3>1. m.attempt \in Begun
      BY <2>2, <2>8 DEF HandleCreate
    <3> QED
      BY <1>4, <1>5, <1>6, <1>7, <2>1, <2>8, <3>1 DEF HandleCreate, Silently
  <2>9. CASE HandleWifi(m)
    <3>1. m.attempt \in Begun /\ m.type \in {"wifiScan", "provision"}
      BY <2>2, <2>9 DEF HandleWifi
    <3>2. \/ Call(m.type, m.attempt, m.lamp, None) /\ Silently
          \/ Says(Error(m.type, m.attempt)) /\ UNCHANGED results
      BY <2>9 DEF HandleWifi
    <3> QED
      BY <1>4, <1>5, <1>6, <1>7, <2>1, <2>4, <3>1, <3>2, CallOK DEF Silently
  <2>10. CASE HandleDisconnect(m)
    BY <1>5, <1>6, <2>1, <2>10, CallDisconnectOK DEF HandleDisconnect
  <2>11. CASE HandleReady(m)
    <3>1. ble.attempt \in Maybe(Attempt)
      BY Basics DEF Ble
    <3> QED
      BY <1>2, <1>3, <1>6, <1>7, <2>1, <2>11, <3>1 DEF HandleReady, AnswerType
  <2> QED
    BY <2>3, <2>5, <2>6, <2>7, <2>8, <2>9, <2>10, <2>11
<1>9. CASE ScanEnds \/ \E d \in Lamp : Found(d)
  <2>1. ble.attempt \in Begun
    BY <1>9, Basics DEF ScanEnds, Found, BleInv, LeftFits
  <2>2. \A d \in Lamp : d \in Maybe(Lamp)
    BY DEF Maybe
  <2> QED
    BY <1>1, <1>2, <1>3, <1>4, <1>7, <1>9, <2>1, <2>2 DEF ScanEnds, Found, AnswerType
<1>10. ASSUME NEW j \in jobs, Permission(j) \/ ServerAnswers(j) \/ BindClaim(j)
       PROVE  toNative' \in Seq(Message) /\ toPage' \in Seq(Answer) /\ results' \in Seq(Result)
  <2>1. j.attempt \in Begun /\ j.attempt \in Attempt
    BY Basics DEF JobFits
  <2>2. CASE Permission(j)
    BY <1>1, <1>2, <1>3, <1>5, <1>7, <2>1, <2>2 DEF Permission, AnswerType, Silently
  <2>3. CASE ServerAnswers(j)
    BY <1>1, <1>4, <1>5, <1>7, <2>1, <2>3 DEF ServerAnswers, Silently
  <2>4. CASE BindClaim(j)
    <3>1. \/ Call("create", j.attempt, j.lamp, j.claim) /\ Silently
          \/ Says(Error("create", j.attempt)) /\ UNCHANGED results
      BY <2>4 DEF BindClaim
    <3>2. UNCHANGED toNative
      BY <2>4 DEF BindClaim
    <3> QED
      BY <1>1, <1>4, <1>5, <1>6, <1>7, <2>1, <3>1, <3>2, CallOK DEF Silently
  <2> QED
    BY <1>10, <2>2, <2>3, <2>4
<1>11. CASE Continue
  <2>1. results' \in Seq(Result) /\ UNCHANGED toNative
    BY <1>1, <1>11, TailOf DEF Continue
  <2>2. PICK j \in jobs : j.at = "module" /\ After(j, Head(results).ok)
    BY <1>11 DEF Continue
  <2>3. j \in Job /\ JobFits(j) /\ j.op # "scan"
    BY <2>2, Basics DEF JobFits
  <2>4. j.attempt \in Begun /\ j.op \in Request /\ j.lamp \in Maybe(Lamp) /\ j.claim \in Maybe(Lamp)
    BY <2>3 DEF JobFits, Job
  <2>5. \/ \E type \in AnswerType, d \in Maybe(Lamp) : Says(Tell(type, j.op, j.attempt, d))
        \/ Silently
    <3>1. \E type \in AnswerType :
            type = CASE j.op = "connect" -> "connected" [] j.op = "create" -> "created"
                     [] j.op = "wifiScan" -> "networks" [] j.op = "provision" -> "provisioned"
      BY <2>3, <2>4 DEF Request, AnswerType, Final
    <3>2. "error" \in AnswerType
      BY DEF AnswerType
    <3> QED
      BY <1>3, <2>2, <2>4, <3>1, <3>2 DEF After, Error
  <2>6. ASSUME NEW type \in AnswerType, NEW d \in Maybe(Lamp),
               Says(Tell(type, j.op, j.attempt, d))
        PROVE  toPage' \in Seq(Answer)
    BY <1>2, <1>3, <2>4, <2>6
  <2> QED
    BY <1>1, <2>1, <2>5, <2>6 DEF Silently
<1> QED
  BY <1>8, <1>9, <1>10, <1>11 DEF ShellStep

\* Every step keeps the channels typed.
LEMMA ChannelsKept ==
    ASSUME BleInv, BleNext
    PROVE  ChannelsOK'
BY Steps, ChannelsOfPage, ChannelsOfModule, ChannelsOfShell

----------------------------------------------------------------------------
(* What a step of the shell is.                                            *)

\* The same job, whatever became of operationVersion.
Same(k, j) ==
    k.op = j.op /\ k.attempt = j.attempt /\ k.lamp = j.lamp /\ k.claim = j.claim /\ k.at = j.at

\* When the shell moves to another attempt its jobs stay, without the say
\* they had.
LEMMA OutdatedOf ==
    ASSUME NEW js, js \subseteq Job
    PROVE  /\ Outdated(js) \subseteq Job
           /\ \A k \in Outdated(js) : \E j \in js : Same(k, j)
           /\ \A j \in js : \E k \in Outdated(js) : Same(k, j)
<1>1. ASSUME NEW j \in Job
      PROVE  [j EXCEPT !.fresh = FALSE] \in Job /\ Same([j EXCEPT !.fresh = FALSE], j)
  BY DEF Job, Same
<1> QED
  BY <1>1 DEF Outdated

\* The job that a request starts.
LEMMA NewJobOf ==
    ASSUME NEW op \in Request, NEW m \in Message, m.attempt \in Attempt,
           NEW claim \in Maybe(Lamp), NEW at \in {"permission", "server", "save", "module"}
    PROVE  LET k == NewJob(op, m, claim, at) IN
           /\ k \in Job /\ k.op = op /\ k.attempt = m.attempt /\ k.lamp = m.lamp /\ k.claim = claim
           /\ k.at = at /\ k.fresh = TRUE
BY DEF NewJob, Job, Message

\* What a handler's wait left in the shell, when the attempt goes on.
ConnectEnds(j) ==
    /\ j.op = "connect" /\ ble' = [ble EXCEPT !.stage = "secure-session", !.connected = j.lamp]
    /\ Says(Tell("connected", "connect", j.attempt, j.lamp))
CreateEnds(j) ==
    /\ j.op = "create" /\ ble' = [ble EXCEPT !.stage = "secure-session"]
    /\ Says(Tell("created", "create", j.attempt, j.claim))
    /\ j.fresh /\ ble.stage = "provisioning" /\ ble.connected = j.lamp
ScanWifiEnds(j) ==
    /\ j.op = "wifiScan" /\ ble' = [ble EXCEPT !.stage = "secure-session"]
    /\ Says(Tell("networks", "wifiScan", j.attempt, j.lamp))
    /\ j.fresh /\ ble.stage = "wifi"
ProvisionEnds(j) ==
    /\ j.op = "provision" /\ ble' = [ble EXCEPT !.stage = "wifi-connected", !.connected = None]
    /\ Says(Tell("provisioned", "provision", j.attempt, j.lamp))
    /\ j.fresh /\ ble.stage = "provisioning"

Continued(j) ==
    /\ results # <<>> /\ results' = Tail(results)
    /\ j \in jobs /\ j.at = "module" /\ j.op = Head(results).op /\ j.attempt = Head(results).attempt
    /\ jobs' = jobs \ {j}
    /\ j \in Job /\ JobFits(j) /\ j.op \in Request \ {"scan"}
    /\ phone' = [phone EXCEPT !.registration =
                   IF Head(results).ok /\ j.op = "connect" THEN j.lamp
                   ELSE IF Head(results).ok /\ j.op = "create" /\ Live(j) THEN None ELSE @]
    /\ \/ /\ ble.attempt = j.attempt /\ Head(results).ok
          /\ ConnectEnds(j) \/ CreateEnds(j) \/ ScanWifiEnds(j) \/ ProvisionEnds(j)
       \/ /\ Live(j) /\ ble.attempt = j.attempt /\ ~Head(results).ok
          /\ ble' = [ble EXCEPT !.stage = "failed",
                       !.connected = IF j.op \in {"create", "provision"} THEN None ELSE @]
          /\ Says(Error(j.op, j.attempt))
       \/ ~Live(j) /\ UNCHANGED <<ble, toPage>>
    /\ UNCHANGED <<page, attempts, toNative, module, lamp>>

\* A promise that is settled continues one job, which then is over.
LEMMA Continues ==
    ASSUME BleInv, Continue
    PROVE  \E j : Continued(j)
<1>1. results # <<>> /\ results' = Tail(results) /\ UNCHANGED <<page, attempts, toNative, module, lamp>>
  BY DEF Continue
<1>2. PICK j \in jobs :
        /\ j.at = "module" /\ j.op = Head(results).op /\ j.attempt = Head(results).attempt
        /\ jobs' = jobs \ {j}
        /\ After(j, Head(results).ok)
  BY DEF Continue
<1>3. j \in Job /\ JobFits(j) /\ j.op \in Request \ {"scan"}
  BY <1>2, Basics DEF JobFits, Job
<1> SUFFICES Continued(j)
  OBVIOUS
<1> DEFINE ok == Head(results).ok
<1>4. phone' = [phone EXCEPT !.registration =
                  IF ok /\ j.op = "connect" THEN j.lamp
                  ELSE IF ok /\ j.op = "create" /\ Live(j) THEN None ELSE @]
  BY <1>2 DEF After
<1>5. CASE Live(j) /\ ok
  <2>1. ble.attempt = j.attempt
    BY <1>5 DEF Live
  <2>2. ble' = [ble EXCEPT
                  !.stage = IF j.op = "provision" THEN "wifi-connected" ELSE "secure-session",
                  !.connected = IF j.op = "connect" THEN j.lamp
                                ELSE IF j.op = "provision" THEN None ELSE @]
    BY <1>2, <1>5 DEF After
  <2>3. Says(Tell(CASE j.op = "connect" -> "connected" [] j.op = "create" -> "created"
                    [] j.op = "wifiScan" -> "networks" [] j.op = "provision" -> "provisioned",
                  j.op, j.attempt, IF j.op = "create" THEN j.claim ELSE j.lamp))
    BY <1>2, <1>5 DEF After
  <2>4. ble = [attempt |-> ble.attempt, stage |-> ble.stage, found |-> ble.found,
               connected |-> ble.connected]
    BY Basics DEF Ble
  <2>5. ASSUME j.op = "connect" PROVE ConnectEnds(j)
    BY <2>2, <2>3, <2>5 DEF ConnectEnds
  <2>6. ASSUME j.op = "create" PROVE CreateEnds(j)
    <3>1. j.fresh /\ ble.stage = "provisioning" /\ ble.connected = j.lamp
      BY <1>5, <2>6 DEF Live
    <3>2. ble' = [ble EXCEPT !.stage = "secure-session"]
      BY <2>2, <2>4, <2>6
    <3> QED
      BY <2>3, <2>6, <3>1, <3>2 DEF CreateEnds
  <2>7. ASSUME j.op = "wifiScan" PROVE ScanWifiEnds(j)
    <3>1. j.fresh /\ ble.stage = "wifi"
      BY <1>5, <2>7 DEF Live
    <3>2. ble' = [ble EXCEPT !.stage = "secure-session"]
      BY <2>2, <2>4, <2>7
    <3> QED
      BY <2>3, <2>7, <3>1, <3>2 DEF ScanWifiEnds
  <2>8. ASSUME j.op = "provision" PROVE ProvisionEnds(j)
    <3>1. j.fresh /\ ble.stage = "provisioning"
      BY <1>5, <2>8 DEF Live
    <3> QED
      BY <2>2, <2>3, <2>8, <3>1 DEF ProvisionEnds
  <2> QED
    BY <1>1, <1>2, <1>3, <1>4, <1>5, <2>1, <2>5, <2>6, <2>7, <2>8 DEF Continued, Request
<1>6. CASE Live(j) /\ ~ok
  <2>1. ble.attempt = j.attempt
    BY <1>6 DEF Live
  <2> QED
    BY <1>1, <1>2, <1>3, <1>4, <1>6, <2>1 DEF Continued, After
<1>7. CASE ~Live(j)
  BY <1>1, <1>2, <1>3, <1>4, <1>7 DEF Continued, After, Silently
<1> QED
  BY <1>5, <1>6, <1>7

HandleOne(m) ==
    \/ HandleScan(m) \/ HandleCancelScan(m) \/ HandleConnect(m) \/ HandleCreate(m)
    \/ HandleWifi(m) \/ HandleDisconnect(m) \/ HandleReady(m)

\* The shell takes the message m.
Taken(m) ==
    /\ toNative # <<>> /\ m = Head(toNative) /\ toNative' = Tail(toNative)
    /\ m \in Sent /\ m \in Message /\ MessageFits(m)
    /\ Sent' \subseteq Sent /\ Sent \subseteq Sent' \cup {m}
    /\ UNCHANGED <<page, attempts, lamp>>

\* The request that the shell handles is taken from the channel's head.
LEMMA Handles ==
    ASSUME BleInv, Handle
    PROVE  \E m : Taken(m) /\ HandleOne(m)
<1> DEFINE m == Head(toNative)
<1>1. /\ toNative # <<>> /\ toNative' = Tail(toNative) /\ UNCHANGED <<page, attempts, lamp>>
      /\ HandleOne(m)
  BY DEF Handle, HandleOne
<1>2. m \in Sent /\ m \in Message /\ Sent' \subseteq Sent /\ Sent \subseteq Sent' \cup {m}
  BY <1>1, Moves DEF BleInv
<1>3. MessageFits(m)
  BY <1>2, Basics
<1> QED
  BY <1>1, <1>2, <1>3 DEF Taken

----------------------------------------------------------------------------
(* What is under way names attempts that were begun, and lamps where needed.*)

\* The page asks for its own attempt, and for a lamp wherever one is
\* needed.
LEMMA FittingOfPage ==
    ASSUME BleInv, PageStep
    PROVE  Fitting'
<1>1. jobs' = jobs /\ ble' = ble
  BY PageFrame
<1>2. attempts' \in Nat /\ Begun \subseteq Begun'
  <2>1. attempts \in Nat /\ (attempts' = attempts \/ attempts' = attempts + 1)
    BY Basics DEF PageStep, StartScan, CleanupProvisioning, ScanWifiAgain, Provision, Reload,
                  ConnectDevice, Dispatch
  <2> QED
    BY <2>1 DEF Begun
<1>3. \A m : MessageFits(m) => MessageFits(m)'
  BY <1>2 DEF MessageFits
<1>4. \A m : AnswerFits(m) => AnswerFits(m)'
  BY <1>2 DEF AnswerFits
<1>5. \A j : JobFits(j) => JobFits(j)'
  BY <1>2 DEF JobFits
<1>6. ChannelsOK
  BY DEF BleInv
<1>7. Told' \subseteq Told
  BY <1>6, Moves DEF PageStep, StartScan, CleanupProvisioning, ScanWifiAgain, Provision, Reload,
                ConnectDevice, Dispatch
<1> SUFFICES \A m \in Sent' : m \in Sent \/ MessageFits(m)'
  BY <1>1, <1>2, <1>3, <1>4, <1>5, <1>7, Basics DEF Fitting
<1>8. ASSUME NEW type, NEW a, NEW d, a \in Begun' \/ type = "ready",
             type \in Request \ {"scan"} => d \in Lamp
      PROVE  \A m : m = Ask(type, a, d) => MessageFits(m)'
  BY <1>8 DEF MessageFits, Ask
<1>9. page.attempt # None => page.attempt \in Begun'
  BY <1>2, Basics
<1>10. CASE StartScan
  <2>1. attempts' \in Begun' /\ Posts(<<Ask("scan", attempts', None)>>)
    BY <1>10, Basics DEF StartScan, Begun
  <2> QED
    BY <1>6, <1>8, <2>1, Moves
<1>11. ASSUME NEW d \in Lamp, ConnectDevice(d)
       PROVE  \A m \in Sent' : m \in Sent \/ MessageFits(m)'
  <2>1. page.attempt # None /\ Posts(<<Ask("connect", page.attempt, d)>>)
    BY <1>11 DEF ConnectDevice, BleInv, PageFits, BlankPage
  <2> QED
    BY <1>6, <1>8, <1>9, <2>1, Moves
<1>12. ASSUME page.stage \in {"wifi", "provisioning"}, Posts(WifiScanOf(page))
       PROVE  \A m \in Sent' : m \in Sent \/ MessageFits(m)'
  <2>1. page.attempt # None /\ page.connected \in Lamp
    BY <1>12 DEF BleInv, PageFits, BlankPage
  <2>2. Posts(<<>>) \/ Posts(<<Ask("wifiScan", page.attempt, page.connected)>>)
    BY <1>12 DEF WifiScanOf
  <2> QED
    BY <1>6, <1>8, <1>9, <2>1, <2>2, Moves
<1>13. CASE ScanWifiAgain
  BY <1>12, <1>13 DEF ScanWifiAgain
<1>14. CASE Provision
  <2>1. page.attempt # None /\ page.connected \in Lamp
        /\ Posts(<<Ask("provision", page.attempt, page.connected)>>)
    BY <1>14 DEF Provision, BleInv, PageFits, BlankPage
  <2> QED
    BY <1>6, <1>8, <1>9, <2>1, Moves
<1>15. CASE CleanupProvisioning
  <2>1. page.attempt # None
        /\ Posts(<<Ask("cancelScan", page.attempt, None), Ask("disconnect", page.attempt, None)>>)
    BY <1>15 DEF CleanupProvisioning
  <2> QED
    BY <1>6, <1>8, <1>9, <2>1, Moves DEF Request
<1>16. CASE Reload
  BY <1>6, <1>8, <1>16, Moves DEF Reload, Request
<1>17. CASE Dispatch
  <2> DEFINE m == Head(toPage)
  <2>1. toPage # <<>> /\ m \in Told
    BY <1>6, <1>17, Moves DEF Dispatch
  <2>2. AnswerFits(m)
    BY <2>1, Basics
  <2>3. \/ m.attempt # None /\ Posts(<<Ask("disconnect", m.attempt, None)>>)
        \/ m.type = "connected" /\ Posts(<<Ask("create", m.attempt, m.lamp)>>)
        \/ m.type = "created" /\ Accepts(m) /\ Posts(WifiScanOf(page))
        \/ Posts(<<>>)
        \/ UNCHANGED toNative
    BY <1>17 DEF Dispatch, Replies
  <2> HIDE DEF m
  <2>4. CASE m.attempt # None /\ Posts(<<Ask("disconnect", m.attempt, None)>>)
    <3>1. m.attempt \in Begun'
      BY <1>2, <2>2, <2>4 DEF AnswerFits
    <3> QED
      BY <1>6, <1>8, <2>4, <3>1, Moves DEF Request
  <2>5. CASE m.type = "connected" /\ Posts(<<Ask("create", m.attempt, m.lamp)>>)
    <3>1. m.attempt \in Begun' /\ m.lamp \in Lamp
      BY <1>2, <2>2, <2>5 DEF AnswerFits, Final
    <3> QED
      BY <1>6, <1>8, <2>5, <3>1, Moves
  <2>6. CASE m.type = "created" /\ Accepts(m) /\ Posts(WifiScanOf(page))
    <3>1. "create" \in page.wants
      BY <2>2, <2>6 DEF Accepts, AnswerFits
    <3>2. page.stage \in {"provisioning", "wifi"}
      BY <3>1, Basics DEF BleInv, PageFits, WantsFit, Page, PageStage
    <3> QED
      BY <1>12, <2>6, <3>2
  <2> QED
    BY <1>6, <2>3, <2>4, <2>5, <2>6, Moves
<1> QED
  BY <1>10, <1>11, <1>13, <1>14, <1>15, <1>16, <1>17 DEF PageStep

\* The shell's jobs and answers name the attempt and the lamp of the
\* request they come from.
LEMMA FittingOfShell ==
    ASSUME BleInv, ShellStep
    PROVE  Fitting'
<1>1. Begun' = Begun
  BY ShellFrame DEF Begun
<1>2. /\ \A m : MessageFits(m) => MessageFits(m)'
      /\ \A m : AnswerFits(m) => AnswerFits(m)'
      /\ \A j : JobFits(j) => JobFits(j)'
  BY <1>1 DEF MessageFits, AnswerFits, JobFits
<1>3. ChannelsOK
  BY DEF BleInv
<1>4. Sent' \subseteq Sent
  BY <1>3, Moves, ShellFrame DEF Handle
<1> SUFFICES /\ \A m \in Told' : m \in Told \/ AnswerFits(m)
             /\ \A j \in jobs' : JobFits(j)
             /\ ble'.attempt \in Begun \cup {None}
  BY <1>1, <1>2, <1>4, Basics DEF Fitting
<1>5. \A j, k : JobFits(j) /\ Same(k, j) => JobFits(k)
  BY DEF JobFits, Same
<1>6. jobs \subseteq Job /\ ble \in Ble /\ ble.attempt \in Begun \cup {None}
      /\ \A j \in jobs : JobFits(j)
  BY Basics
<1>7. \A js : js \subseteq jobs => \A k \in Outdated(js) : JobFits(k)
  BY <1>5, <1>6, OutdatedOf
<1>8. Told' = Told => \A m \in Told' : m \in Told \/ AnswerFits(m)
  OBVIOUS
<1>9. ASSUME NEW of \in Request, NEW a \in Begun, Says(Error(of, a))
      PROVE  \A m \in Told' : m \in Told \/ AnswerFits(m)
  <2>1. AnswerFits(Error(of, a))
    BY DEF AnswerFits, Error, Tell, Final
  <2> QED
    BY <1>3, <1>9, <2>1, Moves
<1>10. ASSUME NEW type \in {"scanned", "snapshot"}, NEW a,
              a \in Begun \/ (a = None /\ type = "snapshot"), Says(Tell(type, "scan", a, None))
       PROVE  \A m \in Told' : m \in Told \/ AnswerFits(m)
  <2>1. AnswerFits(Tell(type, "scan", a, None))
    BY <1>10 DEF AnswerFits, Tell, Final
  <2> QED
    BY <1>3, <1>10, <2>1, Moves
<1>11. CASE Handle
  <2>1. PICK m : Taken(m) /\ HandleOne(m)
    BY <1>11, Handles
  <2>2. m \in Message /\ MessageFits(m)
    BY <2>1 DEF Taken
  <2>3. ASSUME NEW op \in Request, NEW claim, NEW at, m.type = op,
               op = "scan" <=> at = "permission", at \in {"server", "save"} => op = "create",
               op = "create" => claim \in Lamp
        PROVE  JobFits(NewJob(op, m, claim, at))
    BY <2>2, <2>3 DEF MessageFits, JobFits, NewJob, Request
  <2>4. CASE HandleScan(m)
    BY <1>3, <1>6, <1>8, <2>3, <2>4, Moves DEF HandleScan, Request
  <2>5. CASE HandleCancelScan(m)
    <3>1. m.attempt \in Begun
      BY <2>2, <2>5 DEF HandleCancelScan, MessageFits
    <3>2. ble'.attempt = ble.attempt
      BY <2>5, <1>6 DEF HandleCancelScan, Ble
    <3> QED
      BY <1>3, <1>6, <1>7, <1>8, <1>10, <2>5, <3>1, <3>2, Moves DEF HandleCancelScan
  <2>6. CASE HandleConnect(m)
    <3>1. m.attempt \in Begun
      BY <2>2, <2>6 DEF HandleConnect, MessageFits
    <3>2. ble'.attempt = ble.attempt
      BY <2>6, <1>6 DEF HandleConnect, Ble
    <3>3. JobFits(NewJob("connect", m, None, "module"))
      BY <2>3, <2>6 DEF HandleConnect, Request
    <3> QED
      BY <1>3, <1>6, <1>7, <1>8, <1>9, <2>6, <3>1, <3>2, <3>3, Moves DEF HandleConnect, Silently, Request
  <2>7. CASE HandleCreate(m)
    <3>1. m.attempt \in Begun /\ UNCHANGED ble
      BY <2>2, <2>7 DEF HandleCreate, MessageFits
    <3>2. CASE phone.registration = None /\ Says(Error("create", m.attempt)) /\ UNCHANGED jobs
      BY <1>6, <1>9, <3>1, <3>2 DEF Request
    <3>3. ASSUME NEW claim, NEW at \in {"save", "server"}, claim \in Lamp, Silently,
                 jobs' = jobs \cup {NewJob("create", m, claim, at)}
          PROVE  /\ \A t \in Told' : t \in Told \/ AnswerFits(t)
                 /\ \A j \in jobs' : JobFits(j)
                 /\ ble'.attempt \in Begun \cup {None}
      <4>1. JobFits(NewJob("create", m, claim, at))
        BY <2>3, <2>7, <3>3 DEF HandleCreate, Request
      <4> QED
        BY <1>3, <1>6, <1>8, <3>1, <3>3, <4>1, Moves
    <3>4. phone.registration # None => phone.registration \in Lamp
      BY Basics DEF Phone, Maybe
    <3> QED
      BY <2>7, <3>2, <3>3, <3>4 DEF HandleCreate, Reusable
  <2>8. CASE HandleWifi(m)
    <3>1. m.attempt \in Begun /\ m.type \in {"wifiScan", "provision"}
      BY <2>2, <2>8 DEF HandleWifi, MessageFits
    <3>2. ble'.attempt = ble.attempt
      BY <2>8, <1>6 DEF HandleWifi, Ble
    <3>3. JobFits(NewJob(m.type, m, None, "module"))
      BY <2>3, <3>1 DEF Request
    <3> QED
      BY <1>3, <1>6, <1>7, <1>8, <1>9, <2>8, <3>1, <3>2, <3>3, Moves DEF HandleWifi, Silently, Request
  <2>9. CASE HandleDisconnect(m)
    BY <1>3, <1>6, <1>7, <1>8, <2>9, Moves DEF HandleDisconnect
  <2>10. CASE HandleReady(m)
    BY <1>6, <1>10, <2>10 DEF HandleReady
  <2> QED
    BY <2>1, <2>4, <2>5, <2>6, <2>7, <2>8, <2>9, <2>10 DEF HandleOne
<1>12. CASE ScanEnds \/ \E d \in Lamp : Found(d)
  <2>1. ble.attempt \in Begun /\ UNCHANGED jobs
    BY <1>6, <1>12 DEF ScanEnds, Found, BleInv, LeftFits
  <2>2. ble'.attempt = ble.attempt
    BY <1>6, <1>12 DEF ScanEnds, Found, Ble
  <2>3. \A d \in Lamp : AnswerFits(Tell("found", "scan", ble.attempt, d))
    BY <2>1 DEF AnswerFits, Tell, Final
  <2>4. CASE ScanEnds
    BY <1>6, <1>9, <1>10, <2>1, <2>2, <2>4 DEF ScanEnds, Request
  <2>5. CASE \E d \in Lamp : Found(d)
    BY <1>3, <1>6, <2>1, <2>2, <2>3, <2>5, Moves DEF Found
  <2> QED
    BY <1>12, <2>4, <2>5
<1>13. ASSUME NEW j \in jobs, Permission(j) \/ ServerAnswers(j) \/ BindClaim(j)
       PROVE  /\ \A m \in Told' : m \in Told \/ AnswerFits(m)
              /\ \A k \in jobs' : JobFits(k)
              /\ ble'.attempt \in Begun \cup {None}
  <2>1. j.attempt \in Begun /\ JobFits(j) /\ j \in Job
    BY Basics DEF JobFits
  <2>2. CASE Permission(j)
    <3>1. ble'.attempt \in Begun \cup {None}
      BY <1>6, <2>1, <2>2 DEF Permission, Ble
    <3>2. \A k \in jobs' : JobFits(k)
      BY <1>6, <1>7, <2>2 DEF Permission
    <3>3. AnswerFits(Tell("blocked", "scan", None, None))
      BY DEF AnswerFits, Tell, Final
    <3> QED
      BY <1>3, <1>8, <2>2, <3>1, <3>2, <3>3, Moves DEF Permission
  <2>3. CASE ServerAnswers(j)
    <3>1. JobFits([j EXCEPT !.at = "save"])
      BY <2>1, <2>3 DEF ServerAnswers, JobFits, Job
    <3> QED
      BY <1>3, <1>6, <1>8, <1>9, <2>1, <2>3, <3>1, Moves DEF ServerAnswers, Request
  <2>4. CASE BindClaim(j)
    <3>1. JobFits([j EXCEPT !.at = "module", !.fresh = TRUE])
      BY <2>1, <2>4 DEF BindClaim, JobFits, Job
    <3>2. ble'.attempt = ble.attempt
      BY <1>6, <2>4 DEF BindClaim, Ble
    <3>3. \A k \in jobs' : JobFits(k)
      BY <1>6, <1>7, <2>4, <3>1 DEF BindClaim
    <3> QED
      BY <1>3, <1>6, <1>8, <1>9, <2>1, <2>4, <3>2, <3>3, Moves DEF BindClaim, Request
  <2> QED
    BY <1>13, <2>2, <2>3, <2>4
<1>14. CASE Continue
  <2>1. PICK j : Continued(j)
    BY <1>14, Continues
  <2>2. j.attempt \in Begun /\ j.lamp \in Lamp /\ (j.op = "create" => j.claim \in Lamp)
        /\ j.op \in Request
    BY <2>1, Basics DEF Continued, JobFits
  <2>3. /\ AnswerFits(Tell("connected", "connect", j.attempt, j.lamp))
        /\ j.op = "create" => AnswerFits(Tell("created", "create", j.attempt, j.claim))
        /\ AnswerFits(Tell("networks", "wifiScan", j.attempt, j.lamp))
        /\ AnswerFits(Tell("provisioned", "provision", j.attempt, j.lamp))
    BY <2>2 DEF AnswerFits, Tell, Final
  <2>4. \A k \in jobs' : JobFits(k)
    BY <1>6, <2>1 DEF Continued
  <2>5. ble'.attempt = ble.attempt
    BY <1>6, <2>1 DEF Continued, Ble, ConnectEnds, CreateEnds, ScanWifiEnds, ProvisionEnds
  <2>6. \A m \in Told' : m \in Told \/ AnswerFits(m)
    BY <1>3, <1>8, <1>9, <2>1, <2>2, <2>3, Moves
       DEF Continued, ConnectEnds, CreateEnds, ScanWifiEnds, ProvisionEnds
  <2> QED
    BY <1>6, <2>4, <2>5, <2>6
<1> QED
  BY <1>11, <1>12, <1>13, <1>14 DEF ShellStep

\* Every step keeps what is under way fitting.
LEMMA FittingKept ==
    ASSUME BleInv, BleNext
    PROVE  Fitting'
<1>1. ASSUME ModuleStep PROVE Fitting'
  BY <1>1, ModuleFrame DEF BleInv, Fitting, Sent, Told, MessageFits, AnswerFits, JobFits, Begun
<1> QED
  BY <1>1, Steps, FittingOfPage, FittingOfShell

----------------------------------------------------------------------------
(* What a step of the page is.                                             *)

\* The page takes the answer m.
Received(m) ==
    /\ toPage # <<>> /\ m = Head(toPage) /\ toPage' = Tail(toPage)
    /\ m \in Told /\ m \in Answer /\ AnswerFits(m)
    /\ Told' \subseteq Told /\ Told \subseteq Told' \cup {m}
    /\ UNCHANGED <<attempts, ble, phone, jobs, module, results, lamp>>

\* An answer that the page does not accept changes nothing; one of another
\* attempt is told to disconnect.
Ignored(m) ==
    /\ UNCHANGED page
    /\ m.type = "snapshot" \/ ~Accepts(m)
    /\ \/ Posts(<<>>) \/ UNCHANGED toNative
       \/ m.attempt \notin {None, page.attempt} /\ Posts(<<Ask("disconnect", m.attempt, None)>>)

\* Where an answer takes the page.
NowAt(stage, wants) ==
    /\ page'.attempt = page.attempt /\ page'.stage = stage /\ page'.wants = wants
    /\ page'.listing <=> "wifiScan" \in wants
KeepsLamp == page'.connected = page.connected
KeepsClaim == page'.claim = page.claim
KeepsNearby == page'.nearby = page.nearby

HeardOfScan(m) ==
    /\ page.stage = "scanning" /\ page.wants = {"scan"} /\ KeepsLamp /\ KeepsClaim /\ Posts(<<>>)
    /\ \/ m.type = "found" /\ NowAt("scanning", {"scan"}) /\ page'.nearby = page.nearby \cup {m.lamp}
       \/ m.type = "scanned" /\ NowAt("idle", {}) /\ KeepsNearby
       \/ m.type \in {"blocked", "error"} /\ NowAt("failed", {}) /\ KeepsNearby
HeardConnected(m) ==
    /\ m.type = "connected" /\ page.stage = "connecting" /\ page.wants = {"connect"}
    /\ NowAt("provisioning", {"create"}) /\ page'.connected = m.lamp /\ KeepsClaim /\ KeepsNearby
    /\ Posts(<<Ask("create", page.attempt, m.lamp)>>)
HeardCreated(m) ==
    /\ m.type = "created" /\ page.stage = "provisioning" /\ page.wants = {"create"}
    /\ NowAt("provisioning", {"wifiScan"}) /\ page'.claim = m.lamp /\ KeepsLamp /\ KeepsNearby
    /\ Posts(<<Ask("wifiScan", page.attempt, page.connected)>>)
HeardNetworks(m) ==
    /\ m.type = "networks" /\ page.stage \in {"provisioning", "wifi"} /\ page.wants = {"wifiScan"}
    /\ NowAt("wifi", {}) /\ KeepsLamp /\ KeepsClaim /\ KeepsNearby /\ Posts(<<>>)
HeardProvisioned(m) ==
    /\ m.type = "provisioned" /\ page.stage = "provisioning" /\ page.wants = {"provision"}
    /\ NowAt("wifi-connected", {}) /\ KeepsLamp /\ KeepsClaim /\ KeepsNearby /\ Posts(<<>>)
HeardError(m) ==
    /\ m.type = "error" /\ page.stage \in {"connecting", "provisioning", "wifi"}
    /\ NowAt("failed", {}) /\ KeepsLamp /\ KeepsClaim /\ KeepsNearby /\ Posts(<<>>)

\* An answer that the page accepts takes it on.
Learnt(m) ==
    /\ page.attempt # None /\ Accepts(m) /\ page' \in Page
    /\ \/ HeardOfScan(m)
       \/ /\ IsReply(m) /\ m.attempt = page.attempt
          /\ \/ HeardConnected(m) \/ HeardCreated(m) \/ HeardNetworks(m)
             \/ HeardProvisioned(m) \/ HeardError(m)

\* The page waits for one kind of answer at a time, the one its stage
\* shows.
LEMMA Wants ==
    ASSUME BleInv
    PROVE  /\ page.wants # {} => page.attempt # None
           /\ "scan" \in page.wants => page.stage = "scanning" /\ page.wants = {"scan"}
           /\ "connect" \in page.wants => page.stage = "connecting" /\ page.wants = {"connect"}
           /\ "create" \in page.wants => page.stage = "provisioning" /\ page.wants = {"create"}
           /\ "wifiScan" \in page.wants =>
                page.stage \in {"provisioning", "wifi"} /\ page.wants = {"wifiScan"}
           /\ "provision" \in page.wants => page.stage = "provisioning" /\ page.wants = {"provision"}
           /\ "disconnect" \notin page.wants /\ "cancelScan" \notin page.wants
BY Basics DEF BleInv, PageFits, WantsFit, Page, PageStage, BlankPage

\* The page takes the answer at the channel's head: it ignores it or learns
\* it.
LEMMA Dispatches ==
    ASSUME BleInv, Dispatch
    PROVE  \E m : Received(m) /\ (Ignored(m) \/ Learnt(m))
<1> DEFINE m == Head(toPage)
<1>1. /\ toPage # <<>> /\ toPage' = Tail(toPage) /\ m \in Told
      /\ Told' \subseteq Told /\ Told \subseteq Told' \cup {m}
      /\ UNCHANGED <<attempts, ble, phone, jobs, module, results, lamp>>
  BY Moves DEF Dispatch, BleInv
<1>2. m \in Answer /\ AnswerFits(m)
  BY <1>1, Basics
<1>3. Received(m)
  BY <1>1, <1>2 DEF Received
<1>4. \/ m.type = "snapshot" /\ UNCHANGED page
         /\ Posts(IF m.attempt \in {None, page.attempt} THEN <<>>
                  ELSE <<Ask("disconnect", m.attempt, None)>>)
      \/ m.type # "snapshot" /\ Accepts(m) /\ page' = Heard(m) /\ Posts(Replies(m))
      \/ m.type # "snapshot" /\ ~Accepts(m) /\ UNCHANGED <<page, toNative>>
  BY DEF Dispatch
<1> HIDE DEF m
<1> SUFFICES Ignored(m) \/ Learnt(m)
  BY <1>3
<1>5. CASE m.type = "snapshot" \/ ~Accepts(m)
  BY <1>4, <1>5 DEF Ignored
<1>6. CASE m.type # "snapshot" /\ Accepts(m) /\ page' = Heard(m) /\ Posts(Replies(m))
  <2>1. page \in Page /\ m.of \in page.wants /\ m.attempt \in {None, page.attempt}
        /\ page.attempt # None /\ (page.listing <=> "wifiScan" \in page.wants)
    BY <1>6, Basics, Wants DEF Accepts, BleInv, PageFits, Page
  <2> DEFINE done == [page EXCEPT !.wants = @ \ {m.of}]
  <2>2. done \in Page /\ done.wants = page.wants \ {m.of} /\ done.attempt = page.attempt
        /\ done.stage = page.stage /\ done.nearby = page.nearby /\ done.connected = page.connected
        /\ done.claim = page.claim /\ done.listing = page.listing
    BY <2>1 DEF Page
  <2>3. page' = CASE m.type = "found"       -> [page EXCEPT !.nearby = @ \cup {m.lamp}]
                  [] m.type = "scanned"     -> [done EXCEPT !.stage = "idle"]
                  [] m.type = "connected"   -> [done EXCEPT !.connected = m.lamp, !.stage = "provisioning",
                                                            !.wants = @ \cup {"create"}]
                  [] m.type = "created"     -> WithWifiScan([done EXCEPT !.claim = m.lamp])
                  [] m.type = "networks"    -> [done EXCEPT !.listing = FALSE, !.stage = "wifi"]
                  [] m.type = "provisioned" -> [done EXCEPT !.stage = "wifi-connected"]
                  [] m.type = "blocked"     -> [done EXCEPT !.stage = "failed"]
                  [] m.type = "error"       -> [done EXCEPT !.listing = FALSE, !.stage = "failed"]
    BY <1>6 DEF Heard
  <2> HIDE DEF done
  <2>4. m.attempt = page.attempt \/ m.type = "blocked"
    BY <1>2, <1>6, <2>1, Basics DEF AnswerFits
  <2>5. ASSUME m.type \in {"found", "scanned", "blocked"} PROVE HeardOfScan(m)
    <3>1. m.of = "scan" /\ page.stage = "scanning" /\ page.wants = {"scan"} /\ Posts(<<>>)
      BY <1>2, <1>6, <2>1, <2>5, Wants DEF AnswerFits, Replies
    <3>2. CASE m.type = "found"
      <4>1. page' = [page EXCEPT !.nearby = @ \cup {m.lamp}]
        BY <2>3, <3>2
      <4> QED
        BY <2>1, <3>1, <3>2, <4>1 DEF HeardOfScan, NowAt, KeepsLamp, KeepsClaim, Page
    <3>3. CASE m.type = "scanned"
      <4>1. page' = [done EXCEPT !.stage = "idle"]
        BY <2>3, <3>3
      <4> QED
        BY <2>1, <2>2, <3>1, <3>3, <4>1 DEF HeardOfScan, NowAt, KeepsLamp, KeepsClaim, KeepsNearby, Page
    <3>4. CASE m.type = "blocked"
      <4>1. page' = [done EXCEPT !.stage = "failed"]
        BY <2>3, <3>4
      <4> QED
        BY <2>1, <2>2, <3>1, <3>4, <4>1 DEF HeardOfScan, NowAt, KeepsLamp, KeepsClaim, KeepsNearby, Page
    <3> QED
      BY <2>5, <3>2, <3>3, <3>4
  <2>6. ASSUME m.type = "error" PROVE HeardOfScan(m) \/ (IsReply(m) /\ HeardError(m))
    <3>1. page' = [done EXCEPT !.listing = FALSE, !.stage = "failed"] /\ Posts(<<>>)
      BY <1>6, <2>3, <2>6 DEF Replies
    <3>2. m.of \in Request
      BY <1>2 DEF Answer
    <3>3. page.wants \ {m.of} = {} /\ (m.of = "scan" => page.stage = "scanning" /\ page.wants = {"scan"})
          /\ (m.of # "scan" => page.stage \in {"connecting", "provisioning", "wifi"})
      BY <2>1, <3>2, Wants DEF Request
    <3>4. /\ page'.wants = {} /\ page'.stage = "failed" /\ page'.listing = FALSE
          /\ page'.attempt = page.attempt /\ KeepsLamp /\ KeepsClaim /\ KeepsNearby
      BY <2>1, <2>2, <3>1, <3>3 DEF KeepsLamp, KeepsClaim, KeepsNearby, Page
    <3>5. NowAt("failed", {})
      BY <3>4 DEF NowAt
    <3> QED
      BY <2>6, <3>1, <3>3, <3>4, <3>5 DEF HeardOfScan, HeardError, IsReply
  <2>7. ASSUME m.type = "connected" PROVE HeardConnected(m) /\ IsReply(m)
    <3>1. m.of = "connect" /\ page.stage = "connecting" /\ page.wants = {"connect"}
          /\ Posts(<<Ask("create", m.attempt, m.lamp)>>)
      BY <1>2, <1>6, <2>1, <2>7, Wants DEF AnswerFits, Replies
    <3>2. page' = [done EXCEPT !.connected = m.lamp, !.stage = "provisioning",
                               !.wants = @ \cup {"create"}]
      BY <2>3, <2>7
    <3> QED
      BY <2>1, <2>2, <2>4, <2>7, <3>1, <3>2 DEF HeardConnected, NowAt, KeepsClaim, KeepsNearby, IsReply, Page
  <2>8. ASSUME m.type = "created" PROVE HeardCreated(m) /\ IsReply(m)
    <3>1. m.of = "create" /\ page.stage = "provisioning" /\ page.wants = {"create"}
      BY <1>2, <2>1, <2>8, Wants DEF AnswerFits
    <3>2. Posts(<<Ask("wifiScan", page.attempt, page.connected)>>)
      BY <1>6, <2>8, <3>1 DEF Replies, WifiScanOf
    <3> DEFINE with == [done EXCEPT !.claim = m.lamp]
    <3>3. page' = WithWifiScan(with)
      BY <2>3, <2>8
    <3>4. m.lamp \in Maybe(Lamp) /\ done.wants = {}
      BY <1>2, <2>2, <3>1 DEF Answer
    <3>5. with \in Page /\ with.wants = {} /\ with.claim = m.lamp /\ with.attempt = page.attempt
          /\ with.stage = page.stage /\ with.nearby = page.nearby /\ with.connected = page.connected
      BY <2>2, <3>4 DEF Page
    <3> HIDE DEF with
    <3>6. page' = [with EXCEPT !.wants = @ \cup {"wifiScan"}, !.listing = TRUE]
      BY <3>3, <3>5 DEF WithWifiScan
    <3> QED
      BY <2>8, <3>1, <3>2, <3>5, <3>6 DEF HeardCreated, NowAt, KeepsLamp, KeepsNearby, IsReply, Page
  <2>9. ASSUME m.type = "networks" PROVE HeardNetworks(m) /\ IsReply(m)
    <3>1. m.of = "wifiScan" /\ page.stage \in {"provisioning", "wifi"} /\ page.wants = {"wifiScan"}
          /\ Posts(<<>>)
      BY <1>2, <1>6, <2>1, <2>9, Wants DEF AnswerFits, Replies
    <3>2. page' = [done EXCEPT !.listing = FALSE, !.stage = "wifi"]
      BY <2>3, <2>9
    <3>3. done.wants = {}
      BY <2>2, <3>1
    <3>4. /\ page'.wants = {} /\ page'.stage = "wifi" /\ page'.listing = FALSE
          /\ page'.attempt = page.attempt /\ KeepsLamp /\ KeepsClaim /\ KeepsNearby
      BY <2>1, <2>2, <3>2, <3>3 DEF KeepsLamp, KeepsClaim, KeepsNearby, Page
    <3>5. NowAt("wifi", {})
      BY <3>4 DEF NowAt
    <3> QED
      BY <2>9, <3>1, <3>4, <3>5 DEF HeardNetworks, IsReply
  <2>10. ASSUME m.type = "provisioned" PROVE HeardProvisioned(m) /\ IsReply(m)
    <3>1. m.of = "provision" /\ page.stage = "provisioning" /\ page.wants = {"provision"}
          /\ Posts(<<>>)
      BY <1>2, <1>6, <2>1, <2>10, Wants DEF AnswerFits, Replies
    <3>2. page' = [done EXCEPT !.stage = "wifi-connected"]
      BY <2>3, <2>10
    <3> QED
      BY <2>1, <2>2, <2>10, <3>1, <3>2
         DEF HeardProvisioned, NowAt, KeepsLamp, KeepsClaim, KeepsNearby, IsReply, Page
  <2>11. m.type \in {"found", "scanned", "blocked", "error"} \cup Final
    BY <1>2, <1>6 DEF Answer, AnswerType
  <2>12. page' \in Page
    <3>1. /\ m.lamp \in Maybe(Lamp)
          /\ m.type = "found" => m.lamp \in Lamp
      BY <1>2 DEF Answer, AnswerFits
    <3>2. m.type = "found" => page' \in Page
      BY <2>1, <2>3, <3>1 DEF Page
    <3>3. m.type = "created" => page' \in Page
      <4> DEFINE with == [done EXCEPT !.claim = m.lamp]
      <4>1. with \in Page /\ WithWifiScan(with) \in {with, [with EXCEPT !.wants = @ \cup {"wifiScan"}, !.listing = TRUE]}
        BY <2>2, <3>1 DEF Page, WithWifiScan
      <4> HIDE DEF with
      <4>2. [with EXCEPT !.wants = @ \cup {"wifiScan"}, !.listing = TRUE] \in Page
        BY <4>1 DEF Page, Request
      <4> QED
        BY <2>3, <4>1, <4>2 DEF with
    <3>4. m.type = "connected" => page' \in Page
      BY <2>2, <2>3, <3>1 DEF Page, PageStage, Request
    <3>5. m.type \in {"scanned", "networks", "provisioned", "blocked", "error"} => page' \in Page
      BY <2>2, <2>3 DEF Page, PageStage
    <3> QED
      BY <2>11, <3>2, <3>3, <3>4, <3>5 DEF Final
  <2> QED
    BY <1>6, <2>1, <2>4, <2>5, <2>6, <2>7, <2>8, <2>9, <2>10, <2>11, <2>12 DEF Learnt, Final
<1> QED
  BY <1>4, <1>5, <1>6

\* The page's stage, the answers it waits for and its lamp stay consistent.
LEMMA PageFitsKept ==
    ASSUME BleInv, BleNext
    PROVE  page' \in Page /\ PageFits'
<1>1. page \in Page /\ PageFits /\ attempts \in Nat /\ attempts <= MaxAttempt /\ MaxAttempt \in Nat
  BY Basics DEF BleInv
<1>2. ASSUME UNCHANGED <<page, attempts>> PROVE page' \in Page /\ PageFits'
  BY <1>1, <1>2 DEF PageFits, WantsFit
<1>3. CASE ModuleStep \/ ShellStep
  BY <1>2, <1>3, ModuleFrame, ShellFrame
<1>4. BlankPage \in Page
  BY DEF BlankPage, Page, Maybe, PageStage
<1>5. CASE page' = BlankPage
  BY <1>4, <1>5 DEF PageFits, WantsFit, BlankPage
<1>6. CASE StartScan
  <2>1. attempts' = attempts + 1 /\ attempts' \in Attempt /\ attempts' # None
    BY <1>1, <1>6 DEF StartScan, Attempt
  <2> DEFINE p == [BlankPage EXCEPT !.attempt = attempts', !.stage = "scanning", !.wants = {"scan"},
                                    !.claim = page.claim]
  <2>2. page' = p
    BY <1>6 DEF StartScan
  <2>3. /\ p \in Page /\ p.attempt = attempts' /\ p.stage = "scanning" /\ p.wants = {"scan"}
        /\ p.listing = FALSE
    BY <1>1, <1>4, <2>1 DEF Page, PageStage, Request, BlankPage, Maybe
  <2> HIDE DEF p
  <2> QED
    BY <2>1, <2>2, <2>3 DEF PageFits, WantsFit
<1>7. ASSUME NEW d \in Lamp, ConnectDevice(d) PROVE page' \in Page /\ PageFits'
  <2>1. page' = [page EXCEPT !.wants = (@ \ {"scan"}) \cup {"connect"}, !.stage = "connecting",
                             !.connected = d, !.listing = FALSE]
        /\ page.stage \in {"scanning", "idle"} /\ page.attempt # None /\ UNCHANGED attempts
    BY <1>1, <1>7 DEF ConnectDevice, PageFits, BlankPage
  <2>2. page' \in Page /\ page'.wants = {"connect"} /\ page'.stage = "connecting"
        /\ page'.connected = d /\ page'.listing = FALSE /\ page'.attempt = page.attempt
    BY <1>1, <2>1 DEF Page, PageStage, Request, Maybe, PageFits, WantsFit
  <2> QED
    BY <1>1, <2>1, <2>2 DEF PageFits, WantsFit
<1>8. CASE ScanWifiAgain
  <2>1. page.stage = "wifi" /\ page.wants = {} /\ page.attempt # None /\ UNCHANGED attempts
    BY <1>1, <1>8 DEF ScanWifiAgain, PageFits, WantsFit, BlankPage
  <2>2. page' = [page EXCEPT !.wants = @ \cup {"wifiScan"}, !.listing = TRUE]
    BY <1>8, <2>1 DEF ScanWifiAgain, WithWifiScan
  <2>3. page' \in Page /\ page'.wants = {"wifiScan"} /\ page'.stage = "wifi"
        /\ page'.connected = page.connected /\ page'.listing = TRUE /\ page'.attempt = page.attempt
    BY <1>1, <2>1, <2>2 DEF Page, Request
  <2> QED
    BY <1>1, <2>1, <2>3 DEF PageFits, WantsFit
<1>9. CASE Provision
  <2>1. page.stage = "wifi" /\ page.wants = {} /\ page.attempt # None /\ UNCHANGED attempts
        /\ page.listing = FALSE
    BY <1>1, <1>9 DEF Provision, PageFits, WantsFit, BlankPage, Page
  <2>2. page' = [page EXCEPT !.wants = @ \cup {"provision"}, !.stage = "provisioning"]
    BY <1>9 DEF Provision
  <2>3. page' \in Page /\ page'.wants = {"provision"} /\ page'.stage = "provisioning"
        /\ page'.connected = page.connected /\ page'.listing = FALSE /\ page'.attempt = page.attempt
    BY <1>1, <2>1, <2>2 DEF Page, Request, PageStage
  <2> QED
    BY <1>1, <2>1, <2>3 DEF PageFits, WantsFit
<1>10. CASE Dispatch
  <2>1. PICK m : Received(m) /\ (Ignored(m) \/ Learnt(m))
    BY <1>10, Dispatches
  <2>2. UNCHANGED attempts
    BY <2>1 DEF Received
  <2>3. CASE Ignored(m)
    BY <1>2, <2>2, <2>3 DEF Ignored
  <2>4. ASSUME Learnt(m), NEW stage, NEW wants, NowAt(stage, wants), wants # {"connect"},
               stage \in {"provisioning", "wifi"} => page'.connected \in Lamp,
               WantsFit([stage |-> stage, wants |-> wants]), stage # "connecting"
        PROVE  page' \in Page /\ PageFits'
    <3>1. page'.stage = stage /\ page'.wants = wants /\ page'.attempt = page.attempt
          /\ page.attempt # None /\ page' \in Page
      BY <2>4 DEF Learnt, NowAt
    <3>2. WantsFit(page)'
      BY <2>4, <3>1 DEF WantsFit
    <3> QED
      BY <1>1, <2>2, <2>4, <3>1, <3>2 DEF PageFits, NowAt
  <2>5. page.stage \in {"connecting", "provisioning", "wifi"} => page.connected \in Lamp
    BY <1>1 DEF PageFits
  <2>6. CASE Learnt(m)
    <3>1. CASE HeardOfScan(m)
      <4>1. \/ NowAt("scanning", {"scan"}) \/ NowAt("idle", {}) \/ NowAt("failed", {})
        BY <3>1 DEF HeardOfScan
      <4> QED
        BY <2>4, <2>6, <4>1 DEF WantsFit
    <3>2. CASE HeardConnected(m)
      <4>1. NowAt("provisioning", {"create"}) /\ page'.connected \in Lamp
        BY <2>1, <3>2 DEF HeardConnected, Received, AnswerFits, Final
      <4> QED
        BY <2>4, <2>6, <4>1 DEF WantsFit
    <3>3. CASE HeardCreated(m)
      <4>1. NowAt("provisioning", {"wifiScan"}) /\ page'.connected \in Lamp
        BY <2>5, <3>3 DEF HeardCreated, KeepsLamp
      <4> QED
        BY <2>4, <2>6, <4>1 DEF WantsFit
    <3>4. CASE HeardNetworks(m)
      <4>1. NowAt("wifi", {}) /\ page'.connected \in Lamp
        BY <2>5, <3>4 DEF HeardNetworks, KeepsLamp
      <4> QED
        BY <2>4, <2>6, <4>1 DEF WantsFit
    <3>5. CASE HeardProvisioned(m) \/ HeardError(m)
      <4>1. NowAt("wifi-connected", {}) \/ NowAt("failed", {})
        BY <3>5 DEF HeardProvisioned, HeardError
      <4> QED
        BY <2>4, <2>6, <4>1 DEF WantsFit
    <3> QED
      BY <2>6, <3>1, <3>2, <3>3, <3>4, <3>5 DEF Learnt
  <2> QED
    BY <2>1, <2>3, <2>6
<1> QED
  BY <1>3, <1>5, <1>6, <1>7, <1>8, <1>9, <1>10, Steps DEF PageStep, CleanupProvisioning, Reload

----------------------------------------------------------------------------
(* Types of the shell and of the module.                                   *)

\* What the lamps keep in flash; the types of what the shell and the module
\* change.
Flash == [Lamp -> [bound : Maybe(Lamp), online : BOOLEAN]]
TypesOfShell ==
    /\ ble \in Ble /\ phone \in Phone /\ jobs \subseteq Job
    /\ module \in Module /\ lamp \in Flash

\* The module without a session is one.
LEMMA FreeModuleOK == FreeModule \in Module
BY DEF FreeModule, Module, Maybe

\* A call that uses the session keeps the module typed,
LEMMA CallTypes ==
    ASSUME module \in Module, NEW op \in {"create", "wifiScan", "provision"}, NEW a \in Attempt,
           NEW d, NEW claim \in Maybe(Lamp), Call(op, a, d, claim)
    PROVE  module' \in Module
<1>1. CASE UNCHANGED module
  BY <1>1
<1>2. CASE module' = [module EXCEPT !.op = op, !.by = a, !.claim = claim, !.done = FALSE]
  BY <1>2 DEF Module, Maybe, Request
<1> QED
  BY <1>1, <1>2 DEF Call

\* as a connect does.
LEMMA CallConnectTypes ==
    ASSUME module \in Module, NEW a \in Attempt, NEW d \in Lamp, CallConnect(a, d)
    PROVE  module' \in Module
<1>1. d \in Maybe(Lamp) /\ a \in Maybe(Attempt) /\ None \in Maybe(Lamp) /\ "connect" \in Request
  BY DEF Maybe, Request
<1>2. FreeModule \in Module
  BY FreeModuleOK
<1> QED
  BY <1>1, <1>2 DEF CallConnect, Module

\* Every step keeps the types of shell, module and lamps.
LEMMA TypesKept ==
    ASSUME BleInv, BleNext
    PROVE  TypesOfShell'
<1>1. ble \in Ble /\ phone \in Phone /\ jobs \subseteq Job /\ module \in Module /\ lamp \in Flash
  BY DEF BleInv, BleTypeOK, Flash
<1>2. CASE PageStep
  BY <1>1, <1>2, PageFrame DEF TypesOfShell
<1>3. CASE ModuleStep
  <2> SUFFICES module' \in Module /\ lamp' \in Flash
    BY <1>1, <1>3, ModuleFrame DEF TypesOfShell
  <2>1. CASE QrRead
    BY <1>1, <2>1 DEF QrRead, Module
  <2>2. CASE LampActs
    <3>1. module' \in Module
      BY <1>1, <2>2 DEF LampActs, Module
    <3>2. module.session \in Lamp /\ module.claim \in Maybe(Lamp)
      BY <1>1, <2>2 DEF LampActs, BleInv, ModuleFits, Module
    <3>3. lamp[module.session] \in [bound : Maybe(Lamp), online : BOOLEAN]
      BY <1>1, <3>2 DEF Flash
    <3>4. /\ [lamp[module.session] EXCEPT !.bound = module.claim] \in [bound : Maybe(Lamp), online : BOOLEAN]
          /\ [lamp[module.session] EXCEPT !.online = TRUE] \in [bound : Maybe(Lamp), online : BOOLEAN]
      BY <3>2, <3>3
    <3> QED
      BY <1>1, <2>2, <3>1, <3>4 DEF LampActs, Flash
  <2>3. CASE Succeeds
    <3>1. \/ module' = FreeModule
          \/ module' = [module EXCEPT !.op = "none", !.by = None, !.target = None,
                                      !.claim = None, !.done = FALSE,
                                      !.bound = IF module.op = "create" THEN module.claim ELSE @]
      BY <2>3 DEF Succeeds
    <3>2. module' \in Module
      BY <1>1, <3>1, FreeModuleOK DEF Module, Maybe
    <3> QED
      BY <1>1, <2>3, <3>2 DEF Succeeds
  <2>4. CASE Fails
    BY <1>1, <2>4, FreeModuleOK DEF Fails, CallDisconnect
  <2> QED
    BY <1>3, <2>1, <2>2, <2>3, <2>4 DEF ModuleStep
<1>4. CASE ShellStep
  <2> SUFFICES ble' \in Ble /\ phone' \in Phone /\ jobs' \subseteq Job /\ module' \in Module
    BY <1>1, <1>4, ShellFrame DEF TypesOfShell
  <2>1. CASE Handle
    <3>1. PICK m : Taken(m) /\ HandleOne(m)
      BY <2>1, Handles
    <3>2. m \in Message /\ (m.type # "ready" => m.attempt \in Attempt) /\ m.lamp \in Maybe(Lamp)
          /\ (m.type \in Request \ {"scan"} => m.lamp \in Lamp)
      BY <3>1, Basics DEF Taken, MessageFits, Message
    <3>3. Outdated(jobs) \subseteq Job
      BY <1>1, OutdatedOf
    <3>4. ASSUME NEW op \in Request, NEW claim \in Maybe(Lamp), m.attempt \in Attempt,
                 NEW at \in {"permission", "server", "save", "module"}
          PROVE  NewJob(op, m, claim, at) \in Job
      <4>1. m.attempt \in Attempt /\ m.lamp \in Maybe(Lamp)
        BY <3>2, <3>4
      <4> QED
        BY <3>4, <4>1 DEF NewJob, Job
    <3>5. None \in Maybe(Lamp) /\ phone.claim \in Maybe(Lamp) /\ phone.registration \in Maybe(Lamp)
      BY <1>1 DEF Maybe, Phone
    <3>6. [ble EXCEPT !.stage = "cancelled"] \in Ble
          /\ [ble EXCEPT !.found = {}, !.stage = "connecting"] \in Ble
          /\ [ble EXCEPT !.stage = "wifi"] \in Ble /\ [ble EXCEPT !.stage = "provisioning"] \in Ble
          /\ [attempt |-> None, stage |-> "idle", found |-> {}, connected |-> None] \in Ble
      BY <1>1 DEF Ble, BleStage, Maybe
    <3>7. [phone EXCEPT !.registration = None] \in Phone /\ [phone EXCEPT !.claim = None] \in Phone
      BY <1>1 DEF Phone, Maybe
    <3>8. CASE HandleScan(m)
      BY <1>1, <3>2, <3>4, <3>5, <3>7, <3>8 DEF HandleScan, Request
    <3>9. CASE HandleCancelScan(m)
      BY <1>1, <3>3, <3>6, <3>9 DEF HandleCancelScan
    <3>10. CASE HandleConnect(m)
      <4>1. m.attempt \in Attempt /\ m.lamp \in Lamp
        BY <3>2, <3>10 DEF HandleConnect, Request
      <4> QED
        BY <1>1, <3>3, <3>4, <3>5, <3>6, <3>10, <4>1, CallConnectTypes DEF HandleConnect, Request
    <3>11. CASE HandleCreate(m)
      BY <1>1, <3>2, <3>4, <3>5, <3>7, <3>11 DEF HandleCreate, Request
    <3>12. CASE HandleWifi(m)
      <4>1. m.attempt \in Attempt /\ m.type \in {"wifiScan", "provision"} /\ m.type \in Request
        BY <3>2, <3>12 DEF HandleWifi, Request
      <4>2. CASE UNCHANGED <<ble, jobs, module>> /\ UNCHANGED phone
        BY <1>1, <4>2
      <4>3. CASE /\ ble' = [ble EXCEPT !.stage = IF m.type = "wifiScan" THEN "wifi" ELSE "provisioning"]
                 /\ jobs' = Outdated(jobs) \cup {NewJob(m.type, m, None, "module")}
                 /\ Call(m.type, m.attempt, m.lamp, None) /\ UNCHANGED phone
        <5>1. NewJob(m.type, m, None, "module") \in Job
          BY <3>4, <3>5, <4>1
        <5>2. module' \in Module
          BY <1>1, <3>5, <4>1, <4>3, CallTypes
        <5> QED
          BY <1>1, <3>3, <3>6, <4>1, <4>3, <5>1, <5>2
      <4> QED
        BY <3>12, <4>2, <4>3 DEF HandleWifi
    <3>13. CASE HandleDisconnect(m)
      BY <1>1, <3>3, <3>6, <3>13, FreeModuleOK DEF HandleDisconnect, CallDisconnect
    <3>14. CASE HandleReady(m)
      BY <1>1, <3>14 DEF HandleReady
    <3> QED
      BY <3>1, <3>8, <3>9, <3>10, <3>11, <3>12, <3>13, <3>14 DEF HandleOne
  <2>2. CASE ScanEnds \/ \E d \in Lamp : Found(d)
    BY <1>1, <2>2 DEF ScanEnds, Found, Ble, BleStage
  <2>3. ASSUME NEW j \in jobs, Permission(j) \/ ServerAnswers(j) \/ BindClaim(j)
        PROVE  ble' \in Ble /\ phone' \in Phone /\ jobs' \subseteq Job /\ module' \in Module
    <3>1. j \in Job /\ j.attempt \in Attempt /\ j.claim \in Maybe(Lamp)
      BY Basics DEF Job
    <3>2. jobs \ {j} \subseteq Job /\ Outdated(jobs \ {j}) \subseteq Job
      BY <1>1, OutdatedOf
    <3>3. CASE Permission(j)
      <4>1. [ble EXCEPT !.attempt = j.attempt, !.stage = "scanning", !.found = {}] \in Ble
        BY <1>1, <3>1 DEF Ble, BleStage, Maybe
      <4>2. [phone EXCEPT !.permitted = TRUE] \in Phone
        BY <1>1 DEF Phone
      <4> QED
        BY <1>1, <3>2, <3>3, <4>1, <4>2 DEF Permission
    <3>4. CASE ServerAnswers(j)
      <4>1. [j EXCEPT !.at = "save"] \in Job /\ [phone EXCEPT !.claim = j.claim] \in Phone
        BY <1>1, <3>1 DEF Job, Phone
      <4> QED
        BY <1>1, <3>2, <3>4, <4>1 DEF ServerAnswers
    <3>5. CASE BindClaim(j)
      <4>1. [j EXCEPT !.at = "module", !.fresh = TRUE] \in Job
        BY <3>1 DEF Job
      <4>2. [ble EXCEPT !.stage = "provisioning"] \in Ble
        BY <1>1 DEF Ble, BleStage
      <4> QED
        BY <1>1, <3>1, <3>2, <3>5, <4>1, <4>2, CallTypes DEF BindClaim
    <3> QED
      BY <2>3, <3>3, <3>4, <3>5
  <2>4. CASE Continue
    <3>1. PICK j : Continued(j)
      BY <2>4, Continues
    <3>2. j \in Job /\ j.lamp \in Maybe(Lamp) /\ None \in Maybe(Lamp)
      BY <3>1 DEF Continued, Job, Maybe
    <3>3. jobs' \subseteq Job /\ module' \in Module
      BY <1>1, <3>1 DEF Continued
    <3>4. \E r \in Maybe(Lamp) : phone' = [phone EXCEPT !.registration = r]
      <4>1. phone.registration \in Maybe(Lamp)
        BY <1>1 DEF Phone
      <4> QED
        BY <3>1, <3>2, <4>1 DEF Continued
    <3>5. phone' \in Phone
      BY <1>1, <3>4 DEF Phone
    <3>6. ble' \in Ble
      <4>1. \/ UNCHANGED ble
            \/ \E st \in BleStage, c \in Maybe(Lamp) : ble' = [ble EXCEPT !.stage = st, !.connected = c]
            \/ ble' = [ble EXCEPT !.stage = "secure-session"]
        <5>1. ble.connected \in Maybe(Lamp) /\ "secure-session" \in BleStage /\ "failed" \in BleStage
              /\ "wifi-connected" \in BleStage
          BY <1>1 DEF Ble, BleStage
        <5> QED
          BY <3>1, <3>2, <5>1 DEF Continued, ConnectEnds, CreateEnds, ScanWifiEnds, ProvisionEnds
      <4> QED
        BY <1>1, <4>1 DEF Ble, BleStage
    <3> QED
      BY <3>3, <3>5, <3>6
  <2> QED
    BY <1>4, <2>1, <2>2, <2>3, <2>4 DEF ShellStep
<1> QED
  BY <1>2, <1>3, <1>4, Steps

----------------------------------------------------------------------------
(* One request, job or reply of every attempt: every step.                 *)

\* Jobs that lose their say still are one of each attempt.
LEMMA OneEachOfOutdated ==
    ASSUME NEW tn, NEW tp, NEW js, js \subseteq Job, OneEachOf(tn, tp, js)
    PROVE  /\ OneEachOf(tn, tp, Outdated(js))
           /\ \A a : FreeOf(a, tn, tp, js) => FreeOf(a, tn, tp, Outdated(js))
<1>1. \A k \in Outdated(js) : \E j \in js : k = [j EXCEPT !.fresh = FALSE] /\ k.attempt = j.attempt
  <2>1. \A j \in Job : [j EXCEPT !.fresh = FALSE].attempt = j.attempt
    BY DEF Job
  <2> QED
    BY <2>1 DEF Outdated
<1>2. ASSUME NEW i \in Outdated(js), NEW k \in Outdated(js), i.attempt = k.attempt PROVE i = k
  <2>1. PICK h \in js : i = [h EXCEPT !.fresh = FALSE] /\ i.attempt = h.attempt
    BY <1>1
  <2>2. PICK j \in js : k = [j EXCEPT !.fresh = FALSE] /\ k.attempt = j.attempt
    BY <1>1
  <2>3. h = j
    BY <1>2, <2>1, <2>2 DEF OneEachOf
  <2> QED
    BY <2>1, <2>2, <2>3
<1>3. OneEachOf(tn, tp, Outdated(js))
  BY <1>1, <1>2 DEF OneEachOf
<1>4. \A a : FreeOf(a, tn, tp, js) => FreeOf(a, tn, tp, Outdated(js))
  BY <1>1 DEF FreeOf
<1> QED
  BY <1>3, <1>4

\* Requests, jobs and replies are of attempts that were begun.
LEMMA TokensOfBegun ==
    ASSUME BleInv
    PROVE  /\ \A i \in 1 .. Len(toNative) : toNative[i] \in Sent
           /\ \A i \in 1 .. Len(toPage) : toPage[i] \in Told
           /\ \A m \in Sent : IsAsk(m) => m.attempt \in Begun
           /\ \A m \in Told : IsReply(m) => m.attempt \in Begun
           /\ \A j \in jobs : j.attempt \in Begun
<1>1. \A m \in Told : AnswerFits(m)
  BY Basics
<1>2. \A m \in Told : IsReply(m) => m.attempt \in Begun
  BY <1>1 DEF AnswerFits, IsReply
<1>3. \A m \in Sent : IsAsk(m) => m.attempt \in Begun
  BY Basics DEF MessageFits, IsAsk, Request
<1> QED
  BY <1>2, <1>3, Basics DEF Sent, Told, Elems, JobFits

\* Nothing is under way of the next attempt, nor of one that waits for nothing.
LEMMA NextIsFree ==
    ASSUME BleInv
    PROVE  FreeOf(attempts + 1, toNative, toPage, jobs)
<1>1. attempts + 1 \notin Begun
  BY Basics DEF Begun
<1> QED
  BY <1>1, TokensOfBegun DEF FreeOf

\* A page that waits for nothing, or for a scan that is not under way, has
\* nothing under way.
LEMMA WaitingForNothing ==
    ASSUME BleInv, page.attempt # None, page.wants \subseteq {"scan"}, ~Scans(page.attempt)
    PROVE  FreeOf(page.attempt, toNative, toPage, jobs)
<1>1. \A m \in Sent : IsAsk(m) => m.attempt # page.attempt
  BY DEF BleInv, Asked, Scans, IsAsk, Request
<1>2. \A m \in Told : IsReply(m) => m.attempt # page.attempt
  BY DEF BleInv, Asked, IsReply
<1>3. \A j \in jobs : j.attempt # page.attempt
  BY DEF BleInv, Asked, Scans
<1> QED
  BY <1>1, <1>2, <1>3, TokensOfBegun DEF FreeOf

\* Once the page shows a lamp, the scan of its attempt has been started.
LEMMA ScansOfPage ==
    ASSUME BleInv, page.attempt # None
    PROVE  /\ page.nearby # {} => ~Scans(page.attempt)
           /\ page.stage \notin {"scanning", "failed"} => ~Scans(page.attempt)
BY Basics DEF BleInv, ScansFirst

\* The page asks for one thing at a time, and after a reply only.
LEMMA OneEachOfPage ==
    ASSUME BleInv, PageStep
    PROVE  OneEach'
<1>1. OneEachOf(toNative, toPage, jobs) /\ toNative \in Seq(Message) /\ toPage \in Seq(Answer)
  BY DEF BleInv, OneEach, ChannelsOK
<1> SUFFICES OneEachOf(toNative', toPage', jobs)
  BY PageFrame DEF OneEach
<1>2. ASSUME NEW m, NEW tp, Posts(<<m>>), OneEachOf(toNative, tp, jobs),
             IsAsk(m) => FreeOf(m.attempt, toNative, tp, jobs)
      PROVE  OneEachOf(toNative', tp, jobs)
  <2>1. toNative' = Append(toNative, m)
    BY <1>1, <1>2, AppendOf DEF Posts
  <2> QED
    BY <1>1, <1>2, <2>1, OneEachOfAsk
<1>3. CASE StartScan
  <2> DEFINE m == Ask("scan", attempts + 1, None)
  <2>1. Posts(<<m>>) /\ UNCHANGED toPage
    BY <1>3 DEF StartScan
  <2>2. m.attempt = attempts + 1
    BY DEF Ask
  <2> QED
    BY <1>1, <1>2, <2>1, <2>2, NextIsFree
<1>4. ASSUME NEW type \in Request, NEW d, page.attempt # None, page.wants \subseteq {"scan"},
             ~Scans(page.attempt), Posts(<<Ask(type, page.attempt, d)>>), UNCHANGED toPage
      PROVE  OneEachOf(toNative', toPage', jobs)
  <2> DEFINE m == Ask(type, page.attempt, d)
  <2>1. m.attempt = page.attempt
    BY DEF Ask
  <2>2. FreeOf(page.attempt, toNative, toPage, jobs)
    BY <1>4, WaitingForNothing
  <2> HIDE DEF m
  <2> QED
    BY <1>1, <1>2, <1>4, <2>1, <2>2 DEF m
<1>5. ASSUME NEW d \in Lamp, ConnectDevice(d) PROVE OneEachOf(toNative', toPage', jobs)
  <2>1. page.attempt # None /\ page.wants \subseteq {"scan"} /\ page.nearby # {}
    BY <1>5 DEF ConnectDevice, BleInv, PageFits, WantsFit, BlankPage
  <2> QED
    BY <1>4, <1>5, <2>1, ScansOfPage DEF ConnectDevice, Request
<1>6. ASSUME page.stage = "wifi", ~page.listing
      PROVE  page.attempt # None /\ page.wants = {} /\ ~Scans(page.attempt)
  <2>1. page.attempt # None /\ page.wants = {}
    BY <1>6 DEF BleInv, PageFits, WantsFit, BlankPage
  <2> QED
    BY <1>6, <2>1, ScansOfPage
<1>7. CASE ScanWifiAgain
  <2>1. Posts(<<Ask("wifiScan", page.attempt, page.connected)>>) /\ UNCHANGED toPage
    BY <1>6, <1>7 DEF ScanWifiAgain, WifiScanOf
  <2> QED
    BY <1>4, <1>6, <1>7, <2>1 DEF ScanWifiAgain, Request
<1>8. CASE Provision
  BY <1>4, <1>6, <1>8 DEF Provision, Request
<1>9. CASE CleanupProvisioning
  <2> DEFINE a == Ask("cancelScan", page.attempt, None)
             b == Ask("disconnect", page.attempt, None)
  <2>1. a \in Message /\ b \in Message /\ ~IsAsk(a) /\ ~IsAsk(b)
    <3>1. page.attempt \in Maybe(Attempt)
      BY Basics DEF Page
    <3> QED
      BY <3>1 DEF Ask, Message, Maybe, IsAsk, Request
  <2>2. toNative' = toNative \o <<a, b>> /\ UNCHANGED toPage
    BY <1>9 DEF CleanupProvisioning, Posts
  <2> HIDE DEF a, b
  <2>3. toNative' = Append(Append(toNative, a), b) /\ Append(toNative, a) \in Seq(Message)
    BY <1>1, <2>1, <2>2, AppendTwo, AppendOf
  <2>4. OneEachOf(Append(toNative, a), toPage, jobs)
    BY <1>1, <2>1, OneEachOfAsk
  <2> QED
    BY <2>1, <2>2, <2>3, <2>4, OneEachOfAsk
<1>10. CASE Reload
  <2>1. ~IsAsk(Ask("ready", None, None)) /\ OneEachOf(toNative, <<>>, jobs)
    BY <1>1 DEF Ask, IsAsk, Request, OneEachOf
  <2> QED
    BY <1>2, <1>10, <2>1 DEF Reload
<1>11. CASE Dispatch
  <2>1. PICK m : Received(m) /\ (Ignored(m) \/ Learnt(m))
    BY <1>11, Dispatches
  <2>2. toPage # <<>> /\ m = Head(toPage) /\ toPage' = Tail(toPage)
    BY <2>1 DEF Received
  <2>3. OneEachOf(toNative, toPage', jobs) /\ (IsReply(m) => FreeOf(m.attempt, toNative, toPage', jobs))
    BY <1>1, <2>2, OneEachOfTailOfReplies
  <2>4. UNCHANGED toNative => OneEachOf(toNative', toPage', jobs)
    BY <2>3
  <2>5. Posts(<<>>) => OneEachOf(toNative', toPage', jobs)
    BY <1>1, <2>3, AppendOf DEF Posts
  <2>6. ~IsAsk(Ask("disconnect", m.attempt, None))
    BY DEF Ask, IsAsk, Request
  <2>7. CASE Ignored(m)
    BY <1>2, <2>3, <2>4, <2>5, <2>6, <2>7 DEF Ignored
  <2>8. ASSUME NEW type \in Request, NEW d, Posts(<<Ask(type, page.attempt, d)>>), IsReply(m),
               m.attempt = page.attempt
        PROVE  OneEachOf(toNative', toPage', jobs)
    <3> DEFINE n == Ask(type, page.attempt, d)
    <3>1. n.attempt = m.attempt
      BY <2>8 DEF Ask
    <3> HIDE DEF n
    <3> QED
      BY <1>2, <2>3, <2>8, <3>1 DEF n
  <2>9. CASE Learnt(m)
    BY <2>5, <2>8, <2>9 DEF Learnt, HeardOfScan, HeardConnected, HeardCreated, HeardNetworks,
                            HeardProvisioned, HeardError, Request
  <2> QED
    BY <2>1, <2>7, <2>9
<1> QED
  BY <1>3, <1>5, <1>7, <1>8, <1>9, <1>10, <1>11 DEF PageStep

\* A request becomes one job, and a job one reply.
LEMMA OneEachOfShell ==
    ASSUME BleInv, ShellStep
    PROVE  OneEach'
<1>1. OneEachOf(toNative, toPage, jobs) /\ toNative \in Seq(Message) /\ toPage \in Seq(Answer)
      /\ jobs \subseteq Job
  BY DEF BleInv, OneEach, ChannelsOK, BleTypeOK
<1> SUFFICES OneEachOf(toNative', toPage', jobs')
  BY DEF OneEach
<1>2. ASSUME NEW tn, NEW js, NEW m, OneEachOf(tn, toPage, js), Says(m),
             IsReply(m) => FreeOf(m.attempt, tn, toPage, js)
      PROVE  OneEachOf(tn, toPage', js)
  BY <1>1, <1>2, OneEachOfReply DEF Says
<1>3. ASSUME NEW tn, NEW js, NEW of \in Request, NEW a, OneEachOf(tn, toPage, js),
             FreeOf(a, tn, toPage, js), Says(Error(of, a))
      PROVE  OneEachOf(tn, toPage', js)
  <2>1. Error(of, a).attempt = a
    BY DEF Error, Tell
  <2> QED
    BY <1>2, <1>3, <2>1
<1>4. ASSUME NEW tn, NEW js, NEW type, NEW a, NEW d, OneEachOf(tn, toPage, js), Says(Tell(type, "scan", a, d))
      PROVE  OneEachOf(tn, toPage', js)
  <2>1. ~IsReply(Tell(type, "scan", a, d))
    BY DEF Tell, IsReply
  <2> QED
    BY <1>2, <1>4, <2>1
<1>5. CASE Handle
  <2>1. PICK m : Taken(m) /\ HandleOne(m)
    BY <1>5, Handles
  <2>2. toNative # <<>> /\ m = Head(toNative) /\ toNative' = Tail(toNative)
    BY <2>1 DEF Taken
  <2>3. OneEachOf(toNative', toPage, jobs) /\ (IsAsk(m) => FreeOf(m.attempt, toNative', toPage, jobs))
    BY <1>1, <2>2, OneEachOfTail
  <2>4. OneEachOf(toNative', toPage, Outdated(jobs))
        /\ (IsAsk(m) => FreeOf(m.attempt, toNative', toPage, Outdated(jobs)))
    BY <1>1, <2>3, OneEachOfOutdated
  <2>5. \A op, claim, at : NewJob(op, m, claim, at).attempt = m.attempt
    BY DEF NewJob
  <2>6. ASSUME NEW op, NEW claim, NEW at, NEW js \in {jobs, Outdated(jobs)}, IsAsk(m),
               jobs' = js \cup {NewJob(op, m, claim, at)}, UNCHANGED toPage
        PROVE  OneEachOf(toNative', toPage', jobs')
    BY <2>3, <2>4, <2>5, <2>6, OneEachOfJob
  <2>7. ASSUME NEW of \in Request, IsAsk(m), Says(Error(of, m.attempt)), UNCHANGED jobs
        PROVE  OneEachOf(toNative', toPage', jobs')
    BY <1>3, <2>3, <2>7
  <2>8. CASE HandleScan(m)
    BY <2>6, <2>8 DEF HandleScan, IsAsk, Request
  <2>9. CASE HandleCancelScan(m)
    BY <1>4, <2>3, <2>4, <2>9 DEF HandleCancelScan
  <2>10. CASE HandleConnect(m)
    BY <2>6, <2>7, <2>10 DEF HandleConnect, IsAsk, Request, Silently
  <2>11. CASE HandleCreate(m)
    BY <2>6, <2>7, <2>11 DEF HandleCreate, IsAsk, Request, Silently
  <2>12. CASE HandleWifi(m)
    BY <2>6, <2>7, <2>12 DEF HandleWifi, IsAsk, Request, Silently
  <2>13. CASE HandleDisconnect(m)
    BY <2>3, <2>4, <2>13 DEF HandleDisconnect
  <2>14. CASE HandleReady(m)
    BY <1>4, <2>3, <2>14 DEF HandleReady
  <2> QED
    BY <2>1, <2>8, <2>9, <2>10, <2>11, <2>12, <2>13, <2>14 DEF HandleOne
<1>6. CASE ScanEnds \/ \E d \in Lamp : Found(d)
  BY <1>1, <1>4, <1>6 DEF ScanEnds, Found, Error
<1>7. ASSUME NEW j \in jobs
      PROVE  /\ OneEachOf(toNative, toPage, jobs \ {j})
             /\ FreeOf(j.attempt, toNative, toPage, jobs \ {j})
             /\ OneEachOf(toNative, toPage, Outdated(jobs \ {j}))
             /\ FreeOf(j.attempt, toNative, toPage, Outdated(jobs \ {j}))
  <2>1. jobs \ {j} \subseteq Job
    BY <1>1
  <2> QED
    BY <1>1, <2>1, FreeOfFewer, OneEachOfOutdated
<1>8. ASSUME NEW j \in jobs, Permission(j) \/ ServerAnswers(j) \/ BindClaim(j)
      PROVE  OneEachOf(toNative', toPage', jobs')
  <2>1. CASE Permission(j)
    BY <1>4, <1>7, <2>1 DEF Permission, Silently
  <2>2. CASE ServerAnswers(j)
    <3>1. [j EXCEPT !.at = "save"].attempt = j.attempt
      BY <1>1 DEF Job
    <3>2. OneEachOf(toNative, toPage, (jobs \ {j}) \cup {[j EXCEPT !.at = "save"]})
      BY <1>7, <3>1, OneEachOfJob
    <3> QED
      BY <1>3, <1>7, <2>2, <3>2 DEF ServerAnswers, Silently, Request
  <2>3. CASE BindClaim(j)
    <3>1. [j EXCEPT !.at = "module", !.fresh = TRUE].attempt = j.attempt
      BY <1>1 DEF Job
    <3>2. OneEachOf(toNative, toPage,
                    Outdated(jobs \ {j}) \cup {[j EXCEPT !.at = "module", !.fresh = TRUE]})
      BY <1>7, <3>1, OneEachOfJob
    <3> QED
      BY <1>3, <1>7, <2>3, <3>2 DEF BindClaim, Silently, Request
  <2> QED
    BY <1>8, <2>1, <2>2, <2>3
<1>9. CASE Continue
  <2>1. PICK j : Continued(j)
    BY <1>9, Continues
  <2>2. j \in jobs /\ jobs' = jobs \ {j} /\ UNCHANGED toNative /\ j.op \in Request
    BY <2>1 DEF Continued
  <2>3. \/ \E type, of, d : Says(Tell(type, of, j.attempt, d))
        \/ UNCHANGED toPage
    BY <2>1 DEF Continued, ConnectEnds, CreateEnds, ScanWifiEnds, ProvisionEnds, Error
  <2>4. \A type, of, d : Tell(type, of, j.attempt, d).attempt = j.attempt
    BY DEF Tell
  <2> QED
    BY <1>2, <1>7, <2>2, <2>3, <2>4
<1> QED
  BY <1>5, <1>6, <1>8, <1>9 DEF ShellStep

\* Every step keeps one request, job or reply of every attempt.
LEMMA OneEachKept ==
    ASSUME BleInv, BleNext
    PROVE  OneEach'
<1>1. ASSUME ModuleStep PROVE OneEach'
  BY <1>1, ModuleFrame DEF BleInv, OneEach, OneEachOf, IsAsk, IsReply
<1> QED
  BY <1>1, Steps, OneEachOfPage, OneEachOfShell

----------------------------------------------------------------------------
(* What is under way of the page's attempt is what the page waits for.     *)

\* A page that waits for no reply has no request under way but its scan.
LEMMA AskedNothing ==
    ASSUME BleInv, page.wants \subseteq {"scan"}
    PROVE  /\ \A m \in Sent : m.attempt = page.attempt => m.type \in {"scan", "ready"}
           /\ \A j \in jobs : j.attempt = page.attempt => j.op = "scan"
           /\ \A m \in Told : m.attempt = page.attempt => ~IsReply(m)
BY DEF BleInv, Asked, IsReply

\* Once the page took the reply m, nothing else is under way of its attempt.
LEMMA LastReply ==
    ASSUME BleInv, NEW m, Received(m), IsReply(m), m.attempt = page.attempt
    PROVE  /\ \A n \in Sent : n.attempt = page.attempt => n.type = "ready"
           /\ \A j \in jobs : j.attempt # page.attempt
           /\ \A n \in Told' : n.attempt = page.attempt => ~IsReply(n)
<1>1. OneEachOf(toNative, toPage, jobs) /\ toPage \in Seq(Answer)
      /\ toPage # <<>> /\ m = Head(toPage) /\ toPage' = Tail(toPage)
  BY DEF BleInv, OneEach, ChannelsOK, Received
<1>2. FreeOf(page.attempt, toNative, toPage', jobs)
  BY <1>1, OneEachOfTailOfReplies
<1>3. \A n \in Sent : n.attempt = page.attempt => ~IsAsk(n)
  BY <1>2 DEF FreeOf, Sent, Elems
<1>4. \A n \in Sent : n.attempt = page.attempt /\ n.type # "ready" => n.type \in page.wants \/ n.type = "scan"
  BY DEF BleInv, Asked
<1>5. \A n \in Sent : n.attempt = page.attempt => n.type = "ready"
  BY <1>3, <1>4, Basics DEF IsAsk, Page, Request
<1> QED
  BY <1>2, <1>5 DEF FreeOf, Told, Elems

\* The page only posts what it then waits for, with the lamp it shows.
LEMMA AskedOfPage ==
    ASSUME BleInv, PageStep
    PROVE  Asked'
<1>1. jobs' = jobs /\ ChannelsOK
  BY PageFrame DEF BleInv
<1>2. CASE StartScan
  <2>1. page'.attempt = attempts + 1
    BY <1>2 DEF StartScan, BlankPage
  <2>2. attempts + 1 \notin Begun /\ attempts + 1 # None
    BY <1>2, Basics DEF StartScan, Begun
  <2>3. \A m \in Sent : m.type # "ready" => m.attempt # attempts + 1
    BY <2>2, Basics DEF MessageFits
  <2>4. Sent' = Sent \cup {Ask("scan", attempts + 1, None)} /\ Told' = Told
    BY <1>1, <1>2, Moves DEF StartScan
  <2> QED
    BY <1>1, <2>1, <2>2, <2>3, <2>4, TokensOfBegun DEF Asked, Ask
<1>3. ASSUME page'.attempt = None PROVE Asked'
  <2>1. /\ \A m \in Sent' : m.type # "ready" => m.attempt # None
        /\ \A m \in Told' : IsReply(m) => m.attempt # None
        /\ \A j \in jobs' : j.attempt # None
    <3>1. Fitting' /\ ~(None \in Begun')
      <4>1. attempts' \in 0 .. MaxAttempt
        BY Steps, ChannelsKept DEF ChannelsOK
      <4> QED
        BY <4>1, FittingKept, Steps DEF Begun
    <3>2. /\ \A m : MessageFits(m)' /\ m.type # "ready" => m.attempt # None
          /\ \A m : AnswerFits(m)' /\ IsReply(m) => m.attempt # None
          /\ \A j : JobFits(j)' => j.attempt # None
      BY <3>1 DEF MessageFits, AnswerFits, JobFits, IsReply
    <3> QED
      BY <3>1, <3>2 DEF Fitting
  <2> QED
    BY <1>3, <2>1 DEF Asked
<1>4. ASSUME NEW type, NEW d, page'.attempt = page.attempt, page.wants \subseteq {"scan"},
             Posts(<<Ask(type, page.attempt, d)>>), UNCHANGED toPage,
             type \in page'.wants, d = page'.connected
      PROVE  Asked'
  <2>1. Sent' = Sent \cup {Ask(type, page.attempt, d)} /\ Told' = Told
    BY <1>1, <1>4, Moves
  <2> QED
    BY <1>1, <1>4, <2>1, AskedNothing DEF Asked, Ask
<1>5. page \in Page
  BY Basics
<1>6. ASSUME NEW d \in Lamp, ConnectDevice(d) PROVE Asked'
  <2>1. page'.attempt = page.attempt /\ "connect" \in page'.wants /\ d = page'.connected
        /\ page.wants \subseteq {"scan"}
    BY <1>5, <1>6 DEF ConnectDevice, Page, BleInv, PageFits, WantsFit
  <2> QED
    BY <1>4, <1>6, <2>1 DEF ConnectDevice
<1>7. ASSUME page.stage = "wifi", ~page.listing PROVE page.wants = {}
  BY <1>7 DEF BleInv, PageFits, WantsFit
<1>8. CASE ScanWifiAgain
  <2>1. page' = [page EXCEPT !.wants = @ \cup {"wifiScan"}, !.listing = TRUE] /\ UNCHANGED toPage
        /\ Posts(<<Ask("wifiScan", page.attempt, page.connected)>>)
    BY <1>7, <1>8 DEF ScanWifiAgain, WithWifiScan, WifiScanOf
  <2>2. page'.attempt = page.attempt /\ "wifiScan" \in page'.wants /\ page.connected = page'.connected
    BY <1>5, <2>1 DEF Page
  <2> QED
    BY <1>4, <1>7, <1>8, <2>1, <2>2 DEF ScanWifiAgain
<1>9. CASE Provision
  <2>1. page'.attempt = page.attempt /\ "provision" \in page'.wants /\ page.connected = page'.connected
    BY <1>5, <1>9 DEF Provision, Page
  <2> QED
    BY <1>4, <1>7, <1>9, <2>1 DEF Provision
<1>10. CASE CleanupProvisioning \/ Reload
  BY <1>3, <1>10 DEF CleanupProvisioning, Reload, BlankPage
<1>11. CASE Dispatch
  <2>1. PICK m : Received(m) /\ (Ignored(m) \/ Learnt(m))
    BY <1>11, Dispatches
  <2>2. Told' \subseteq Told
    BY <2>1 DEF Received
  <2>3. CASE Ignored(m)
    <3>1. \A n \in Sent' : n \in Sent \/ (n = Ask("disconnect", m.attempt, None) /\ m.attempt # page.attempt)
      BY <1>1, <2>3, Moves DEF Ignored
    <3>2. page' = page
      BY <2>3 DEF Ignored
    <3> QED
      BY <1>1, <2>2, <3>1, <3>2 DEF Asked, BleInv, Ask
  <2>4. CASE HeardOfScan(m)
    <3>1. Sent' = Sent /\ page'.attempt = page.attempt /\ page.wants = {"scan"}
      BY <1>1, <2>4, Moves DEF HeardOfScan, NowAt
    <3> QED
      BY <1>1, <2>2, <3>1, AskedNothing DEF Asked
  <2>5. ASSUME IsReply(m), m.attempt = page.attempt, page'.attempt = page.attempt,
               NEW type, NEW d, Sent' \subseteq Sent \cup {Ask(type, page.attempt, d)},
               type \in page'.wants /\ d = page'.connected
        PROVE  Asked'
    BY <1>1, <2>1, <2>5, LastReply DEF Asked, Ask
  <2>6. ASSUME IsReply(m), m.attempt = page.attempt, page'.attempt = page.attempt, Sent' = Sent
        PROVE  Asked'
    BY <1>1, <2>1, <2>6, LastReply DEF Asked
  <2>7. CASE IsReply(m) /\ m.attempt = page.attempt /\ HeardConnected(m)
    <3>1. Sent' = Sent \cup {Ask("create", page.attempt, m.lamp)} /\ page'.attempt = page.attempt
          /\ "create" \in page'.wants /\ m.lamp = page'.connected
      BY <1>1, <2>7, Moves DEF HeardConnected, NowAt
    <3> QED
      BY <2>5, <2>7, <3>1
  <2>8. CASE IsReply(m) /\ m.attempt = page.attempt /\ HeardCreated(m)
    <3>1. Sent' = Sent \cup {Ask("wifiScan", page.attempt, page.connected)} /\ page'.attempt = page.attempt
          /\ "wifiScan" \in page'.wants /\ page.connected = page'.connected
      BY <1>1, <2>8, Moves DEF HeardCreated, NowAt, KeepsLamp
    <3> QED
      BY <2>5, <2>8, <3>1
  <2>9. CASE /\ IsReply(m) /\ m.attempt = page.attempt
             /\ HeardNetworks(m) \/ HeardProvisioned(m) \/ HeardError(m)
    <3>1. Sent' = Sent /\ page'.attempt = page.attempt
      BY <1>1, <2>9, Moves DEF HeardNetworks, HeardProvisioned, HeardError, NowAt
    <3> QED
      BY <2>6, <2>9, <3>1
  <2> QED
    BY <2>1, <2>3, <2>4, <2>7, <2>8, <2>9 DEF Learnt
<1> QED
  BY <1>2, <1>6, <1>8, <1>9, <1>10, <1>11 DEF PageStep

\* What the shell has under way comes from a message or from a job.
FromJob(t) ==
    \E j \in jobs : /\ t.of = j.op /\ t.attempt = j.attempt
                    /\ t.type \in {"connected", "networks", "provisioned"} => t.lamp = j.lamp
FromMessage(t) ==
    \E m \in Sent : t.of = m.type /\ IsAsk(m) /\ t.attempt = m.attempt /\ t.type = "error"

\* The shell's jobs come from the page's requests, and its replies from a
\* job or a request.
LEMMA ShellTokens ==
    ASSUME BleInv, ShellStep
    PROVE  /\ Sent' \subseteq Sent
           /\ \A k \in jobs' :
                \/ \E j \in jobs : k.op = j.op /\ k.attempt = j.attempt /\ k.lamp = j.lamp
                \/ \E m \in Sent : k.op = m.type /\ IsAsk(m) /\ k.attempt = m.attempt /\ k.lamp = m.lamp
           /\ \A t \in Told' : t \in Told \/ ~IsReply(t) \/ FromJob(t) \/ FromMessage(t)
<1>1. ChannelsOK /\ jobs \subseteq Job
  BY DEF BleInv, BleTypeOK
<1>2. Sent' \subseteq Sent
  BY <1>1, Moves, ShellFrame DEF Handle
<1> DEFINE Kept(k) == \E j \in jobs : k.op = j.op /\ k.attempt = j.attempt /\ k.lamp = j.lamp
           Begins(k) == \E m \in Sent :
                          k.op = m.type /\ IsAsk(m) /\ k.attempt = m.attempt /\ k.lamp = m.lamp
           Tells(t) == t \in Told \/ ~IsReply(t) \/ FromJob(t) \/ FromMessage(t)
<1> SUFFICES /\ \A k \in jobs' : Kept(k) \/ Begins(k)
             /\ \A t \in Told' : Tells(t)
  BY <1>2
<1>3. \A k \in jobs : Kept(k)
  OBVIOUS
<1>4. \A js : js \subseteq jobs => \A k \in Outdated(js) : Kept(k)
  BY <1>1, OutdatedOf DEF Same
<1>5. ASSUME NEW type, NEW a, NEW d, Says(Tell(type, "scan", a, d)) PROVE \A t \in Told' : Tells(t)
  BY <1>1, <1>5, Moves DEF Tell, IsReply
<1>6. UNCHANGED toPage => \A t \in Told' : Tells(t)
  BY <1>1, Moves
<1> HIDE DEF Kept, Begins
<1>7. CASE Handle
  <2>1. PICK m : Taken(m) /\ HandleOne(m)
    BY <1>7, Handles
  <2>2. m \in Sent
    BY <2>1 DEF Taken
  <2>3. ASSUME NEW op, m.type = op, IsAsk(m), Says(Error(op, m.attempt)) PROVE \A t \in Told' : Tells(t)
    <3>1. FromMessage(Error(op, m.attempt))
      BY <2>2, <2>3 DEF FromMessage, Error, Tell
    <3> QED
      BY <1>1, <2>3, <3>1, Moves
  <2>4. ASSUME NEW op, NEW claim, NEW at, m.type = op, IsAsk(m) PROVE Begins(NewJob(op, m, claim, at))
    BY <2>2, <2>4 DEF Begins, NewJob
  <2>5. CASE HandleScan(m)
    BY <1>3, <1>6, <2>4, <2>5 DEF HandleScan, IsAsk, Request
  <2>6. CASE HandleCancelScan(m)
    BY <1>3, <1>4, <1>5, <1>6, <2>6 DEF HandleCancelScan
  <2>7. CASE HandleConnect(m)
    BY <1>3, <1>4, <1>6, <2>3, <2>4, <2>7 DEF HandleConnect, IsAsk, Request, Silently
  <2>8. CASE HandleCreate(m)
    BY <1>3, <1>6, <2>3, <2>4, <2>8 DEF HandleCreate, IsAsk, Request, Silently
  <2>9. CASE HandleWifi(m)
    BY <1>3, <1>4, <1>6, <2>3, <2>4, <2>9 DEF HandleWifi, IsAsk, Request, Silently
  <2>10. CASE HandleDisconnect(m)
    BY <1>3, <1>4, <1>6, <2>10 DEF HandleDisconnect
  <2>11. CASE HandleReady(m)
    BY <1>3, <1>5, <2>11 DEF HandleReady
  <2> QED
    BY <2>1, <2>5, <2>6, <2>7, <2>8, <2>9, <2>10, <2>11 DEF HandleOne
<1>8. CASE ScanEnds \/ \E d \in Lamp : Found(d)
  BY <1>3, <1>5, <1>8 DEF ScanEnds, Found, Error
<1>9. ASSUME NEW j \in jobs PROVE \A op : op = j.op /\ Says(Error(op, j.attempt)) => \A t \in Told' : Tells(t)
  <2>1. FromJob(Error(j.op, j.attempt))
    BY DEF FromJob, Error, Tell
  <2> QED
    BY <1>1, <2>1, Moves
<1>10. ASSUME NEW j \in jobs, Permission(j) \/ ServerAnswers(j) \/ BindClaim(j)
       PROVE  (\A k \in jobs' : Kept(k) \/ Begins(k)) /\ \A t \in Told' : Tells(t)
  <2>1. jobs \ {j} \subseteq jobs
    OBVIOUS
  <2>2. CASE Permission(j)
    BY <1>3, <1>4, <1>5, <1>6, <2>1, <2>2 DEF Permission, Silently
  <2>3. j.at \in {"server", "save"} => j.op = "create"
    BY Basics DEF JobFits
  <2>4. CASE ServerAnswers(j)
    <3>1. Kept([j EXCEPT !.at = "save"])
      BY <1>1 DEF Kept, Job
    <3> QED
      BY <1>3, <1>6, <1>9, <2>3, <2>4, <3>1 DEF ServerAnswers, Silently
  <2>5. CASE BindClaim(j)
    <3>1. Kept([j EXCEPT !.at = "module", !.fresh = TRUE])
      BY <1>1 DEF Kept, Job
    <3> QED
      BY <1>3, <1>4, <1>6, <1>9, <2>1, <2>3, <2>5, <3>1 DEF BindClaim, Silently
  <2> QED
    BY <1>10, <2>2, <2>4, <2>5
<1>11. CASE Continue
  <2>1. PICK j : Continued(j)
    BY <1>11, Continues
  <2>2. j \in jobs /\ jobs' = jobs \ {j}
    BY <2>1 DEF Continued
  <2>3. ASSUME NEW type, NEW of, NEW d, j.op = of, Says(Tell(type, of, j.attempt, d)),
               type \in {"connected", "networks", "provisioned"} => d = j.lamp
        PROVE  \A t \in Told' : Tells(t)
    <3>1. FromJob(Tell(type, of, j.attempt, d))
      BY <2>2, <2>3 DEF FromJob, Tell
    <3> QED
      BY <1>1, <2>3, <3>1, Moves
  <2>4. \A t \in Told' : Tells(t)
    <3>1. CASE ConnectEnds(j)
      BY <2>3, <3>1 DEF ConnectEnds
    <3>2. CASE CreateEnds(j)
      BY <2>3, <3>2 DEF CreateEnds
    <3>3. CASE ScanWifiEnds(j)
      BY <2>3, <3>3 DEF ScanWifiEnds
    <3>4. CASE ProvisionEnds(j)
      BY <2>3, <3>4 DEF ProvisionEnds
    <3> HIDE DEF Tells
    <3> QED
      BY <1>6, <1>9, <2>1, <2>2, <3>1, <3>2, <3>3, <3>4 DEF Continued
  <2> QED
    BY <1>3, <2>2, <2>4
<1> QED
  BY <1>7, <1>8, <1>10, <1>11 DEF ShellStep

\* Every step keeps what is under way of the page's attempt awaited.
LEMMA AskedKept ==
    ASSUME BleInv, BleNext
    PROVE  Asked'
<1>1. ASSUME UNCHANGED <<page, jobs, toNative, toPage>> PROVE Asked'
  BY <1>1 DEF BleInv, Asked, Sent, Told, Elems, IsReply
<1>2. ASSUME ShellStep PROVE Asked'
  <2>1. page' = page
    BY <1>2, ShellFrame
  <2>2. \A m \in Sent : IsAsk(m) => m.type # "ready"
    BY DEF IsAsk, Request
  <2> QED
    BY <1>2, <2>1, <2>2, ShellTokens DEF BleInv, Asked, FromJob, FromMessage, IsReply
<1> QED
  BY <1>1, <1>2, Steps, AskedOfPage, ModuleFrame

----------------------------------------------------------------------------
(* A scan that was asked for is of a later attempt than the shell's.       *)

\* Only StartScan and HandleScan make one more request to scan.
LEMMA ScanJobs ==
    ASSUME BleInv, ShellStep
    PROVE  \/ \A k \in jobs' : k.op = "scan" => \E j \in jobs : j.op = "scan" /\ j.attempt = k.attempt
           \/ \E m : Taken(m) /\ HandleScan(m)
<1>1. jobs \subseteq Job
  BY DEF BleInv, BleTypeOK
<1> DEFINE Fine(k) == k.op = "scan" => \E j \in jobs : j.op = "scan" /\ j.attempt = k.attempt
<1>2. \A k \in jobs : Fine(k)
  OBVIOUS
<1>3. \A js : js \subseteq jobs => \A k \in Outdated(js) : Fine(k)
  BY <1>1, OutdatedOf DEF Same
<1> HIDE DEF Fine
<1> SUFFICES (\A k \in jobs' : Fine(k)) \/ \E m : Taken(m) /\ HandleScan(m)
  BY DEF Fine
<1>4. CASE Handle
  <2>1. PICK m : Taken(m) /\ HandleOne(m)
    BY <1>4, Handles
  <2>2. \A op, claim, at : op # "scan" => Fine(NewJob(op, m, claim, at))
    BY DEF Fine, NewJob
  <2>3. CASE HandleScan(m)
    BY <2>1, <2>3
  <2>4. CASE HandleCancelScan(m) \/ HandleDisconnect(m) \/ HandleReady(m)
    BY <1>2, <1>3, <2>4 DEF HandleCancelScan, HandleDisconnect, HandleReady
  <2>5. CASE HandleConnect(m)
    BY <1>2, <1>3, <2>2, <2>5 DEF HandleConnect
  <2>6. CASE HandleCreate(m)
    BY <1>2, <2>2, <2>6 DEF HandleCreate
  <2>7. CASE HandleWifi(m)
    BY <1>2, <1>3, <2>2, <2>7 DEF HandleWifi
  <2> QED
    BY <2>1, <2>3, <2>4, <2>5, <2>6, <2>7 DEF HandleOne
<1>5. CASE ScanEnds \/ \E d \in Lamp : Found(d)
  BY <1>2, <1>5 DEF ScanEnds, Found
<1>6. ASSUME NEW j \in jobs, Permission(j) \/ ServerAnswers(j) \/ BindClaim(j)
      PROVE  \A k \in jobs' : Fine(k)
  <2>1. j \in Job /\ (j.at \in {"server", "save"} => j.op # "scan") /\ jobs \ {j} \subseteq jobs
    BY Basics DEF JobFits
  <2>2. j.op # "scan" => Fine([j EXCEPT !.at = "save"]) /\ Fine([j EXCEPT !.at = "module", !.fresh = TRUE])
    BY <2>1 DEF Fine, Job
  <2>3. \A k \in jobs \ {j} : Fine(k)
    BY <1>2
  <2>4. \A k \in Outdated(jobs \ {j}) : Fine(k)
    BY <1>3, <2>1
  <2>5. CASE Permission(j)
    BY <2>3, <2>4, <2>5 DEF Permission
  <2>6. CASE ServerAnswers(j)
    BY <2>1, <2>2, <2>3, <2>6 DEF ServerAnswers
  <2>7. CASE BindClaim(j)
    BY <2>1, <2>2, <2>3, <2>4, <2>7 DEF BindClaim
  <2> QED
    BY <1>6, <2>5, <2>6, <2>7
<1>7. CASE Continue
  BY <1>2, <1>7 DEF Continue
<1> QED
  BY <1>4, <1>5, <1>6, <1>7 DEF ShellStep

\* Handling a request to scan keeps the scans in the order of their
\* attempts.
LEMMA ScanOrderOfTail ==
    ASSUME NEW S, NEW tn \in Seq(S), tn # <<>>, NEW js, ScanOrderOf(tn, js), NEW ks,
           \A k \in ks : k.op = "scan" =>
             \/ \E j \in js : j.op = "scan" /\ j.attempt = k.attempt
             \/ Head(tn).type = "scan" /\ k.attempt = Head(tn).attempt
    PROVE  ScanOrderOf(Tail(tn), ks)
<1> DEFINE t == Tail(tn)
<1>1. Len(tn) \in Nat /\ Len(tn) > 0 /\ Head(tn) = tn[1] /\ 1 \in 1 .. Len(tn)
  BY TailOf
<1>2. \A i \in 1 .. Len(t) : i \in Nat /\ i + 1 \in 1 .. Len(tn) /\ 1 < i + 1 /\ t[i] = tn[i + 1]
  BY TailOf
<1> HIDE DEF t
<1>3. \A i, n \in 1 .. Len(t) : i < n /\ t[i].type = "scan" /\ t[n].type = "scan"
        => t[i].attempt < t[n].attempt
  BY <1>2 DEF ScanOrderOf
<1>4. ASSUME NEW i \in 1 .. Len(t), NEW k \in ks, t[i].type = "scan", k.op = "scan"
      PROVE  k.attempt < t[i].attempt
  <2>1. i + 1 \in 1 .. Len(tn) /\ 1 < i + 1 /\ t[i] = tn[i + 1]
    BY <1>2
  <2>2. CASE \E j \in js : j.op = "scan" /\ j.attempt = k.attempt
    BY <1>4, <2>1, <2>2 DEF ScanOrderOf
  <2>3. CASE tn[1].type = "scan" /\ k.attempt = tn[1].attempt
    BY <1>1, <1>4, <2>1, <2>3 DEF ScanOrderOf
  <2> QED
    BY <1>1, <1>4, <2>2, <2>3
<1> QED
  BY <1>3, <1>4 DEF ScanOrderOf, t

\* So does asking for the scan of a newer attempt.
LEMMA ScanOrderOfAppend ==
    ASSUME NEW S, NEW tn \in Seq(S), NEW js, ScanOrderOf(tn, js), NEW m,
           m.type = "scan" => /\ \A i \in 1 .. Len(tn) : tn[i].type = "scan" => tn[i].attempt < m.attempt
                              /\ \A j \in js : j.op = "scan" => j.attempt < m.attempt
    PROVE  ScanOrderOf(Append(tn, m), js)
<1> DEFINE t == Append(tn, m)
<1>1. Len(tn) \in Nat /\ Len(t) = Len(tn) + 1
  BY AppendOf
<1>2. \A i \in 1 .. Len(t) : i \in Nat /\ ((i \in 1 .. Len(tn) /\ t[i] = tn[i]) \/ (i = Len(tn) + 1 /\ t[i] = m))
  BY <1>1, AppendOf
<1> HIDE DEF t
<1>3. ASSUME NEW i \in 1 .. Len(t), NEW n \in 1 .. Len(t), i < n, t[i].type = "scan", t[n].type = "scan"
      PROVE  t[i].attempt < t[n].attempt
  <2>1. i \in 1 .. Len(tn) /\ t[i] = tn[i]
    BY <1>1, <1>2, <1>3
  <2>2. CASE n \in 1 .. Len(tn) /\ t[n] = tn[n]
    BY <1>3, <2>1, <2>2 DEF ScanOrderOf
  <2>3. CASE t[n] = m
    BY <1>3, <2>1, <2>3
  <2> QED
    BY <1>2, <2>2, <2>3
<1>4. \A i \in 1 .. Len(t), j \in js : t[i].type = "scan" /\ j.op = "scan" => j.attempt < t[i].attempt
  BY <1>2 DEF ScanOrderOf
<1> QED
  BY <1>3, <1>4 DEF ScanOrderOf, t

\* Every step keeps the scans in the order of their attempts.
LEMMA ScanOrderKept ==
    ASSUME BleInv, BleNext
    PROVE  ScanOrderOf(toNative', jobs')
<1>1. ScanOrderOf(toNative, jobs) /\ toNative \in Seq(Message) /\ toPage \in Seq(Answer)
  BY DEF BleInv, ScansFirst, ChannelsOK
<1>2. CASE UNCHANGED <<toNative, jobs>>
  BY <1>1, <1>2
<1>3. ASSUME UNCHANGED jobs, NEW m, m.type # "scan", Posts(<<m>>) PROVE ScanOrderOf(toNative', jobs')
  <2>1. toNative' = Append(toNative, m)
    BY <1>1, <1>3, AppendOf DEF Posts
  <2> QED
    BY <1>1, <1>3, <2>1, ScanOrderOfAppend
<1>4. ASSUME UNCHANGED jobs, Posts(<<>>) PROVE ScanOrderOf(toNative', jobs')
  BY <1>1, <1>2, <1>4, AppendOf DEF Posts
<1>5. CASE PageStep
  <2>1. jobs' = jobs
    BY <1>5, PageFrame
  <2>2. \A type, a, d : Ask(type, a, d).type = type
    BY DEF Ask
  <2>3. CASE StartScan
    <3> DEFINE m == Ask("scan", attempts + 1, None)
    <3>1. m.attempt = attempts + 1
      BY DEF Ask
    <3>2. toNative' = Append(toNative, m)
      BY <1>1, <2>3, AppendOf DEF StartScan, Posts
    <3>3. \A i \in 1 .. Len(toNative) : toNative[i].type = "scan" => toNative[i].attempt < m.attempt
      <4>1. \A i \in 1 .. Len(toNative) : toNative[i].type = "scan" => toNative[i].attempt \in Begun
        BY TokensOfBegun DEF IsAsk, Request
      <4> QED
        BY <3>1, <4>1, Basics
    <3>4. \A j \in jobs : j.attempt < m.attempt
      BY <3>1, TokensOfBegun, Basics
    <3> HIDE DEF m
    <3> QED
      BY <1>1, <2>1, <3>2, <3>3, <3>4, ScanOrderOfAppend
  <2>4. CASE (\E d \in Lamp : ConnectDevice(d)) \/ ScanWifiAgain \/ Provision \/ Reload
    BY <1>3, <1>4, <2>1, <2>2, <2>4 DEF ConnectDevice, ScanWifiAgain, WifiScanOf, Provision, Reload
  <2>5. CASE CleanupProvisioning
    <3> DEFINE a == Ask("cancelScan", page.attempt, None)
               b == Ask("disconnect", page.attempt, None)
    <3>1. a \in Message /\ b \in Message /\ a.type # "scan" /\ b.type # "scan"
      <4>1. page.attempt \in Maybe(Attempt)
        BY Basics DEF Page
      <4> QED
        BY <4>1 DEF Ask, Message, Maybe
    <3>2. toNative' = toNative \o <<a, b>>
      BY <2>5 DEF CleanupProvisioning, Posts
    <3> HIDE DEF a, b
    <3>3. toNative' = Append(Append(toNative, a), b) /\ Append(toNative, a) \in Seq(Message)
      BY <1>1, <3>1, <3>2, AppendTwo, AppendOf
    <3>4. ScanOrderOf(Append(toNative, a), jobs)
      BY <1>1, <3>1, ScanOrderOfAppend
    <3> QED
      BY <2>1, <3>1, <3>3, <3>4, ScanOrderOfAppend
  <2>6. CASE Dispatch
    <3>1. \/ UNCHANGED toNative \/ Posts(<<>>)
          \/ \E type \in {"disconnect", "create", "wifiScan"} : \E a, d : Posts(<<Ask(type, a, d)>>)
      BY <2>6 DEF Dispatch, Replies, WifiScanOf
    <3> QED
      BY <1>2, <1>3, <1>4, <2>1, <2>2, <3>1
  <2> QED
    BY <1>5, <2>3, <2>4, <2>5, <2>6 DEF PageStep
<1>6. CASE ShellStep
  <2>1. CASE \E m : Taken(m) /\ HandleScan(m)
    <3>1. PICK m : Taken(m) /\ HandleScan(m)
      BY <2>1
    <3>2. toNative # <<>> /\ m = Head(toNative) /\ toNative' = Tail(toNative) /\ m.type = "scan"
          /\ jobs' = jobs \cup {NewJob("scan", m, None, "permission")}
      BY <3>1 DEF Taken, HandleScan
    <3>3. NewJob("scan", m, None, "permission").attempt = m.attempt
      BY DEF NewJob
    <3> QED
      BY <1>1, <3>2, <3>3, ScanOrderOfTail
  <2>2. CASE \A k \in jobs' : k.op = "scan" => \E j \in jobs : j.op = "scan" /\ j.attempt = k.attempt
    <3>1. CASE UNCHANGED toNative
      BY <1>1, <2>2, <3>1 DEF ScanOrderOf
    <3>2. CASE Handle
      BY <1>1, <2>2, <3>2, ScanOrderOfTail DEF Handle
    <3> QED
      BY <1>6, <3>1, <3>2, ShellFrame
  <2> QED
    BY <1>6, <2>1, <2>2, ScanJobs
<1> QED
  BY <1>2, <1>5, <1>6, Steps, ModuleFrame

\* No reply is under way of an attempt whose scan was not begun.
ScansAlone == \A b : Scans(b) => \A t \in Told : IsReply(t) => t.attempt # b

\* The scan of an attempt is asked for once.
LEMMA OneEachOfScans == OneEach => ScansAlone
<1> SUFFICES ASSUME OneEach, NEW b, Scans(b) PROVE \A t \in Told : IsReply(t) => t.attempt # b
  BY DEF ScansAlone
<1>1. CASE \E m \in Sent : m.type = "scan" /\ m.attempt = b
  BY <1>1 DEF OneEach, OneEachOf, Sent, Told, Elems, IsAsk, Request
<1>2. CASE \E j \in jobs : j.op = "scan" /\ j.attempt = b
  BY <1>2 DEF OneEach, OneEachOf, Told, Elems
<1> QED
  BY <1>1, <1>2 DEF Scans

\* What the shell tells of a scan is of its own attempt.
LEMMA ToldOfScan ==
    ASSUME BleInv, ShellStep
    PROVE  \A t \in Told' : t \in Told \/ IsReply(t) \/ t.attempt \in {ble.attempt, None}
<1>1. ChannelsOK
  BY DEF BleInv
<1> DEFINE Fine(t) == t \in Told \/ IsReply(t) \/ t.attempt \in {ble.attempt, None}
<1>2. UNCHANGED toPage => \A t \in Told' : Fine(t)
  BY <1>1, Moves
<1>3. ASSUME NEW type, NEW of, NEW a, NEW d, of # "scan" \/ a \in {ble.attempt, None},
             Says(Tell(type, of, a, d))
      PROVE  \A t \in Told' : Fine(t)
  BY <1>1, <1>3, Moves DEF Tell, IsReply
<1> HIDE DEF Fine
<1> SUFFICES \A t \in Told' : Fine(t)
  BY DEF Fine
<1>4. CASE Handle
  <2>1. PICK m : Taken(m) /\ HandleOne(m)
    BY <1>4, Handles
  <2>2. CASE HandleScan(m) \/ HandleDisconnect(m)
    BY <1>2, <2>2 DEF HandleScan, HandleDisconnect
  <2>3. CASE HandleCancelScan(m)
    BY <1>2, <1>3, <2>3 DEF HandleCancelScan
  <2>4. CASE HandleConnect(m)
    BY <1>2, <1>3, <2>4 DEF HandleConnect, Error, Silently
  <2>5. CASE HandleCreate(m)
    BY <1>2, <1>3, <2>5 DEF HandleCreate, Error, Silently
  <2>6. CASE HandleWifi(m)
    BY <1>2, <1>3, <2>6 DEF HandleWifi, Error, Silently
  <2>7. CASE HandleReady(m)
    BY <1>3, <2>7 DEF HandleReady
  <2> QED
    BY <2>1, <2>2, <2>3, <2>4, <2>5, <2>6, <2>7 DEF HandleOne
<1>5. CASE ScanEnds \/ \E d \in Lamp : Found(d)
  BY <1>3, <1>5 DEF ScanEnds, Found, Error
<1>6. CASE \E j \in jobs : Permission(j) \/ ServerAnswers(j) \/ BindClaim(j)
  BY <1>2, <1>3, <1>6 DEF Permission, ServerAnswers, BindClaim, Error, Silently
<1>7. CASE Continue
  <2>1. PICK j : Continued(j)
    BY <1>7, Continues
  <2>2. j.op # "scan"
    BY <2>1 DEF Continued
  <2> QED
    BY <1>2, <1>3, <2>1, <2>2 DEF Continued, ConnectEnds, CreateEnds, ScanWifiEnds, ProvisionEnds, Error
<1> QED
  BY <1>4, <1>5, <1>6, <1>7 DEF ShellStep

\* Before its scan, an attempt is the shell's only after Permission.
LEMMA BleAttempt ==
    ASSUME BleInv, ShellStep
    PROVE  \/ ble'.attempt \in {ble.attempt, None}
           \/ \E j \in jobs : Permission(j) /\ ble'.attempt = j.attempt /\ ble'.stage = "scanning"
<1>1. ble \in Ble
  BY Basics
<1>2. CASE Handle
  <2>1. PICK m : Taken(m) /\ HandleOne(m)
    BY <1>2, Handles
  <2>2. CASE HandleScan(m) \/ HandleCreate(m) \/ HandleReady(m)
    BY <2>2 DEF HandleScan, HandleCreate, HandleReady
  <2>3. CASE HandleCancelScan(m) \/ HandleDisconnect(m)
    BY <1>1, <2>3 DEF HandleCancelScan, HandleDisconnect, Ble
  <2>4. CASE HandleConnect(m) \/ HandleWifi(m)
    BY <1>1, <2>4 DEF HandleConnect, HandleWifi, Ble
  <2> QED
    BY <2>1, <2>2, <2>3, <2>4 DEF HandleOne
<1>3. CASE ScanEnds \/ \E d \in Lamp : Found(d)
  BY <1>1, <1>3 DEF ScanEnds, Found, Ble
<1>4. CASE \E j \in jobs : Permission(j) \/ ServerAnswers(j) \/ BindClaim(j)
  BY <1>1, <1>4 DEF Permission, ServerAnswers, BindClaim, Ble
<1>5. CASE Continue
  <2>1. PICK j : Continued(j)
    BY <1>5, Continues
  <2> QED
    BY <1>1, <2>1 DEF Continued, ConnectEnds, CreateEnds, ScanWifiEnds, ProvisionEnds, Ble
<1> QED
  BY <1>2, <1>3, <1>4, <1>5 DEF ShellStep

\* A permission that is answered is of an earlier attempt than the scans
\* still under way.
LEMMA PermissionIsFirst ==
    ASSUME BleInv, NEW j \in jobs, Permission(j), NEW b, Scans(b)'
    PROVE  j.attempt < b
<1>1. /\ j.at = "permission" /\ \A i \in jobs : i.at = "permission" => j.attempt <= i.attempt
      /\ jobs' \in {jobs \ {j}, Outdated(jobs \ {j})} /\ UNCHANGED toNative
  BY DEF Permission
<1>2. jobs \subseteq Job /\ jobs \ {j} \subseteq Job /\ j.op = "scan"
  BY <1>1, Basics DEF JobFits
<1>3. CASE \E m \in Sent : m.type = "scan" /\ m.attempt = b
  BY <1>2, <1>3 DEF BleInv, ScansFirst, ScanOrderOf, Sent, Elems
<1>4. CASE \E k \in jobs' : k.op = "scan" /\ k.attempt = b
  <2>1. \A k \in jobs' : \E i \in jobs \ {j} : i.op = k.op /\ i.attempt = k.attempt
    BY <1>1, <1>2, OutdatedOf DEF Same
  <2>2. PICK i \in jobs \ {j} : i.op = "scan" /\ i.attempt = b
    BY <1>4, <2>1
  <2>3. i.at = "permission" /\ i.attempt # j.attempt /\ i.attempt \in Nat /\ j.attempt \in Nat
    BY <2>2, Basics, TokensOfBegun DEF JobFits, BleInv, OneEach, OneEachOf
  <2> QED
    BY <1>1, <2>2, <2>3
<1> QED
  BY <1>1, <1>3, <1>4, Moves DEF Scans, Sent

\* The part of ScansFirst about attempt b.
ScanFirst(b) ==
    /\ ble.attempt # None => ble.attempt < b
    /\ \A m \in Told : m.attempt # b
    /\ page.attempt = b => page.nearby = {} /\ page.stage \in {"scanning", "failed"}

\* The shell keeps a scan that is under way ahead of everything else of its
\* attempt,
LEMMA ScansFirstOfShell ==
    ASSUME BleInv, ShellStep, NEW b \in Begun, Scans(b)'
    PROVE  ScanFirst(b)'
<1>1. Scans(b)
  BY ShellTokens DEF Scans, IsAsk
<1>2. ScanFirst(b)
  BY <1>1 DEF BleInv, ScansFirst, ScanFirst
<1>3. OneEach'
  BY OneEachKept, Steps
<1>4. ScansAlone'
  BY <1>3, OneEachOfScans, PTL
<1>5. b \in Nat /\ b # None /\ ble.attempt \in Begun \cup {None}
  BY Basics
<1>6. \A t \in Told' : t.attempt # b
  BY <1>2, <1>4, <1>5, ToldOfScan, Basics DEF ScanFirst, ScansAlone, IsReply
<1>7. ble'.attempt # None => ble'.attempt < b
  BY <1>2, BleAttempt, PermissionIsFirst DEF ScanFirst
<1> QED
  BY <1>2, <1>6, <1>7, ShellFrame DEF ScanFirst

\* and so does the page, whose new attempt begins with the scan.
LEMMA ScansFirstOfPage ==
    ASSUME BleInv, PageStep, NEW b, Scans(b)'
    PROVE  ScanFirst(b)'
<1>1. ChannelsOK /\ jobs' = jobs /\ ble' = ble /\ page \in Page
  BY PageFrame, Basics DEF BleInv
<1>2. Scans(b) => b \in Begun /\ ScanFirst(b)
  <2>1. Scans(b) => b \in Begun
    BY TokensOfBegun DEF Scans, IsAsk, Request
  <2> QED
    BY <2>1 DEF BleInv, ScansFirst, ScanFirst
<1>3. ASSUME Scans(b), Told' \subseteq Told, page'.attempt = b => ScanFirst(b)'
      PROVE  ScanFirst(b)'
  BY <1>1, <1>2, <1>3 DEF ScanFirst
<1>4. ASSUME NEW type, NEW a, NEW d, type # "scan", Sent' = Sent \cup {Ask(type, a, d)}
      PROVE  Scans(b)
  BY <1>1, <1>4 DEF Scans, Ask
<1>5. Sent' = Sent => Scans(b)
  BY <1>1 DEF Scans
<1>6. Scans(b) => b # None
  BY <1>2, Basics
<1>7. CASE StartScan
  <2>1. Sent' = Sent \cup {Ask("scan", attempts + 1, None)} /\ Told' = Told
        /\ page'.attempt = attempts + 1 /\ page'.nearby = {} /\ page'.stage = "scanning"
    BY <1>1, <1>7, Moves DEF StartScan, BlankPage
  <2>2. CASE Scans(b)
    <3>1. page'.attempt # b
      BY <1>2, <2>1, <2>2, Basics
    <3> QED
      BY <1>3, <2>1, <2>2, <3>1
  <2>3. CASE b = attempts + 1
    <3>1. attempts + 1 # None /\ attempts + 1 \notin Begun
      BY <1>7, Basics DEF StartScan, Begun
    <3>2. \A m \in Told : m.attempt # attempts + 1
      BY <3>1, Basics DEF AnswerFits
    <3>3. ble.attempt # None => ble.attempt < attempts + 1
      BY Basics
    <3> QED
      BY <1>1, <2>1, <2>3, <3>2, <3>3 DEF ScanFirst
  <2>4. Scans(b) \/ b = attempts + 1
    BY <1>1, <2>1 DEF Scans, Ask
  <2> QED
    BY <2>2, <2>3, <2>4
<1>8. ASSUME page.attempt # None, ~Scans(page.attempt), page'.attempt = page.attempt, UNCHANGED toPage,
             NEW type, type # "scan", NEW d, Posts(<<Ask(type, page.attempt, d)>>)
      PROVE  ScanFirst(b)'
  <2>1. Sent' = Sent \cup {Ask(type, page.attempt, d)} /\ Told' = Told
    BY <1>1, <1>8, Moves
  <2>2. Scans(b)
    BY <1>4, <1>8, <2>1
  <2> QED
    BY <1>3, <1>8, <2>1, <2>2
<1>9. ASSUME NEW d \in Lamp, ConnectDevice(d) PROVE ScanFirst(b)'
  <2>1. page.attempt # None /\ page.nearby # {} /\ page'.attempt = page.attempt
    BY <1>1, <1>9 DEF ConnectDevice, BleInv, PageFits, BlankPage, Page
  <2> QED
    BY <1>8, <1>9, <2>1, ScansOfPage DEF ConnectDevice
<1>10. ASSUME page.stage = "wifi", ~page.listing
       PROVE  page.attempt # None /\ page.wants = {} /\ ~Scans(page.attempt)
  <2>1. page.attempt # None /\ page.wants = {}
    BY <1>10 DEF BleInv, PageFits, WantsFit, BlankPage
  <2> QED
    BY <1>10, <2>1, ScansOfPage
<1>11. CASE ScanWifiAgain
  <2>1. Posts(<<Ask("wifiScan", page.attempt, page.connected)>>) /\ UNCHANGED toPage
        /\ page'.attempt = page.attempt
    BY <1>1, <1>10, <1>11 DEF ScanWifiAgain, WifiScanOf, WithWifiScan, Page
  <2> QED
    BY <1>8, <1>10, <1>11, <2>1 DEF ScanWifiAgain
<1>12. CASE Provision
  <2>1. page'.attempt = page.attempt
    BY <1>1, <1>12 DEF Provision, Page
  <2> QED
    BY <1>8, <1>10, <1>12, <2>1 DEF Provision
<1>13. CASE CleanupProvisioning
  <2>1. Sent' = Sent \cup {Ask("cancelScan", page.attempt, None), Ask("disconnect", page.attempt, None)}
        /\ Told' = Told /\ page'.attempt = None
    BY <1>1, <1>13, Moves DEF CleanupProvisioning, BlankPage
  <2>2. Scans(b)
    BY <1>1, <2>1 DEF Scans, Ask
  <2> QED
    BY <1>3, <1>6, <2>1, <2>2
<1>14. CASE Reload
  <2>1. Sent' = Sent \cup {Ask("ready", None, None)} /\ Told' = {} /\ page'.attempt = None
    BY <1>1, <1>14, Moves DEF Reload, BlankPage
  <2> QED
    BY <1>3, <1>4, <1>6, <2>1
<1>15. CASE Dispatch
  <2>1. PICK m : Received(m) /\ (Ignored(m) \/ Learnt(m))
    BY <1>15, Dispatches
  <2>2. Told' \subseteq Told /\ m \in Told /\ AnswerFits(m)
    BY <2>1 DEF Received
  <2>3. Scans(b)
    <3>1. \/ Sent' = Sent
          \/ \E type, a, d : type # "scan" /\ Sent' = Sent \cup {Ask(type, a, d)}
      <4>1. CASE Ignored(m)
        BY <1>1, <4>1, Moves DEF Ignored
      <4>2. CASE Learnt(m)
        BY <1>1, <4>2, Moves DEF Learnt, HeardOfScan, HeardConnected, HeardCreated, HeardNetworks,
                                 HeardProvisioned, HeardError
      <4> QED
        BY <2>1, <4>1, <4>2
    <3> QED
      BY <1>4, <1>5, <3>1
  <2>4. b \in Begun /\ ScanFirst(b) /\ b # None
    BY <1>2, <1>6, <2>3
  <2>5. m.attempt # b
    BY <2>2, <2>4 DEF ScanFirst
  <2>6. CASE Ignored(m)
    BY <1>1, <2>2, <2>4, <2>6 DEF Ignored, ScanFirst
  <2>7. CASE HeardOfScan(m) /\ Accepts(m)
    <3>1. page'.attempt = page.attempt
      BY <2>7 DEF HeardOfScan, NowAt
    <3>2. ASSUME page.attempt = b PROVE page'.nearby = {} /\ page'.stage = "failed"
      <4>1. m.attempt = None
        BY <2>5, <2>7, <3>2 DEF Accepts
      <4>2. m.type = "blocked"
        BY <2>2, <2>7, <4>1, Basics DEF AnswerFits, HeardOfScan
      <4>3. page.nearby = {}
        BY <2>4, <3>2 DEF ScanFirst
      <4> QED
        BY <2>7, <4>2, <4>3 DEF HeardOfScan, NowAt, KeepsNearby
    <3> QED
      BY <1>1, <2>2, <2>4, <3>1, <3>2 DEF ScanFirst
  <2>8. CASE m.attempt = page.attempt /\ page'.attempt = page.attempt
    BY <1>3, <2>2, <2>3, <2>5, <2>8
  <2> QED
    BY <2>1, <2>6, <2>7, <2>8 DEF Learnt, HeardConnected, HeardCreated, HeardNetworks,
                                  HeardProvisioned, HeardError, NowAt
<1> QED
  BY <1>7, <1>9, <1>11, <1>12, <1>13, <1>14, <1>15 DEF PageStep

\* Every step does.
LEMMA ScansFirstKept ==
    ASSUME BleInv, BleNext
    PROVE  ScansFirst'
<1>1. ScanOrderOf(toNative', jobs')
  BY ScanOrderKept
<1> SUFFICES ASSUME NEW b \in Begun', Scans(b)' PROVE ScanFirst(b)'
  BY <1>1 DEF ScansFirst, ScanFirst
<1>2. CASE PageStep
  BY <1>2, ScansFirstOfPage
<1>3. CASE ShellStep
  BY <1>3, ScansFirstOfShell, ShellFrame DEF Begun
<1>4. CASE ModuleStep
  <2>1. UNCHANGED <<page, attempts, toNative, toPage, ble, jobs>>
    BY <1>4, ModuleFrame
  <2>2. Sent' = Sent /\ Told' = Told /\ Begun' = Begun
    BY <2>1 DEF Sent, Told, Elems, Begun
  <2>3. Scans(b)
    BY <2>1, <2>2 DEF Scans
  <2>4. ScanFirst(b)
    BY <2>2, <2>3 DEF BleInv, ScansFirst, ScanFirst
  <2> QED
    BY <2>1, <2>2, <2>4 DEF ScanFirst
<1> QED
  BY <1>2, <1>3, <1>4, Steps

----------------------------------------------------------------------------
(* A promise of the module, pending or settled, is one job's.              *)

\* More jobs await what fewer did.
LEMMA ResultsFitOfJobs ==
    ASSUME NEW res, NEW mod, NEW js, NEW ks, ResultsFitOf(res, mod, js),
           \A op, a : AwaitedIn(js, op, a) => AwaitedIn(ks, op, a)
    PROVE  ResultsFitOf(res, mod, ks)
BY DEF ResultsFitOf

\* A promise that is settled has one result.
LEMMA ResultsFitOfAppend ==
    ASSUME NEW S, NEW res \in Seq(S), NEW mod, NEW next, NEW js, NEW op, NEW a, NEW ok,
           ResultsFitOf(res, mod, js), AwaitedIn(js, op, a),
           \A i \in 1 .. Len(res) : res[i].attempt # a,
           next.op # "none" => next = mod /\ mod.by # a
    PROVE  ResultsFitOf(Append(res, Settled(op, a, ok)), next, js)
<1> DEFINE r == Settled(op, a, ok)
           t == Append(res, r)
<1>1. Len(res) \in Nat /\ Len(t) = Len(res) + 1
  BY AppendOf
<1>2. \A i \in 1 .. Len(t) : (i \in 1 .. Len(res) /\ t[i] = res[i]) \/ (i = Len(res) + 1 /\ t[i] = r)
  BY <1>1, AppendOf
<1>3. r.op = op /\ r.attempt = a
  BY DEF Settled
<1> HIDE DEF t, r
<1>4. next.op # "none" => AwaitedIn(js, next.op, next.by)
  BY DEF ResultsFitOf
<1>5. ASSUME NEW i \in 1 .. Len(t)
      PROVE  /\ AwaitedIn(js, t[i].op, t[i].attempt)
             /\ next.op # "none" => t[i].attempt # next.by
  BY <1>2, <1>3 DEF ResultsFitOf
<1>6. ASSUME NEW i \in 1 .. Len(t), NEW n \in 1 .. Len(t), t[n].attempt = t[i].attempt PROVE n = i
  BY <1>2, <1>3, <1>6 DEF ResultsFitOf
<1>7. ResultsFitOf(t, next, js)
  BY <1>4, <1>5, <1>6 DEF ResultsFitOf
<1> QED
  BY <1>7 DEF t, r

\* The job that takes a result takes the only one it has.
LEMMA ResultsFitOfTail ==
    ASSUME NEW S, NEW res \in Seq(S), res # <<>>, NEW mod, NEW js, NEW j \in js, ResultsFitOf(res, mod, js),
           j.attempt = Head(res).attempt
    PROVE  ResultsFitOf(Tail(res), mod, js \ {j})
<1> DEFINE t == Tail(res)
<1>1. Len(res) \in Nat /\ Len(res) > 0 /\ Head(res) = res[1] /\ 1 \in 1 .. Len(res)
  BY TailOf
<1>2. \A i \in 1 .. Len(t) : i \in Nat /\ i + 1 \in 1 .. Len(res) /\ i + 1 # 1 /\ t[i] = res[i + 1]
  BY TailOf
<1> HIDE DEF t
<1>3. \A op, a : AwaitedIn(js, op, a) /\ a # j.attempt => AwaitedIn(js \ {j}, op, a)
  BY DEF AwaitedIn
<1>4. mod.op # "none" => AwaitedIn(js \ {j}, mod.op, mod.by)
  <2>1. mod.op # "none" => res[1].attempt # mod.by
    BY <1>1 DEF ResultsFitOf
  <2>2. mod.op # "none" => AwaitedIn(js, mod.op, mod.by)
    BY DEF ResultsFitOf
  <2> QED
    BY <1>1, <1>3, <2>1, <2>2
<1>5. ASSUME NEW i \in 1 .. Len(t)
      PROVE  /\ AwaitedIn(js \ {j}, t[i].op, t[i].attempt)
             /\ mod.op # "none" => t[i].attempt # mod.by
  <2>1. i + 1 \in 1 .. Len(res) /\ i + 1 # 1 /\ t[i] = res[i + 1]
    BY <1>2
  <2>2. /\ AwaitedIn(js, res[i + 1].op, res[i + 1].attempt)
        /\ mod.op # "none" => res[i + 1].attempt # mod.by
        /\ res[i + 1].attempt # res[1].attempt
    BY <1>1, <2>1 DEF ResultsFitOf
  <2> QED
    BY <1>1, <1>3, <2>1, <2>2
<1>6. \A i, n \in 1 .. Len(t) : t[n].attempt = t[i].attempt => n = i
  <2> SUFFICES ASSUME NEW i \in 1 .. Len(t), NEW n \in 1 .. Len(t), t[n].attempt = t[i].attempt
               PROVE  n = i
    OBVIOUS
  <2>1. /\ i \in Nat /\ i + 1 \in 1 .. Len(res) /\ t[i] = res[i + 1]
        /\ n \in Nat /\ n + 1 \in 1 .. Len(res) /\ t[n] = res[n + 1]
    BY <1>2
  <2>2. i + 1 = n + 1
    BY <2>1 DEF ResultsFitOf
  <2> QED
    BY <2>1, <2>2
<1>7. ResultsFitOf(t, mod, js \ {j})
  BY <1>4, <1>5, <1>6 DEF ResultsFitOf
<1> QED
  BY <1>7 DEF t

\* The module takes the call, or settles it at once.
CalledBy(op, a) ==
    \/ /\ Idle /\ module'.op = op /\ module'.by = a /\ UNCHANGED results
    \/ UNCHANGED module /\ \E ok \in BOOLEAN : Settles(op, a, ok)

\* A call is pending or refused at once,
LEMMA CallIsCall ==
    ASSUME module \in Module, NEW op, NEW a, NEW d, NEW claim, Call(op, a, d, claim)
    PROVE  CalledBy(op, a)
<1>1. CASE UNCHANGED module /\ \E ok \in BOOLEAN : Settles(op, a, ok)
  BY <1>1 DEF CalledBy
<1>2. CASE /\ Callable(op, d) /\ UNCHANGED results
           /\ module' = [module EXCEPT !.op = op, !.by = a, !.claim = claim, !.done = FALSE]
  BY <1>2 DEF CalledBy, Callable, Module
<1> QED
  BY <1>1, <1>2 DEF Call

\* as a connect is.
LEMMA CallConnectIsCall ==
    ASSUME NEW a, NEW d, CallConnect(a, d)
    PROVE  CalledBy("connect", a)
BY DEF CallConnect, CalledBy, FreeModule

\* What a new call awaits is its own job's.
LEMMA ResultsFitOfCall ==
    ASSUME BleInv, NEW op, NEW a, NEW js, CalledBy(op, a), op # "none", AwaitedIn(js, op, a),
           \A o, b : AwaitedIn(jobs, o, b) => AwaitedIn(js, o, b) /\ b # a
    PROVE  ResultsFitOf(results', module', js)
<1>1. results \in Seq(Result) /\ ResultsFitOf(results, module, jobs)
  BY DEF BleInv, ChannelsOK, ResultsFit
<1>2. ResultsFitOf(results, module, js)
  BY <1>1, ResultsFitOfJobs
<1>3. /\ \A i \in 1 .. Len(results) : results[i].attempt # a
      /\ module.op # "none" => module.by # a
  BY <1>1 DEF ResultsFitOf
<1>4. CASE Idle /\ module'.op = op /\ module'.by = a /\ UNCHANGED results
  BY <1>2, <1>3, <1>4 DEF ResultsFitOf
<1>5. ASSUME UNCHANGED module, NEW ok \in BOOLEAN, Settles(op, a, ok)
      PROVE  ResultsFitOf(results', module', js)
  <2>1. results' = Append(results, Settled(op, a, ok))
    BY <1>5 DEF Settles
  <2> QED
    BY <1>1, <1>2, <1>3, <1>5, <2>1, ResultsFitOfAppend
<1> QED
  BY <1>4, <1>5 DEF CalledBy

\* Whatever its promise comes to, the module settles it.
LEMMA ResultsFitOfSettled ==
    ASSUME BleInv, NEW js, NEW ok, module.op # "none", Settles(module.op, module.by, ok), module'.op = "none",
           \A o, b : AwaitedIn(jobs, o, b) => AwaitedIn(js, o, b)
    PROVE  ResultsFitOf(results', module', js)
<1>1. results \in Seq(Result) /\ ResultsFitOf(results, module, jobs)
  BY DEF BleInv, ChannelsOK, ResultsFit
<1>2. ResultsFitOf(results, module, js)
  BY <1>1, ResultsFitOfJobs
<1>3. AwaitedIn(js, module.op, module.by) /\ \A i \in 1 .. Len(results) : results[i].attempt # module.by
  BY <1>2 DEF ResultsFitOf
<1>4. results' = Append(results, Settled(module.op, module.by, ok))
  BY DEF Settles
<1> QED
  BY <1>1, <1>2, <1>3, <1>4, ResultsFitOfAppend

\* Cleaning up rejects the pending promise, and its job sees that.
LEMMA ResultsFitOfCleanup ==
    ASSUME BleInv, NEW js, CallDisconnect, \A o, b : AwaitedIn(jobs, o, b) => AwaitedIn(js, o, b)
    PROVE  ResultsFitOf(results', module', js)
<1>1. module'.op = "none"
  BY DEF CallDisconnect, FreeModule
<1>2. CASE ~Idle
  BY <1>1, <1>2, ResultsFitOfSettled DEF CallDisconnect, Idle
<1>3. CASE Idle
  <2>1. results' = results /\ ResultsFitOf(results, module, js)
    BY <1>3, ResultsFitOfJobs DEF CallDisconnect, BleInv, ResultsFit
  <2> QED
    BY <1>1, <2>1 DEF ResultsFitOf
<1> QED
  BY <1>2, <1>3

\* A job that lost its say still awaits its promise.
LEMMA AwaitedInOutdated ==
    ASSUME NEW js, js \subseteq Job, NEW op, NEW a
    PROVE  AwaitedIn(js, op, a) => AwaitedIn(Outdated(js), op, a)
BY OutdatedOf DEF AwaitedIn, Same

\* Every step keeps promises and jobs matched.
LEMMA ResultsFitKept ==
    ASSUME BleInv, BleNext
    PROVE  ResultsFit'
<1>1. /\ ResultsFitOf(results, module, jobs) /\ results \in Seq(Result) /\ jobs \subseteq Job
      /\ module \in Module
  BY DEF BleInv, ResultsFit, ChannelsOK, BleTypeOK
<1> SUFFICES ResultsFitOf(results', module', jobs')
  BY DEF ResultsFit
<1>2. CASE UNCHANGED <<results, module, jobs>>
  BY <1>1, <1>2
<1>3. ASSUME UNCHANGED <<results, module>>, \A o, b : AwaitedIn(jobs, o, b) => AwaitedIn(jobs', o, b)
      PROVE  ResultsFitOf(results', module', jobs')
  BY <1>1, <1>3, ResultsFitOfJobs
<1>4. CASE ModuleStep
  <2>1. jobs' = jobs
    BY <1>4, ModuleFrame
  <2>2. CASE QrRead \/ LampActs
    <3>1. module'.op = module.op /\ module'.by = module.by /\ UNCHANGED results
      BY <1>1, <2>2 DEF QrRead, LampActs, Module
    <3> QED
      BY <1>1, <2>1, <3>1 DEF ResultsFitOf
  <2>3. CASE Succeeds
    <3>1. module.op # "none" /\ Settles(module.op, module.by, TRUE) /\ module'.op = "none"
      BY <1>1, <2>3 DEF Succeeds, FreeModule, Module
    <3> QED
      BY <2>1, <3>1, ResultsFitOfSettled
  <2>4. CASE Fails
    BY <2>1, <2>4, ResultsFitOfCleanup DEF Fails
  <2> QED
    BY <1>4, <2>2, <2>3, <2>4 DEF ModuleStep
<1>5. \A js, o, b : jobs \subseteq js /\ AwaitedIn(jobs, o, b) => AwaitedIn(js, o, b)
  BY DEF AwaitedIn
<1>6. \A js, o, b : Outdated(jobs) \subseteq js /\ AwaitedIn(jobs, o, b) => AwaitedIn(js, o, b)
  <2>1. \A js, o, b : Outdated(jobs) \subseteq js /\ AwaitedIn(Outdated(jobs), o, b) => AwaitedIn(js, o, b)
    BY DEF AwaitedIn
  <2> QED
    BY <1>1, <2>1, AwaitedInOutdated
<1>7. ASSUME NEW j \in jobs, j.at # "module"
      PROVE  \A js, o, b : /\ jobs \ {j} \subseteq js \/ Outdated(jobs \ {j}) \subseteq js
                          /\ AwaitedIn(jobs, o, b)
                          => AwaitedIn(js, o, b) /\ b # j.attempt
  <2>1. ASSUME NEW o, NEW b, AwaitedIn(jobs, o, b)
        PROVE  AwaitedIn(jobs \ {j}, o, b) /\ b # j.attempt
    BY <1>7, <2>1 DEF AwaitedIn, BleInv, OneEach, OneEachOf
  <2>2. jobs \ {j} \subseteq Job
    BY <1>1
  <2>3. \A js, o, b : jobs \ {j} \subseteq js /\ AwaitedIn(jobs \ {j}, o, b) => AwaitedIn(js, o, b)
    BY DEF AwaitedIn
  <2>4. \A js, o, b : Outdated(jobs \ {j}) \subseteq js /\ AwaitedIn(Outdated(jobs \ {j}), o, b)
          => AwaitedIn(js, o, b)
    BY DEF AwaitedIn
  <2>5. \A o, b : AwaitedIn(jobs \ {j}, o, b) => AwaitedIn(Outdated(jobs \ {j}), o, b)
    BY <2>2, AwaitedInOutdated
  <2> QED
    BY <2>1, <2>3, <2>4, <2>5
<1>8. CASE Handle
  <2>1. PICK m : Taken(m) /\ HandleOne(m)
    BY <1>8, Handles
  <2>2. ASSUME IsAsk(m) PROVE \A o, b : AwaitedIn(jobs, o, b) => b # m.attempt
    BY <2>1, <2>2 DEF Taken, AwaitedIn, BleInv, OneEach, OneEachOf, Sent, Elems
  <2>3. ASSUME NEW op, NEW js PROVE AwaitedIn(js \cup {NewJob(op, m, None, "module")}, op, m.attempt)
    <3> DEFINE k == NewJob(op, m, None, "module")
    <3>1. k.op = op /\ k.attempt = m.attempt /\ k.at = "module"
      BY DEF NewJob
    <3> HIDE DEF k
    <3> QED
      BY <3>1 DEF AwaitedIn, k
  <2>4. CASE HandleScan(m) \/ HandleCreate(m)
    <3>1. UNCHANGED <<results, module>> /\ jobs \subseteq jobs'
      BY <2>4 DEF HandleScan, HandleCreate
    <3> QED
      BY <1>3, <1>5, <3>1
  <2>5. CASE HandleCancelScan(m)
    BY <1>2, <1>3, <1>6, <2>5 DEF HandleCancelScan
  <2>6. CASE HandleConnect(m)
    <3>1. CASE /\ jobs' = Outdated(jobs) \cup {NewJob("connect", m, None, "module")}
               /\ CallConnect(m.attempt, m.lamp)
      <4>1. IsAsk(m)
        BY <2>6 DEF HandleConnect, IsAsk, Request
      <4>2. CalledBy("connect", m.attempt) /\ AwaitedIn(jobs', "connect", m.attempt)
        BY <2>3, <3>1, CallConnectIsCall
      <4>3. \A o, b : AwaitedIn(jobs, o, b) => AwaitedIn(jobs', o, b) /\ b # m.attempt
        BY <1>6, <2>2, <3>1, <4>1
      <4> QED
        BY <4>2, <4>3, ResultsFitOfCall
    <3> QED
      BY <1>2, <2>6, <3>1 DEF HandleConnect
  <2>7. CASE HandleWifi(m)
    <3>1. CASE /\ jobs' = Outdated(jobs) \cup {NewJob(m.type, m, None, "module")}
               /\ Call(m.type, m.attempt, m.lamp, None)
      <4>1. IsAsk(m) /\ m.type # "none"
        BY <2>7 DEF HandleWifi, IsAsk, Request
      <4>2. CalledBy(m.type, m.attempt) /\ AwaitedIn(jobs', m.type, m.attempt)
        BY <1>1, <2>3, <3>1, CallIsCall
      <4>3. \A o, b : AwaitedIn(jobs, o, b) => AwaitedIn(jobs', o, b) /\ b # m.attempt
        BY <1>6, <2>2, <3>1, <4>1
      <4> QED
        BY <4>1, <4>2, <4>3, ResultsFitOfCall
    <3> QED
      BY <1>2, <2>7, <3>1 DEF HandleWifi
  <2>8. CASE HandleDisconnect(m)
    BY <1>2, <1>6, <2>8, ResultsFitOfCleanup DEF HandleDisconnect
  <2>9. CASE HandleReady(m)
    BY <1>2, <2>9 DEF HandleReady
  <2> QED
    BY <2>1, <2>4, <2>5, <2>6, <2>7, <2>8, <2>9 DEF HandleOne
<1>9. CASE ScanEnds \/ \E d \in Lamp : Found(d)
  BY <1>2, <1>9 DEF ScanEnds, Found
<1>10. ASSUME NEW j \in jobs, Permission(j) \/ ServerAnswers(j) \/ BindClaim(j)
       PROVE  ResultsFitOf(results', module', jobs')
  <2>1. j \in Job /\ JobFits(j)
    BY Basics
  <2>2. CASE Permission(j)
    BY <1>3, <1>7, <2>2 DEF Permission
  <2>3. CASE ServerAnswers(j)
    <3>1. j.at # "module" /\ jobs \ {j} \subseteq jobs' /\ UNCHANGED <<results, module>>
      BY <2>3 DEF ServerAnswers
    <3> QED
      BY <1>3, <1>7, <3>1
  <2>4. CASE BindClaim(j)
    <3>1. j.at # "module" /\ j.op = "create"
      BY <2>1, <2>4 DEF BindClaim, JobFits
    <3>2. CASE /\ jobs' = Outdated(jobs \ {j}) \cup {[j EXCEPT !.at = "module", !.fresh = TRUE]}
               /\ Call("create", j.attempt, j.lamp, j.claim)
      <4>1. CalledBy("create", j.attempt)
        BY <1>1, <3>2, CallIsCall
      <4>2. AwaitedIn(jobs', "create", j.attempt)
        <5>1. LET k == [j EXCEPT !.at = "module", !.fresh = TRUE] IN
              k.op = "create" /\ k.attempt = j.attempt /\ k.at = "module"
          BY <2>1, <3>1 DEF Job
        <5> QED
          BY <3>2, <5>1 DEF AwaitedIn
      <4>3. \A o, b : AwaitedIn(jobs, o, b) => AwaitedIn(jobs', o, b) /\ b # j.attempt
        <5>1. Outdated(jobs \ {j}) \subseteq jobs'
          BY <3>2
        <5> QED
          BY <1>7, <3>1, <5>1
      <4> QED
        BY <4>1, <4>2, <4>3, ResultsFitOfCall
    <3>3. CASE jobs' = jobs \ {j} /\ UNCHANGED <<results, module>>
      BY <1>3, <1>7, <3>1, <3>3
    <3> QED
      BY <2>4, <3>2, <3>3 DEF BindClaim
  <2> QED
    BY <1>10, <2>2, <2>3, <2>4
<1>11. CASE Continue
  <2>1. PICK j : Continued(j)
    BY <1>11, Continues
  <2>2. /\ results # <<>> /\ results' = Tail(results) /\ j \in jobs /\ jobs' = jobs \ {j}
        /\ j.attempt = Head(results).attempt /\ UNCHANGED module
    BY <2>1 DEF Continued
  <2> QED
    BY <1>1, <2>2, ResultsFitOfTail
<1> QED
  BY <1>2, <1>4, <1>8, <1>9, <1>10, <1>11, Steps, PageFrame DEF ShellStep

\* Every step keeps the types.
LEMMA TypeKept ==
    ASSUME BleInv, BleNext
    PROVE  BleTypeOK'
<1>1. page' \in Page /\ TypesOfShell' /\ OneEach' /\ ResultsFit'
  BY PageFitsKept, TypesKept, OneEachKept, ResultsFitKept
<1>2. /\ ble' \in Ble /\ phone' \in Phone /\ jobs' \subseteq Job /\ module' \in Module
      /\ lamp' \in [Lamp -> [bound : Maybe(Lamp), online : BOOLEAN]]
  BY <1>1 DEF TypesOfShell, Flash
<1>3. \A i, j \in jobs' : i.op = j.op /\ i.attempt = j.attempt => i = j
  BY <1>1 DEF OneEach, OneEachOf
<1>4. module'.op # "none" =>
        \E j \in jobs' : j.op = module'.op /\ j.attempt = module'.by /\ j.at = "module"
  BY <1>1 DEF ResultsFit, ResultsFitOf, AwaitedIn
<1> QED
  BY <1>1, <1>2, <1>3, <1>4 DEF BleTypeOK

----------------------------------------------------------------------------
(* The module and the lamps.                                               *)

\* What a step of the shell asks of the module.
ShellCalls ==
    \/ UNCHANGED <<module, results>>
    \/ CallDisconnect
    \/ \E a \in Begun, d \in Lamp : CallConnect(a, d)
    \/ \E op \in {"wifiScan", "provision"}, a \in Begun, d \in Lamp :
          InSession(a, d) /\ Call(op, a, d, None)
    \/ \E j \in jobs : /\ j.op = "create" /\ InSession(j.attempt, j.lamp)
                       /\ Call("create", j.attempt, j.lamp, j.claim)
    \/ UNCHANGED module /\ results' = Tail(results)

\* What the shell asks of the module in one step: nothing, a disconnect, or
\* one call for the session's lamp.
LEMMA ShellModule ==
    ASSUME BleInv, ShellStep
    PROVE  ShellCalls
<1>1. CASE Handle
  <2>1. PICK m : Taken(m) /\ HandleOne(m)
    BY <1>1, Handles
  <2>2. MessageFits(m)
    BY <2>1 DEF Taken
  <2>3. CASE HandleConnect(m)
    <3>1. m.attempt \in Begun /\ m.lamp \in Lamp
      BY <2>2, <2>3 DEF HandleConnect, MessageFits, Request
    <3> QED
      BY <2>3, <3>1 DEF HandleConnect, ShellCalls
  <2>4. CASE HandleWifi(m)
    <3>1. m.attempt \in Begun /\ m.lamp \in Lamp /\ m.type \in {"wifiScan", "provision"}
      BY <2>2, <2>4 DEF HandleWifi, MessageFits, Request
    <3>2. \/ InSession(m.attempt, m.lamp) /\ Call(m.type, m.attempt, m.lamp, None)
          \/ UNCHANGED <<module, results>>
      BY <2>4 DEF HandleWifi
    <3> QED
      BY <3>1, <3>2 DEF ShellCalls
  <2>5. CASE HandleDisconnect(m)
    BY <2>5 DEF HandleDisconnect, ShellCalls
  <2>6. CASE HandleScan(m) \/ HandleCancelScan(m) \/ HandleCreate(m) \/ HandleReady(m)
    BY <2>6 DEF HandleScan, HandleCancelScan, HandleCreate, HandleReady, ShellCalls
  <2> QED
    BY <2>1, <2>3, <2>4, <2>5, <2>6 DEF HandleOne
<1>2. CASE ScanEnds \/ \E d \in Lamp : Found(d)
  BY <1>2 DEF ScanEnds, Found, ShellCalls
<1>3. ASSUME NEW j \in jobs, Permission(j) \/ ServerAnswers(j) \/ BindClaim(j) PROVE ShellCalls
  <2>1. j.at = "save" => j.op = "create"
    BY Basics DEF JobFits
  <2> QED
    BY <1>3, <2>1 DEF Permission, ServerAnswers, BindClaim, ShellCalls
<1>4. CASE Continue
  BY <1>4 DEF Continue, ShellCalls
<1> QED
  BY <1>1, <1>2, <1>3, <1>4 DEF ShellStep

\* A module without a session promises nothing about a lamp.
LEMMA ModuleFitsOfFree == FreeModule.op = "none" /\ FreeModule.session = None /\ FreeModule.bound = None
BY DEF FreeModule

\* A job that may go on in the shell's attempt finds the module idle and in
\* the session the shell shows.
LEMMA SessionOf ==
    ASSUME BleInv, NEW a, NEW d, InSession(a, d)
    PROVE  Idle /\ results = <<>> /\ module.session = d /\ ble.connected = d /\ d \in Lamp
BY DEF BleInv, SessionFits, InSession, Idle, InUse

\* A claim that was created in the session is for its lamp: the bind names
\* the lamp it talks to.
LEMMA ClaimInSession ==
    ASSUME BleInv, NEW j \in jobs, j.op = "create", InSession(j.attempt, j.lamp)
    PROVE  j.claim = j.lamp
BY DEF BleInv, CreateFits, InSession, InUse

\* A call in the session keeps the module consistent with the lamp.
LEMMA ModuleFitsOfCall ==
    ASSUME BleInv, UNCHANGED lamp, NEW op \in {"create", "wifiScan", "provision"}, NEW a, NEW d, NEW claim,
           Call(op, a, d, claim), op = "create" => claim = module.session
    PROVE  ModuleFits'
<1>1. module \in Module /\ ModuleFits
  BY DEF BleInv, BleTypeOK
<1>2. CASE UNCHANGED module
  BY <1>1, <1>2 DEF ModuleFits
<1>3. CASE /\ Callable(op, d) /\ ~(op = "create" /\ module.bound # None)
           /\ module' = [module EXCEPT !.op = op, !.by = a, !.claim = claim, !.done = FALSE]
  <2>1. module.session \in Lamp /\ (op = "provision" => module.bound # None)
    BY <1>1, <1>3 DEF Callable, Module, Maybe
  <2>2. /\ module'.op = op /\ module'.claim = claim /\ module'.done = FALSE
        /\ module'.session = module.session /\ module'.bound = module.bound
    BY <1>1, <1>3 DEF Module
  <2> QED
    BY <1>1, <2>1, <2>2 DEF ModuleFits
<1> QED
  BY <1>2, <1>3 DEF Call

\* Every step keeps module and lamps consistent, and each lamp with its own
\* claim.
LEMMA ModuleKept ==
    ASSUME BleInv, BleNext
    PROVE  ModuleFits' /\ LampHasItsClaim'
<1>1. /\ module \in Module /\ lamp \in Flash /\ ModuleFits /\ LampHasItsClaim
  BY DEF BleInv, BleTypeOK, Flash
<1>2. CASE UNCHANGED <<module, lamp>>
  BY <1>1, <1>2 DEF ModuleFits, LampHasItsClaim
<1>3. UNCHANGED lamp => LampHasItsClaim'
  BY <1>1 DEF LampHasItsClaim
<1>4. UNCHANGED lamp /\ module' = FreeModule => ModuleFits'
  BY ModuleFitsOfFree DEF ModuleFits
<1>5. CASE ShellStep
  <2>1. UNCHANGED lamp /\ ShellCalls
    BY <1>5, ShellFrame, ShellModule
  <2>2. ASSUME NEW a \in Begun, NEW d \in Lamp, CallConnect(a, d) PROVE ModuleFits'
    <3>1. CASE UNCHANGED module
      BY <1>2, <2>1, <3>1
    <3>2. CASE module' = [FreeModule EXCEPT !.op = "connect", !.by = a, !.target = d]
      BY <3>2 DEF ModuleFits, FreeModule
    <3> QED
      BY <2>2, <3>1, <3>2 DEF CallConnect
  <2>3. ASSUME NEW op \in {"wifiScan", "provision"}, NEW a, NEW d, Call(op, a, d, None) PROVE ModuleFits'
    BY <2>1, <2>3, ModuleFitsOfCall
  <2>4. ASSUME NEW j \in jobs, j.op = "create", InSession(j.attempt, j.lamp),
               Call("create", j.attempt, j.lamp, j.claim)
        PROVE  ModuleFits'
    <3>1. j.claim = module.session
      BY <2>4, SessionOf, ClaimInSession
    <3> QED
      BY <2>1, <2>4, <3>1, ModuleFitsOfCall
  <2> QED
    BY <1>2, <1>3, <1>4, <2>1, <2>2, <2>3, <2>4 DEF ShellCalls, CallDisconnect
<1>6. CASE QrRead
  <2>1. module.bound = None /\ module.op = "connect"
    BY <1>1, <1>6 DEF QrRead, ModuleFits
  <2>2. /\ module'.op = module.op /\ module'.target = module.target /\ module'.bound = module.bound
        /\ UNCHANGED lamp
    BY <1>1, <1>6 DEF QrRead, Module
  <2> QED
    BY <1>1, <1>3, <2>1, <2>2 DEF ModuleFits
<1>7. CASE LampActs
  <2> DEFINE d == module.session
  <2>1. /\ module.op \in {"create", "provision"} /\ d \in Lamp
        /\ module.op = "create" => module.claim = d
        /\ module.op = "provision" => module.bound = d /\ lamp[d].bound = d
    <3>1. module.op \in {"create", "provision"}
      BY <1>7 DEF LampActs
    <3> QED
      BY <1>1, <3>1 DEF ModuleFits
  <2>2. /\ module'.op = module.op /\ module'.claim = module.claim /\ module'.session = d
        /\ module'.bound = module.bound /\ module'.target = module.target /\ module'.done = TRUE
    BY <1>1, <1>7 DEF LampActs, Module
  <2>3. lamp' = [lamp EXCEPT ![d] = IF module.op = "create" THEN [@ EXCEPT !.bound = module.claim]
                                    ELSE [@ EXCEPT !.online = TRUE]]
    BY <1>7 DEF LampActs
  <2>4. \A x \in Lamp : lamp[x] \in [bound : Maybe(Lamp), online : BOOLEAN]
    BY <1>1 DEF Flash
  <2>5. \A x \in Lamp \ {d} : lamp'[x] = lamp[x]
    BY <1>1, <2>1, <2>3 DEF Flash
  <2>6. lamp'[d] = IF module.op = "create" THEN [lamp[d] EXCEPT !.bound = module.claim]
                   ELSE [lamp[d] EXCEPT !.online = TRUE]
    BY <1>1, <2>1, <2>3 DEF Flash
  <2> HIDE DEF d
  <2>7. lamp'[d].bound = d
    <3>1. lamp[d] \in [bound : Maybe(Lamp), online : BOOLEAN]
      BY <2>1, <2>4
    <3> QED
      BY <2>1, <2>6, <3>1
  <2>8. LampHasItsClaim'
    BY <1>1, <2>5, <2>7 DEF LampHasItsClaim
  <2>9. ModuleFits'
    <3>1. module.bound # None => module.bound = d
      BY <1>1 DEF ModuleFits, d
    <3>2. module'.session \in Lamp /\ lamp'[module'.session].bound = module'.session
      BY <2>1, <2>2, <2>7
    <3> QED
      BY <1>1, <2>1, <2>2, <3>1, <3>2 DEF ModuleFits
  <2> QED
    BY <2>8, <2>9
<1>8. CASE Succeeds
  <2>1. UNCHANGED lamp
    BY <1>8 DEF Succeeds
  <2>2. CASE module.op # "provision"
    <3>1. module' = [module EXCEPT !.op = "none", !.by = None, !.target = None,
                                   !.claim = None, !.done = FALSE,
                                   !.bound = IF module.op = "create" THEN module.claim ELSE @]
          /\ (module.op = "create" => module.done)
      BY <1>8, <2>2 DEF Succeeds
    <3>2. /\ module'.op = "none" /\ module'.session = module.session
          /\ module'.bound = IF module.op = "create" THEN module.claim ELSE module.bound
      BY <1>1, <3>1 DEF Module
    <3> QED
      BY <1>1, <1>3, <2>1, <3>1, <3>2 DEF ModuleFits
  <2>3. CASE module.op = "provision"
    BY <1>3, <1>4, <1>8, <2>1, <2>3 DEF Succeeds
  <2> QED
    BY <2>2, <2>3
<1>9. CASE Fails
  BY <1>3, <1>4, <1>9 DEF Fails, CallDisconnect
<1> QED
  BY <1>2, <1>5, <1>6, <1>7, <1>8, <1>9, Steps, PageFrame DEF ModuleStep

\* Every step keeps the module free once the shell is in no attempt.
LEMMA LeftKept ==
    ASSUME BleInv, BleNext
    PROVE  LeftFits'
<1>1. LeftFits /\ ble \in Ble /\ module \in Module /\ (ble.attempt \in Begun \cup {None})
      /\ ~(None \in Begun)
  BY Basics DEF BleInv
<1>2. CASE UNCHANGED <<ble, module>>
  BY <1>1, <1>2 DEF LeftFits
<1>3. ASSUME ble.attempt # None, ble'.attempt = ble.attempt PROVE LeftFits'
  BY <1>3 DEF LeftFits
<1>4. CASE ModuleStep
  <2>1. ble' = ble
    BY <1>4, ModuleFrame
  <2>2. module.op # "none"
    BY <1>4 DEF ModuleStep, QrRead, LampActs, Succeeds, Fails, Idle
  <2>3. ble.attempt # None
    BY <1>1, <2>2, ModuleFitsOfFree DEF LeftFits
  <2> QED
    BY <1>3, <2>1, <2>3
<1>5. CASE Handle
  <2>1. PICK m : Taken(m) /\ HandleOne(m)
    BY <1>5, Handles
  <2>2. m.type # "ready" => m.attempt # None
    BY <1>1, <2>1 DEF Taken, MessageFits
  <2>3. CASE HandleScan(m) \/ HandleCreate(m) \/ HandleReady(m)
    BY <1>2, <2>3 DEF HandleScan, HandleCreate, HandleReady
  <2>4. CASE HandleCancelScan(m)
    <3>1. \/ UNCHANGED <<ble, module>>
          \/ ble.attempt = m.attempt /\ ble'.attempt = ble.attempt
      BY <1>1, <2>4 DEF HandleCancelScan, Ble
    <3> QED
      BY <1>2, <1>3, <2>2, <2>4, <3>1 DEF HandleCancelScan
  <2>5. CASE HandleConnect(m)
    <3>1. \/ UNCHANGED <<ble, module>>
          \/ ble.attempt = m.attempt /\ ble'.attempt = ble.attempt
      BY <1>1, <2>5 DEF HandleConnect, Ble
    <3> QED
      BY <1>2, <1>3, <2>2, <2>5, <3>1 DEF HandleConnect
  <2>6. CASE HandleWifi(m)
    <3>1. \/ UNCHANGED <<ble, module>>
          \/ ble.attempt = m.attempt /\ ble'.attempt = ble.attempt
      BY <1>1, <2>6 DEF HandleWifi, InSession, Ble
    <3> QED
      BY <1>2, <1>3, <2>2, <2>6, <3>1 DEF HandleWifi
  <2>7. CASE HandleDisconnect(m)
    <3>1. CASE UNCHANGED <<ble, module>>
      BY <1>2, <3>1
    <3>2. CASE module' = FreeModule /\ ble'.stage = "idle"
      BY <3>2 DEF LeftFits
    <3>3. ASSUME module' = FreeModule,
                 ble' = [attempt |-> None, stage |-> "idle", found |-> {}, connected |-> None]
          PROVE  LeftFits'
      BY <3>2, <3>3
    <3> QED
      BY <2>7, <3>1, <3>3 DEF HandleDisconnect, CallDisconnect
  <2> QED
    BY <2>1, <2>3, <2>4, <2>5, <2>6, <2>7 DEF HandleOne
<1>6. CASE ScanEnds \/ \E d \in Lamp : Found(d)
  <2>1. ble.attempt # None
    BY <1>1, <1>6 DEF ScanEnds, Found, LeftFits
  <2>2. ble'.attempt = ble.attempt
    BY <1>1, <1>6 DEF ScanEnds, Found, Ble
  <2> QED
    BY <1>3, <2>1, <2>2
<1>7. ASSUME NEW j \in jobs, Permission(j) \/ ServerAnswers(j) \/ BindClaim(j) PROVE LeftFits'
  <2>1. j.attempt # None
    BY <1>1, TokensOfBegun
  <2>2. \/ UNCHANGED <<ble, module>> \/ ble'.attempt = j.attempt
    BY <1>1, <1>7 DEF Permission, ServerAnswers, BindClaim, InSession, Ble
  <2> QED
    BY <1>2, <2>1, <2>2 DEF LeftFits
<1>8. CASE Continue
  <2>1. PICK j : Continued(j)
    BY <1>8, Continues
  <2>2. j.attempt # None
    BY <1>1, <2>1, TokensOfBegun DEF Continued
  <2>3. \/ UNCHANGED ble
        \/ ble.attempt = j.attempt /\ ble'.attempt = ble.attempt
    BY <1>1, <2>1 DEF Continued, ConnectEnds, CreateEnds, ScanWifiEnds, ProvisionEnds, Ble
  <2> QED
    BY <1>2, <1>3, <2>1, <2>2, <2>3 DEF Continued
<1> QED
  BY <1>2, <1>4, <1>5, <1>6, <1>7, <1>8, Steps, PageFrame DEF ShellStep

----------------------------------------------------------------------------
(* The steps of the shell, by what they do to the attempt it is in.        *)

\* The step tells the page nothing that ends a request well.
NoFinal == \A t \in Told' : t \in Told \/ t.type \notin Final

\* A create job is one that was there, or the one of a request just taken.
CreateJob(k) ==
    \/ \E j \in jobs : j.op = "create" /\ j.attempt = k.attempt /\ j.lamp = k.lamp /\ j.claim = k.claim
    \/ \E m \in Sent : /\ m.type = "create" /\ m.attempt = k.attempt /\ m.lamp = k.lamp
                       /\ phone.registration # None /\ k.claim = phone.registration

\* The step leaves the attempt's stage and the module alone: a job is
\* prepared or dropped, an answer is told.
Calm ==
    /\ UNCHANGED <<ble, module, results>> /\ phone'.registration \in {None, phone.registration}
    /\ {k \in jobs' : k.at = "module"} = {k \in jobs : k.at = "module"}
    /\ \A k \in jobs' : k.op = "create" => CreateJob(k)
    /\ Told \subseteq Told' /\ NoFinal

\* What Bluetooth reports during a scan, or the end of one.
Searching ==
    /\ UNCHANGED <<module, results, phone>> /\ ble.stage = "scanning"
    /\ ble'.attempt = ble.attempt /\ ble'.stage \in {"scanning", "idle", "failed", "cancelled"}
    /\ jobs' \in {jobs, Outdated(jobs)}
    /\ Told \subseteq Told' /\ NoFinal

\* The user permits the scan of job j: the shell moves to its attempt.
Permitted(j) ==
    /\ j \in jobs /\ j.op = "scan" /\ ble'.attempt = j.attempt /\ ble'.stage = "scanning"
    /\ jobs' = Outdated(jobs \ {j}) /\ UNCHANGED <<module, results, toPage>>

\* The shell starts to connect for the request m.
Connects(m) ==
    /\ m \in Sent /\ m \in Message /\ m.type = "connect" /\ m.attempt = ble.attempt
    /\ m.attempt \in Begun /\ m.lamp \in Lamp
    /\ ble.stage \in {"scanning", "idle"}
    /\ ble'.attempt = ble.attempt /\ ble'.stage = "connecting"
    /\ jobs' = Outdated(jobs) \cup {NewJob("connect", m, None, "module")}
    /\ CallConnect(m.attempt, m.lamp) /\ UNCHANGED toPage

\* The shell calls the module in its session, as job k.
Works(k) ==
    /\ k \in Job /\ k.op \in {"create", "wifiScan", "provision"} /\ k.at = "module" /\ k.fresh
    /\ InSession(k.attempt, k.lamp) /\ k.attempt \in Begun
    /\ ble'.attempt = ble.attempt /\ ble'.connected = ble.connected
    /\ ble'.stage = IF k.op = "wifiScan" THEN "wifi" ELSE "provisioning"
    /\ Call(k.op, k.attempt, k.lamp, k.claim) /\ UNCHANGED <<phone, toPage>>
    /\ \/ \E j \in jobs : /\ j.op = "create" /\ k.op = "create" /\ j.claim \in Lamp
                          /\ j.attempt = k.attempt /\ j.lamp = k.lamp /\ j.claim = k.claim
                          /\ jobs' = Outdated(jobs \ {j}) \cup {k}
       \/ /\ k.op # "create" /\ \E m \in Sent : m.type = k.op /\ m.attempt = k.attempt
          /\ jobs' = Outdated(jobs) \cup {k}

\* The shell leaves the attempt.
Disconnected ==
    /\ \E m \in Sent : m.type = "disconnect" /\ m.attempt = ble.attempt
    /\ ble'.attempt = None /\ ble'.stage = "idle" /\ jobs' = Outdated(jobs)
    /\ CallDisconnect /\ UNCHANGED toPage

Kinds ==
    \/ Calm \/ Searching \/ Disconnected
    \/ (\E j : Permitted(j)) \/ (\E m : Connects(m)) \/ (\E k : Works(k)) \/ (\E j : Continued(j))

\* A job that only lost its say still is a job for its claim.
LEMMA CreateJobOf ==
    ASSUME NEW k, NEW j \in jobs, j.op = "create", j.attempt = k.attempt, j.lamp = k.lamp, j.claim = k.claim
    PROVE  CreateJob(k)
BY DEF CreateJob

\* A step of the shell that touches neither the attempt's stage nor the
\* module is calm.
LEMMA CalmOf ==
    ASSUME BleInv, UNCHANGED <<ble, module, results>>, phone'.registration \in {None, phone.registration},
           {k \in jobs' : k.at = "module"} = {k \in jobs : k.at = "module"},
           \A k \in jobs' : k.op = "create" => CreateJob(k),
           UNCHANGED toPage \/ \E t : Says(t) /\ t.type \notin Final
    PROVE  Kinds
<1>1. Told \subseteq Told' /\ NoFinal
  BY Moves DEF BleInv, NoFinal
<1> QED
  BY <1>1 DEF Kinds, Calm

\* What happens during a scan is of its own kind.
LEMMA SearchingOf ==
    ASSUME BleInv, UNCHANGED <<module, results, phone>>, ble.stage = "scanning",
           NEW s \in {"scanning", "idle", "failed", "cancelled"}, NEW f,
           ble' \in {[ble EXCEPT !.stage = s], [ble EXCEPT !.found = f]},
           jobs' \in {jobs, Outdated(jobs)},
           \E t : Says(t) /\ t.type \notin Final
    PROVE  Kinds
<1>1. Told \subseteq Told' /\ NoFinal
  BY Moves DEF BleInv, NoFinal
<1>2. ble'.attempt = ble.attempt /\ ble'.stage \in {"scanning", "idle", "failed", "cancelled"}
  BY Basics DEF Ble
<1> QED
  BY <1>1, <1>2 DEF Kinds, Searching

\* The fields of an error,
LEMMA TypeOfError ==
    ASSUME NEW of, NEW a
    PROVE  Error(of, a).type \notin Final /\ Error(of, a).type = "error"
           /\ Error(of, a).of = of /\ Error(of, a).attempt = a
BY DEF Error, Tell, Final

\* and of any other answer.
LEMMA TypeOfTell ==
    ASSUME NEW type, NEW of, NEW a, NEW d
    PROVE  LET t == Tell(type, of, a, d) IN t.type = type /\ t.of = of /\ t.attempt = a /\ t.lamp = d
BY DEF Tell

\* Handling a request is one of the kinds.
LEMMA KindOfHandle ==
    ASSUME BleInv, NEW m, Taken(m), HandleOne(m)
    PROVE  Kinds
<1>1. /\ m \in Sent /\ m \in Message /\ MessageFits(m) /\ jobs \subseteq Job /\ phone \in Phone
      /\ m.type # "ready" => m.attempt \in Attempt /\ m.attempt \in Begun
  BY Basics DEF Taken, MessageFits, BleInv, BleTypeOK
<1>2. \A j \in jobs : j.op = "create" => CreateJob(j)
  BY CreateJobOf
<1>3. UNCHANGED phone => phone'.registration \in {None, phone.registration}
  OBVIOUS
<1>4. CASE HandleScan(m)
  <2> DEFINE k == NewJob("scan", m, None, "permission")
  <2>1. k.op = "scan" /\ k.at = "permission"
    BY DEF NewJob
  <2>2. jobs' = jobs \cup {k} /\ phone' = [phone EXCEPT !.registration = None]
        /\ UNCHANGED <<toPage, ble, module, results>>
    BY <1>4 DEF HandleScan
  <2> HIDE DEF k
  <2>3. phone'.registration = None
    BY <1>1, <2>2 DEF Phone
  <2>4. {i \in jobs' : i.at = "module"} = {i \in jobs : i.at = "module"}
    BY <2>1, <2>2
  <2>5. \A i \in jobs' : i.op = "create" => CreateJob(i)
    BY <1>2, <2>1, <2>2
  <2> QED
    BY <2>2, <2>3, <2>4, <2>5, CalmOf
<1>5. CASE HandleCancelScan(m)
  <2>1. CASE UNCHANGED <<ble, jobs, toPage>>
    BY <1>2, <1>5, <2>1, CalmOf DEF HandleCancelScan
  <2>2. CASE /\ ble.stage = "scanning" /\ ble' = [ble EXCEPT !.stage = "cancelled"]
             /\ jobs' = Outdated(jobs) /\ Says(Tell("scanned", "scan", m.attempt, None))
    <3>1. Tell("scanned", "scan", m.attempt, None).type \notin Final
      BY DEF Tell, Final
    <3> QED
      BY <1>5, <2>2, <3>1, SearchingOf DEF HandleCancelScan
  <2> QED
    BY <1>5, <2>1, <2>2 DEF HandleCancelScan
<1>6. CASE HandleConnect(m)
  <2>1. CASE UNCHANGED <<ble, jobs, module, results>> /\ Says(Error("connect", m.attempt))
    BY <1>2, <1>6, <2>1, CalmOf, TypeOfError DEF HandleConnect
  <2>2. CASE /\ ble.attempt = m.attempt /\ ble.stage \in {"scanning", "idle"}
             /\ ble' = [ble EXCEPT !.found = {}, !.stage = "connecting"]
             /\ jobs' = Outdated(jobs) \cup {NewJob("connect", m, None, "module")}
             /\ CallConnect(m.attempt, m.lamp) /\ Silently
    <3>1. ble'.attempt = ble.attempt /\ ble'.stage = "connecting"
      BY <2>2, Basics DEF Ble
    <3>2. m.type = "connect" /\ m.attempt \in Begun /\ m.lamp \in Lamp
      BY <1>1, <1>6 DEF HandleConnect, MessageFits, Request
    <3>3. Connects(m)
      BY <1>1, <2>2, <3>1, <3>2 DEF Connects, Silently
    <3> QED
      BY <3>3 DEF Kinds
  <2> QED
    BY <1>6, <2>1, <2>2 DEF HandleConnect
<1>7. CASE HandleCreate(m)
  <2>1. UNCHANGED <<ble, module, results>> /\ m.type = "create"
    BY <1>7 DEF HandleCreate
  <2>2. CASE Says(Error("create", m.attempt)) /\ UNCHANGED <<phone, jobs>>
    BY <1>2, <2>1, <2>2, CalmOf, TypeOfError
  <2>3. ASSUME NEW at \in {"save", "server"}, phone.registration # None,
               jobs' = jobs \cup {NewJob("create", m, phone.registration, at)}, UNCHANGED toPage,
               phone'.registration = phone.registration
        PROVE  Kinds
    <3> DEFINE k == NewJob("create", m, phone.registration, at)
    <3>1. k.op = "create" /\ k.at = at /\ k.attempt = m.attempt /\ k.lamp = m.lamp
          /\ k.claim = phone.registration
      BY DEF NewJob
    <3>2. jobs' = jobs \cup {k}
      BY <2>3
    <3> HIDE DEF k
    <3>3. CreateJob(k)
      BY <1>1, <2>1, <2>3, <3>1 DEF CreateJob
    <3>4. \A i \in jobs' : i.op = "create" => CreateJob(i)
      BY <1>2, <3>2, <3>3
    <3>5. {i \in jobs' : i.at = "module"} = {i \in jobs : i.at = "module"}
      BY <2>3, <3>1, <3>2
    <3> QED
      BY <2>1, <2>3, <3>4, <3>5, CalmOf
  <2>4. CASE /\ phone.registration # None /\ Reusable /\ Silently /\ UNCHANGED phone
             /\ jobs' = jobs \cup {NewJob("create", m, phone.claim, "save")}
    BY <2>3, <2>4 DEF Reusable, Silently
  <2>5. CASE /\ phone.registration # None /\ phone' = [phone EXCEPT !.claim = None] /\ Silently
             /\ jobs' = jobs \cup {NewJob("create", m, phone.registration, "server")}
    <3>1. phone'.registration = phone.registration
      BY <1>1, <2>5 DEF Phone
    <3> QED
      BY <2>3, <2>5, <3>1 DEF Silently
  <2> QED
    BY <1>7, <2>2, <2>4, <2>5 DEF HandleCreate
<1>8. CASE HandleWifi(m)
  <2>1. m.type \in {"wifiScan", "provision"} /\ m.attempt \in Begun /\ m.lamp \in Lamp /\ UNCHANGED phone
    BY <1>1, <1>8 DEF HandleWifi, MessageFits, Request
  <2>2. CASE Says(Error(m.type, m.attempt)) /\ UNCHANGED <<ble, jobs, module, results>>
    BY <1>2, <2>1, <2>2, CalmOf, TypeOfError
  <2>3. CASE /\ InSession(m.attempt, m.lamp)
             /\ ble' = [ble EXCEPT !.stage = IF m.type = "wifiScan" THEN "wifi" ELSE "provisioning"]
             /\ jobs' = Outdated(jobs) \cup {NewJob(m.type, m, None, "module")}
             /\ Call(m.type, m.attempt, m.lamp, None) /\ Silently
    <3> DEFINE k == NewJob(m.type, m, None, "module")
    <3>1. m.type \in Request /\ m.attempt \in Attempt /\ None \in Maybe(Lamp)
      BY <1>1, <2>1 DEF Request, Maybe
    <3>2. k \in Job /\ k.op = m.type /\ k.attempt = m.attempt /\ k.lamp = m.lamp /\ k.claim = None
          /\ k.at = "module" /\ k.fresh = TRUE
      BY <1>1, <3>1 DEF NewJob, Job, Message
    <3>3. ble'.attempt = ble.attempt /\ ble'.connected = ble.connected
          /\ ble'.stage = IF m.type = "wifiScan" THEN "wifi" ELSE "provisioning"
      BY <2>3, Basics DEF Ble
    <3>4. jobs' = Outdated(jobs) \cup {k}
      BY <2>3
    <3> HIDE DEF k
    <3>5. Works(k)
      BY <1>1, <2>1, <2>3, <3>2, <3>3, <3>4 DEF Works, Silently
    <3> QED
      BY <3>5 DEF Kinds
  <2> QED
    BY <1>8, <2>2, <2>3 DEF HandleWifi
<1>9. CASE HandleDisconnect(m)
  <2>1. CASE UNCHANGED <<ble, jobs, module, results>>
    BY <1>2, <1>9, <2>1, CalmOf DEF HandleDisconnect
  <2>2. CASE /\ ble.attempt = m.attempt
             /\ ble' = [attempt |-> None, stage |-> "idle", found |-> {}, connected |-> None]
             /\ jobs' = Outdated(jobs) /\ CallDisconnect
    <3>1. ble'.attempt = None /\ ble'.stage = "idle"
      BY <2>2
    <3>2. Disconnected
      BY <1>1, <1>9, <2>2, <3>1 DEF Disconnected, HandleDisconnect
    <3> QED
      BY <3>2 DEF Kinds
  <2> QED
    BY <1>9, <2>1, <2>2 DEF HandleDisconnect
<1>10. CASE HandleReady(m)
  <2>1. Tell("snapshot", "scan", ble.attempt, None).type \notin Final
    BY DEF Tell, Final
  <2> QED
    BY <1>2, <1>10, <2>1, CalmOf DEF HandleReady
<1> QED
  BY <1>4, <1>5, <1>6, <1>7, <1>8, <1>9, <1>10 DEF HandleOne

\* What a job does next, before its promise, is one of the kinds.
LEMMA KindOfJob ==
    ASSUME BleInv, NEW j \in jobs, Permission(j) \/ ServerAnswers(j) \/ BindClaim(j)
    PROVE  Kinds
<1>1. j \in Job /\ JobFits(j) /\ jobs \subseteq Job /\ phone \in Phone
  BY Basics DEF BleInv, BleTypeOK
<1>2. \A i \in jobs : i.op = "create" => CreateJob(i)
  BY CreateJobOf
<1>3. CASE Permission(j)
  <2>1. j.at = "permission" /\ j.op = "scan" /\ UNCHANGED <<module, results>>
    BY <1>1, <1>3 DEF Permission, JobFits
  <2>2. CASE jobs' = jobs \ {j} /\ Says(Tell("blocked", "scan", None, None)) /\ UNCHANGED <<ble, phone>>
    <3>1. Tell("blocked", "scan", None, None).type \notin Final
      BY DEF Tell, Final
    <3>2. {i \in jobs' : i.at = "module"} = {i \in jobs : i.at = "module"}
      BY <2>1, <2>2
    <3> QED
      BY <1>2, <2>1, <2>2, <3>1, <3>2, CalmOf
  <2>3. CASE /\ jobs' = Outdated(jobs \ {j}) /\ Silently
             /\ ble' = [ble EXCEPT !.attempt = j.attempt, !.stage = "scanning", !.found = {}]
    <3>1. ble'.attempt = j.attempt /\ ble'.stage = "scanning"
      BY <2>3, Basics DEF Ble
    <3>2. Permitted(j)
      BY <2>1, <2>3, <3>1 DEF Permitted, Silently
    <3> QED
      BY <3>2 DEF Kinds
  <2> QED
    BY <1>3, <2>2, <2>3 DEF Permission
<1>4. CASE ServerAnswers(j)
  <2>1. j.at = "server" /\ j.op = "create" /\ UNCHANGED <<ble, module, results>>
    BY <1>1, <1>4 DEF ServerAnswers, JobFits
  <2>2. CASE jobs' = jobs \ {j} /\ Says(Error("create", j.attempt)) /\ UNCHANGED phone
    <3>1. {i \in jobs' : i.at = "module"} = {i \in jobs : i.at = "module"}
      BY <2>1, <2>2
    <3> QED
      BY <1>2, <2>1, <2>2, <3>1, CalmOf, TypeOfError
  <2>3. CASE /\ phone' = [phone EXCEPT !.claim = j.claim] /\ Silently
             /\ jobs' = (jobs \ {j}) \cup {[j EXCEPT !.at = "save"]}
    <3> DEFINE k == [j EXCEPT !.at = "save"]
    <3>1. k.op = j.op /\ k.attempt = j.attempt /\ k.lamp = j.lamp /\ k.claim = j.claim /\ k.at = "save"
      BY <1>1 DEF Job
    <3>2. jobs' = (jobs \ {j}) \cup {k}
      BY <2>3
    <3> HIDE DEF k
    <3>3. CreateJob(k)
      BY <2>1, <3>1, CreateJobOf
    <3>4. {i \in jobs' : i.at = "module"} = {i \in jobs : i.at = "module"}
      BY <2>1, <3>1, <3>2
    <3>5. phone'.registration = phone.registration
      BY <1>1, <2>3 DEF Phone
    <3>6. \A i \in jobs' : i.op = "create" => CreateJob(i)
      BY <1>2, <3>2, <3>3
    <3> QED
      BY <2>1, <2>3, <3>4, <3>5, <3>6, CalmOf DEF Silently
  <2> QED
    BY <1>4, <2>2, <2>3 DEF ServerAnswers
<1>5. CASE BindClaim(j)
  <2>1. j.at = "save" /\ j.op = "create" /\ j.claim \in Lamp /\ UNCHANGED phone
    BY <1>1, <1>5 DEF BindClaim, JobFits
  <2>2. CASE /\ jobs' = jobs \ {j} /\ Says(Error("create", j.attempt))
             /\ UNCHANGED <<ble, module, results>>
    <3>1. {i \in jobs' : i.at = "module"} = {i \in jobs : i.at = "module"}
      BY <2>1, <2>2
    <3> QED
      BY <1>2, <2>1, <2>2, <3>1, CalmOf, TypeOfError
  <2>3. CASE /\ InSession(j.attempt, j.lamp)
             /\ ble' = [ble EXCEPT !.stage = "provisioning"]
             /\ jobs' = Outdated(jobs \ {j}) \cup {[j EXCEPT !.at = "module", !.fresh = TRUE]}
             /\ Call("create", j.attempt, j.lamp, j.claim) /\ Silently
    <3> DEFINE k == [j EXCEPT !.at = "module", !.fresh = TRUE]
    <3>1. k \in Job /\ k.op = "create" /\ k.attempt = j.attempt /\ k.lamp = j.lamp /\ k.claim = j.claim
          /\ k.at = "module" /\ k.fresh
      BY <1>1, <2>1 DEF Job
    <3>2. jobs' = Outdated(jobs \ {j}) \cup {k}
      BY <2>3
    <3> HIDE DEF k
    <3>3. ble'.attempt = ble.attempt /\ ble'.connected = ble.connected /\ ble'.stage = "provisioning"
      BY <2>3, Basics DEF Ble
    <3>4. j.attempt \in Begun
      BY <1>1 DEF JobFits
    <3>5. Works(k)
      BY <2>1, <2>3, <3>1, <3>2, <3>3, <3>4 DEF Works, Silently
    <3> QED
      BY <3>5 DEF Kinds
  <2> QED
    BY <1>5, <2>2, <2>3 DEF BindClaim
<1> QED
  BY <1>3, <1>4, <1>5

\* Every step of the shell is one of the kinds.
LEMMA ShellKinds ==
    ASSUME BleInv, ShellStep
    PROVE  Kinds
<1>1. CASE Handle
  BY <1>1, Handles, KindOfHandle
<1>2. CASE Continue
  BY <1>2, Continues DEF Kinds
<1>3. CASE ScanEnds
  <2>1. /\ ble.stage = "scanning" /\ UNCHANGED <<jobs, module, results, phone>>
        /\ \/ ble' = [ble EXCEPT !.stage = "idle"] /\ Says(Tell("scanned", "scan", ble.attempt, None))
           \/ ble' = [ble EXCEPT !.stage = "failed"] /\ Says(Error("scan", ble.attempt))
    BY <1>3 DEF ScanEnds
  <2>2. Tell("scanned", "scan", ble.attempt, None).type \notin Final
    BY DEF Tell, Final
  <2>3. Error("scan", ble.attempt).type \notin Final
    BY TypeOfError
  <2> QED
    BY <2>1, <2>2, <2>3, SearchingOf
<1>4. ASSUME NEW d \in Lamp, Found(d) PROVE Kinds
  <2>1. /\ ble.stage = "scanning" /\ UNCHANGED <<jobs, module, results, phone>>
        /\ ble' = [ble EXCEPT !.found = @ \cup {d}] /\ Says(Tell("found", "scan", ble.attempt, d))
    BY <1>4 DEF Found
  <2>2. Tell("found", "scan", ble.attempt, d).type \notin Final
    BY DEF Tell, Final
  <2>3. ble' = [ble EXCEPT !.found = ble.found \cup {d}]
    BY <2>1
  <2> QED
    BY <2>1, <2>2, <2>3, SearchingOf
<1>5. ASSUME NEW j \in jobs, Permission(j) \/ ServerAnswers(j) \/ BindClaim(j) PROVE Kinds
  BY <1>5, KindOfJob
<1> QED
  BY <1>1, <1>2, <1>3, <1>4, <1>5 DEF ShellStep

----------------------------------------------------------------------------
(* Whose answers are under way.                                            *)

\* Of every attempt there is one request, job or reply.
LEMMA OneToken ==
    ASSUME BleInv
    PROVE  /\ \A i, j \in jobs : i.attempt = j.attempt => i = j
           /\ \A j \in jobs, m \in Sent : IsAsk(m) => m.attempt # j.attempt
           /\ \A j \in jobs, t \in Told : IsReply(t) => t.attempt # j.attempt
           /\ \A m \in Sent, t \in Told : IsAsk(m) /\ IsReply(t) => m.attempt # t.attempt
BY DEF BleInv, OneEach, OneEachOf, Sent, Told, Elems

\* An attempt has one job.
LEMMA OneJob ==
    ASSUME BleInv, NEW i \in jobs, NEW j \in jobs, i.attempt = j.attempt
    PROVE  i = j
BY OneToken

\* The results on their way to the shell.
LEMMA ResultsOf ==
    ASSUME BleInv
    PROVE  /\ results \in Seq(Result) /\ Len(results) \in Nat
           /\ results # <<>> =>
                /\ 1 \in 1 .. Len(results) /\ Head(results) = results[1] /\ Tail(results) \in Seq(Result)
                /\ Len(Tail(results)) = Len(results) - 1
                /\ \A i \in 1 .. Len(results) : i # 1 =>
                     i - 1 \in 1 .. Len(Tail(results)) /\ Tail(results)[i - 1] = results[i]
           /\ \A i, n \in 1 .. Len(results) : results[n].attempt = results[i].attempt => n = i
           /\ module.op # "none" => \A i \in 1 .. Len(results) : results[i].attempt # module.by
<1>1. results \in Seq(Result)
  BY DEF BleInv, ChannelsOK
<1>2. ResultsFitOf(results, module, jobs)
  BY DEF BleInv, ResultsFit
<1> QED
  BY <1>1, <1>2 DEF ResultsFitOf

\* A promise that is settled now is the last result on its way.
LEMMA SettlesOf ==
    ASSUME BleInv, NEW op, NEW a, NEW ok, Settles(op, a, ok)
    PROVE  /\ Len(results') = Len(results) + 1
           /\ \A i \in 1 .. Len(results) : i \in 1 .. Len(results') /\ results'[i] = results[i]
           /\ Len(results') \in 1 .. Len(results')
           /\ LET r == results'[Len(results')] IN r.op = op /\ r.attempt = a /\ r.ok = ok
<1> DEFINE r == Settled(op, a, ok)
<1>1. r.op = op /\ r.attempt = a /\ r.ok = ok
  BY DEF Settled
<1>2. results \in Seq(Result) /\ results' = Append(results, r)
  BY ResultsOf DEF Settles
<1> HIDE DEF r
<1>3. Len(results) \in Nat /\ Len(results') = Len(results) + 1 /\ results'[Len(results) + 1] = r
      /\ \A i \in 1 .. Len(results) : results'[i] = results[i]
  BY <1>2, AppendOf
<1> QED
  BY <1>1, <1>3

\* While a lamp is in use, the next answer is the one the shell waits for.
LEMMA HeadOfUse ==
    ASSUME BleInv, ble.stage \in InUse, NEW j, Continued(j)
    PROVE  /\ Live(j) /\ ble.attempt = j.attempt /\ Len(results) = 1 /\ module.op = "none"
           /\ ble.stage # "secure-session" /\ j.lamp = ble.connected
           /\ Head(results).ok /\ j.op # "provision" =>
                /\ module.session = ble.connected
                /\ j.op = "create" => module.bound # None
<1>1. /\ results # <<>> /\ j \in jobs /\ j.op = Head(results).op /\ j.attempt = Head(results).attempt
      /\ Head(results) = results[1]
  BY ResultsOf DEF Continued
<1>2. ble.stage # "secure-session"
  BY <1>1 DEF BleInv, SessionFits
<1>3. ASSUME NEW ops, Working(ops)
      PROVE  /\ j.op \in ops /\ j.attempt = ble.attempt /\ j.fresh /\ j.lamp = ble.connected
             /\ Len(results) = 1 /\ module.op = "none"
             /\ Head(results).ok /\ j.op # "provision" =>
                  /\ module.session = ble.connected
                  /\ j.op = "create" => module.bound # None
  <2>1. PICK k \in jobs : /\ k.op \in ops /\ k.attempt = ble.attempt /\ k.at = "module" /\ k.fresh
                          /\ k.lamp = ble.connected /\ Holding(k)
    BY <1>3 DEF Working
  <2>2. /\ Len(results) = 1 /\ results[1].op = k.op /\ results[1].attempt = k.attempt
        /\ module.op = "none"
        /\ results[1].ok /\ k.op # "provision" =>
             /\ module.session = ble.connected
             /\ k.op = "create" => module.bound # None
    BY <1>1, <2>1 DEF Holding
  <2>3. k = j
    BY <1>1, <2>1, <2>2, OneToken
  <2> QED
    BY <1>1, <2>1, <2>2, <2>3
<1>4. ble.stage = "wifi" => Working({"wifiScan"})
  BY DEF BleInv, SessionFits
<1>5. ble.stage = "provisioning" => Working({"create", "provision"})
  BY DEF BleInv, SessionFits
<1>6. ASSUME NEW ops \in {{"wifiScan"}, {"create", "provision"}}, Working(ops),
             ble.stage = IF ops = {"wifiScan"} THEN "wifi" ELSE "provisioning"
      PROVE  Live(j)
  <2>1. j.op \in ops /\ j.attempt = ble.attempt /\ j.fresh /\ j.lamp = ble.connected
    BY <1>3, <1>6
  <2>2. CASE ops = {"wifiScan"}
    BY <1>6, <2>1, <2>2 DEF Live
  <2>3. CASE ops = {"create", "provision"}
    <3>1. ble.stage = "provisioning" /\ (j.op = "create" \/ j.op = "provision")
      BY <1>6, <2>1, <2>3
    <3> QED
      BY <2>1, <3>1 DEF Live
  <2> QED
    BY <2>2, <2>3
<1>7. CASE ble.stage = "wifi"
  <2>1. Working({"wifiScan"})
    BY <1>4, <1>7
  <2>2. Live(j)
    BY <1>6, <1>7, <2>1
  <2> QED
    BY <1>2, <1>3, <2>1, <2>2
<1>8. CASE ble.stage = "provisioning"
  <2>1. Working({"create", "provision"})
    BY <1>5, <1>8
  <2>2. Live(j)
    BY <1>6, <1>8, <2>1
  <2> QED
    BY <1>2, <1>3, <2>1, <2>2
<1> QED
  BY <1>2, <1>7, <1>8 DEF InUse

\* The answer to the shell's connect finds the shell still connecting, and
\* the module in the session it says.
LEMMA HeadOfConnect ==
    ASSUME BleInv, NEW j, Continued(j), j.op = "connect", j.attempt = ble.attempt
    PROVE  /\ ble.stage = "connecting"
           /\ Head(results).ok => Len(results) = 1 /\ module.op = "none" /\ module.session = j.lamp
<1>1. /\ results # <<>> /\ j \in jobs /\ j.attempt = Head(results).attempt
      /\ Head(results) = results[1] /\ 1 \in 1 .. Len(results)
  BY ResultsOf DEF Continued
<1>2. ble.stage = "connecting"
  BY <1>1 DEF BleInv, ConnectingFits
<1>3. PICK k \in jobs : k.attempt = ble.attempt /\ Connecting(k)
  BY <1>2 DEF BleInv, ConnectingFits
<1>4. k = j
  BY <1>1, <1>3, OneToken
<1>5. ~Pending(j)
  BY <1>1, ResultsOf DEF Pending, Continued
<1>6. PICK i \in 1 .. Len(results) :
        /\ results[i].op = "connect" /\ results[i].attempt = j.attempt
        /\ results[i].ok => i = Len(results) /\ module.op = "none" /\ module.session = j.lamp
  BY <1>3, <1>4, <1>5 DEF Connecting
<1>7. i = 1
  BY <1>1, <1>6, ResultsOf
<1> QED
  BY <1>1, <1>2, <1>6, <1>7

----------------------------------------------------------------------------
(* ConnectingFits.                                                         *)

\* The module keeps the promise of a pending connect: until it is settled,
\* or with its result.
LEMMA ConnectingOfModule ==
    ASSUME BleInv, ModuleStep, NEW j \in jobs, j.op = "connect", Connecting(j)
    PROVE  Connecting(j)'
<1>1. module \in Module /\ module.op # "none"
  BY Basics DEF ModuleStep, QrRead, LampActs, Succeeds, Fails, Idle
<1>2. Len(results) \in Nat
  BY ResultsOf
<1>3. CASE \E i \in 1 .. Len(results) :
             /\ results[i].op = "connect" /\ results[i].attempt = j.attempt
             /\ results[i].ok => i = Len(results) /\ module.op = "none" /\ module.session = j.lamp
  <2>1. PICK i \in 1 .. Len(results) :
               results[i].op = "connect" /\ results[i].attempt = j.attempt /\ ~results[i].ok
    BY <1>1, <1>3
  <2>2. i \in 1 .. Len(results') /\ results'[i] = results[i]
    <3>1. UNCHANGED results \/ \E op, a, ok : Settles(op, a, ok)
      BY DEF ModuleStep, QrRead, LampActs, Succeeds, Fails, CallDisconnect
    <3> QED
      BY <2>1, <3>1, SettlesOf
  <2> QED
    BY <2>1, <2>2 DEF Connecting
<1>4. CASE Pending(j) /\ module.target = j.lamp /\ module.session \in {None, j.lamp}
  <2>1. CASE QrRead
    <3>1. module'.op = module.op /\ module'.by = module.by /\ module'.target = module.target
          /\ module'.session = module.target
      BY <1>1, <2>1 DEF QrRead, Module
    <3> QED
      BY <1>4, <3>1 DEF Connecting, Pending
  <2>2. CASE LampActs
    BY <1>4, <2>2 DEF LampActs, Pending
  <2>3. CASE Succeeds
    <3>1. /\ module.op = "connect" /\ module.by = j.attempt /\ module.session = j.lamp
          /\ Settles("connect", j.attempt, TRUE)
          /\ module' = [module EXCEPT !.op = "none", !.by = None, !.target = None,
                                 !.claim = None, !.done = FALSE,
                                 !.bound = IF module.op = "create" THEN module.claim ELSE @]
      BY <1>4, <2>3 DEF Succeeds, Pending
    <3>2. module'.op = "none" /\ module'.session = j.lamp
      BY <1>1, <3>1 DEF Module
    <3>3. Len(results') \in 1 .. Len(results') /\ results'[Len(results')].op = "connect"
          /\ results'[Len(results')].attempt = j.attempt
      BY <3>1, SettlesOf
    <3> QED
      BY <3>2, <3>3 DEF Connecting
  <2>4. CASE Fails
    <3>1. Settles("connect", j.attempt, FALSE)
      BY <1>4, <2>4 DEF Fails, CallDisconnect, Pending, Idle
    <3>2. Len(results') \in 1 .. Len(results') /\ results'[Len(results')].op = "connect"
          /\ results'[Len(results')].attempt = j.attempt /\ results'[Len(results')].ok = FALSE
      BY <3>1, SettlesOf
    <3> QED
      BY <3>2 DEF Connecting
  <2> QED
    BY <2>1, <2>2, <2>3, <2>4 DEF ModuleStep
<1> QED
  BY <1>3, <1>4 DEF Connecting

\* Another job's result does not touch a pending connect.
LEMMA ConnectingOfNext ==
    ASSUME BleInv, NEW j, Continued(j), NEW k \in jobs, k # j, Connecting(k)
    PROVE  Connecting(k)'
<1>1. /\ results # <<>> /\ results' = Tail(results) /\ j \in jobs /\ j.attempt = Head(results).attempt
      /\ UNCHANGED module
  BY DEF Continued
<1>2. CASE Pending(k) /\ module.target = k.lamp /\ module.session \in {None, k.lamp}
  BY <1>1, <1>2 DEF Connecting, Pending
<1>3. ASSUME NEW i \in 1 .. Len(results), results[i].op = "connect", results[i].attempt = k.attempt,
             results[i].ok => i = Len(results) /\ module.op = "none" /\ module.session = k.lamp
      PROVE  Connecting(k)'
  <2>1. i # 1
    <3>1. k.attempt # j.attempt
      BY <1>1, OneJob
    <3>2. results[1].attempt = j.attempt
      BY <1>1, ResultsOf
    <3> QED
      BY <1>3, <3>1, <3>2
  <2>2. i - 1 \in 1 .. Len(results') /\ results'[i - 1] = results[i] /\ Len(results') = Len(results) - 1
    BY <1>1, <2>1, ResultsOf
  <2>3. results'[i - 1].ok => i - 1 = Len(results') /\ module'.op = "none" /\ module'.session = k.lamp
    BY <1>1, <1>3, <2>2, ResultsOf
  <2> QED
    BY <1>3, <2>2, <2>3 DEF Connecting
<1> QED
  BY <1>2, <1>3 DEF Connecting

\* An outdated job was a job.
LEMMA OldJobs ==
    ASSUME BleInv, NEW js, js \subseteq jobs, NEW k \in Outdated(js)
    PROVE  \E i \in js : Same(k, i)
BY OutdatedOf DEF BleInv, BleTypeOK

\* Every step keeps the shell in 'connecting' exactly while its connect is
\* on its way.
LEMMA ConnectingKept ==
    ASSUME BleInv, BleNext
    PROVE  ConnectingFits'
<1> DEFINE Opens == \E j \in jobs : /\ j.op = "connect" /\ j.attempt = ble.attempt /\ j.at = "module"
                                    /\ Connecting(j)
           Only == \A j \in jobs : j.op = "connect" /\ j.attempt = ble.attempt => ble.stage = "connecting"
<1>1. (ble.stage = "connecting" => Opens) /\ Only
  BY DEF BleInv, ConnectingFits
<1>2. \A j \in jobs : j.op = "connect" => j.at = "module"
  BY Basics DEF JobFits, Job
<1>3. CASE PageStep
  <2>1. UNCHANGED <<ble, jobs, module, results>>
    BY <1>3, PageFrame
  <2> QED
    BY <2>1, <1>1 DEF ConnectingFits, Connecting, Pending
<1>4. CASE ModuleStep
  <2>1. UNCHANGED <<ble, jobs>>
    BY <1>4, ModuleFrame
  <2> QED
    BY <1>1, <1>4, <2>1, ConnectingOfModule DEF ConnectingFits
<1>5. CASE Kinds
  <2>1. CASE Calm
    <3>1. UNCHANGED <<ble, module, results>>
          /\ {k \in jobs' : k.at = "module"} = {k \in jobs : k.at = "module"}
      BY <2>1 DEF Calm
    <3>2. \A k \in jobs' : k.op = "connect" => k.at = "module"
      <4>1. Fitting' /\ jobs' \subseteq Job
        BY FittingKept, TypeKept DEF BleTypeOK
      <4> QED
        BY <4>1 DEF Fitting, JobFits, Job
    <3>3. ble'.stage = "connecting" => Opens'
      BY <1>1, <3>1 DEF Connecting, Pending
    <3>4. Only'
      BY <1>1, <3>1, <3>2
    <3> QED
      BY <3>3, <3>4 DEF ConnectingFits
  <2>2. CASE Searching
    <3>1. \A k \in jobs' : \E i \in jobs : i.op = k.op /\ i.attempt = k.attempt
      BY <2>2, OldJobs DEF Searching, Same
    <3>2. ble.stage = "scanning" /\ ble'.attempt = ble.attempt /\ ble'.stage # "connecting"
      BY <2>2 DEF Searching
    <3> QED
      BY <1>1, <3>1, <3>2 DEF ConnectingFits
  <2>3. CASE Disconnected
    <3>1. \A k \in jobs' : k.attempt # None
      BY <2>3, OldJobs, TokensOfBegun, Basics DEF Disconnected, Same
    <3> QED
      BY <2>3, <3>1 DEF Disconnected, ConnectingFits
  <2>4. ASSUME NEW j, Permitted(j) PROVE ConnectingFits'
    <3>1. \A k \in jobs' : \E i \in jobs \ {j} : i.attempt = k.attempt
      BY <2>4, OldJobs DEF Permitted, Same
    <3>2. ASSUME NEW k \in jobs' PROVE k.attempt # ble'.attempt
      <4>1. PICK i \in jobs \ {j} : i.attempt = k.attempt
        BY <3>1
      <4> QED
        BY <2>4, <4>1, OneJob DEF Permitted
    <3> QED
      BY <2>4, <3>2 DEF Permitted, ConnectingFits
  <2>5. ASSUME NEW m, Connects(m) PROVE ConnectingFits'
    <3> DEFINE k == NewJob("connect", m, None, "module")
    <3>1. k.op = "connect" /\ k.attempt = m.attempt /\ k.lamp = m.lamp /\ k.at = "module"
      BY DEF NewJob
    <3>2. k \in jobs' /\ ble'.attempt = k.attempt /\ ble'.stage = "connecting"
          /\ CallConnect(k.attempt, k.lamp)
      BY <2>5, <3>1 DEF Connects
    <3> HIDE DEF k
    <3>3. Connecting(k)'
      <4>1. CASE module' = [FreeModule EXCEPT !.op = "connect", !.by = k.attempt, !.target = k.lamp]
        BY <3>1, <4>1 DEF Connecting, Pending, FreeModule
      <4>2. CASE Settles("connect", k.attempt, FALSE)
        <5>1. Len(results') \in 1 .. Len(results') /\ results'[Len(results')].op = "connect"
              /\ results'[Len(results')].attempt = k.attempt /\ results'[Len(results')].ok = FALSE
          BY <4>2, SettlesOf
        <5> QED
          BY <5>1 DEF Connecting
      <4> QED
        BY <3>2, <4>1, <4>2 DEF CallConnect
    <3> QED
      BY <3>1, <3>2, <3>3 DEF ConnectingFits
  <2>6. ASSUME NEW k, Works(k) PROVE ConnectingFits'
    <3>1. /\ ble'.attempt = ble.attempt /\ ble'.stage # "connecting" /\ ble.stage # "connecting"
          /\ k.op # "connect"
          /\ \E js : js \subseteq jobs /\ jobs' = Outdated(js) \cup {k}
      BY <2>6 DEF Works, InSession
    <3>2. \A i \in jobs' : i.op = "connect" => \E j \in jobs : j.op = "connect" /\ j.attempt = i.attempt
      BY <3>1, OldJobs DEF Same
    <3> QED
      BY <1>1, <3>1, <3>2 DEF ConnectingFits
  <2>7. ASSUME NEW j, Continued(j) PROVE ConnectingFits'
    <3>1. j \in jobs /\ jobs' = jobs \ {j} /\ ble'.attempt = ble.attempt
      BY <2>7, Basics DEF Continued, ConnectEnds, CreateEnds, ScanWifiEnds, ProvisionEnds, Ble
    <3>2. ble.attempt = j.attempt => ConnectingFits'
      <4>1. SUFFICES ASSUME ble.attempt = j.attempt PROVE ConnectingFits'
        OBVIOUS
      <4>2. ASSUME NEW k \in jobs' PROVE k.attempt # ble'.attempt
        <5>1. k \in jobs /\ k # j
          BY <3>1
        <5> QED
          BY <3>1, <4>1, <5>1, OneJob
      <4>3. ble'.stage # "connecting"
        <5>1. ble'.stage = "connecting" => UNCHANGED ble /\ ~Live(j)
          BY <2>7, Basics DEF Continued, ConnectEnds, CreateEnds, ScanWifiEnds, ProvisionEnds, Ble
        <5>2. SUFFICES ASSUME ble.stage = "connecting", ~Live(j) PROVE FALSE
          BY <5>1
        <5>3. PICK k \in jobs : k.op = "connect" /\ k.attempt = ble.attempt
          BY <1>1, <5>2
        <5> QED
          BY <3>1, <4>1, <5>2, <5>3, OneToken DEF Live
      <4> QED
        BY <4>2, <4>3 DEF ConnectingFits
    <3>3. ble.attempt # j.attempt => ConnectingFits'
      <4>1. SUFFICES ASSUME ble.attempt # j.attempt PROVE ConnectingFits'
        OBVIOUS
      <4>2. UNCHANGED ble
        BY <2>7, <4>1 DEF Continued
      <4>3. Only'
        BY <1>1, <3>1, <4>2
      <4>4. ble'.stage = "connecting" => Opens'
        BY <1>1, <2>7, <3>1, <4>1, <4>2, ConnectingOfNext
      <4> QED
        BY <4>3, <4>4 DEF ConnectingFits
    <3> QED
      BY <3>2, <3>3
  <2> QED
    BY <1>5, <2>1, <2>2, <2>3, <2>4, <2>5, <2>6, <2>7 DEF Kinds
<1> QED
  BY <1>3, <1>4, <1>5, Steps, ShellKinds

----------------------------------------------------------------------------
(* SessionFits.                                                            *)

\* The module keeps the session for the job that uses it.
LEMMA HoldingOfModule ==
    ASSUME BleInv, ModuleStep, NEW j \in jobs, j.op \in {"create", "wifiScan", "provision"}, Holding(j)
    PROVE  Holding(j)'
<1>1. module \in Module /\ module.op # "none" /\ UNCHANGED ble
  BY Basics, ModuleFrame DEF ModuleStep, QrRead, LampActs, Succeeds, Fails, Idle
<1>2. /\ results = <<>> /\ Len(results) = 0 /\ module.op = j.op /\ module.by = j.attempt
      /\ module.session = ble.connected
      /\ j.op = "create" => module.claim = j.claim /\ j.claim # None
  BY <1>1, Basics DEF Holding, Pending, JobFits
<1>3. CASE QrRead
  BY <1>2, <1>3 DEF QrRead
<1>4. CASE LampActs
  <2>1. /\ module'.op = module.op /\ module'.by = module.by /\ module'.session = module.session
        /\ module'.claim = module.claim /\ UNCHANGED results
    BY <1>1, <1>4 DEF LampActs, Module
  <2> QED
    BY <1>1, <1>2, <2>1 DEF Holding, Pending
<1>5. ASSUME NEW ok, Settles(module.op, module.by, ok), module'.op = "none",
             ok /\ j.op # "provision" =>
               /\ module'.session = ble.connected
               /\ j.op = "create" => module'.bound # None
      PROVE  Holding(j)'
  <2>1. /\ Len(results') = 1 /\ results'[1].op = j.op /\ results'[1].attempt = j.attempt
        /\ results'[1].ok = ok
    BY <1>2, <1>5, SettlesOf
  <2> QED
    BY <1>1, <1>5, <2>1 DEF Holding
<1>6. CASE Succeeds
  <2>1. CASE module.op = "provision"
    BY <1>2, <1>5, <1>6, <2>1 DEF Succeeds, FreeModule
  <2>2. CASE module.op # "provision"
    <3>1. module' = [module EXCEPT !.op = "none", !.by = None, !.target = None,
                                   !.claim = None, !.done = FALSE,
                                   !.bound = IF module.op = "create" THEN module.claim ELSE @]
          /\ Settles(module.op, module.by, TRUE)
      BY <1>6, <2>2 DEF Succeeds
    <3>2. module'.op = "none" /\ module'.session = module.session
          /\ (module.op = "create" => module'.bound = module.claim)
      BY <1>1, <3>1 DEF Module
    <3> QED
      BY <1>2, <1>5, <3>1, <3>2
  <2> QED
    BY <2>1, <2>2
<1>7. CASE Fails
  BY <1>1, <1>5, <1>7 DEF Fails, CallDisconnect, Idle, FreeModule
<1> QED
  BY <1>3, <1>4, <1>6, <1>7 DEF ModuleStep

\* A call for the session's lamp holds the session.
LEMMA HoldingOfCall ==
    ASSUME BleInv, NEW k, Works(k)
    PROVE  Holding(k)' /\ ble.connected = k.lamp /\ k.lamp \in Lamp
<1>1. /\ Idle /\ results = <<>> /\ module.session = k.lamp /\ ble.connected = k.lamp /\ k.lamp \in Lamp
      /\ module \in Module /\ ble'.connected = ble.connected /\ Call(k.op, k.attempt, k.lamp, k.claim)
  BY SessionOf, Basics DEF Works
<1>2. ASSUME NEW ok, UNCHANGED module, Settles(k.op, k.attempt, ok),
             ok => k.op = "create" /\ module.bound # None
      PROVE  Holding(k)'
  <2>1. /\ Len(results') = 1 /\ results'[1].op = k.op /\ results'[1].attempt = k.attempt
        /\ results'[1].ok = ok
    BY <1>1, <1>2, SettlesOf
  <2> QED
    BY <1>1, <1>2, <2>1 DEF Holding, Idle
<1>3. CASE UNCHANGED results
           /\ module' = [module EXCEPT !.op = k.op, !.by = k.attempt, !.claim = k.claim, !.done = FALSE]
  <2>1. /\ module'.op = k.op /\ module'.by = k.attempt /\ module'.claim = k.claim
        /\ module'.session = module.session
    BY <1>1, <1>3 DEF Module
  <2> QED
    BY <1>1, <1>3, <2>1 DEF Holding, Pending
<1>4. CASE k.op = "create" /\ module.bound # None
  BY <1>1, <1>2, <1>4 DEF Call
<1>5. CASE ~(k.op = "create" /\ module.bound # None)
  <2>1. UNCHANGED module /\ Settles(k.op, k.attempt, FALSE) => Holding(k)'
    BY <1>2
  <2> QED
    BY <1>1, <1>3, <1>5, <2>1 DEF Call
<1> QED
  BY <1>1, <1>4, <1>5

\* Every step keeps the shell's stage and the module's session in step.
LEMMA SessionKept ==
    ASSUME BleInv, BleNext
    PROVE  SessionFits'
<1>1. SessionFits
  BY DEF BleInv
<1>2. CASE PageStep
  <2>1. UNCHANGED <<ble, phone, jobs, module, results>>
    BY <1>2, PageFrame
  <2> QED
    BY <1>1, <2>1 DEF SessionFits, Working, Holding, Pending
<1>3. CASE ModuleStep
  <2>1. UNCHANGED <<ble, phone, jobs>> /\ module.op # "none"
    BY <1>3, ModuleFrame DEF ModuleStep, QrRead, LampActs, Succeeds, Fails, Idle
  <2>2. ASSUME NEW ops \in {{"wifiScan"}, {"create", "provision"}}, Working(ops) PROVE Working(ops)'
    <3>1. \A j \in jobs : j.op \in ops /\ Holding(j) => Holding(j)'
      BY <1>3, HoldingOfModule
    <3> QED
      BY <2>1, <2>2, <3>1 DEF Working
  <2> QED
    BY <1>1, <2>1, <2>2 DEF SessionFits
<1>4. CASE Kinds
  <2>1. CASE Calm
    <3>1. /\ UNCHANGED <<ble, module, results>> /\ phone'.registration \in {None, phone.registration}
          /\ {k \in jobs' : k.at = "module"} = {k \in jobs : k.at = "module"}
      BY <2>1 DEF Calm
    <3>2. ASSUME NEW ops, Working(ops) PROVE Working(ops)'
      <4>1. \A j : Holding(j) => Holding(j)'
        BY <3>1 DEF Holding, Pending
      <4> QED
        BY <3>1, <3>2, <4>1 DEF Working
    <3> QED
      BY <1>1, <3>1, <3>2 DEF SessionFits
  <2>2. CASE ble'.stage \notin InUse
    BY <2>2 DEF SessionFits, InUse
  <2>3. CASE Searching \/ Disconnected \/ (\E j : Permitted(j)) \/ \E m : Connects(m)
    BY <2>2, <2>3 DEF Searching, Disconnected, Permitted, Connects, InUse
  <2>4. ASSUME NEW k, Works(k) PROVE SessionFits'
    <3>1. Holding(k)' /\ ble.connected = k.lamp /\ k.lamp \in Lamp
      BY <2>4, HoldingOfCall
    <3>2. /\ k \in jobs' /\ k.op \in {"create", "wifiScan", "provision"} /\ k.at = "module" /\ k.fresh
          /\ k.attempt = ble'.attempt /\ k.lamp = ble'.connected /\ UNCHANGED phone
          /\ ble.stage = "secure-session"
          /\ ble'.stage = IF k.op = "wifiScan" THEN "wifi" ELSE "provisioning"
      BY <2>4, <3>1 DEF Works, InSession
    <3>3. CASE k.op = "wifiScan"
      <4>1. Working({"wifiScan"})'
        BY <3>1, <3>2, <3>3 DEF Working
      <4> QED
        BY <1>1, <3>1, <3>2, <3>3, <4>1 DEF SessionFits, InUse
    <3>4. CASE k.op # "wifiScan"
      <4>1. Working({"create", "provision"})'
        BY <3>1, <3>2, <3>4 DEF Working
      <4> QED
        BY <1>1, <3>1, <3>2, <3>4, <4>1 DEF SessionFits, InUse
    <3> QED
      BY <3>3, <3>4
  <2>5. ASSUME NEW j, Continued(j) PROVE SessionFits'
    <3>1. /\ ble \in Ble /\ phone \in Phone /\ UNCHANGED module /\ results # <<>>
          /\ results' = Tail(results) /\ JobFits(j)
      BY <2>5, Basics DEF Continued
    <3>2. Len(results) = 1 => results' = <<>>
      BY <3>1, ResultsOf
    <3>3. CASE ble.stage \in InUse
      <4>1. /\ Live(j) /\ ble.attempt = j.attempt /\ Len(results) = 1 /\ module.op = "none"
            /\ ble.stage # "secure-session"
            /\ Head(results).ok /\ j.op # "provision" => module.session = ble.connected
        BY <2>5, <3>3, HeadOfUse
      <4>2. ble.connected \in Lamp /\ phone.registration \in {None, ble.connected}
        BY <1>1, <3>3 DEF SessionFits
      <4>3. j.op # "connect"
        BY <2>5, <3>3, <4>1, HeadOfConnect DEF InUse
      <4>4. phone'.registration \in {None, phone.registration}
        BY <2>5, <3>1, <4>3 DEF Continued, Phone
      <4>5. CASE ble' = [ble EXCEPT !.stage = "secure-session"] /\ Head(results).ok /\ j.op # "provision"
        <5>1. ble'.stage = "secure-session" /\ ble'.connected = ble.connected
          BY <3>1, <4>5 DEF Ble
        <5> QED
          BY <3>1, <3>2, <4>1, <4>2, <4>4, <4>5, <5>1 DEF SessionFits
      <4>6. CASE j.op = "provision" /\ Head(results).ok /\ ProvisionEnds(j)
        BY <2>2, <3>1, <4>6 DEF ProvisionEnds, Ble, InUse
      <4>7. CASE ~Head(results).ok
        <5>1. ble'.stage = "failed"
          BY <2>5, <3>1, <4>1, <4>7 DEF Continued, Ble
        <5> QED
          BY <2>2, <5>1 DEF InUse
      <4>8. Head(results).ok => CreateEnds(j) \/ ScanWifiEnds(j) \/ ProvisionEnds(j)
        BY <2>5, <4>1, <4>3 DEF Continued, ConnectEnds
      <4> QED
        BY <4>5, <4>6, <4>7, <4>8 DEF CreateEnds, ScanWifiEnds, ProvisionEnds
    <3>4. CASE ble.stage \notin InUse
      <4>1. CASE UNCHANGED ble
        BY <2>2, <3>4, <4>1
      <4>2. CASE ConnectEnds(j) /\ Head(results).ok /\ ble.attempt = j.attempt
        <5>1. Len(results) = 1 /\ module.op = "none" /\ module.session = j.lamp
          BY <2>5, <4>2, HeadOfConnect DEF ConnectEnds
        <5>2. ble'.stage = "secure-session" /\ ble'.connected = j.lamp /\ j.lamp \in Lamp
          BY <3>1, <4>2 DEF ConnectEnds, Ble, JobFits
        <5>3. phone'.registration = j.lamp
          BY <2>5, <3>1, <4>2 DEF Continued, Phone, ConnectEnds
        <5> QED
          BY <3>1, <3>2, <5>1, <5>2, <5>3 DEF SessionFits
      <4>3. CASE CreateEnds(j) \/ ScanWifiEnds(j) \/ ProvisionEnds(j)
        BY <3>4, <4>3 DEF CreateEnds, ScanWifiEnds, ProvisionEnds, InUse
      <4>4. CASE ble' = [ble EXCEPT !.stage = "failed",
                           !.connected = IF j.op \in {"create", "provision"} THEN None ELSE @]
        <5>1. ble'.stage = "failed"
          BY <3>1, <4>4 DEF Ble
        <5> QED
          BY <2>2, <5>1 DEF InUse
      <4> QED
        BY <2>5, <4>1, <4>2, <4>3, <4>4 DEF Continued
    <3> QED
      BY <3>3, <3>4
  <2> QED
    BY <1>4, <2>1, <2>3, <2>4, <2>5 DEF Kinds
<1> QED
  BY <1>2, <1>3, <1>4, Steps, ShellKinds

----------------------------------------------------------------------------
(* CreateFits and PlaceFits.                                               *)

\* The attempt whose scan is permitted is new to everything else.
LEMMA PermittedIsLater ==
    ASSUME BleInv, NEW j, Permitted(j)
    PROVE  /\ j \in jobs /\ j.attempt \in Begun /\ ScanFirst(j.attempt) /\ Scans(j.attempt)
           /\ ble.attempt # None => ble.attempt # j.attempt
           /\ page.attempt # None => page.attempt # ble.attempt
           /\ \A m \in Sent : IsAsk(m) => m.attempt # j.attempt
           /\ \A k \in jobs' : k.attempt # j.attempt /\ \E i \in jobs : Same(k, i)
<1>1. j \in jobs /\ j.op = "scan" /\ jobs' = Outdated(jobs \ {j}) /\ j.attempt \in Begun
  BY TokensOfBegun DEF Permitted
<1>2. Scans(j.attempt)
  BY <1>1 DEF Scans
<1>3. ScanFirst(j.attempt)
  BY <1>1, <1>2 DEF BleInv, ScansFirst, ScanFirst
<1>4. ble.attempt # None => ble.attempt < j.attempt
  BY <1>3 DEF ScanFirst
<1>5. j.attempt \in Nat /\ j.attempt <= attempts /\ attempts \in Nat
      /\ (ble.attempt # None => ble.attempt \in Nat)
  BY <1>1, Basics
<1>6. page.attempt # None => page.attempt = attempts
  BY DEF BleInv, PageFits
<1>7. page.attempt # None => page.attempt # ble.attempt
  <2>1. SUFFICES ASSUME page.attempt # None, ble.attempt = page.attempt PROVE FALSE
    OBVIOUS
  <2> QED
    BY <1>4, <1>5, <1>6, <2>1
<1>8. \A m \in Sent : IsAsk(m) => m.attempt # j.attempt
  BY <1>1, OneToken
<1>9. ASSUME NEW k \in jobs' PROVE k.attempt # j.attempt /\ \E i \in jobs : Same(k, i)
  <2>1. PICK i \in jobs \ {j} : Same(k, i)
    BY <1>1, OldJobs
  <2>2. i.attempt # j.attempt
    BY <1>1, <2>1, OneJob
  <2> QED
    BY <2>1, <2>2 DEF Same
<1>10. ble.attempt # None => ble.attempt # j.attempt
  <2>1. SUFFICES ASSUME ble.attempt # None, ble.attempt = j.attempt PROVE FALSE
    OBVIOUS
  <2> QED
    BY <1>4, <1>5, <2>1
<1> QED
  BY <1>1, <1>2, <1>3, <1>7, <1>8, <1>9, <1>10

\* What the shell's waits leave of the stage, while they do not end a connection.
LEMMA StageOfContinued ==
    ASSUME BleInv, NEW j, Continued(j), ~(ConnectEnds(j) /\ ble.attempt = j.attempt /\ Head(results).ok)
    PROVE  /\ ble'.attempt = ble.attempt
           /\ \/ UNCHANGED ble
              \/ ble'.stage \in {"failed", "wifi-connected"}
              \/ ble'.stage = "secure-session" /\ ble'.connected = ble.connected /\ ble.stage \in InUse
<1>1. ble \in Ble
  BY Basics
<1>2. CASE UNCHANGED ble
  BY <1>2
<1>3. CASE ble' = [ble EXCEPT !.stage = "failed",
                    !.connected = IF j.op \in {"create", "provision"} THEN None ELSE @]
  BY <1>1, <1>3 DEF Ble
<1>4. CASE CreateEnds(j)
  BY <1>1, <1>4 DEF CreateEnds, Ble, InUse
<1>5. CASE ScanWifiEnds(j)
  BY <1>1, <1>5 DEF ScanWifiEnds, Ble, InUse
<1>6. CASE ProvisionEnds(j)
  BY <1>1, <1>6 DEF ProvisionEnds, Ble
<1> QED
  BY <1>2, <1>3, <1>4, <1>5, <1>6 DEF Continued

\* A session, once reached, stays with its lamp as long as the attempt
\* lasts.
LEMMA StaysInPlace ==
    ASSUME BleInv, ShellStep, NEW d, InPlace(d), ble.attempt # None, ble'.attempt = ble.attempt
    PROVE  InPlace(d)' /\ (ble'.stage \in InUse => ble.stage \in InUse)
<1>1. ble.stage \in Late /\ (ble.stage \in InUse => ble.connected = d)
  BY DEF InPlace
<1>2. CASE UNCHANGED ble
  BY <1>1, <1>2 DEF InPlace
<1>3. CASE Calm
  BY <1>2, <1>3 DEF Calm
<1>4. CASE Searching \/ \E m : Connects(m)
  BY <1>1, <1>4 DEF Searching, Connects, Late, InUse
<1>5. CASE Disconnected
  BY <1>5 DEF Disconnected
<1>6. ASSUME NEW j, Permitted(j) PROVE FALSE
  BY <1>6, PermittedIsLater DEF Permitted
<1>7. ASSUME NEW k, Works(k) PROVE InPlace(d)' /\ ble.stage \in InUse
  <2>1. ble.stage \in InUse /\ ble'.connected = d /\ ble'.stage \in Late
    BY <1>1, <1>7 DEF Works, InSession, InUse, Late
  <2> QED
    BY <2>1 DEF InPlace
<1>8. ASSUME NEW j, Continued(j) PROVE InPlace(d)' /\ (ble'.stage \in InUse => ble.stage \in InUse)
  <2>1. ~(ConnectEnds(j) /\ ble.attempt = j.attempt /\ Head(results).ok)
    BY <1>1, <1>8, HeadOfConnect DEF ConnectEnds, Late, InUse
  <2>2. \/ UNCHANGED ble \/ ble'.stage \in {"failed", "wifi-connected"}
        \/ ble'.stage = "secure-session" /\ ble'.connected = ble.connected /\ ble.stage \in InUse
    BY <1>8, <2>1, StageOfContinued
  <2>3. CASE UNCHANGED ble
    BY <1>2, <2>3
  <2>4. CASE ble'.stage \in {"failed", "wifi-connected"}
    BY <2>4 DEF InPlace, Late, InUse
  <2>5. CASE ble'.stage = "secure-session" /\ ble'.connected = ble.connected /\ ble.stage \in InUse
    BY <1>1, <2>5 DEF InPlace, Late, InUse
  <2> QED
    BY <2>2, <2>3, <2>4, <2>5
<1> QED
  BY <1>3, <1>4, <1>5, <1>6, <1>7, <1>8, ShellKinds, <1>2 DEF Kinds

\* Which answers a step of the shell adds.
LEMMA NewAnswers ==
    ASSUME BleInv, ShellStep, NEW t \in Told', t \notin Told, t.type \in Final
    PROVE  \E j : /\ Continued(j) /\ Head(results).ok /\ ble.attempt = j.attempt /\ ble'.attempt = ble.attempt
                  /\ t.attempt = j.attempt
                  /\ t.type = "connected" => j.op = "connect" /\ ble'.stage = "secure-session"
                                             /\ ble'.connected = t.lamp
                  /\ t.type = "created" => CreateEnds(j) /\ t.lamp = j.claim
                  /\ t.type = "networks" => ScanWifiEnds(j) /\ ble'.stage = "secure-session"
<1>1. ChannelsOK
  BY DEF BleInv
<1>2. ~UNCHANGED toPage /\ ~NoFinal
  BY <1>1, Moves DEF NoFinal
<1>3. PICK j : Continued(j)
  BY <1>2, ShellKinds DEF Kinds, Calm, Searching, Permitted, Connects, Works, Disconnected
<1>4. ~Says(Error(j.op, j.attempt))
  BY <1>1, Moves, TypeOfError
<1>5. /\ ble.attempt = j.attempt /\ Head(results).ok
      /\ ConnectEnds(j) \/ CreateEnds(j) \/ ScanWifiEnds(j) \/ ProvisionEnds(j)
  BY <1>2, <1>3, <1>4 DEF Continued
<1>6. ASSUME NEW type, NEW of, NEW a, NEW d, Says(Tell(type, of, a, d))
      PROVE  t.type = type /\ t.attempt = a /\ t.lamp = d
  <2>1. t = Tell(type, of, a, d)
    BY <1>1, <1>6, Moves
  <2> QED
    BY <2>1, TypeOfTell
<1>7. ble \in Ble
  BY Basics
<1>8. CASE ConnectEnds(j)
  <2>1. ble'.attempt = ble.attempt /\ ble'.stage = "secure-session" /\ ble'.connected = j.lamp
    BY <1>7, <1>8 DEF ConnectEnds, Ble
  <2>2. t.type = "connected" /\ t.attempt = j.attempt /\ t.lamp = j.lamp
    BY <1>6, <1>8 DEF ConnectEnds
  <2> QED
    BY <1>3, <1>5, <1>8, <2>1, <2>2 DEF ConnectEnds
<1>9. CASE CreateEnds(j)
  <2>1. ble'.attempt = ble.attempt
    BY <1>7, <1>9 DEF CreateEnds, Ble
  <2>2. t.type = "created" /\ t.attempt = j.attempt /\ t.lamp = j.claim
    BY <1>6, <1>9 DEF CreateEnds
  <2> QED
    BY <1>3, <1>5, <1>9, <2>1, <2>2
<1>10. CASE ScanWifiEnds(j)
  <2>1. ble'.attempt = ble.attempt /\ ble'.stage = "secure-session"
    BY <1>7, <1>10 DEF ScanWifiEnds, Ble
  <2>2. t.type = "networks" /\ t.attempt = j.attempt
    BY <1>6, <1>10 DEF ScanWifiEnds
  <2> QED
    BY <1>3, <1>5, <1>10, <2>1, <2>2
<1>11. CASE ProvisionEnds(j)
  <2>1. ble'.attempt = ble.attempt
    BY <1>7, <1>11 DEF ProvisionEnds, Ble
  <2>2. t.type = "provisioned" /\ t.attempt = j.attempt
    BY <1>6, <1>11 DEF ProvisionEnds
  <2> QED
    BY <1>3, <1>5, <1>11, <2>1, <2>2
<1> QED
  BY <1>5, <1>8, <1>9, <1>10, <1>11

\* Whose create jobs a step of the shell leaves.
LEMMA CreateJobs ==
    ASSUME BleInv, ShellStep, NEW k \in jobs', k.op = "create"
    PROVE  CreateJob(k)
<1>1. \A j \in jobs : Same(k, j) => CreateJob(k)
  BY CreateJobOf DEF Same
<1>2. CASE Calm
  BY <1>2 DEF Calm
<1>3. ASSUME NEW js, js \subseteq jobs, k \in Outdated(js) PROVE CreateJob(k)
  BY <1>1, <1>3, OldJobs
<1>4. k \in jobs => CreateJob(k)
  BY CreateJobOf
<1>5. CASE Searching \/ Disconnected
  BY <1>3, <1>4, <1>5 DEF Searching, Disconnected
<1>6. ASSUME NEW j, Permitted(j) PROVE CreateJob(k)
  BY <1>3, <1>6 DEF Permitted
<1>7. ASSUME NEW m, Connects(m) PROVE CreateJob(k)
  <2>1. NewJob("connect", m, None, "module").op = "connect"
    BY DEF NewJob
  <2> QED
    BY <1>3, <1>7, <2>1 DEF Connects
<1>8. ASSUME NEW i, Works(i) PROVE CreateJob(k)
  <2>1. CASE k = i
    BY <1>8, <2>1, CreateJobOf DEF Works
  <2> QED
    BY <1>3, <1>8, <2>1 DEF Works
<1>9. ASSUME NEW j, Continued(j) PROVE CreateJob(k)
  BY <1>4, <1>9 DEF Continued
<1> QED
  BY <1>2, <1>5, <1>6, <1>7, <1>8, <1>9, ShellKinds DEF Kinds

\* The shell creates claims for the lamp of its session only.
LEMMA CreateOfShell ==
    ASSUME BleInv, ShellStep
    PROVE  CreateFits'
<1>1. /\ ble.attempt \in Begun \cup {None} /\ ChannelsOK /\ Sent' \subseteq Sent
      /\ \A a : a \in Begun => a # None
  BY ShellTokens, Basics DEF BleInv
<1>2. CreateFits
  BY DEF BleInv
<1>3. CASE ble'.attempt = None
  <2>1. /\ Fitting' /\ \A a : a \in Begun' => a # None
    BY <1>1, FittingKept, Steps, ShellFrame DEF Begun
  <2>2. \A m \in Told' : m.type = "connected" => m.attempt # None
    BY <2>1 DEF Fitting, AnswerFits
  <2>3. \A m \in Sent' : m.type = "create" => m.attempt # None
    BY <2>1 DEF Fitting, MessageFits
  <2>4. \A j \in jobs' : j.attempt # None
    BY <2>1 DEF Fitting, JobFits
  <2> QED
    BY <1>3, <2>2, <2>3, <2>4 DEF CreateFits
<1>4. ASSUME NEW j, Permitted(j) PROVE CreateFits'
  <2>1. Told' = Told /\ ble'.attempt = j.attempt
    BY <1>1, <1>4, Moves DEF Permitted
  <2>2. \A m \in Told : m.attempt # j.attempt
    BY <1>4, PermittedIsLater DEF ScanFirst
  <2>3. \A m \in Sent : m.type = "create" => m.attempt # j.attempt
    BY <1>4, PermittedIsLater DEF IsAsk, Request
  <2>4. \A k \in jobs' : k.attempt # j.attempt
    BY <1>4, PermittedIsLater
  <2> QED
    BY <1>1, <2>1, <2>2, <2>3, <2>4 DEF CreateFits
<1>5. CASE ble'.attempt = ble.attempt /\ ble.attempt # None
  <2>1. \A d : InPlace(d) => InPlace(d)' /\ (ble'.stage \in InUse => ble.stage \in InUse)
    BY <1>5, StaysInPlace
  <2>2. ASSUME NEW t \in Told', t.type = "connected", t.attempt = ble.attempt PROVE InPlace(t.lamp)'
    <3>1. CASE t \in Told
      BY <1>2, <2>1, <2>2, <3>1 DEF CreateFits
    <3>2. CASE t \notin Told
      <4>1. t.type \in Final
        BY <2>2 DEF Final
      <4>2. ble'.stage = "secure-session" /\ ble'.connected = t.lamp
        BY <2>2, <3>2, <4>1, NewAnswers
      <4> QED
        BY <4>2 DEF InPlace, Late, InUse
    <3> QED
      BY <3>1, <3>2
  <2>3. ASSUME NEW m \in Sent', m.type = "create", m.attempt = ble.attempt PROVE InPlace(m.lamp)'
    BY <1>1, <1>2, <2>1, <2>3 DEF CreateFits
  <2>4. ASSUME NEW k \in jobs', k.op = "create", k.attempt = ble.attempt
        PROVE  InPlace(k.lamp)' /\ (ble'.stage \in InUse => k.claim = k.lamp)
    <3>1. CreateJob(k)
      BY <2>4, CreateJobs
    <3>2. CASE \E j \in jobs : j.op = "create" /\ j.attempt = k.attempt /\ j.lamp = k.lamp /\ j.claim = k.claim
      <4>1. InPlace(k.lamp) /\ (ble.stage \in InUse => k.claim = k.lamp)
        BY <1>2, <2>4, <3>2 DEF CreateFits
      <4> QED
        BY <2>1, <4>1
    <3>3. CASE \E m \in Sent : /\ m.type = "create" /\ m.attempt = k.attempt /\ m.lamp = k.lamp
                               /\ phone.registration # None /\ k.claim = phone.registration
      <4>1. InPlace(k.lamp)
        BY <1>2, <2>4, <3>3 DEF CreateFits
      <4>2. ble.stage \in InUse => k.claim = ble.connected
        BY <3>3 DEF BleInv, SessionFits
      <4>3. ble.stage \in InUse => k.claim = k.lamp
        BY <4>1, <4>2 DEF InPlace
      <4> QED
        BY <2>1, <4>1, <4>3
    <3> QED
      BY <3>1, <3>2, <3>3 DEF CreateJob
  <2> QED
    BY <1>5, <2>2, <2>3, <2>4 DEF CreateFits
<1>6. ble'.attempt \in {ble.attempt, None} \/ \E j : Permitted(j)
  <2>1. ble \in Ble
    BY Basics
  <2>2. ASSUME NEW j, Continued(j) PROVE ble'.attempt = ble.attempt
    BY <2>1, <2>2 DEF Continued, ConnectEnds, CreateEnds, ScanWifiEnds, ProvisionEnds, Ble
  <2> QED
    BY <2>2, ShellKinds DEF Kinds, Calm, Searching, Connects, Works, Disconnected
<1> QED
  BY <1>3, <1>4, <1>5, <1>6

----------------------------------------------------------------------------
(* The steps of the page, by what they do to the attempt it shows.         *)

\* The page begins a new attempt, or is blank again; the user picks a lamp,
\* asks for the networks again, or sends a password.
Restarts ==
    /\ page'.attempt \notin Begun /\ page'.stage \in {"idle", "scanning"} /\ "wifiScan" \notin page'.wants
Chooses ==
    page.stage \in {"scanning", "idle"} /\ NowAt("connecting", {"connect"})
Lists ==
    /\ page.stage = "wifi" /\ page.wants = {} /\ NowAt("wifi", {"wifiScan"}) /\ KeepsLamp /\ KeepsClaim
    /\ \E m \in Sent' : m.type = "wifiScan" /\ m.attempt = page.attempt
Provisions ==
    /\ page.stage = "wifi" /\ page.wants = {} /\ NowAt("provisioning", {"provision"}) /\ KeepsLamp

PageKinds ==
    \/ Restarts \/ Chooses \/ Lists \/ Provisions
    \/ \E m : Received(m) /\ (Ignored(m) \/ Learnt(m))

\* The page asks for a claim only for the lamp it was told is connected.
AsksOfTold ==
    \A m \in Sent' : m.type = "create" =>
      \/ m \in Sent
      \/ \E t \in Told : t.type = "connected" /\ t.attempt = m.attempt /\ t.lamp = m.lamp

\* The fields of a request.
LEMMA TypeOfAsk ==
    ASSUME NEW type, NEW a, NEW d
    PROVE  Ask(type, a, d).type = type /\ Ask(type, a, d).attempt = a /\ Ask(type, a, d).lamp = d
BY DEF Ask

\* What a step of the page means for the shell: it begins, leaves, goes on
\* or only asks.
LEMMA ShellOfPage ==
    ASSUME BleInv, PageStep
    PROVE  PageKinds /\ Told' \subseteq Told /\ Sent \subseteq Sent' /\ AsksOfTold
<1>1. /\ page \in Page /\ ChannelsOK /\ PageFits /\ attempts \in Nat /\ ~(None \in Begun)
      /\ \A type, a, d : Ask(type, a, d).type = type
  BY Basics, TypeOfAsk DEF BleInv
<1>2. ASSUME NEW m, m.type # "create", Posts(<<m>>) PROVE Sent \subseteq Sent' /\ AsksOfTold
  BY <1>1, <1>2, Moves DEF AsksOfTold
<1>3. ASSUME Posts(<<>>) \/ UNCHANGED toNative PROVE Sent \subseteq Sent' /\ AsksOfTold
  BY <1>1, <1>3, Moves DEF AsksOfTold
<1>4. UNCHANGED toPage => Told' \subseteq Told
  BY <1>1, Moves
<1>5. CASE StartScan
  <2>1. page'.attempt = attempts + 1 /\ page'.stage = "scanning" /\ page'.wants = {"scan"}
    BY <1>5 DEF StartScan, BlankPage
  <2>2. Posts(<<Ask("scan", attempts + 1, None)>>) /\ UNCHANGED toPage
    BY <1>5 DEF StartScan
  <2>3. Restarts
    BY <1>1, <2>1 DEF Restarts, Begun
  <2> QED
    BY <1>1, <1>2, <1>4, <2>2, <2>3 DEF PageKinds
<1>6. page' = BlankPage => Restarts
  BY <1>1 DEF Restarts, BlankPage
<1>7. CASE CleanupProvisioning
  <2>1. /\ Posts(<<Ask("cancelScan", page.attempt, None), Ask("disconnect", page.attempt, None)>>)
        /\ page' = BlankPage /\ UNCHANGED toPage
    BY <1>7 DEF CleanupProvisioning
  <2>2. Sent' = Sent \cup {Ask("cancelScan", page.attempt, None), Ask("disconnect", page.attempt, None)}
    BY <1>1, <2>1, Moves
  <2> QED
    BY <1>1, <1>4, <1>6, <2>1, <2>2 DEF PageKinds, AsksOfTold
<1>8. CASE Reload
  <2>1. Posts(<<Ask("ready", None, None)>>) /\ page' = BlankPage /\ toPage' = <<>>
    BY <1>8 DEF Reload
  <2>2. Told' = {}
    BY <1>1, <2>1, Moves
  <2> QED
    BY <1>1, <1>2, <1>6, <2>1, <2>2 DEF PageKinds
<1>9. ASSUME NEW d \in Lamp, ConnectDevice(d)
      PROVE  PageKinds /\ Told' \subseteq Told /\ Sent \subseteq Sent' /\ AsksOfTold
  <2>1. /\ page.stage \in {"scanning", "idle"} /\ UNCHANGED toPage
        /\ page' = [page EXCEPT !.wants = (@ \ {"scan"}) \cup {"connect"}, !.stage = "connecting",
                                !.connected = d, !.listing = FALSE]
        /\ Posts(<<Ask("connect", page.attempt, d)>>)
    BY <1>9 DEF ConnectDevice
  <2>2. page.wants \subseteq {"scan"}
    BY <1>1, <2>1 DEF PageFits, WantsFit
  <2>3. /\ page'.attempt = page.attempt /\ page'.stage = "connecting" /\ page'.listing = FALSE
        /\ page'.wants = (page.wants \ {"scan"}) \cup {"connect"}
    BY <1>1, <2>1 DEF Page
  <2>4. NowAt("connecting", {"connect"})
    BY <2>2, <2>3 DEF NowAt
  <2> QED
    BY <1>1, <1>2, <1>4, <2>1, <2>4 DEF PageKinds, Chooses
<1>10. CASE ScanWifiAgain
  <2>1. page.stage = "wifi" /\ page.wants = {}
    BY <1>1, <1>10 DEF ScanWifiAgain, PageFits, WantsFit
  <2>2. /\ page' = [page EXCEPT !.wants = @ \cup {"wifiScan"}, !.listing = TRUE] /\ UNCHANGED toPage
        /\ Posts(<<Ask("wifiScan", page.attempt, page.connected)>>)
    BY <1>10, <2>1 DEF ScanWifiAgain, WithWifiScan, WifiScanOf
  <2>3. /\ page'.attempt = page.attempt /\ page'.stage = "wifi" /\ page'.listing = TRUE
        /\ page'.wants = {"wifiScan"} /\ KeepsLamp /\ KeepsClaim
    BY <1>1, <2>1, <2>2 DEF Page, KeepsLamp, KeepsClaim
  <2>4. Ask("wifiScan", page.attempt, page.connected) \in Sent'
    BY <1>1, <2>2, Moves
  <2>5. Lists
    BY <2>1, <2>3, <2>4, TypeOfAsk DEF Lists, NowAt
  <2> QED
    BY <1>1, <1>2, <1>4, <2>2, <2>5 DEF PageKinds
<1>11. CASE Provision
  <2>1. page.stage = "wifi" /\ page.wants = {} /\ ~page.listing
    BY <1>1, <1>11 DEF Provision, PageFits, WantsFit
  <2>2. /\ page' = [page EXCEPT !.wants = @ \cup {"provision"}, !.stage = "provisioning"]
        /\ Posts(<<Ask("provision", page.attempt, page.connected)>>) /\ UNCHANGED toPage
    BY <1>11 DEF Provision
  <2>3. /\ page'.attempt = page.attempt /\ page'.stage = "provisioning" /\ page'.listing = page.listing
        /\ page'.wants = {"provision"} /\ KeepsLamp
    BY <1>1, <2>1, <2>2 DEF Page, KeepsLamp
  <2>4. Provisions
    BY <2>1, <2>3 DEF Provisions, NowAt
  <2> QED
    BY <1>1, <1>2, <1>4, <2>2, <2>4 DEF PageKinds
<1>12. CASE Dispatch
  <2>1. PICK m : Received(m) /\ (Ignored(m) \/ Learnt(m))
    BY <1>12, Dispatches
  <2>2. PageKinds /\ Told' \subseteq Told /\ m \in Told
    BY <2>1 DEF PageKinds, Received
  <2>3. CASE Ignored(m)
    BY <1>1, <1>2, <1>3, <2>2, <2>3 DEF Ignored
  <2>4. CASE HeardConnected(m) /\ m.attempt = page.attempt
    <3>1. Sent' = Sent \cup {Ask("create", page.attempt, m.lamp)} /\ m.type = "connected"
      BY <1>1, <2>4, Moves DEF HeardConnected
    <3>2. AsksOfTold
      BY <2>2, <2>4, <3>1, TypeOfAsk DEF AsksOfTold
    <3> QED
      BY <2>2, <3>1, <3>2
  <2>5. CASE HeardCreated(m)
    BY <1>1, <1>2, <2>2, <2>5 DEF HeardCreated
  <2>6. CASE HeardOfScan(m) \/ HeardNetworks(m) \/ HeardProvisioned(m) \/ HeardError(m)
    BY <1>3, <2>2, <2>6 DEF HeardOfScan, HeardNetworks, HeardProvisioned, HeardError
  <2> QED
    BY <2>1, <2>3, <2>4, <2>5, <2>6 DEF Learnt
<1> QED
  BY <1>5, <1>7, <1>8, <1>9, <1>10, <1>11, <1>12 DEF PageStep

\* Every step keeps claims with the lamp of the session.
LEMMA CreateKept ==
    ASSUME BleInv, BleNext
    PROVE  CreateFits'
<1>1. CreateFits /\ ChannelsOK
  BY DEF BleInv
<1>2. CASE PageStep
  <2>1. UNCHANGED <<ble, jobs>> /\ Told' \subseteq Told /\ AsksOfTold
    BY <1>2, PageFrame, ShellOfPage
  <2>2. \A d : InPlace(d) <=> InPlace(d)'
    BY <2>1 DEF InPlace
  <2>3. \A m \in Told' : m.type = "connected" /\ ble'.attempt = m.attempt => InPlace(m.lamp)'
    BY <1>1, <2>1, <2>2 DEF CreateFits
  <2>4. \A m \in Sent' : m.type = "create" /\ ble'.attempt = m.attempt => InPlace(m.lamp)'
    BY <1>1, <2>1, <2>2 DEF CreateFits, AsksOfTold
  <2>5. \A j \in jobs' : j.op = "create" /\ ble'.attempt = j.attempt =>
          InPlace(j.lamp)' /\ (ble'.stage \in InUse => j.claim = j.lamp)
    BY <1>1, <2>1, <2>2 DEF CreateFits
  <2> QED
    BY <2>3, <2>4, <2>5 DEF CreateFits
<1>3. CASE ModuleStep
  <2>1. UNCHANGED <<toNative, toPage, ble, jobs>>
    BY <1>3, ModuleFrame
  <2>2. Sent' = Sent /\ Told' = Told
    BY <1>1, <2>1, Moves
  <2> QED
    BY <1>1, <2>1, <2>2 DEF CreateFits, InPlace
<1> QED
  BY <1>2, <1>3, Steps, CreateOfShell

\* While the page provisions, the shell is in its session or has failed.
LEMMA PlaceKept ==
    ASSUME BleInv, BleNext
    PROVE  PlaceFits'
<1>1. PlaceFits /\ CreateFits
  BY DEF BleInv
<1>2. page.stage \in {"provisioning", "wifi"} => page.attempt # None
  BY DEF BleInv, PageFits, BlankPage
<1>3. CASE PageStep
  <2>1. UNCHANGED ble /\ PageKinds
    BY <1>3, PageFrame, ShellOfPage
  <2>2. \A d : InPlace(d) <=> InPlace(d)'
    BY <2>1 DEF InPlace
  <2>3. CASE Restarts \/ Chooses
    BY <2>3 DEF Restarts, Chooses, NowAt, PlaceFits
  <2>4. CASE Lists \/ Provisions
    BY <1>1, <2>1, <2>2, <2>4 DEF Lists, Provisions, NowAt, KeepsLamp, PlaceFits, Here
  <2>5. ASSUME NEW m, Received(m), Ignored(m) PROVE PlaceFits'
    BY <1>1, <2>1, <2>2, <2>5 DEF Ignored, PlaceFits, Here
  <2>6. ASSUME NEW m, Received(m), Learnt(m) PROVE PlaceFits'
    <3>1. CASE HeardConnected(m) /\ m.attempt = page.attempt
      <4>1. ble.attempt = page.attempt => InPlace(m.lamp)
        BY <1>1, <2>6, <3>1 DEF CreateFits, Received, HeardConnected
      <4> QED
        BY <2>1, <2>2, <3>1, <4>1 DEF HeardConnected, NowAt, PlaceFits, Here
    <3>2. CASE HeardCreated(m) \/ HeardNetworks(m)
      BY <1>1, <2>1, <2>2, <3>2 DEF HeardCreated, HeardNetworks, NowAt, KeepsLamp, PlaceFits, Here
    <3>3. CASE HeardOfScan(m) \/ HeardProvisioned(m) \/ HeardError(m)
      BY <3>3 DEF HeardOfScan, HeardProvisioned, HeardError, NowAt, PlaceFits
    <3> QED
      BY <2>6, <3>1, <3>2, <3>3 DEF Learnt
  <2> QED
    BY <2>1, <2>3, <2>4, <2>5, <2>6 DEF PageKinds
<1>4. CASE ModuleStep
  BY <1>1, <1>4, ModuleFrame DEF PlaceFits, InPlace, Here
<1>5. CASE ShellStep
  <2>1. UNCHANGED page
    BY <1>5, ShellFrame
  <2>2. SUFFICES ASSUME page.stage \in {"provisioning", "wifi"}, ble'.attempt = page.attempt
                 PROVE  InPlace(page.connected)'
    BY <2>1 DEF PlaceFits, Here, InPlace
  <2>3. ble'.attempt # None
    BY <1>2, <2>2
  <2>4. ASSUME NEW j \in jobs, Permission(j), ble'.attempt = j.attempt PROVE FALSE
    <3>1. j.op = "scan" /\ j.attempt \in Begun
      BY <2>4, Basics DEF JobFits, Permission
    <3>2. page.stage \in {"scanning", "failed"}
      BY <2>2, <2>4, <3>1 DEF BleInv, ScansFirst, Scans
    <3> QED
      BY <2>2, <3>2
  <2>5. ble'.attempt = ble.attempt
    BY <1>5, <2>3, <2>4, BleAttempt
  <2>6. InPlace(page.connected)
    BY <1>1, <2>2, <2>5 DEF PlaceFits, Here
  <2>7. \A d : InPlace(d) => InPlace(d)'
    BY <1>5, <2>3, <2>5, StaysInPlace
  <2> QED
    BY <2>1, <2>6, <2>7 DEF InPlace
<1> QED
  BY <1>3, <1>4, <1>5, Steps

----------------------------------------------------------------------------
(* BoundFits and ListingFits.                                              *)

\* The module forgets a binding only with its session.
LEMMA BoundOfModule ==
    ASSUME BleInv, ModuleStep, Bound
    PROVE  Bound'
<1>1. UNCHANGED <<page, ble>> /\ module.op # "none" /\ module \in Module
  BY Basics, ModuleFrame DEF ModuleStep, QrRead, LampActs, Succeeds, Fails, Idle
<1>2. SUFFICES ASSUME Here, ble.stage \in {"secure-session", "wifi"}
               PROVE  module'.session = None \/ module'.bound # None
  BY <1>1 DEF Bound, Here
<1>3. module.session = None \/ module.bound # None
  BY <1>2 DEF Bound
<1>4. module.op = "wifiScan"
  <2>1. Working({"wifiScan"})
    BY <1>1, <1>2 DEF BleInv, SessionFits
  <2> QED
    BY <1>1, <2>1 DEF Working, Holding, Pending
<1>5. CASE Succeeds
  <2>1. module' = [module EXCEPT !.op = "none", !.by = None, !.target = None,
                                 !.claim = None, !.done = FALSE,
                                 !.bound = IF module.op = "create" THEN module.claim ELSE @]
    BY <1>4, <1>5 DEF Succeeds
  <2>2. module'.session = module.session /\ module'.bound = module.bound
    BY <1>1, <1>4, <2>1 DEF Module
  <2> QED
    BY <1>3, <2>2
<1>6. CASE Fails
  BY <1>6 DEF Fails, CallDisconnect, FreeModule
<1> QED
  BY <1>4, <1>5, <1>6 DEF ModuleStep, QrRead, LampActs

\* Nobody else acts for an attempt that has a job, a request or an answer.
LEMMA BoundOfShell ==
    ASSUME BleInv, ShellStep, Bound, page.attempt # None,
           \A j \in jobs : j.attempt = page.attempt => j.op \notin {"connect", "create"}
    PROVE  Bound'
<1>1. UNCHANGED page /\ ble \in Ble /\ module \in Module
  BY Basics, ShellFrame
<1>2. SUFFICES ASSUME ble'.attempt = page.attempt, ble'.stage \in {"secure-session", "wifi"}
               PROVE  module'.session = None \/ module'.bound # None
  BY <1>1 DEF Bound, Here
<1>3. ASSUME UNCHANGED <<ble, module>> PROVE module'.session = None \/ module'.bound # None
  BY <1>2, <1>3 DEF Bound, Here
<1>4. CASE Calm
  BY <1>3, <1>4 DEF Calm
<1>5. CASE Searching \/ Disconnected \/ (\E j : Permitted(j)) \/ \E m : Connects(m)
  BY <1>2, <1>5 DEF Searching, Disconnected, Permitted, Connects
<1>6. ASSUME NEW k, Works(k) PROVE module'.session = None \/ module'.bound # None
  <2>1. ble.attempt = page.attempt /\ ble.stage = "secure-session"
    BY <1>2, <1>6 DEF Works, InSession
  <2>2. module.session = None \/ module.bound # None
    BY <2>1 DEF Bound, Here
  <2>3. Call(k.op, k.attempt, k.lamp, k.claim)
    BY <1>6 DEF Works
  <2>4. \/ UNCHANGED module
        \/ module' = [module EXCEPT !.op = k.op, !.by = k.attempt, !.claim = k.claim, !.done = FALSE]
    BY <2>3 DEF Call
  <2>5. module'.session = module.session /\ module'.bound = module.bound
    BY <1>1, <2>4 DEF Module
  <2> QED
    BY <2>2, <2>5
<1>7. ASSUME NEW j, Continued(j) PROVE module'.session = None \/ module'.bound # None
  <2>1. UNCHANGED module /\ j \in jobs
    BY <1>7 DEF Continued
  <2>2. ble'.attempt = ble.attempt
    BY <1>1, <1>7 DEF Continued, ConnectEnds, CreateEnds, ScanWifiEnds, ProvisionEnds, Ble
  <2>3. ASSUME ble.stage \in {"secure-session", "wifi"} PROVE module'.session = None \/ module'.bound # None
    BY <1>2, <2>1, <2>2, <2>3 DEF Bound, Here
  <2>4. CASE UNCHANGED ble
    BY <1>3, <2>1, <2>4
  <2>5. CASE (ConnectEnds(j) \/ CreateEnds(j)) /\ ble.attempt = j.attempt
    BY <1>2, <2>1, <2>2, <2>5 DEF ConnectEnds, CreateEnds
  <2>6. CASE ScanWifiEnds(j)
    BY <2>3, <2>6 DEF ScanWifiEnds
  <2>7. CASE ProvisionEnds(j)
    BY <1>1, <1>2, <2>7 DEF ProvisionEnds, Ble
  <2>8. CASE ble' = [ble EXCEPT !.stage = "failed",
                       !.connected = IF j.op \in {"create", "provision"} THEN None ELSE @]
    BY <1>1, <1>2, <2>8 DEF Ble
  <2> QED
    BY <1>7, <2>4, <2>5, <2>6, <2>7, <2>8 DEF Continued
<1> QED
  BY <1>4, <1>5, <1>6, <1>7, ShellKinds DEF Kinds

\* From the reply 'created' on, the session the page shows is bound or
\* gone.
LEMMA BoundKept ==
    ASSUME BleInv, BleNext
    PROVE  BoundFits'
<1> DEFINE Shown == page.stage \in {"provisioning", "wifi"} /\ page.wants \in {{}, {"wifiScan"}}
<1>1. /\ Shown => page.claim = page.connected /\ Bound
      /\ \A m \in Told : m.attempt = page.attempt /\ m.type = "created" => m.lamp = page.connected /\ Bound
  BY DEF BleInv, BoundFits
<1>2. /\ \A m \in Told : m.type = "created" => m.attempt \in Begun /\ m.of = "create" /\ IsReply(m)
      /\ ~(None \in Begun) /\ ChannelsOK
  BY Basics DEF AnswerFits, IsReply, BleInv
<1>3. \A m \in Told : m.attempt = page.attempt /\ m.type = "created" => page.wants = {"create"}
  BY <1>2, Wants DEF BleInv, Asked
<1>4. CASE PageStep
  <2>1. UNCHANGED <<ble, module>> /\ PageKinds /\ Told' \subseteq Told
    BY <1>4, PageFrame, ShellOfPage
  <2>2. page'.attempt = page.attempt => (Bound <=> Bound')
    BY <2>1 DEF Bound, Here
  <2> DEFINE Heard1 == Shown => page.claim = page.connected /\ Bound
             Heard2 == \A m \in Told : m.attempt = page.attempt /\ m.type = "created" =>
                         m.lamp = page.connected /\ Bound
  <2>3. SUFFICES Heard1' /\ Heard2'
    BY DEF BoundFits
  <2>4. ASSUME KeepsLamp, page'.attempt = page.attempt PROVE Heard2'
    BY <1>1, <2>1, <2>2, <2>4 DEF KeepsLamp
  <2>5. ASSUME page.wants # {"create"}, page'.attempt = page.attempt PROVE Heard2'
    BY <1>3, <2>1, <2>5
  <2>6. CASE Restarts
    <3>1. Heard2'
      BY <1>2, <2>1, <2>6 DEF Restarts
    <3>2. Heard1'
      BY <2>6 DEF Restarts
    <3> QED
      BY <3>1, <3>2
  <2>7. CASE Chooses
    <3>1. page.wants # {"create"}
      BY <2>7, Wants DEF Chooses
    <3>2. Heard1' /\ page'.attempt = page.attempt
      BY <2>7 DEF Chooses, NowAt
    <3> QED
      BY <2>5, <3>1, <3>2
  <2>8. CASE Lists
    <3>1. Heard1' /\ page'.attempt = page.attempt
      BY <1>1, <2>2, <2>8 DEF Lists, NowAt, KeepsLamp, KeepsClaim
    <3> QED
      BY <2>4, <2>8, <3>1 DEF Lists
  <2>9. CASE Provisions
    <3>1. Heard1' /\ page'.attempt = page.attempt
      BY <2>9 DEF Provisions, NowAt
    <3> QED
      BY <2>4, <2>9, <3>1 DEF Provisions
  <2>10. ASSUME NEW m, Received(m), Ignored(m) PROVE Heard1' /\ Heard2'
    BY <1>1, <2>1, <2>2, <2>10 DEF Ignored
  <2>11. ASSUME NEW m, Received(m), Learnt(m) PROVE Heard1' /\ Heard2'
    <3>1. page'.attempt = page.attempt
      BY <2>11 DEF Learnt, HeardOfScan, HeardConnected, HeardCreated, HeardNetworks,
                   HeardProvisioned, HeardError, NowAt
    <3>2. Heard2'
      <4>1. CASE HeardConnected(m)
        BY <2>5, <3>1, <4>1 DEF HeardConnected
      <4>2. CASE ~HeardConnected(m)
        BY <2>4, <2>11, <3>1, <4>2 DEF Learnt, HeardOfScan, HeardCreated, HeardNetworks,
                                       HeardProvisioned, HeardError
      <4> QED
        BY <4>1, <4>2
    <3>3. Heard1'
      <4>1. CASE HeardCreated(m) /\ m.attempt = page.attempt
        <5>1. m.lamp = page.connected /\ Bound
          BY <1>1, <2>11, <4>1 DEF Received, HeardCreated
        <5> QED
          BY <2>2, <3>1, <4>1, <5>1 DEF HeardCreated, KeepsLamp
      <4>2. CASE HeardNetworks(m)
        <5>1. page.claim = page.connected /\ Bound
          BY <1>1, <4>2 DEF HeardNetworks
        <5> QED
          BY <2>2, <3>1, <4>2, <5>1 DEF HeardNetworks, KeepsLamp, KeepsClaim
      <4>3. CASE HeardOfScan(m) \/ HeardConnected(m) \/ HeardProvisioned(m) \/ HeardError(m)
        BY <4>3 DEF HeardOfScan, HeardConnected, HeardProvisioned, HeardError, NowAt
      <4> QED
        BY <2>11, <4>1, <4>2, <4>3 DEF Learnt
    <3> QED
      BY <3>2, <3>3
  <2> HIDE DEF Heard1, Heard2
  <2> QED
    BY <2>1, <2>6, <2>7, <2>8, <2>9, <2>10, <2>11 DEF PageKinds
<1>5. ASSUME UNCHANGED page, UNCHANGED toPage, Bound => Bound' PROVE BoundFits'
  BY <1>1, <1>2, <1>5, Moves DEF BoundFits
<1>6. CASE ModuleStep
  BY <1>5, <1>6, ModuleFrame, BoundOfModule
<1>7. CASE ShellStep
  <2>1. UNCHANGED page
    BY <1>7, ShellFrame
  <2>2. ASSUME Shown PROVE Bound'
    <3>1. page.attempt # None /\ \A j \in jobs : j.attempt = page.attempt => j.op \notin {"connect", "create"}
      BY <2>2 DEF BleInv, PageFits, BlankPage, Asked
    <3> QED
      BY <1>1, <1>7, <2>2, <3>1, BoundOfShell
  <2>3. ASSUME NEW m \in Told', m.attempt = page.attempt, m.type = "created"
        PROVE  m.lamp = page.connected /\ Bound'
    <3>1. CASE m \in Told
      <4>1. page.attempt # None /\ m.lamp = page.connected /\ Bound
        BY <1>1, <1>2, <2>3, <3>1
      <4>2. \A j \in jobs : j.attempt # page.attempt
        BY <1>2, <2>3, <3>1, OneToken
      <4> QED
        BY <1>7, <4>1, <4>2, BoundOfShell
    <3>2. CASE m \notin Told
      <4>1. m.type \in Final
        BY <2>3 DEF Final
      <4>2. PICK j : /\ Continued(j) /\ Head(results).ok /\ ble.attempt = j.attempt
                     /\ m.attempt = j.attempt /\ CreateEnds(j) /\ m.lamp = j.claim
        BY <1>7, <2>3, <3>2, <4>1, NewAnswers
      <4>3. ble.stage \in InUse /\ ble.stage = "provisioning" /\ j.op = "create" /\ j \in jobs
            /\ UNCHANGED module
        BY <4>2 DEF CreateEnds, InUse, Continued
      <4>4. module.bound # None
        BY <4>2, <4>3, HeadOfUse
      <4>5. j.claim = j.lamp
        BY <4>2, <4>3 DEF BleInv, CreateFits
      <4>6. j.lamp = page.connected
        BY <2>3, <4>2, <4>3 DEF BleInv, Asked
      <4> QED
        BY <4>2, <4>3, <4>4, <4>5, <4>6 DEF Bound
    <3> QED
      BY <3>1, <3>2
  <2> QED
    BY <1>1, <2>1, <2>2, <2>3 DEF BoundFits
<1> QED
  BY <1>4, <1>6, <1>7, Steps

\* In the secure session and while it lists networks, the shell does nothing
\* else for an attempt that asks for nothing else.
LEMMA QuietSession ==
    ASSUME BleInv, ShellStep, ble.attempt = page.attempt, ble.stage = "secure-session",
           \A j \in jobs : j.attempt = page.attempt => j.op # "create",
           \A m \in Sent : m.attempt = page.attempt => m.type \notin {"wifiScan", "provision", "disconnect"}
    PROVE  ble'.attempt = ble.attempt /\ ble'.stage = "secure-session"
<1>1. page.attempt # None
  BY DEF BleInv, LeftFits
<1>2. results = <<>>
  BY DEF BleInv, SessionFits
<1>3. CASE Calm
  BY <1>3 DEF Calm
<1>4. ~Searching /\ ~Disconnected /\ \A m : ~Connects(m)
  BY DEF Searching, Disconnected, Connects
<1>5. \A j : ~Permitted(j)
  BY <1>1, PermittedIsLater
<1>6. \A k : ~Works(k)
  BY DEF Works, InSession
<1>7. \A j : ~Continued(j)
  BY <1>2 DEF Continued
<1> QED
  BY <1>3, <1>4, <1>5, <1>6, <1>7, ShellKinds DEF Kinds

\* The shell lists networks for the page's attempt only while its stage
\* says so.
LEMMA WifiScanJobs ==
    ASSUME BleInv, ShellStep, NEW k \in jobs', k.op = "wifiScan", k.attempt = page.attempt
    PROVE  ble'.attempt = page.attempt /\ ble'.stage = "wifi"
<1>1. /\ jobs \subseteq Job /\ ListingFits
      /\ \A j \in jobs : j.op = "wifiScan" => j.at = "module"
  BY Basics DEF BleInv, JobFits, Job, BleTypeOK
<1>2. k.at = "module"
  <2>1. Fitting' /\ jobs' \subseteq Job
    BY FittingKept, TypeKept, Steps DEF BleTypeOK
  <2> QED
    BY <2>1 DEF Fitting, JobFits, Job
<1>3. ASSUME NEW i \in jobs, Same(k, i)
      PROVE  i.op = "wifiScan" /\ i.attempt = page.attempt /\ ble.attempt = page.attempt /\ ble.stage = "wifi"
             /\ page.attempt # None /\ page.wants = {"wifiScan"}
  <2>1. i.op = "wifiScan" /\ i.attempt = page.attempt
    BY <1>3 DEF Same
  <2>2. "wifiScan" \in page.wants
    BY <2>1 DEF BleInv, Asked
  <2> QED
    BY <1>1, <2>1, <2>2, Wants DEF ListingFits, Here
<1>4. CASE Calm
  <2>1. k \in jobs /\ UNCHANGED ble
    BY <1>2, <1>4 DEF Calm
  <2> QED
    BY <1>3, <2>1 DEF Same
<1>5. CASE Searching
  <2>1. \E i \in jobs : Same(k, i)
    <3>1. CASE jobs' = jobs
      BY <3>1 DEF Same
    <3>2. CASE jobs' = Outdated(jobs)
      BY <3>2, OldJobs
    <3> QED
      BY <1>5, <3>1, <3>2 DEF Searching
  <2> QED
    BY <1>3, <1>5, <2>1 DEF Searching
<1>6. CASE Disconnected
  <2>1. PICK i \in jobs : Same(k, i)
    BY <1>6, OldJobs DEF Disconnected
  <2>2. PICK m \in Sent : m.type = "disconnect" /\ m.attempt = page.attempt
    BY <1>3, <1>6, <2>1 DEF Disconnected
  <2>3. "disconnect" \in page.wants
    BY <2>2 DEF BleInv, Asked
  <2> QED
    BY <2>3, Wants
<1>7. ASSUME NEW j, Permitted(j) PROVE FALSE
  <2>1. \E i \in jobs : Same(k, i)
    BY <1>7, PermittedIsLater
  <2> QED
    BY <1>3, <1>7, <2>1, PermittedIsLater
<1>8. ASSUME NEW m, Connects(m) PROVE FALSE
  <2>1. NewJob("connect", m, None, "module").op = "connect"
    BY DEF NewJob
  <2>2. \E i \in jobs : Same(k, i)
    BY <1>8, <2>1, OldJobs DEF Connects
  <2> QED
    BY <1>3, <1>8, <2>2 DEF Connects
<1>9. ASSUME NEW w, Works(w) PROVE ble'.attempt = page.attempt /\ ble'.stage = "wifi"
  <2>1. CASE k = w
    BY <1>9, <2>1 DEF Works, InSession
  <2>2. CASE k # w
    <3>1. ASSUME NEW js, js \subseteq jobs, k \in Outdated(js) PROVE \E i \in jobs : Same(k, i)
      BY <3>1, OldJobs
    <3>2. \E i \in jobs : Same(k, i)
      <4>1. CASE k \in Outdated(jobs)
        BY <3>1, <4>1
      <4>2. ASSUME NEW j \in jobs, k \in Outdated(jobs \ {j}) PROVE \E i \in jobs : Same(k, i)
        <5>1. jobs \ {j} \subseteq jobs
          OBVIOUS
        <5> QED
          BY <3>1, <4>2, <5>1
      <4>3. k \in Outdated(jobs) \/ \E j \in jobs : k \in Outdated(jobs \ {j})
        BY <1>9, <2>2 DEF Works
      <4> QED
        BY <4>1, <4>2, <4>3
    <3> QED
      BY <1>3, <1>9, <3>2 DEF Works, InSession
  <2> QED
    BY <2>1, <2>2
<1>10. ASSUME NEW j, Continued(j) PROVE FALSE
  <2>1. k \in jobs /\ k # j /\ j \in jobs
    BY <1>10 DEF Continued
  <2>2. ble.attempt = page.attempt /\ ble.stage = "wifi"
    BY <1>3, <2>1 DEF Same
  <2>3. j.attempt = k.attempt
    BY <1>10, <2>2, HeadOfUse DEF InUse
  <2> QED
    BY <2>1, <2>3, OneJob
<1> QED
  BY <1>4, <1>5, <1>6, <1>7, <1>8, <1>9, <1>10, ShellKinds DEF Kinds

\* A request for the networks is on its way, at work or answered.
LEMMA ScanIsAnswered ==
    ASSUME BleInv, ShellStep, page.wants = {"wifiScan"}
    PROVE  \/ \E m \in Sent' : m.type = "wifiScan" /\ m.attempt = page.attempt
           \/ \E j \in jobs' : j.op = "wifiScan" /\ j.attempt = page.attempt
           \/ \E m \in Told' : m.of = "wifiScan" /\ m.attempt = page.attempt
<1> DEFINE Token == \/ \E m \in Sent' : m.type = "wifiScan" /\ m.attempt = page.attempt
                    \/ \E j \in jobs' : j.op = "wifiScan" /\ j.attempt = page.attempt
                    \/ \E m \in Told' : m.of = "wifiScan" /\ m.attempt = page.attempt
<1>1. /\ jobs \subseteq Job /\ ChannelsOK /\ page.attempt # None
      /\ \A j \in jobs : j.op = "wifiScan" => j.at = "module"
  BY Basics, Wants DEF BleInv, JobFits, Job, BleTypeOK
<1>2. \/ \E m \in Sent : m.type = "wifiScan" /\ m.attempt = page.attempt
      \/ \E j \in jobs : j.op = "wifiScan" /\ j.attempt = page.attempt
      \/ \E m \in Told : m.of = "wifiScan" /\ m.attempt = page.attempt
  BY DEF BleInv, ListingFits
<1>3. ASSUME NEW m \in Sent, m.type = "wifiScan", m.attempt = page.attempt PROVE Token
  <2>1. CASE m \in Sent'
    BY <1>3, <2>1
  <2>2. CASE m \notin Sent'
    <3>1. ~UNCHANGED toNative
      BY <1>1, <2>2, Moves
    <3>2. Handle
      BY <3>1, ShellFrame
    <3>3. PICK n : Taken(n) /\ HandleOne(n)
      BY <3>2, Handles
    <3>4. n = m
      BY <2>2, <3>3 DEF Taken
    <3>5. HandleWifi(m)
      BY <1>3, <3>3, <3>4 DEF HandleOne, HandleScan, HandleCancelScan, HandleConnect, HandleCreate,
                              HandleDisconnect, HandleReady
    <3>6. CASE Says(Error(m.type, m.attempt))
      <4>1. Error(m.type, m.attempt) \in Told'
        BY <1>1, <3>6, Moves
      <4> QED
        BY <1>3, <4>1, TypeOfError
    <3>7. CASE jobs' = Outdated(jobs) \cup {NewJob(m.type, m, None, "module")}
      <4>1. /\ NewJob(m.type, m, None, "module").op = m.type
            /\ NewJob(m.type, m, None, "module").attempt = m.attempt
        BY DEF NewJob
      <4> QED
        BY <1>3, <3>7, <4>1
    <3> QED
      BY <3>5, <3>6, <3>7 DEF HandleWifi
  <2> QED
    BY <2>1, <2>2
<1>4. ASSUME NEW t \in Told, t.of = "wifiScan", t.attempt = page.attempt PROVE Token
  <2>1. UNCHANGED toPage \/ \E x : Says(x)
    BY DEF ShellStep, Handle, HandleScan, HandleCancelScan, HandleConnect, HandleCreate, HandleWifi,
           HandleDisconnect, HandleReady, Continue, After, ScanEnds, Found, Permission, ServerAnswers,
           BindClaim, Silently
  <2>2. Told \subseteq Told'
    BY <1>1, <2>1, Moves
  <2> QED
    BY <1>4, <2>2
<1>5. ASSUME NEW j \in jobs, j.op = "wifiScan", j.attempt = page.attempt PROVE Token
  <2>1. ble.attempt = page.attempt /\ ble.stage = "wifi"
    BY <1>5 DEF BleInv, ListingFits, Here
  <2>2. j \in jobs' => Token
    BY <1>5
  <2>3. ASSUME NEW js, js \subseteq jobs, j \in js, Outdated(js) \subseteq jobs' PROVE Token
    <3>1. js \subseteq Job
      BY <1>1, <2>3
    <3>2. PICK k \in Outdated(js) : Same(k, j)
      BY <2>3, <3>1, OutdatedOf
    <3> QED
      BY <1>5, <2>3, <3>2 DEF Same
  <2>4. CASE Calm
    BY <1>1, <1>5, <2>2, <2>4 DEF Calm
  <2>5. CASE Searching
    BY <2>1, <2>5 DEF Searching
  <2>6. CASE Disconnected
    BY <2>3, <2>6 DEF Disconnected
  <2>7. ASSUME NEW i, Permitted(i) PROVE Token
    BY <1>5, <2>3, <2>7 DEF Permitted
  <2>8. ASSUME NEW m, Connects(m) PROVE Token
    BY <2>1, <2>8 DEF Connects
  <2>9. ASSUME NEW k, Works(k) PROVE Token
    BY <2>1, <2>9 DEF Works, InSession
  <2>10. ASSUME NEW i, Continued(i) PROVE Token
    <3>1. Live(i) /\ i.attempt = j.attempt /\ i \in jobs
      BY <1>5, <2>1, <2>10, HeadOfUse DEF InUse, Continued
    <3>2. i = j
      BY <3>1, OneJob
    <3>3. CASE Says(Error(j.op, j.attempt))
      <4>1. Error(j.op, j.attempt) \in Told'
        BY <1>1, <3>3, Moves
      <4> QED
        BY <1>5, <4>1, TypeOfError
    <3>4. CASE ScanWifiEnds(j)
      <4>1. Tell("networks", "wifiScan", j.attempt, j.lamp) \in Told'
        BY <1>1, <3>4, Moves DEF ScanWifiEnds
      <4> QED
        BY <1>5, <4>1, TypeOfTell
    <3> QED
      BY <1>5, <2>10, <3>1, <3>2, <3>3, <3>4 DEF Continued, ConnectEnds, CreateEnds, ProvisionEnds
  <2> HIDE DEF Token
  <2> QED
    BY <2>4, <2>5, <2>6, <2>7, <2>8, <2>9, <2>10, ShellKinds DEF Kinds
<1> QED
  BY <1>2, <1>3, <1>4, <1>5

\* The shell keeps the page's list of networks matched,
LEMMA ListingOfShell ==
    ASSUME BleInv, ShellStep
    PROVE  ListingFits'
<1>1. UNCHANGED page /\ ListingFits
  BY ShellFrame DEF BleInv
<1>2. ASSUME page.stage = "wifi", page.wants = {} PROVE Here' /\ ble'.stage = "secure-session"
  <2>1. ble.attempt = page.attempt /\ ble.stage = "secure-session"
    BY <1>1, <1>2 DEF ListingFits, Here
  <2>2. /\ \A m \in Sent : m.attempt = page.attempt => m.type \in {"scan", "ready"}
        /\ \A j \in jobs : j.attempt = page.attempt => j.op = "scan"
    BY <1>2, AskedNothing
  <2>3. ble'.attempt = ble.attempt /\ ble'.stage = "secure-session"
    BY <2>1, <2>2, QuietSession
  <2> QED
    BY <1>1, <2>1, <2>3 DEF Here
<1>3. ASSUME NEW t \in Told', t.attempt = page.attempt, t.type = "networks"
      PROVE  Here' /\ ble'.stage = "secure-session"
  <2>1. CASE t \in Told
    <3>1. ble.attempt = page.attempt /\ ble.stage = "secure-session"
      BY <1>1, <1>3, <2>1 DEF ListingFits, Here
    <3>2. IsReply(t)
      BY <1>3, <2>1, Basics DEF AnswerFits, IsReply
    <3>3. \A j \in jobs : j.attempt # page.attempt
      BY <1>3, <2>1, <3>2, OneToken
    <3>4. \A m \in Sent : m.attempt = page.attempt => m.type \notin {"wifiScan", "provision", "disconnect"}
      <4>1. ASSUME NEW m \in Sent, m.attempt = page.attempt, m.type = "disconnect" PROVE FALSE
        <5>1. "disconnect" \in page.wants
          BY <4>1 DEF BleInv, Asked
        <5> QED
          BY <5>1, Wants
      <4> QED
        BY <1>3, <2>1, <3>2, <4>1, OneToken DEF IsAsk, Request
    <3>5. ble'.attempt = ble.attempt /\ ble'.stage = "secure-session"
      BY <3>1, <3>3, <3>4, QuietSession
    <3> QED
      BY <1>1, <3>1, <3>5 DEF Here
  <2>2. CASE t \notin Told
    <3>1. t.type \in Final
      BY <1>3 DEF Final
    <3>2. \E j : /\ ble.attempt = j.attempt /\ ble'.attempt = ble.attempt /\ t.attempt = j.attempt
                 /\ ble'.stage = "secure-session"
      BY <1>3, <2>2, <3>1, NewAnswers
    <3> QED
      BY <1>1, <1>3, <3>2 DEF Here
  <2> QED
    BY <2>1, <2>2
<1>4. ASSUME NEW j \in jobs', j.attempt = page.attempt, j.op = "wifiScan"
      PROVE  Here' /\ ble'.stage = "wifi"
  BY <1>1, <1>4, WifiScanJobs DEF Here
<1>5. page.wants = {"wifiScan"} =>
        \/ \E m \in Sent' : m.type = "wifiScan" /\ m.attempt = page.attempt
        \/ \E j \in jobs' : j.op = "wifiScan" /\ j.attempt = page.attempt
        \/ \E m \in Told' : m.of = "wifiScan" /\ m.attempt = page.attempt
  BY ScanIsAnswered
<1> QED
  BY <1>1, <1>2, <1>3, <1>4, <1>5 DEF ListingFits

\* and so does the page:
LEMMA ListingOfPage ==
    ASSUME BleInv, PageStep
    PROVE  ListingFits'
<1>1. /\ UNCHANGED <<ble, jobs>> /\ PageKinds /\ Told' \subseteq Told /\ Sent \subseteq Sent'
      /\ ListingFits /\ ChannelsOK
  BY PageFrame, ShellOfPage DEF BleInv
<1> DEFINE Offered == page.stage = "wifi" /\ page.wants = {} => Here /\ ble.stage = "secure-session"
           Listed == \A m \in Told : m.attempt = page.attempt /\ m.type = "networks" =>
                       Here /\ ble.stage = "secure-session"
           Lists1 == \A j \in jobs : j.attempt = page.attempt /\ j.op = "wifiScan" => Here /\ ble.stage = "wifi"
           Token == page.wants = {"wifiScan"} =>
                      \/ \E m \in Sent : m.type = "wifiScan" /\ m.attempt = page.attempt
                      \/ \E j \in jobs : j.op = "wifiScan" /\ j.attempt = page.attempt
                      \/ \E m \in Told : m.of = "wifiScan" /\ m.attempt = page.attempt
<1>2. Offered /\ Listed /\ Lists1 /\ Token
  BY <1>1 DEF ListingFits
<1>3. SUFFICES Offered' /\ Listed' /\ Lists1' /\ Token'
  BY DEF ListingFits
<1>4. page'.attempt = page.attempt => Listed' /\ Lists1'
  BY <1>1, <1>2 DEF Here
<1>5. CASE Restarts
  <2>1. \A m \in Told : m.type = "networks" => m.attempt \in Begun
    BY Basics DEF AnswerFits
  <2>2. \A j \in jobs : j.attempt \in Begun
    BY TokensOfBegun
  <2>3. Listed' /\ Lists1'
    BY <1>1, <1>5, <2>1, <2>2 DEF Restarts
  <2>4. Offered' /\ Token'
    BY <1>5 DEF Restarts
  <2> QED
    BY <2>3, <2>4
<1>6. CASE Chooses
  <2>1. Offered' /\ Token' /\ page'.attempt = page.attempt
    BY <1>6 DEF Chooses, NowAt
  <2> QED
    BY <1>4, <2>1
<1>7. CASE Lists
  <2>1. Offered' /\ Token' /\ page'.attempt = page.attempt
    BY <1>7 DEF Lists, NowAt
  <2> QED
    BY <1>4, <2>1
<1>8. CASE Provisions
  <2>1. Offered' /\ Token' /\ page'.attempt = page.attempt
    BY <1>8 DEF Provisions, NowAt
  <2> QED
    BY <1>4, <2>1
<1>9. ASSUME NEW m, Received(m), Ignored(m) PROVE Offered' /\ Listed' /\ Lists1' /\ Token'
  <2>1. UNCHANGED page /\ Told \subseteq Told' \cup {m} /\ AnswerFits(m)
    BY <1>9 DEF Ignored, Received
  <2>2. Offered' /\ Listed' /\ Lists1'
    BY <1>1, <1>2, <1>4, <2>1 DEF Here
  <2>3. ASSUME page.wants = {"wifiScan"}, m.of = "wifiScan", m.attempt = page.attempt PROVE FALSE
    BY <1>9, <2>1, <2>3 DEF Ignored, Accepts, AnswerFits
  <2>4. Token'
    BY <1>1, <1>2, <2>1, <2>3
  <2> QED
    BY <2>2, <2>4
<1>10. ASSUME NEW m, Received(m), Learnt(m) PROVE Offered' /\ Listed' /\ Lists1' /\ Token'
  <2>1. CASE HeardNetworks(m) /\ m.attempt = page.attempt
    <3>1. Here /\ ble.stage = "secure-session"
      BY <1>2, <1>10, <2>1 DEF Received, HeardNetworks
    <3>2. Offered' /\ Token' /\ page'.attempt = page.attempt
      BY <1>1, <2>1, <3>1 DEF HeardNetworks, NowAt, Here
    <3> QED
      BY <1>4, <3>2
  <2>2. CASE HeardCreated(m)
    <3>1. Ask("wifiScan", page.attempt, page.connected) \in Sent'
      BY <1>1, <2>2, Moves DEF HeardCreated
    <3>2. Offered' /\ Token' /\ page'.attempt = page.attempt
      BY <2>2, <3>1, TypeOfAsk DEF HeardCreated, NowAt
    <3> QED
      BY <1>4, <3>2
  <2>3. CASE HeardOfScan(m) \/ HeardConnected(m) \/ HeardProvisioned(m) \/ HeardError(m)
    <3>1. Offered' /\ Token' /\ page'.attempt = page.attempt
      BY <2>3 DEF HeardOfScan, HeardConnected, HeardProvisioned, HeardError, NowAt
    <3> QED
      BY <1>4, <3>1
  <2> HIDE DEF Offered, Listed, Lists1, Token
  <2> QED
    BY <1>10, <2>1, <2>2, <2>3 DEF Learnt
<1> HIDE DEF Offered, Listed, Lists1, Token
<1> QED
  BY <1>1, <1>5, <1>6, <1>7, <1>8, <1>9, <1>10 DEF PageKinds

\* every step does.
LEMMA ListingKept ==
    ASSUME BleInv, BleNext
    PROVE  ListingFits'
<1>1. CASE ModuleStep
  <2>1. UNCHANGED <<page, ble, jobs, toNative, toPage>> /\ ListingFits /\ ChannelsOK
    BY <1>1, ModuleFrame DEF BleInv
  <2>2. Sent' = Sent /\ Told' = Told
    BY <2>1, Moves
  <2> QED
    BY <2>1, <2>2 DEF ListingFits, Here
<1> QED
  BY <1>1, ListingOfPage, ListingOfShell, Steps

----------------------------------------------------------------------------
(* The invariant holds, and what it says of the program.                   *)

\* It holds of the app as it starts,
LEMMA BleInvOfInit ==
    ASSUME BleInit
    PROVE  BleInv
<1>1. /\ page = BlankPage /\ attempts = 0 /\ toNative = <<>> /\ toPage = <<>> /\ results = <<>>
      /\ ble = [attempt |-> None, stage |-> "idle", found |-> {}, connected |-> None]
      /\ phone = [registration |-> None, claim |-> None, permitted |-> FALSE]
      /\ jobs = {} /\ module = FreeModule
      /\ lamp = [d \in Lamp |-> [bound |-> None, online |-> FALSE]]
  BY DEF BleInit
<1>2. Sent = {} /\ Told = {} /\ Begun = {} /\ Len(toNative) = 0 /\ Len(toPage) = 0 /\ Len(results) = 0
  BY <1>1 DEF Sent, Told, Elems, Begun
<1>3. module.op = "none" /\ module.session = None /\ module.bound = None
  BY <1>1 DEF FreeModule
<1>4. page.attempt = None /\ page.stage = "idle" /\ page.wants = {} /\ page.listing = FALSE
  BY <1>1 DEF BlankPage
<1>5. BleTypeOK
  <2>1. page \in Page
    BY <1>1 DEF BlankPage, Page, Maybe, PageStage
  <2>2. ble \in Ble /\ phone \in Phone
    BY <1>1 DEF Ble, Phone, Maybe, BleStage
  <2>3. lamp \in [Lamp -> [bound : Maybe(Lamp), online : BOOLEAN]]
    BY <1>1 DEF Maybe
  <2> QED
    BY <1>1, <1>3, <2>1, <2>2, <2>3, FreeModuleOK DEF BleTypeOK
<1>6. ChannelsOK
  BY <1>1 DEF ChannelsOK
<1>7. Fitting /\ PageFits
  BY <1>1, <1>2, <1>4 DEF Fitting, PageFits, WantsFit
<1>8. OneEach /\ Asked
  BY <1>1, <1>2 DEF OneEach, OneEachOf, Asked
<1>9. ScansFirst
  BY <1>1, <1>2 DEF ScansFirst, ScanOrderOf
<1>10. ResultsFit /\ ConnectingFits /\ SessionFits /\ LeftFits
  BY <1>1, <1>2, <1>3 DEF ResultsFit, ResultsFitOf, ConnectingFits, SessionFits, LeftFits, InUse
<1>11. ModuleFits
  BY <1>3 DEF ModuleFits
<1>12. CreateFits /\ PlaceFits
  BY <1>1, <1>2, <1>4 DEF CreateFits, PlaceFits
<1>13. BoundFits /\ ListingFits
  BY <1>1, <1>2, <1>4 DEF BoundFits, ListingFits
<1>14. LampHasItsClaim
  BY <1>1 DEF LampHasItsClaim
<1> QED
  BY <1>5, <1>6, <1>7, <1>8, <1>9, <1>10, <1>11, <1>12, <1>13, <1>14 DEF BleInv

\* and every step keeps it.
LEMMA BleInvKept ==
    ASSUME BleInv, [BleNext]_vars
    PROVE  BleInv'
<1>1. CASE BleNext
  <2>1. BleTypeOK' /\ ChannelsOK' /\ Fitting' /\ PageFits' /\ OneEach' /\ Asked'
    BY <1>1, TypeKept, ChannelsKept, FittingKept, PageFitsKept, OneEachKept, AskedKept
  <2>2. ScansFirst' /\ ResultsFit' /\ ConnectingFits' /\ SessionFits' /\ LeftFits'
    BY <1>1, ScansFirstKept, ResultsFitKept, ConnectingKept, SessionKept, LeftKept
  <2>3. ModuleFits' /\ LampHasItsClaim' /\ CreateFits' /\ PlaceFits' /\ BoundFits' /\ ListingFits'
    BY <1>1, ModuleKept, CreateKept, PlaceKept, BoundKept, ListingKept
  <2> QED
    BY <2>1, <2>2, <2>3 DEF BleInv
<1>2. CASE UNCHANGED vars
  <2>1. UNCHANGED <<page, attempts, toNative, toPage, ble, phone, jobs, module, results, lamp>>
    BY <1>2 DEF vars
  <2>2. BleTypeOK' /\ ChannelsOK' /\ Fitting' /\ PageFits' /\ OneEach' /\ Asked'
    BY <2>1 DEF BleInv, BleTypeOK, ChannelsOK, Fitting, Sent, Told, Elems, Begun, MessageFits, AnswerFits,
                JobFits, PageFits, WantsFit, OneEach, Asked
  <2>3. ScansFirst' /\ ResultsFit' /\ ConnectingFits' /\ SessionFits' /\ LeftFits'
    BY <2>1 DEF BleInv, ScansFirst, Scans, ScanOrderOf, Sent, Told, Elems, Begun, ResultsFit,
                ConnectingFits, Connecting, Pending, SessionFits, Working, Holding, LeftFits
  <2>4. ModuleFits' /\ LampHasItsClaim' /\ CreateFits' /\ PlaceFits' /\ BoundFits' /\ ListingFits'
    BY <2>1 DEF BleInv, ModuleFits, LampHasItsClaim, CreateFits, InPlace, PlaceFits, Here, BoundFits, Bound,
                ListingFits, Sent, Told, Elems
  <2> QED
    BY <2>2, <2>3, <2>4 DEF BleInv
<1> QED
  BY <1>1, <1>2

\* The invariant, with any number of attempts begun, left and answered
\* late.
THEOREM BleInvHolds == BleSpec => []BleInv
BY BleInvOfInit, BleInvKept, PTL DEF BleSpec

\* Page, shell, module, jobs and lamps keep their types.
THEOREM BleTypesHold == BleSpec => []BleTypeOK
<1>1. BleInv => BleTypeOK
  BY DEF BleInv
<1> QED
  BY <1>1, BleInvHolds, PTL

\* LampHasItsClaim: a lamp is only bound to the claim made for it, and gets
\* the Wi-Fi after that. The shell binds the claim it holds in memory
\* (pendingClaimRef) over whatever session is open; nothing in the protocol
\* says which lamp a claim is for, so this rests on the order of requests
\* and disconnects.
THEOREM LampKeepsItsClaim == BleSpec => []LampHasItsClaim
<1>1. BleInv => LampHasItsClaim
  BY DEF BleInv
<1> QED
  BY <1>1, BleInvHolds, PTL

\* LeavingFreesTheLamp: a shell in no attempt has no session open and no
\* call pending, so the lamp is free for the next phone (bleDisconnect,
\* cleanupProvisioning).
THEOREM LeavingAlwaysFreesTheLamp == BleSpec => []LeavingFreesTheLamp
<1>1. BleInv => LeavingFreesTheLamp
  BY DEF BleInv, LeftFits, LeavingFreesTheLamp
<1> QED
  BY <1>1, BleInvHolds, PTL

\* With nothing under way, ListingFits puts the shell of a page that shows
\* the Wi-Fi list in its session, and BoundFits has that session bound.
LEMMA ReadyWhenQuiet ==
    ASSUME BleInv
    PROVE  WifiShownIsReady
<1>1. SUFFICES ASSUME page.stage = "wifi", Quiet
               PROVE  /\ InSession(page.attempt, page.connected)
                      /\ module.session = page.connected /\ module.bound = page.claim
  BY DEF WifiShownIsReady
<1>2. Sent = {} /\ Told = {} /\ jobs = {}
  BY <1>1 DEF Quiet, Sent, Told, Elems
<1>3. page.wants = {}
  <2>1. page.wants \in {{}, {"wifiScan"}}
    BY <1>1 DEF BleInv, PageFits, WantsFit
  <2>2. page.wants # {"wifiScan"}
    BY <1>2 DEF BleInv, ListingFits
  <2> QED
    BY <2>1, <2>2
<1>4. Here /\ ble.stage = "secure-session"
  BY <1>1, <1>3 DEF BleInv, ListingFits
<1>5. ble.connected = page.connected
  BY <1>1, <1>4 DEF BleInv, PlaceFits, InPlace, InUse
<1>6. module.session = page.connected /\ page.connected \in Lamp
  BY <1>4, <1>5 DEF BleInv, SessionFits, InUse
<1>7. page.claim = page.connected /\ (module.session = None \/ module.bound # None)
  BY <1>1, <1>3, <1>4 DEF BleInv, BoundFits, Bound
<1>8. module.bound = module.session
  BY <1>6, <1>7 DEF BleInv, ModuleFits
<1> QED
  BY <1>4, <1>5, <1>6, <1>7, <1>8 DEF InSession, Here

\* WifiShownIsReady: when nothing is under way, a page that asks for the
\* Wi-Fi's password has a session with the lamp it shows behind it, and
\* that lamp holds the page's claim.
THEOREM WifiIsShownReady == BleSpec => []WifiShownIsReady
BY ReadyWhenQuiet, BleInvHolds, PTL
=============================================================================
