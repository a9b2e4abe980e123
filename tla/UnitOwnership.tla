--------------------------- MODULE UnitOwnership ---------------------------
(***************************************************************************)
(* What the backend promises about the ownership of one manufactured unit, *)
(* whatever tables, leases and retries it takes to keep the promise.  A    *)
(* unit is reserved for one account, bound to one device certificate,      *)
(* authorized, seen online and finally retired; it changes hands only by   *)
(* going through retirement and a manufacturing reissue.                   *)
(***************************************************************************)
CONSTANTS
    Owner,   \* accounts (Cognito subjects)
    Cert,    \* device certificates issued by AWS IoT
    None     \* absence of an owner or a certificate

VARIABLES
    stage,   \* where the unit stands in its life
    holder,  \* the account the unit is reserved for or bound to
    badge    \* the certificate the unit is bound to

uvars == <<stage, holder, badge>>

Stage == {"unclaimed", "reserved", "bound", "authorized", "online", "retired"}

UInit ==
    /\ stage = "unclaimed"
    /\ holder = None
    /\ badge = None

Reserve(o) ==
    /\ stage = "unclaimed"
    /\ stage' = "reserved"
    /\ holder' = o
    /\ UNCHANGED badge

\* The reservation ran out before the unit was bound.
Lapse ==
    /\ stage = "reserved"
    /\ stage' = "retired"
    /\ holder' = None
    /\ UNCHANGED badge

Bind(x) ==
    /\ stage = "reserved"
    /\ stage' = "bound"
    /\ badge' = x
    /\ UNCHANGED holder

Authorize ==
    /\ stage = "bound"
    /\ stage' = "authorized"
    /\ UNCHANGED <<holder, badge>>

ComeOnline ==
    /\ stage = "authorized"
    /\ stage' = "online"
    /\ UNCHANGED <<holder, badge>>

Retire ==
    /\ stage \in {"authorized", "online"}
    /\ stage' = "retired"
    /\ holder' = None
    /\ badge' = None

\* A new registration code is manufactured for a retired unit.
Restock ==
    /\ stage = "retired"
    /\ stage' = "unclaimed"
    /\ UNCHANGED <<holder, badge>>

UNext ==
    \/ \E o \in Owner : Reserve(o)
    \/ \E x \in Cert : Bind(x)
    \/ Lapse \/ Authorize \/ ComeOnline \/ Retire \/ Restock

USpec == UInit /\ [][UNext]_uvars
============================================================================
