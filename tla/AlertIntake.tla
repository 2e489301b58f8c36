---------------------------- MODULE AlertIntake -----------------------------
(***************************************************************************)
(* What either transport of the customer gateway promises a sender: the    *)
(* database serves one customer; an alert is recorded under the bytes it   *)
(* first came with; it gets one case in the ledger and is bound to it once *)
(* and for good.  Deliveries, leases, locks, retries and crashes are not   *)
(* in it: however often they happen, none of this is taken back.           *)
(***************************************************************************)
EXTENDS Naturals, Sequences

CONSTANTS Alerts, Bodies, Customers,
    NoOwner         \* the owner of a database nobody has used

VARIABLES
    owner,          \* the customer the database is bound to
    recorded,       \* the alerts that were taken: [body, case]
    ledger          \* rows of cases

vars == <<owner, recorded, ledger>>

Unbound == 0    \* the case of an alert that has none yet; a case is its place in the ledger

Init ==
    /\ owner = NoOwner
    /\ DOMAIN recorded = {}
    /\ ledger = <<>>

\* The first call binds the database.
Own(c) ==
    /\ owner = NoOwner
    /\ owner' = c
    /\ UNCHANGED <<recorded, ledger>>

Write(a, row) ==
    recorded' = [x \in DOMAIN recorded \cup {a} |-> IF x = a THEN row ELSE recorded[x]]

\* An alert is taken, under the bytes it came with.
Take(a, b) ==
    /\ owner # NoOwner
    /\ a \notin DOMAIN recorded
    /\ Write(a, [body |-> b, case |-> Unbound])
    /\ UNCHANGED <<owner, ledger>>

\* A case is opened for an alert that has none, here or by another command,
\* which may be another customer's.
Open(a, c) ==
    /\ \A id \in DOMAIN ledger : ledger[id].alert # a
    /\ ledger' = Append(ledger, [alert |-> a, scope |-> c])
    /\ UNCHANGED <<owner, recorded>>

\* The alert is bound to its case, which is of the owner's scope.
Bind(a) ==
    /\ a \in DOMAIN recorded /\ recorded[a].case = Unbound
    /\ \E id \in DOMAIN ledger :
         /\ ledger[id] = [alert |-> a, scope |-> owner]
         /\ Write(a, [recorded[a] EXCEPT !.case = id])
    /\ UNCHANGED <<owner, ledger>>

Next ==
    \/ \E c \in Customers : Own(c)
    \/ \E a \in Alerts, b \in Bodies : Take(a, b)
    \/ \E a \in Alerts, c \in Customers : Open(a, c)
    \/ \E a \in Alerts : Bind(a)

Spec == Init /\ [][Next]_vars
=============================================================================
