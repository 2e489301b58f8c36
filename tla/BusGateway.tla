----------------------------- MODULE BusGateway -----------------------------
(***************************************************************************)
(* The Service Bus transport of azure_service_bus_gateway.py: a queue with *)
(* peek-locks and a finite duplicate window, receivers that run            *)
(* `settle_one`, and the SQLite file in which they record a digest, open a *)
(* case and bind the two, in three transactions.                           *)
(*                                                                         *)
(* The broker is external: it is modelled from the calls the receiver      *)
(* makes and from the queue's properties in queue.bicep.  A lock may       *)
(* expire while its receiver works, and a settlement without the lock      *)
(* raises in the receiver.                                                 *)
(***************************************************************************)
EXTENDS CaseIngest, FiniteSets

CONSTANTS
    Receivers,      \* processes that run bus-work
    Alerts, Bodies,
    Senders,        \* customer configurations, and senders that have none
    ConfigOf,       \* the configuration each receiver was given
    NoConfig,       \* gateway_identity before the first binding
    MaxDelivery,    \* maxDeliveryCount
    MaxSends        \* bound of the model: messages the queue ever takes

ASSUME BusAssumption ==
    /\ MaxDelivery \in Nat \ {0} /\ MaxSends \in Nat
    /\ ConfigOf \in [Receivers -> Senders]
    /\ NoConfig \notin Senders

VARIABLES
    queue,      \* the messages the broker took, in order
    window,     \* message ids in the broker's duplicate window
    identity,   \* gateway_identity.config_sha256
    digests,    \* bus_alerts: alert -> digest of its body, and its case
    cases,      \* rows of cases
    receiver    \* what each receiver holds between its steps

vars == <<queue, window, identity, digests, cases, receiver>>

Idle == [pc |-> "idle"]
Reasons == {"none", "InvalidScopedAlert", "MaxDeliveryCountExceeded", "TTLExpired"}
Message == [alert : Alerts, body : Bodies, from : Senders, deliveries : Nat, reason : Reasons,
            state : {"active", "locked", "completed", "dead"}]
BusRow == [body : Bodies, case : Nat]

\* The lock token of a delivery is its number.
ReceiverState ==
    {Idle} \cup [pc : {"received", "digested", "bound", "invalid", "failed"},
                 msg : Nat \ {0}, lock : Nat]
           \cup [pc : {"opened"}, msg : Nat \ {0}, lock : Nat, case : Nat \ {0}]

TypeOK ==
    /\ queue \in Seq(Message)
    /\ window \subseteq Senders \X Alerts
    /\ identity \in Senders \cup {NoConfig}
    /\ DOMAIN digests \subseteq Alerts /\ \A a \in DOMAIN digests : digests[a] \in BusRow
    /\ cases \in Seq([alert : Alerts, scope : Senders])
    /\ receiver \in [Receivers -> ReceiverState]
    /\ \A r \in Receivers : receiver[r] # Idle => receiver[r].msg \in DOMAIN queue

Init ==
    /\ queue = <<>> /\ window = {}
    /\ identity = NoConfig
    /\ digests = <<>> /\ cases = <<>>
    /\ receiver = [r \in Receivers |-> Idle]

-----------------------------------------------------------------------------
(* The broker *)

\* publish_file derives the MessageId from customer and alert id; within the
\* window the broker accepts a repetition and drops it.
Send(from, a, b) ==
    /\ Len(queue) < MaxSends
    /\ <<from, a>> \notin window
    /\ window' = window \cup {<<from, a>>}
    /\ queue' = Append(queue, [alert |-> a, body |-> b, from |-> from, deliveries |-> 0,
                               reason |-> "none", state |-> "active"])
    /\ UNCHANGED <<identity, digests, cases, receiver>>

\* The duplicate window is finite.
Forget(id) ==
    /\ id \in window
    /\ window' = window \ {id}
    /\ UNCHANGED <<queue, identity, digests, cases, receiver>>

Exhausted(m) == m.deliveries >= MaxDelivery

\* A message whose lock is given up goes back, or to the dead-letter queue.
Released(m) ==
    IF Exhausted(m) THEN [m EXCEPT !.state = "dead", !.reason = "MaxDeliveryCountExceeded"]
                    ELSE [m EXCEPT !.state = "active"]

LockExpires(i) ==
    /\ queue[i].state = "locked"
    /\ queue' = [queue EXCEPT ![i] = Released(@)]
    /\ UNCHANGED <<window, identity, digests, cases, receiver>>

MessageExpires(i) ==
    /\ queue[i].state = "active"
    /\ queue' = [queue EXCEPT ![i].state = "dead", ![i].reason = "TTLExpired"]
    /\ UNCHANGED <<window, identity, digests, cases, receiver>>

-----------------------------------------------------------------------------
(* settle_one *)

Holding(r, pc) == [pc |-> pc, msg |-> receiver[r].msg, lock |-> receiver[r].lock]

MessageOf(r) == queue[receiver[r].msg]

\* consume_once and consume_forever bind the database before they receive.
Receive(r, i) ==
    /\ receiver[r] = Idle
    /\ identity \in {NoConfig, ConfigOf[r]}
    /\ queue[i].state = "active"
    /\ identity' = ConfigOf[r]
    /\ queue' = [queue EXCEPT ![i].state = "locked", ![i].deliveries = @ + 1]
    /\ receiver' = [receiver EXCEPT ![r] =
                      [pc |-> "received", msg |-> i, lock |-> queue[i].deliveries + 1]]
    /\ UNCHANGED <<window, digests, cases>>

\* The body is the customer's alert, and the id is the one publish_file gave.
Valid(m, config) == m.from = config

\* bus_alerts has no other digest for the alert.
SameDigest(m) == m.alert \in DOMAIN digests => digests[m.alert].body = m.body

Put(a, row) == digests' = [x \in DOMAIN digests \cup {a} |-> IF x = a THEN row ELSE digests[x]]

Recorded_Replaced(m) == [body |-> m.body, case |-> NULL]

\* The row after the first transaction: a known alert's row is left alone.
Recorded(m) ==
    IF m.alert \in DOMAIN digests THEN digests[m.alert] ELSE [body |-> m.body, case |-> NULL]

\* The first transaction of open_delivered_case.
RecordDigest(r) ==
    /\ receiver[r].pc = "received"
    /\ Valid(MessageOf(r), ConfigOf[r]) /\ SameDigest(MessageOf(r))
    /\ Put(MessageOf(r).alert, Recorded(MessageOf(r)))
    /\ receiver' = [receiver EXCEPT ![r] = Holding(r, "digested")]
    /\ UNCHANGED <<queue, window, identity, cases>>

\* InvalidTransportMessage, before the transaction or inside it.
Refuse(r) ==
    /\ receiver[r].pc = "received"
    /\ ~(Valid(MessageOf(r), ConfigOf[r]) /\ SameDigest(MessageOf(r)))
    /\ receiver' = [receiver EXCEPT ![r] = Holding(r, "invalid")]
    /\ UNCHANGED <<queue, window, identity, digests, cases>>

CaseRowOf(r) == [alert |-> MessageOf(r).alert, scope |-> ConfigOf[r]]

\* open_case commits, or finds, the case.
OpenCase(r) ==
    /\ receiver[r].pc = "digested"
    /\ ScopeAgrees(cases, CaseRowOf(r))
    /\ cases' = Ingested(cases, CaseRowOf(r))
    /\ \E c \in CasesFor(cases', CaseRowOf(r).alert) :
         receiver' = [receiver EXCEPT ![r] =
                        [pc |-> "opened", msg |-> receiver[r].msg, lock |-> receiver[r].lock,
                         case |-> c]]
    /\ UNCHANGED <<queue, window, identity, digests>>

BindCase(r) ==
    /\ receiver[r].pc = "opened"
    /\ Put(MessageOf(r).alert, [digests[MessageOf(r).alert] EXCEPT !.case = receiver[r].case])
    /\ receiver' = [receiver EXCEPT ![r] = Holding(r, "bound")]
    /\ UNCHANGED <<queue, window, identity, cases>>

AfterError_Refused == "invalid"

AfterError_Hangs == "hung"

\* Where settle_one goes when a step raises anything but an invalid message:
\* the database fails at any step, or the alert's case has another scope.
AfterError == "failed"

StepFails(r) ==
    /\ receiver[r].pc \in {"received", "digested", "opened"}
    /\ receiver' = [receiver EXCEPT ![r] = Holding(r, AfterError)]
    /\ UNCHANGED <<queue, window, identity, digests, cases>>

\* A settlement works on the lock of this delivery, and on no later one.
HoldsLock(r) ==
    MessageOf(r).state = "locked" /\ MessageOf(r).deliveries = receiver[r].lock

\* complete_message, dead_letter_message or abandon_message, with the lock;
\* without it the call raises and the process ends.
Settled(m, pc) ==
    CASE pc = "bound"   -> [m EXCEPT !.state = "completed"]
      [] pc = "invalid" -> [m EXCEPT !.state = "dead", !.reason = "InvalidScopedAlert"]
      [] pc = "failed"  -> Released(m)

Settle(r) ==
    /\ receiver[r].pc \in {"bound", "invalid", "failed"}
    /\ queue' = IF HoldsLock(r)
                THEN [queue EXCEPT ![receiver[r].msg] = Settled(@, receiver[r].pc)]
                ELSE queue
    /\ receiver' = [receiver EXCEPT ![r] = Idle]
    /\ UNCHANGED <<window, identity, digests, cases>>

\* The process is killed; its supervisor starts it again.
Crash(r) ==
    /\ receiver[r] # Idle
    /\ receiver' = [receiver EXCEPT ![r] = Idle]
    /\ UNCHANGED <<queue, window, identity, digests, cases>>

-----------------------------------------------------------------------------
\* The inbox's worker or the ledger's own command opens a case of an alert.
OtherIngest(a, s) ==
    /\ ScopeAgrees(cases, [alert |-> a, scope |-> s])
    /\ cases' = Ingested(cases, [alert |-> a, scope |-> s])
    /\ UNCHANGED <<queue, window, identity, digests, receiver>>

Broker ==
    \/ \E from \in Senders, a \in Alerts, b \in Bodies : Send(from, a, b)
    \/ \E id \in window : Forget(id)
    \/ \E i \in DOMAIN queue : LockExpires(i) \/ MessageExpires(i)

Consume(r) ==
    \/ \E i \in DOMAIN queue : Receive(r, i)
    \/ RecordDigest(r) \/ Refuse(r) \/ OpenCase(r) \/ BindCase(r)
    \/ StepFails(r) \/ Settle(r)

Next ==
    \/ Broker
    \/ \E r \in Receivers : Consume(r) \/ Crash(r)
    \/ \E a \in Alerts, s \in Senders : OtherIngest(a, s)

Spec == Init /\ [][Next]_vars

\* bus-work runs under a supervisor that restarts it, and a lock lasts a
\* minute.  Failures and crashes are unlimited.
Fairness ==
    /\ \A r \in Receivers : WF_vars(Consume(r))
    /\ \A i \in 1..MaxSends : WF_vars(i \in DOMAIN queue /\ LockExpires(i))

FairSpec == Spec /\ Fairness

-----------------------------------------------------------------------------
(* Properties *)

\* "A redelivery returns the same case": a completed message has its alert's
\* one case, of this customer, and bus_alerts binds that case to the very
\* bytes of the message, whatever was redelivered or raced meanwhile.
CompletedIsBound ==
    /\ OneCasePerAlert(cases)
    /\ \A i \in DOMAIN queue : queue[i].state = "completed" =>
         LET a == queue[i].alert IN
         /\ a \in DOMAIN digests
         /\ digests[a].body = queue[i].body
         /\ digests[a].case \in CasesFor(cases, a)
         /\ cases[digests[a].case].scope = identity

\* Only what can never be accepted is dead-lettered as invalid: another
\* sender's message, or other bytes than those recorded for the alert.  A
\* worker's own failures, at any step and any number, never cause it.
RefusedForCause ==
    \A i \in DOMAIN queue : queue[i].reason = "InvalidScopedAlert" =>
        \/ ~Valid(queue[i], identity)
        \/ queue[i].alert \in DOMAIN digests /\ digests[queue[i].alert].body # queue[i].body

\* In rows that are well-typed a settlement is right either way: complete means
\* bound to the one case, refused means that it could never be.
SettledForCause == TypeOK /\ CompletedIsBound /\ RefusedForCause

\* The receivers keep the promise of AlertIntake.  A digest, and a case id once
\* bound, are never replaced: not by a redelivery, nor by a second receiver that
\* took the message over after its lock expired.
Intake == INSTANCE AlertIntake WITH
    Customers <- Senders, NoOwner <- NoConfig,
    owner <- identity, recorded <- digests, ledger <- cases

ImplementsIntake == Intake!Spec

\* Whatever fails, every message ends completed or in the dead-letter queue.
EveryMessageSettles ==
    <>[](\A i \in DOMAIN queue : queue[i].state \in {"completed", "dead"})
=============================================================================
