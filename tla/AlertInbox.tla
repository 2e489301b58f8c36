----------------------------- MODULE AlertInbox -----------------------------
(***************************************************************************)
(* The local alert inbox of customer_gateway.py: `enqueue`, called by the  *)
(* threads of the loopback HTTP server and by `enqueue-file`, and          *)
(* `work_once`, run by any number of worker processes, over one SQLite     *)
(* file.  Each BEGIN IMMEDIATE transaction is one action.  What the code   *)
(* reads before a transaction (its clock above all) and uses inside it is  *)
(* kept in the state of the thread, so other threads run in between.       *)
(*                                                                         *)
(* Requests are signed, well-formed, in-scope calls: a call that fails the *)
(* size, signature, JSON or scope check raises before it touches the file. *)
(***************************************************************************)
EXTENDS CaseIngest, FiniteSets

CONSTANTS
    Handlers,       \* threads and processes that run enqueue
    Workers,        \* processes that run work_once
    Alerts, Bodies, Nonces,
    Requests,       \* the calls that clients may make, and repeat
    Configs,        \* customer configurations (customer, scope, recipe)
    ConfigOf,       \* the configuration each handler and worker was given
    NoConfig,       \* gateway_identity before the first binding
    MaxSkew,        \* MAX_SKEW_SECONDS
    NonceRetention, \* the 600 seconds a nonce is kept
    LeaseLen,       \* the 60 seconds of a lease
    MaxAttempts,    \* MAX_ATTEMPTS
    MaxNow          \* bound of the model: the clock stops here, see Tick

ASSUME WindowAssumption ==
    /\ MaxSkew \in Nat /\ NonceRetention \in Nat
    /\ NonceRetention >= 2 * MaxSkew

ASSUME LeaseAssumption ==
    LeaseLen \in Nat \ {0} /\ MaxAttempts \in Nat \ {0} /\ MaxNow \in Nat

ASSUME RequestAssumption ==
    Requests \subseteq [nonce : Nonces, ts : Nat, alert : Alerts, body : Bodies]

ASSUME ConfigAssumption ==
    /\ ConfigOf \in [Handlers \cup Workers -> Configs]
    /\ NoConfig \notin Configs

VARIABLES
    now,        \* int(time.time())
    identity,   \* gateway_identity.config_sha256
    nonces,     \* rows of gateway_nonces
    messages,   \* rows of gateway_messages, in received_at order
    cases,      \* rows of cases
    handler,    \* what each enqueue call holds between its steps
    worker,     \* what each work_once call holds between its steps
    accepted,   \* history: requests whose transaction committed
    purgedAt    \* history: the latest clock a committed purge used

vars == <<now, identity, nonces, messages, cases, handler, worker, accepted, purgedAt>>

Idle == [pc |-> "idle"]
MessageStates == {"pending", "leased", "complete", "dead"}
Message == [alert : Alerts, body : Bodies, state : MessageStates,
            attempts : Nat, lease : Nat, case : Nat]
CaseRow == [alert : Alerts, scope : Configs]
HandlerState == {Idle} \cup [pc : {"admitted"}, req : Requests, current : Nat]
WorkerState ==
    {Idle} \cup [pc : {"clocked"}, current : Nat]
           \cup [pc : {"leased", "failed"}, msg : Nat \ {0}, tries : Nat]
           \cup [pc : {"opened"}, msg : Nat \ {0}, tries : Nat, case : Nat \ {0}]

TypeOK ==
    /\ now \in Nat /\ purgedAt \in Nat
    /\ identity \in Configs \cup {NoConfig}
    /\ nonces \subseteq [nonce : Nonces, seen : Nat]
    /\ messages \in Seq(Message)
    /\ cases \in Seq(CaseRow)
    /\ handler \in [Handlers -> HandlerState]
    /\ worker \in [Workers -> WorkerState]
    /\ accepted \subseteq Requests
    /\ \A w \in Workers : worker[w].pc \in {"leased", "failed", "opened"}
                             => worker[w].msg \in DOMAIN messages

Init ==
    /\ now = 0 /\ purgedAt = 0
    /\ identity = NoConfig
    /\ nonces = {} /\ accepted = {}
    /\ messages = <<>> /\ cases = <<>>
    /\ handler = [h \in Handlers |-> Idle]
    /\ worker = [w \in Workers |-> Idle]

-----------------------------------------------------------------------------
(* enqueue *)

\* _bind_config: the first configuration is stored, any other one raises.
BindConfig(c) ==
    /\ identity \in {NoConfig, c}
    /\ identity' = c

InWindow(ts, current) == ts <= current + MaxSkew /\ current <= ts + MaxSkew

Kept_OffByOne(current) == {n \in nonces : n.seen + NonceRetention > current}

\* DELETE FROM gateway_nonces WHERE seen_at < current - 600
Kept(current) == {n \in nonces : n.seen + NonceRetention >= current}

\* The rows a SELECT by alert_id finds.
RowsFor(a) == {i \in DOMAIN messages : messages[i].alert = a}

SameBytes_Ignored(m, r) == TRUE

\* The stored digest is that of the delivered bytes.
SameBytes(m, r) == m.body = r.body

\* enqueue up to its transaction: the clock is read, the timestamp checked
\* against it and the database bound, in that order.
Admit(h, r) ==
    /\ handler[h] = Idle
    /\ InWindow(r.ts, now)
    /\ BindConfig(ConfigOf[h])
    /\ handler' = [handler EXCEPT ![h] = [pc |-> "admitted", req |-> r, current |-> now]]
    /\ UNCHANGED <<now, nonces, messages, cases, worker, accepted, purgedAt>>

\* The commit of a request whose nonce is new: purge, then insert the nonce.
CommitNonce(r, current) ==
    /\ r.nonce \notin {n.nonce : n \in Kept(current)}
    /\ nonces' = Kept(current) \cup {[nonce |-> r.nonce, seen |-> current]}
    /\ accepted' = accepted \cup {r}
    /\ purgedAt' = IF current > purgedAt THEN current ELSE purgedAt

\* A first delivery of the alert: the pending row is inserted.
EnqueueNew(h) ==
    /\ handler[h].pc = "admitted"
    /\ LET r == handler[h].req IN
         /\ CommitNonce(r, handler[h].current)
         /\ RowsFor(r.alert) = {}
         /\ messages' = Append(messages, [alert |-> r.alert, body |-> r.body, state |-> "pending",
                                          attempts |-> 0, lease |-> NULL, case |-> NULL])
    /\ handler' = [handler EXCEPT ![h] = Idle]
    /\ UNCHANGED <<now, identity, cases, worker>>

\* The same alert with the same bytes: the stored message is returned.
EnqueueDuplicate(h) ==
    /\ handler[h].pc = "admitted"
    /\ LET r == handler[h].req IN
         /\ CommitNonce(r, handler[h].current)
         /\ \E i \in RowsFor(r.alert) : SameBytes(messages[i], r)
    /\ handler' = [handler EXCEPT ![h] = Idle]
    /\ UNCHANGED <<now, identity, messages, cases, worker>>

\* A known nonce, or other bytes under a known alert id, raises inside the
\* transaction, which rolls back the purge and the nonce too.  A busy
\* database or a killed process ends the call in the same way.
EnqueueRolledBack(h) ==
    /\ handler[h].pc = "admitted"
    /\ handler' = [handler EXCEPT ![h] = Idle]
    /\ UNCHANGED <<now, identity, nonces, messages, cases, worker, accepted, purgedAt>>

-----------------------------------------------------------------------------
(* work_once *)

\* A call of work_once: the database is bound, then the clock is read.
Begin(w) ==
    /\ worker[w] = Idle
    /\ BindConfig(ConfigOf[w])
    /\ worker' = [worker EXCEPT ![w] = [pc |-> "clocked", current |-> now]]
    /\ UNCHANGED <<now, nonces, messages, cases, handler, accepted, purgedAt>>

Eligible_PendingOnly(m, current) == m.state = "pending"

\* WHERE state='pending' OR (state='leased' AND lease_until <= current)
Eligible(m, current) ==
    \/ m.state = "pending"
    \/ m.state = "leased" /\ m.lease <= current

\* ORDER BY received_at LIMIT 1
IsHead(i, current) ==
    /\ i \in DOMAIN messages
    /\ Eligible(messages[i], current)
    /\ \A j \in 1..(i - 1) : ~Eligible(messages[j], current)

Exhausted(m) == m.attempts >= MaxAttempts

\* UPDATE ... WHERE message_id=?: whatever the state of the row is by then.
Update(i, m) == messages' = [messages EXCEPT ![i] = m]

Released(m, state) == [m EXCEPT !.state = state, !.lease = NULL]

LeaseNone(w) ==
    /\ worker[w].pc = "clocked"
    /\ \A i \in DOMAIN messages : ~Eligible(messages[i], worker[w].current)
    /\ worker' = [worker EXCEPT ![w] = Idle]
    /\ UNCHANGED <<now, identity, nonces, messages, cases, handler, accepted, purgedAt>>

\* The head message has used up its attempts in workers that never came back.
LeaseDead(w) ==
    /\ worker[w].pc = "clocked"
    /\ \E i \in DOMAIN messages :
         /\ IsHead(i, worker[w].current)
         /\ Exhausted(messages[i])
         /\ Update(i, Released(messages[i], "dead"))
    /\ worker' = [worker EXCEPT ![w] = Idle]
    /\ UNCHANGED <<now, identity, nonces, cases, handler, accepted, purgedAt>>

Lease(w) ==
    /\ worker[w].pc = "clocked"
    /\ \E i \in DOMAIN messages :
         /\ IsHead(i, worker[w].current)
         /\ ~Exhausted(messages[i])
         /\ Update(i, [messages[i] EXCEPT !.state = "leased",
                                          !.attempts = @ + 1,
                                          !.lease = worker[w].current + LeaseLen])
         /\ worker' = [worker EXCEPT ![w] =
                         [pc |-> "leased", msg |-> i, tries |-> messages[i].attempts]]
    /\ UNCHANGED <<now, identity, nonces, cases, handler, accepted, purgedAt>>

\* The cases row that worker w asks `ingest` for.
CaseRowOf(w) == [alert |-> messages[worker[w].msg].alert, scope |-> ConfigOf[w]]

Failed(w) == [pc |-> "failed", msg |-> worker[w].msg, tries |-> worker[w].tries]

\* open_case commits, or finds, the case and returns it.
OpenCase(w) ==
    /\ worker[w].pc = "leased"
    /\ ScopeAgrees(cases, CaseRowOf(w))
    /\ cases' = Ingested(cases, CaseRowOf(w))
    /\ \E c \in CasesFor(cases', CaseRowOf(w).alert) :
         worker' = [worker EXCEPT ![w] = [pc |-> "opened", msg |-> worker[w].msg,
                                          tries |-> worker[w].tries, case |-> c]]
    /\ UNCHANGED <<now, identity, nonces, messages, handler, accepted, purgedAt>>

\* open_case raises: another scope holds the alert, the database is busy, or
\* reading the case back fails after `ingest` has committed it.
OpenFails(w) ==
    /\ worker[w].pc = "leased"
    /\ \/ cases' = cases
       \/ ScopeAgrees(cases, CaseRowOf(w)) /\ cases' = Ingested(cases, CaseRowOf(w))
    /\ worker' = [worker EXCEPT ![w] = Failed(w)]
    /\ UNCHANGED <<now, identity, nonces, messages, handler, accepted, purgedAt>>

Complete(w) ==
    /\ worker[w].pc = "opened"
    /\ LET m == messages[worker[w].msg] IN
         Update(worker[w].msg, [Released(m, "complete") EXCEPT !.case = worker[w].case])
    /\ worker' = [worker EXCEPT ![w] = Idle]
    /\ UNCHANGED <<now, identity, nonces, cases, handler, accepted, purgedAt>>

AfterFailure_Early(tries) == IF tries + 2 >= MaxAttempts THEN "dead" ELSE "pending"

AfterFailure_Renamed(tries) == IF tries + 1 >= MaxAttempts THEN "dead" ELSE "failed"

\* "dead" if attempts + 1 >= MAX_ATTEMPTS else "pending"
AfterFailure(tries) == IF tries + 1 >= MaxAttempts THEN "dead" ELSE "pending"

Fail(w) ==
    /\ worker[w].pc = "failed"
    /\ LET m == messages[worker[w].msg] IN
         Update(worker[w].msg, Released(m, AfterFailure(worker[w].tries)))
    /\ worker' = [worker EXCEPT ![w] = Idle]
    /\ UNCHANGED <<now, identity, nonces, cases, handler, accepted, purgedAt>>

\* The process dies between two transactions.  Before its lease it leaves no
\* trace, so only the later points matter.
Crash(w) ==
    /\ worker[w].pc \in {"leased", "opened", "failed"}
    /\ worker' = [worker EXCEPT ![w] = Idle]
    /\ UNCHANGED <<now, identity, nonces, messages, cases, handler, accepted, purgedAt>>

-----------------------------------------------------------------------------
(* The environment *)

\* The case ledger's own `ingest` command opens a case for an alert.  It
\* checks no binding, so the case may have any scope.
OtherIngest(a, s) ==
    /\ ScopeAgrees(cases, [alert |-> a, scope |-> s])
    /\ cases' = Ingested(cases, [alert |-> a, scope |-> s])
    /\ UNCHANGED <<now, identity, nonces, messages, handler, worker, accepted, purgedAt>>

\* The clock.  MaxNow bounds it, except that a running lease always expires.
Tick ==
    /\ now < MaxNow \/ \E i \in DOMAIN messages : messages[i].lease > now
    /\ now' = now + 1
    /\ UNCHANGED <<identity, nonces, messages, cases, handler, worker, accepted, purgedAt>>

Enqueue(h) ==
    \/ \E r \in Requests : Admit(h, r)
    \/ EnqueueNew(h)
    \/ EnqueueDuplicate(h)
    \/ EnqueueRolledBack(h)

Work(w) ==
    \/ Begin(w) \/ LeaseNone(w) \/ LeaseDead(w) \/ Lease(w)
    \/ OpenCase(w) \/ OpenFails(w) \/ Complete(w) \/ Fail(w)

Next ==
    \/ \E h \in Handlers : Enqueue(h)
    \/ \E w \in Workers : Work(w) \/ Crash(w)
    \/ \E a \in Alerts, s \in Configs : OtherIngest(a, s)
    \/ Tick

Spec == Init /\ [][Next]_vars

\* work-once is run again and again (it is a one-shot command under cron or
\* a loop of the operator), a transaction that can commit does, and time
\* passes.  Crashes, failures and deliveries are not owed to anyone.
Fairness ==
    /\ WF_vars(Tick)
    /\ \A w \in Workers : WF_vars(Work(w))

FairSpec == Spec /\ Fairness

-----------------------------------------------------------------------------
(* Properties *)

\* This step accepts the call of h, whose very request was accepted before.
AcceptsAgain(h) ==
    /\ handler[h].pc = "admitted" /\ handler[h].req \in accepted
    /\ handler'[h] = Idle
    /\ [nonce |-> handler[h].req.nonce, seen |-> handler[h].current] \in nonces' \ nonces

\* While the call of h waited for the database, another one purged by a clock
\* that was further on, by more than what the retention has to spare.
Overtaken(h) == purgedAt > handler[h].current + (NonceRetention - 2 * MaxSkew)

\* A request that was accepted is refused whenever it is presented again, by a
\* purge of whichever thread nothing is forgotten too early, unless a later
\* purge has overtaken the call that presents it.  With a retention of exactly
\* twice the skew, as in the code, one second is enough for that.
RefusedUnlessOvertaken == [][\A h \in Handlers : AcceptsAgain(h) => Overtaken(h)]_vars

\* docs/customer-operations-gateway.md says that each nonce is stored to block
\* replay.  Even a call that takes no more than one second from its clock reading
\* to its commit is such a replay, and is accepted, if the purge that forgets the
\* nonce comes in between; see the finding in the README.
ReplayBlocked ==
    [][\A h \in Handlers : AcceptsAgain(h) => now > handler[h].current + 1]_vars

\* Every call in progress, of any thread or process, serves the one customer
\* configuration the database was bound to first.
SingleCustomer ==
    /\ \A h \in Handlers : handler[h] # Idle => ConfigOf[h] = identity
    /\ \A w \in Workers : worker[w] # Idle => ConfigOf[w] = identity

\* A committed request is in the inbox, under the bytes it was accepted with,
\* and each alert is there once: 202 means the alert will not be lost, and a
\* conflicting body never replaced it.
AcceptedIsQueued ==
    /\ \A r \in accepted : \E i \in RowsFor(r.alert) : messages[i].body = r.body
    /\ \A i, j \in DOMAIN messages : messages[i].alert = messages[j].alert => i = j

\* What a 202 promises: the alert is kept, under its bytes and once, in the
\* inbox of the one customer whose threads may write there.
IntakeKept == SingleCustomer /\ AcceptedIsQueued

\* The ledger and the inbox agree: an alert has at most one case, and the case
\* id of a row, or held by a worker about to write it, is the case of that
\* row's alert, however leases expired and workers crashed in between.
CaseNamesItsAlert ==
    /\ OneCasePerAlert(cases)
    /\ \A i \in DOMAIN messages :
         /\ messages[i].state = "complete" => messages[i].case # NULL
         /\ messages[i].case # NULL =>
              messages[i].case \in CasesFor(cases, messages[i].alert)
    /\ \A w \in Workers : worker[w].pc = "opened" =>
         worker[w].case \in CasesFor(cases, messages[worker[w].msg].alert)

\* The database's own customer is the scope of every case a worker reports:
\* a case another command opened under another scope is never adopted.
CompletedInScope ==
    \A i \in DOMAIN messages :
        messages[i].case # NULL => cases[messages[i].case].scope = identity

\* The retry budget: no message is leased more than MAX_ATTEMPTS times, by
\* all workers together, and none is given up before it has used them all.
RetryBudget ==
    \A i \in DOMAIN messages :
        /\ messages[i].attempts <= MaxAttempts
        /\ messages[i].state = "dead" => messages[i].attempts = MaxAttempts

\* A message is settled for cause: with a case of its own customer, or given up
\* with its budget spent and not before.
SettledForCause == CompletedInScope /\ RetryBudget

\* What the inbox records, without how far the work on it is: the alerts taken,
\* with their bytes and the case that was reported for them.
Taken(rows) ==
    [a \in {rows[i].alert : i \in DOMAIN rows} |->
        LET m == rows[CHOOSE i \in DOMAIN rows : rows[i].alert = a]
        IN  [body |-> m.body, case |-> m.case]]

\* The inbox keeps the promise of AlertIntake.  A case id, once written, is
\* never changed: a second worker on the same message writes the same id, however
\* leases expired, and no retry records anything twice.
Intake == INSTANCE AlertIntake WITH
    Customers <- Configs, NoOwner <- NoConfig,
    owner <- identity, recorded <- Taken(messages), ledger <- cases

ImplementsIntake == Intake!Spec

\* While crashes and failures go on, every message that was accepted ends up
\* complete or dead and stays so: the lease of a crashed worker expires, and
\* the budget ends a poisoned message, which would block the ones behind it.
EveryMessageSettles ==
    <>[](\A i \in DOMAIN messages : messages[i].state \in {"complete", "dead"})

\* What the tests say of a complete message: it is not worked on again
\* (tests/test_customer_gateway.py:47).  A worker whose lease has expired
\* fails late and takes the row back; see the finding in the README.
CompleteIsFinal ==
    [][\A i \in DOMAIN messages :
         messages[i].state = "complete" => messages'[i].state = "complete"]_vars
=============================================================================
