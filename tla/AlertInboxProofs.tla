-------------------------- MODULE AlertInboxProofs --------------------------
(***************************************************************************)
(* What AlertInbox guarantees for every number of threads, workers, alerts *)
(* and requests, and for every value of its time constants.                *)
(***************************************************************************)
EXTENDS AlertInbox, SharedLemmas

\* A committed purge and insert of a well-typed request keeps the nonce table
\* and the two history variables well-typed.
LEMMA CommitNonceType ==
    ASSUME TypeOK, NEW r \in Requests, NEW current \in Nat, CommitNonce(r, current)
    PROVE  /\ nonces' \subseteq [nonce : Nonces, seen : Nat]
           /\ accepted' \subseteq Requests
           /\ purgedAt' \in Nat
BY RequestAssumption DEF TypeOK, CommitNonce, Kept

\* An UPDATE of one row keeps the inbox a table of messages, with the same
\* rows, and touches no other row.
LEMMA UpdateType ==
    ASSUME messages \in Seq(Message), NEW i \in DOMAIN messages, NEW m \in Message, Update(i, m)
    PROVE  /\ messages' \in Seq(Message)
           /\ DOMAIN messages' = DOMAIN messages
           /\ \A j \in DOMAIN messages : messages'[j] = IF j = i THEN m ELSE messages[j]
<1>1. DOMAIN messages = 1..Len(messages)
  OBVIOUS
<1> QED
  BY <1>1, ExceptSeq DEF Update

\* Every transaction of work_once that writes a message writes one existing
\* row, well-typed, and leaves its alert and bytes alone; only the worker that
\* opened the case touches the case id, and only it writes "complete".
LEMMA WorkUpdates ==
    ASSUME TypeOK, NEW w \in Workers,
           LeaseDead(w) \/ Lease(w) \/ Complete(w) \/ Fail(w)
    PROVE  \E i \in DOMAIN messages : \E m \in Message :
              /\ Update(i, m)
              /\ m.alert = messages[i].alert /\ m.body = messages[i].body
              /\ \/ m.case = messages[i].case /\ m.state # "complete"
                 \/ worker[w].pc = "opened" /\ i = worker[w].msg /\ m.case = worker[w].case
<1> USE DEF TypeOK
<1>1. CASE LeaseDead(w)
  <2>1. PICK i \in DOMAIN messages : Update(i, Released(messages[i], "dead"))
    BY <1>1 DEF LeaseDead
  <2>2. messages[i] \in Message
    OBVIOUS
  <2>3. /\ Released(messages[i], "dead") \in Message
        /\ Released(messages[i], "dead").alert = messages[i].alert
        /\ Released(messages[i], "dead").body = messages[i].body
        /\ Released(messages[i], "dead").case = messages[i].case
        /\ Released(messages[i], "dead").state = "dead"
    BY <2>2 DEF Released, Message, MessageStates, NULL
  <2> QED
    BY <2>1, <2>3
<1>2. CASE Lease(w)
  <2> DEFINE Leased(i) == [messages[i] EXCEPT !.state = "leased", !.attempts = @ + 1,
                                              !.lease = worker[w].current + LeaseLen]
  <2>1. PICK i \in DOMAIN messages : Update(i, Leased(i))
    BY <1>2 DEF Lease
  <2>2. messages[i] \in Message
    OBVIOUS
  <2>3. worker[w].current + LeaseLen \in Nat
    <3>1. worker[w].current \in Nat
      <4>1. worker[w] \in WorkerState /\ worker[w].pc = "clocked"
        BY <1>2 DEF Lease
      <4> QED
        BY <4>1 DEF WorkerState, Idle
    <3> QED
      BY <3>1, LeaseAssumption
  <2>4. messages[i].attempts + 1 \in Nat
    BY <2>2 DEF Message
  <2>5. /\ Leased(i) \in Message
        /\ Leased(i).alert = messages[i].alert
        /\ Leased(i).body = messages[i].body
        /\ Leased(i).case = messages[i].case
        /\ Leased(i).state = "leased"
    BY <2>2, <2>3, <2>4 DEF Message, MessageStates
  <2> QED
    BY <2>1, <2>5
<1>3. CASE Complete(w)
  <2> DEFINE i == worker[w].msg
             done == [Released(messages[i], "complete") EXCEPT !.case = worker[w].case]
  <2>1. i \in DOMAIN messages /\ worker[w].case \in Nat
    BY <1>3 DEF Complete, WorkerState, Idle
  <2>2. messages[i] \in Message
    BY <2>1
  <2>3. /\ done \in Message
        /\ done.alert = messages[i].alert
        /\ done.body = messages[i].body
        /\ done.case = worker[w].case
    BY <2>1, <2>2 DEF Released, Message, MessageStates, NULL
  <2> QED
    BY <1>3, <2>1, <2>3 DEF Complete
<1>4. CASE Fail(w)
  <2> DEFINE i == worker[w].msg
             undone == Released(messages[i], AfterFailure(worker[w].tries))
  <2>1. i \in DOMAIN messages
    BY <1>4 DEF Fail
  <2>2. messages[i] \in Message
    BY <2>1
  <2>3. /\ undone \in Message
        /\ undone.alert = messages[i].alert
        /\ undone.body = messages[i].body
        /\ undone.case = messages[i].case
        /\ undone.state # "complete"
    BY <2>2 DEF Released, Message, MessageStates, AfterFailure, NULL
  <2> QED
    BY <1>4, <2>1, <2>3 DEF Fail
<1> QED
  BY <1>1, <1>2, <1>3, <1>4

\* Those transactions touch no other table, and leave no worker newly holding
\* an opened case.
LEMMA WorkLeavesRest ==
    ASSUME TypeOK, NEW w \in Workers,
           LeaseDead(w) \/ Lease(w) \/ Complete(w) \/ Fail(w)
    PROVE  /\ UNCHANGED <<now, identity, nonces, cases, handler, accepted, purgedAt>>
           /\ \A v \in Workers : worker'[v] = worker[v] \/ worker'[v].pc # "opened"
<1>1. CASE LeaseDead(w)
  BY <1>1 DEF LeaseDead, Idle, TypeOK
<1>2. CASE Lease(w)
  <2>1. UNCHANGED <<now, identity, nonces, cases, handler, accepted, purgedAt>>
    BY <1>2 DEF Lease
  <2>2. PICK i \in DOMAIN messages :
          worker' = [worker EXCEPT ![w] =
                      [pc |-> "leased", msg |-> i, tries |-> messages[i].attempts]]
    BY <1>2 DEF Lease
  <2> QED
    BY <2>1, <2>2 DEF TypeOK
<1>3. CASE Complete(w)
  BY <1>3 DEF Complete, Idle, TypeOK
<1>4. CASE Fail(w)
  BY <1>4 DEF Fail, Idle, TypeOK
<1> QED
  BY <1>1, <1>2, <1>3, <1>4

\* The type invariant of the inbox: every table holds rows of its schema, and
\* every thread holds a request or a message it really has.
THEOREM TypeCorrect == Spec => []TypeOK
<1>1. Init => TypeOK
  BY DEF Init, TypeOK, HandlerState, WorkerState, Idle
<1>2. TypeOK /\ [Next]_vars => TypeOK'
  <2> SUFFICES ASSUME TypeOK, [Next]_vars PROVE TypeOK'
    OBVIOUS
  <2> USE DEF TypeOK
  <2>1. ASSUME NEW h \in Handlers, NEW r \in Requests, Admit(h, r)
        PROVE  TypeOK'
    BY <2>1, ConfigAssumption DEF Admit, BindConfig, HandlerState
  <2>2. ASSUME NEW h \in Handlers, EnqueueNew(h)
        PROVE  TypeOK'
    <3>1. handler[h].req \in Requests /\ handler[h].current \in Nat
      BY <2>2 DEF EnqueueNew, HandlerState, Idle
    <3>2. /\ nonces' \subseteq [nonce : Nonces, seen : Nat]
          /\ accepted' \subseteq Requests
          /\ purgedAt' \in Nat
      BY <2>2, <3>1, CommitNonceType DEF EnqueueNew
    <3>3. messages' \in Seq(Message) /\ DOMAIN messages \subseteq DOMAIN messages'
      BY <2>2, <3>1, RequestAssumption DEF EnqueueNew, Message, MessageStates, NULL
    <3> QED
      BY <2>2, <3>2, <3>3 DEF EnqueueNew, HandlerState
  <2>3. ASSUME NEW h \in Handlers, EnqueueDuplicate(h)
        PROVE  TypeOK'
    <3>1. handler[h].req \in Requests /\ handler[h].current \in Nat
      BY <2>3 DEF EnqueueDuplicate, HandlerState, Idle
    <3>2. /\ nonces' \subseteq [nonce : Nonces, seen : Nat]
          /\ accepted' \subseteq Requests
          /\ purgedAt' \in Nat
      BY <2>3, <3>1, CommitNonceType DEF EnqueueDuplicate
    <3> QED
      BY <2>3, <3>2 DEF EnqueueDuplicate, HandlerState
  <2>4. ASSUME NEW h \in Handlers, EnqueueRolledBack(h)
        PROVE  TypeOK'
    BY <2>4 DEF EnqueueRolledBack, HandlerState
  <2>5. ASSUME NEW w \in Workers, Begin(w)
        PROVE  TypeOK'
    BY <2>5, ConfigAssumption DEF Begin, BindConfig, WorkerState
  <2>6. ASSUME NEW w \in Workers, LeaseNone(w)
        PROVE  TypeOK'
    BY <2>6 DEF LeaseNone, WorkerState, Idle
  <2>7. ASSUME NEW w \in Workers, LeaseDead(w) \/ Lease(w) \/ Complete(w) \/ Fail(w)
        PROVE  messages' \in Seq(Message) /\ DOMAIN messages' = DOMAIN messages
    BY <2>7, WorkUpdates, UpdateType
  <2>8. ASSUME NEW w \in Workers, LeaseDead(w) \/ Complete(w) \/ Fail(w)
        PROVE  TypeOK'
    <3>1. worker' = [worker EXCEPT ![w] = Idle] /\ Idle \in WorkerState
      BY <2>8 DEF LeaseDead, Complete, Fail, WorkerState
    <3>2. UNCHANGED <<now, identity, nonces, cases, handler, accepted, purgedAt>>
      BY <2>8 DEF LeaseDead, Complete, Fail
    <3> QED
      BY <2>7, <2>8, <3>1, <3>2 DEF Idle
  <2>9. ASSUME NEW w \in Workers, worker[w].pc = "leased"
        PROVE  /\ worker[w].msg \in DOMAIN messages
               /\ worker[w].tries \in Nat
               /\ CaseRowOf(w) \in CaseRow
    <3>1. worker[w].msg \in DOMAIN messages
      BY <2>9
    <3>2. worker[w].tries \in Nat
      BY <2>9 DEF WorkerState, Idle
    <3>3. messages[worker[w].msg] \in Message
      BY <3>1
    <3> QED
      BY <3>1, <3>2, <3>3, ConfigAssumption DEF CaseRowOf, CaseRow, Message
  <2>10. ASSUME NEW w \in Workers, OpenCase(w)
         PROVE  TypeOK'
    <3>1. cases' \in Seq(CaseRow)
      BY <2>9, <2>10, IngestedType DEF OpenCase
    <3> QED
      BY <2>9, <2>10, <3>1 DEF OpenCase, WorkerState, CasesFor
  <2>11. ASSUME NEW w \in Workers, OpenFails(w)
         PROVE  TypeOK'
    <3>1. cases' \in Seq(CaseRow)
      BY <2>9, <2>11, IngestedType DEF OpenFails
    <3> QED
      BY <2>9, <2>11, <3>1 DEF OpenFails, WorkerState, Failed
  <2>12. ASSUME NEW w \in Workers, Lease(w)
         PROVE  TypeOK'
    <3>1. PICK i \in DOMAIN messages :
            worker' = [worker EXCEPT ![w] =
                        [pc |-> "leased", msg |-> i, tries |-> messages[i].attempts]]
      BY <2>12 DEF Lease
    <3>2. messages[i] \in Message /\ DOMAIN messages = 1..Len(messages)
      OBVIOUS
    <3>3. i \in Nat \ {0}
      BY <3>2
    <3>4. worker' \in [Workers -> WorkerState]
      BY <3>1, <3>2, <3>3 DEF WorkerState, Message
    <3> QED
      BY <2>7, <2>12, <3>1, <3>4 DEF Lease
  <2>13. ASSUME NEW w \in Workers, Crash(w)
         PROVE  TypeOK'
    BY <2>13 DEF Crash, WorkerState, Idle
  <2>14. ASSUME NEW a \in Alerts, NEW s \in Configs, OtherIngest(a, s)
         PROVE  TypeOK'
    <3>1. cases' \in Seq(CaseRow)
      BY <2>14, IngestedType DEF OtherIngest, CaseRow
    <3> QED
      BY <2>14, <3>1 DEF OtherIngest
  <2>15. CASE Tick
    BY <2>15 DEF Tick
  <2>16. CASE UNCHANGED vars
    BY <2>16 DEF vars
  <2> QED
    BY <2>1, <2>2, <2>3, <2>4, <2>5, <2>6, <2>8, <2>10, <2>11, <2>12, <2>13,
       <2>14, <2>15, <2>16 DEF Next, Enqueue, Work
<1> QED
  BY <1>1, <1>2, PTL DEF Spec

-----------------------------------------------------------------------------
(* Replay protection *)

\* To know that a purge leaves a nonce alone one must know how far the clock of
\* the call that stored it was from the timestamp of the request, which the
\* window bounds while the call runs, and how far any purge has got.
NonceInv ==
    /\ \A h \in Handlers : handler[h].pc = "admitted" =>
         InWindow(handler[h].req.ts, handler[h].current)
    /\ \A r \in accepted : r.ts + NonceRetention >= purgedAt + MaxSkew =>
         \E n \in nonces : n.nonce = r.nonce /\ r.ts <= n.seen + MaxSkew

\* A commit keeps the second half of NonceInv: a nonce stored at most MaxSkew
\* before the timestamp of its request is kept by a purge that is not further
\* past it than what the retention leaves.
LEMMA CommitKeepsNonces ==
    ASSUME TypeOK, NonceInv, NEW r \in Requests, NEW current \in Nat,
           InWindow(r.ts, current), CommitNonce(r, current)
    PROVE  \A q \in accepted' : q.ts + NonceRetention >= purgedAt' + MaxSkew =>
             \E n \in nonces' : n.nonce = q.nonce /\ q.ts <= n.seen + MaxSkew
<1> SUFFICES ASSUME NEW q \in accepted', q.ts + NonceRetention >= purgedAt' + MaxSkew
             PROVE  \E n \in nonces' : n.nonce = q.nonce /\ q.ts <= n.seen + MaxSkew
  OBVIOUS
<1>1. CASE q = r
  <2> DEFINE n == [nonce |-> r.nonce, seen |-> current]
  <2>1. n \in nonces' /\ n.nonce = q.nonce /\ q.ts <= n.seen + MaxSkew
    BY <1>1 DEF CommitNonce, InWindow
  <2> QED
    BY <2>1
<1>2. CASE q \in accepted
  <2>1. /\ purgedAt \in Nat /\ purgedAt <= purgedAt' /\ current <= purgedAt'
        /\ q.ts \in Nat /\ MaxSkew \in Nat
    BY <1>2, RequestAssumption, WindowAssumption DEF TypeOK, CommitNonce
  <2>2. q.ts + NonceRetention >= purgedAt + MaxSkew
    <3>1. purgedAt' \in Nat
      BY CommitNonceType
    <3> QED
      BY <2>1, <3>1, WindowAssumption
  <2>3. PICK n \in nonces : n.nonce = q.nonce /\ q.ts <= n.seen + MaxSkew
    BY <1>2, <2>2 DEF NonceInv
  <2>4. n.seen + NonceRetention >= current
    <3>1. n.seen \in Nat /\ purgedAt' \in Nat
      BY CommitNonceType DEF TypeOK
    <3> QED
      BY <2>1, <2>3, <3>1, WindowAssumption
  <2>5. n \in nonces'
    BY <2>4 DEF CommitNonce, Kept
  <2> QED
    BY <2>3, <2>5
<1> QED
  BY <1>1, <1>2 DEF CommitNonce

LEMMA NoncesKept == Spec => []NonceInv
<1>1. Init => NonceInv
  BY DEF Init, NonceInv, Idle
<1>2. TypeOK /\ NonceInv /\ [Next]_vars => NonceInv'
  <2> SUFFICES ASSUME TypeOK, NonceInv, [Next]_vars PROVE NonceInv'
    OBVIOUS
  <2>1. ASSUME NEW h \in Handlers, NEW r \in Requests, Admit(h, r)
        PROVE  NonceInv'
    BY <2>1 DEF Admit, NonceInv, TypeOK, InWindow
  <2>2. ASSUME NEW h \in Handlers, handler[h].pc = "admitted",
               CommitNonce(handler[h].req, handler[h].current),
               handler' = [handler EXCEPT ![h] = Idle]
        PROVE  NonceInv'
    <3>1. handler[h].req \in Requests /\ handler[h].current \in Nat
      BY <2>2 DEF TypeOK, HandlerState, Idle
    <3>2. InWindow(handler[h].req.ts, handler[h].current)
      BY <2>2 DEF NonceInv
    <3>3. \A q \in accepted' : q.ts + NonceRetention >= purgedAt' + MaxSkew =>
             \E n \in nonces' : n.nonce = q.nonce /\ q.ts <= n.seen + MaxSkew
      BY <2>2, <3>1, <3>2, CommitKeepsNonces
    <3> QED
      BY <2>2, <3>3 DEF NonceInv, TypeOK, InWindow, Idle
  <2>3. ASSUME NEW h \in Handlers, EnqueueRolledBack(h)
        PROVE  NonceInv'
    BY <2>3 DEF EnqueueRolledBack, NonceInv, TypeOK, InWindow, Idle
  <2>4. CASE UNCHANGED <<nonces, handler, accepted, purgedAt>>
    BY <2>4 DEF NonceInv, InWindow
  <2> QED
    BY <2>1, <2>2, <2>3, <2>4
       DEF Next, Enqueue, EnqueueNew, EnqueueDuplicate, Work, Begin, LeaseNone, LeaseDead, Lease,
           OpenCase, OpenFails, Complete, Fail, Crash, OtherIngest, Tick, vars
<1> QED
  BY <1>1, <1>2, TypeCorrect, PTL DEF Spec

\* A nonce is inserted by the commit of the call that goes idle.
LEMMA AcceptsCommits ==
    ASSUME TypeOK, [Next]_vars, NEW h \in Handlers, AcceptsAgain(h)
    PROVE  CommitNonce(handler[h].req, handler[h].current)
<1>1. nonces' # nonces /\ handler'[h] # handler[h]
  BY DEF AcceptsAgain, Idle
<1>2. PICK g \in Handlers : EnqueueNew(g) \/ EnqueueDuplicate(g)
  <2>1. ASSUME NEW w \in Workers, Work(w) \/ Crash(w) PROVE nonces' = nonces
    BY <2>1 DEF Work, Begin, LeaseNone, LeaseDead, Lease, OpenCase, OpenFails, Complete, Fail, Crash
  <2>2. ASSUME NEW a \in Alerts, NEW s \in Configs, OtherIngest(a, s) PROVE nonces' = nonces
    BY <2>2 DEF OtherIngest
  <2>3. ASSUME NEW g \in Handlers, Enqueue(g), nonces' # nonces
        PROVE  EnqueueNew(g) \/ EnqueueDuplicate(g)
    BY <2>3 DEF Enqueue, Admit, EnqueueRolledBack
  <2>4. Tick => nonces' = nonces
    BY DEF Tick
  <2>5. UNCHANGED vars => nonces' = nonces
    BY DEF vars
  <2> QED
    BY <1>1, <2>1, <2>2, <2>3, <2>4, <2>5 DEF Next
<1>3. handler' = [handler EXCEPT ![g] = Idle]
  BY <1>2 DEF EnqueueNew, EnqueueDuplicate
<1>4. g = h
  BY <1>1, <1>3 DEF TypeOK
<1> QED
  BY <1>2, <1>4 DEF EnqueueNew, EnqueueDuplicate

\* For any number of intake threads, however their clock readings and their
\* transactions interleave, a request accepted before is refused by every call
\* that no purge has overtaken.
THEOREM ReplaysAreRefused == Spec => RefusedUnlessOvertaken
<1>1. ASSUME TypeOK, NonceInv, [Next]_vars, NEW h \in Handlers, AcceptsAgain(h)
      PROVE  Overtaken(h)
  <2> DEFINE r == handler[h].req
             current == handler[h].current
  <2>1. r \in accepted /\ InWindow(r.ts, current)
    BY <1>1 DEF AcceptsAgain, NonceInv
  <2>2. r \in Requests /\ current \in Nat
    BY <1>1 DEF AcceptsAgain, TypeOK, HandlerState, Idle
  <2>3. r.ts \in Nat /\ MaxSkew \in Nat /\ NonceRetention \in Nat /\ purgedAt \in Nat
    BY <1>1, <2>2, RequestAssumption, WindowAssumption DEF TypeOK
  <2>4. CommitNonce(r, current)
    BY <1>1, AcceptsCommits
  <2> SUFFICES ASSUME ~Overtaken(h) PROVE FALSE
    OBVIOUS
  <2>5. purgedAt <= current + (NonceRetention - 2 * MaxSkew) /\ current <= r.ts + MaxSkew
    BY <2>1, <2>2, <2>3 DEF Overtaken, InWindow
  <2> HIDE DEF r, current
  <2>6. r.ts + NonceRetention >= purgedAt + MaxSkew
    BY <2>2, <2>3, <2>5
  <2>7. PICK n \in nonces : n.nonce = r.nonce /\ r.ts <= n.seen + MaxSkew
    BY <1>1, <2>1, <2>6 DEF NonceInv
  <2>8. n.seen + NonceRetention >= current
    <3>1. n.seen \in Nat
      BY <1>1 DEF TypeOK
    <3> QED
      BY <2>2, <2>3, <2>5, <2>7, <3>1, WindowAssumption
  <2>9. n \in Kept(current)
    BY <2>8 DEF Kept
  <2> QED
    BY <2>4, <2>7, <2>9 DEF CommitNonce
<1>2. TypeOK /\ NonceInv /\ [Next]_vars => [\A h \in Handlers : AcceptsAgain(h) => Overtaken(h)]_vars
  BY <1>1
<1> QED
  BY <1>2, TypeCorrect, NoncesKept, PTL DEF Spec, RefusedUnlessOvertaken

-----------------------------------------------------------------------------
(* Alerts, messages and cases *)

\* No step drops or changes a case, or the alert and bytes of a message, and
\* none gives an alert a second case.
LEMMA TablesGrow ==
    ASSUME TypeOK, [Next]_vars
    PROVE  /\ \A c \in DOMAIN cases : c \in DOMAIN cases' /\ cases'[c] = cases[c]
           /\ OneCasePerAlert(cases) => OneCasePerAlert(cases')
           /\ \A i \in DOMAIN messages :
                /\ i \in DOMAIN messages'
                /\ messages'[i].alert = messages[i].alert
                /\ messages'[i].body = messages[i].body
<1> USE DEF TypeOK
<1>1. ASSUME NEW row \in CaseRow, cases' = Ingested(cases, row), UNCHANGED messages
      PROVE  /\ \A c \in DOMAIN cases : c \in DOMAIN cases' /\ cases'[c] = cases[c]
             /\ OneCasePerAlert(cases) => OneCasePerAlert(cases')
             /\ \A i \in DOMAIN messages : i \in DOMAIN messages' /\ messages'[i] = messages[i]
  BY <1>1, IngestedKeeps
<1>2. ASSUME NEW w \in Workers, OpenCase(w) \/ OpenFails(w)
      PROVE  \/ UNCHANGED <<cases, messages>>
             \/ CaseRowOf(w) \in CaseRow /\ cases' = Ingested(cases, CaseRowOf(w))
                /\ UNCHANGED messages
  <2>1. worker[w].msg \in DOMAIN messages
    BY <1>2 DEF OpenCase, OpenFails
  <2>2. messages[worker[w].msg] \in Message
    BY <2>1
  <2> QED
    BY <1>2, <2>2, ConfigAssumption DEF OpenCase, OpenFails, CaseRowOf, CaseRow, Message
<1>3. ASSUME NEW w \in Workers, LeaseDead(w) \/ Lease(w) \/ Complete(w) \/ Fail(w)
      PROVE  \A i \in DOMAIN messages : /\ i \in DOMAIN messages'
                                         /\ messages'[i].alert = messages[i].alert
                                         /\ messages'[i].body = messages[i].body
  BY <1>3, WorkUpdates, UpdateType
<1>4. ASSUME NEW h \in Handlers, EnqueueNew(h)
      PROVE  \A i \in DOMAIN messages : i \in DOMAIN messages' /\ messages'[i] = messages[i]
  <2>1. handler[h].req \in Requests
    BY <1>4 DEF EnqueueNew, HandlerState, Idle
  <2>2. PICK m \in Message : messages' = Append(messages, m)
    BY <1>4, <2>1, RequestAssumption DEF EnqueueNew, Message, MessageStates, NULL
  <2> QED
    BY <2>2, AppendProperties
<1>5. ASSUME NEW a \in Alerts, NEW s \in Configs, OtherIngest(a, s)
      PROVE  \E row \in CaseRow : cases' = Ingested(cases, row) /\ UNCHANGED messages
  BY <1>5 DEF OtherIngest, CaseRow
<1> QED
  BY <1>1, <1>2, <1>3, <1>4, <1>5
     DEF Next, Enqueue, Admit, EnqueueNew, EnqueueDuplicate, EnqueueRolledBack, Work, Begin,
         LeaseNone, LeaseDead, Lease, Complete, Fail, Crash, OtherIngest, Tick, vars

\* For every number of workers, crashes and expired leases: a case id, in a
\* row or in a worker's hands, is the one case of the right alert.
THEOREM CasesNameAlerts == Spec => []CaseNamesItsAlert
<1>1. Init => CaseNamesItsAlert
  BY DEF Init, CaseNamesItsAlert, OneCasePerAlert, Idle
<1>2. TypeOK /\ CaseNamesItsAlert /\ [Next]_vars => CaseNamesItsAlert'
  <2> SUFFICES ASSUME TypeOK, CaseNamesItsAlert, [Next]_vars PROVE CaseNamesItsAlert'
    OBVIOUS
  <2> USE DEF CasesFor
  <2> DEFINE RowOK(i) ==
               /\ messages[i].state = "complete" => messages[i].case # NULL
               /\ messages[i].case # NULL =>
                    messages[i].case \in CasesFor(cases, messages[i].alert)
             OpenOK(w) == worker[w].pc = "opened" =>
                    worker[w].case \in CasesFor(cases, messages[worker[w].msg].alert)
  <2>1. OneCasePerAlert(cases')
    BY TablesGrow DEF CaseNamesItsAlert
  <2>2. ASSUME NEW i \in DOMAIN messages, messages'[i].state = messages[i].state,
               messages'[i].case = messages[i].case
        PROVE  RowOK(i)'
    BY <2>2, TablesGrow DEF CaseNamesItsAlert
  <2>3. ASSUME NEW w \in Workers, worker'[w] = worker[w]
        PROVE  OpenOK(w)'
    <3>1. worker[w].pc = "opened" => worker[w].msg \in DOMAIN messages
      BY DEF TypeOK
    <3> QED
      BY <2>3, <3>1, TablesGrow DEF CaseNamesItsAlert
  <2>4. ASSUME NEW w \in Workers, LeaseDead(w) \/ Lease(w) \/ Complete(w) \/ Fail(w)
        PROVE  CaseNamesItsAlert'
    <3>1. PICK i \in DOMAIN messages, m \in Message :
            /\ Update(i, m)
            /\ m.alert = messages[i].alert
            /\ \/ m.case = messages[i].case /\ m.state # "complete"
               \/ worker[w].pc = "opened" /\ i = worker[w].msg /\ m.case = worker[w].case
      BY <2>4, WorkUpdates
    <3>2. /\ DOMAIN messages' = DOMAIN messages
          /\ \A j \in DOMAIN messages : messages'[j] = IF j = i THEN m ELSE messages[j]
      BY <3>1, UpdateType DEF TypeOK
    <3>3. UNCHANGED cases /\ DOMAIN cases = 1..Len(cases)
      BY <2>4, WorkLeavesRest DEF TypeOK
    <3>4. RowOK(i)'
      BY <3>1, <3>2, <3>3 DEF CaseNamesItsAlert, NULL
    <3>5. \A j \in DOMAIN messages' : RowOK(j)'
      BY <2>2, <3>2, <3>4
    <3>6. \A v \in Workers : worker'[v] = worker[v] \/ worker'[v].pc # "opened"
      BY <2>4, WorkLeavesRest
    <3> QED
      BY <2>1, <2>3, <3>5, <3>6 DEF CaseNamesItsAlert
  <2>5. ASSUME NEW w \in Workers, OpenCase(w)
        PROVE  CaseNamesItsAlert'
    <3>1. worker[w].msg \in DOMAIN messages
      BY <2>5 DEF OpenCase, TypeOK
    <3>2. OpenOK(w)'
      BY <2>5, <3>1 DEF OpenCase, CaseRowOf, TypeOK
    <3>3. \A v \in Workers : v = w \/ worker'[v] = worker[v]
      BY <2>5 DEF OpenCase, TypeOK
    <3>4. \A j \in DOMAIN messages' : RowOK(j)'
      BY <2>2, <2>5 DEF OpenCase
    <3> QED
      BY <2>1, <2>3, <3>2, <3>3, <3>4 DEF CaseNamesItsAlert
  <2>6. ASSUME NEW h \in Handlers, EnqueueNew(h)
        PROVE  CaseNamesItsAlert'
    <3>1. PICK m : messages' = Append(messages, m) /\ m.state = "pending" /\ m.case = NULL
      BY <2>6 DEF EnqueueNew
    <3>2. /\ DOMAIN messages = 1..Len(messages)
          /\ DOMAIN messages' = 1..(Len(messages) + 1)
          /\ \A j \in 1..Len(messages) : messages'[j] = messages[j]
          /\ messages'[Len(messages) + 1] = m
      BY <3>1 DEF TypeOK
    <3>3. \A j \in DOMAIN messages' : RowOK(j)'
      BY <2>2, <3>1, <3>2 DEF TypeOK
    <3>4. UNCHANGED worker
      BY <2>6 DEF EnqueueNew
    <3> QED
      BY <2>1, <2>3, <3>3, <3>4 DEF CaseNamesItsAlert
  <2>7. ASSUME UNCHANGED messages,
               \A w \in Workers : worker'[w] = worker[w] \/ worker'[w].pc # "opened"
        PROVE  CaseNamesItsAlert'
    BY <2>1, <2>2, <2>3, <2>7 DEF CaseNamesItsAlert
  <2>8. ASSUME NEW w \in Workers,
               Begin(w) \/ LeaseNone(w) \/ OpenFails(w) \/ Crash(w)
        PROVE  /\ UNCHANGED messages
               /\ \A v \in Workers : worker'[v] = worker[v] \/ worker'[v].pc # "opened"
    BY <2>8 DEF Begin, LeaseNone, OpenFails, Crash, Failed, Idle, TypeOK
  <2> QED
    BY <2>4, <2>5, <2>6, <2>7, <2>8
       DEF Next, Enqueue, Work, Admit, EnqueueDuplicate, EnqueueRolledBack, OtherIngest, Tick, vars
<1> QED
  BY <1>1, <1>2, TypeCorrect, PTL DEF Spec

-----------------------------------------------------------------------------
(* One customer, and nothing accepted is lost *)

\* Once bound, the database is never bound to another configuration, and no
\* call is under way before that: a call in progress therefore serves the
\* configuration it was bound with.
LEMMA CustomerStays ==
    ASSUME TypeOK, SingleCustomer, [Next]_vars
    PROVE  /\ SingleCustomer'
           /\ identity \in Configs => identity' = identity
<1> USE ConfigAssumption DEF TypeOK, SingleCustomer
<1>1. ASSUME NEW h \in Handlers, NEW r \in Requests, Admit(h, r)
      PROVE  SingleCustomer' /\ (identity \in Configs => identity' = identity)
  BY <1>1 DEF Admit, BindConfig
<1>2. ASSUME NEW w \in Workers, Begin(w)
      PROVE  SingleCustomer' /\ (identity \in Configs => identity' = identity)
  BY <1>2 DEF Begin, BindConfig
<1>3. ASSUME NEW h \in Handlers, handler[h] # Idle, handler' = [handler EXCEPT ![h] = Idle],
             UNCHANGED <<identity, worker>>
      PROVE  SingleCustomer'
  BY <1>3
<1>4. ASSUME NEW w \in Workers, worker[w] # Idle, UNCHANGED <<identity, handler>>,
             \A v \in Workers : v = w \/ worker'[v] = worker[v]
      PROVE  SingleCustomer'
  BY <1>4
<1>5. ASSUME NEW h \in Handlers,
             EnqueueNew(h) \/ EnqueueDuplicate(h) \/ EnqueueRolledBack(h)
      PROVE  /\ handler[h] # Idle /\ handler' = [handler EXCEPT ![h] = Idle]
             /\ UNCHANGED <<identity, worker>>
  BY <1>5 DEF EnqueueNew, EnqueueDuplicate, EnqueueRolledBack, Idle
<1>6. ASSUME NEW w \in Workers,
             \/ LeaseNone(w) \/ LeaseDead(w) \/ Lease(w) \/ OpenCase(w)
             \/ OpenFails(w) \/ Complete(w) \/ Fail(w) \/ Crash(w)
      PROVE  /\ worker[w] # Idle /\ UNCHANGED <<identity, handler>>
             /\ \A v \in Workers : v = w \/ worker'[v] = worker[v]
  <2>1. worker[w].pc # "idle"
    BY <1>6 DEF LeaseNone, LeaseDead, Lease, OpenCase, OpenFails, Complete, Fail, Crash
  <2>2. UNCHANGED <<identity, handler>>
    BY <1>6 DEF LeaseNone, LeaseDead, Lease, OpenCase, OpenFails, Complete, Fail, Crash
  <2>3. \E x : worker' = [worker EXCEPT ![w] = x]
    BY <1>6 DEF LeaseNone, LeaseDead, Lease, OpenCase, OpenFails, Complete, Fail, Crash
  <2> QED
    BY <2>1, <2>2, <2>3 DEF Idle
<1>7. ASSUME UNCHANGED <<identity, handler, worker>>
      PROVE  SingleCustomer'
  BY <1>7
<1> QED
  BY <1>1, <1>2, <1>3, <1>4, <1>5, <1>6, <1>7
     DEF Next, Enqueue, Work, OtherIngest, Tick, vars

\* A committed delivery adds its own request to those accepted, and no other
\* step adds any; the request is then in the inbox, and still the only row of
\* its alert.
LEMMA DeliveryQueued ==
    ASSUME TypeOK, AcceptedIsQueued, NEW h \in Handlers, EnqueueNew(h) \/ EnqueueDuplicate(h)
    PROVE  /\ accepted' = accepted \cup {handler[h].req}
           /\ \E i \in DOMAIN messages' : /\ messages'[i].alert = handler[h].req.alert
                                          /\ messages'[i].body = handler[h].req.body
           /\ \A i, j \in DOMAIN messages' : messages'[i].alert = messages'[j].alert => i = j
<1> DEFINE r == handler[h].req
<1>1. CASE EnqueueNew(h)
  <2>1. PICK m : /\ messages' = Append(messages, m)
                 /\ m.alert = r.alert /\ m.body = r.body
    BY <1>1 DEF EnqueueNew
  <2>2. /\ DOMAIN messages = 1..Len(messages) /\ Len(messages) \in Nat
        /\ DOMAIN messages' = 1..(Len(messages) + 1)
        /\ \A j \in 1..Len(messages) : messages'[j] = messages[j]
        /\ messages'[Len(messages) + 1] = m
    BY <2>1 DEF TypeOK
  <2>3. \A j \in DOMAIN messages : messages[j].alert # r.alert
    BY <1>1 DEF EnqueueNew, RowsFor
  <2>4. \A i, j \in DOMAIN messages' : messages'[i].alert = messages'[j].alert => i = j
    BY <2>1, <2>2, <2>3 DEF AcceptedIsQueued
  <2>5. accepted' = accepted \cup {r}
    BY <1>1 DEF EnqueueNew, CommitNonce
  <2> QED
    BY <2>1, <2>2, <2>4, <2>5
<1>2. CASE EnqueueDuplicate(h)
  BY <1>2 DEF EnqueueDuplicate, CommitNonce, RowsFor, SameBytes, AcceptedIsQueued
<1> QED
  BY <1>1, <1>2

\* For every number of threads, repeats and conflicting bodies: a request that
\* was answered with 202 stays in the inbox of its customer, under its bytes,
\* as the one row of its alert.
THEOREM IntakeIsKept == Spec => []IntakeKept
<1>1. Init => IntakeKept
  BY DEF Init, IntakeKept, SingleCustomer, AcceptedIsQueued
<1>2. TypeOK /\ IntakeKept /\ [Next]_vars => IntakeKept'
  <2> SUFFICES ASSUME TypeOK, SingleCustomer, AcceptedIsQueued, [Next]_vars PROVE IntakeKept'
    BY DEF IntakeKept
  <2>1. SingleCustomer'
    BY CustomerStays
  <2>2. ASSUME NEW r \in accepted
        PROVE  \E i \in DOMAIN messages' : messages'[i].alert = r.alert /\ messages'[i].body = r.body
    BY TablesGrow DEF AcceptedIsQueued, RowsFor
  <2>3. ASSUME NEW h \in Handlers, EnqueueNew(h) \/ EnqueueDuplicate(h)
        PROVE  AcceptedIsQueued'
    BY <2>2, <2>3, DeliveryQueued DEF AcceptedIsQueued, RowsFor
  <2>4. ASSUME UNCHANGED accepted, DOMAIN messages' = DOMAIN messages
        PROVE  AcceptedIsQueued'
    <3>1. \A i, j \in DOMAIN messages' : messages'[i].alert = messages'[j].alert => i = j
      BY <2>4, TablesGrow DEF AcceptedIsQueued
    <3> QED
      BY <2>2, <2>4, <3>1 DEF AcceptedIsQueued, RowsFor
  <2>5. ASSUME NEW w \in Workers, LeaseDead(w) \/ Lease(w) \/ Complete(w) \/ Fail(w)
        PROVE  UNCHANGED accepted /\ DOMAIN messages' = DOMAIN messages
    BY <2>5, WorkUpdates, WorkLeavesRest, UpdateType DEF TypeOK
  <2>6. AcceptedIsQueued'
    BY <2>3, <2>4, <2>5
       DEF Next, Enqueue, Work, Admit, EnqueueRolledBack, Begin, LeaseNone, OpenCase, OpenFails,
           Crash, OtherIngest, Tick, vars
  <2> QED
    BY <2>1, <2>6 DEF IntakeKept
<1> QED
  BY <1>1, <1>2, TypeCorrect, PTL DEF Spec

-----------------------------------------------------------------------------
(* A message is settled for cause *)

\* The budget is inductive only with what a worker remembers: the number of
\* attempts it read before its own is a lower bound of the row's count, even
\* after its lease has expired and others have worked on the message.
TriesCounted ==
    \A w \in Workers : worker[w].pc \in {"leased", "failed", "opened"} =>
        worker[w].tries + 1 <= messages[worker[w].msg].attempts

BudgetInv == RetryBudget /\ TriesCounted

\* A worker that holds a message keeps its hold on it until it lets go.
LEMMA HeldMessage ==
    ASSUME TypeOK, NEW w \in Workers, worker[w].pc \in {"leased", "failed", "opened"}
    PROVE  /\ worker[w].msg \in DOMAIN messages /\ worker[w].tries \in Nat
           /\ messages[worker[w].msg] \in Message
           /\ messages[worker[w].msg].attempts \in Nat
<1>1. worker[w].msg \in DOMAIN messages
  BY DEF TypeOK
<1>2. worker[w].tries \in Nat
  BY DEF TypeOK, WorkerState, Idle
<1>3. messages[worker[w].msg] \in Message
  BY <1>1 DEF TypeOK
<1> QED
  BY <1>1, <1>2, <1>3 DEF Message

\* No write to a message takes an attempt back, exceeds the budget, or marks
\* the message dead before the budget is spent.
LEMMA WorkCounts ==
    ASSUME TypeOK, BudgetInv, NEW w \in Workers,
           LeaseDead(w) \/ Lease(w) \/ Complete(w) \/ Fail(w)
    PROVE  /\ DOMAIN messages' = DOMAIN messages
           /\ \A i \in DOMAIN messages :
                /\ messages[i].attempts \in Nat /\ messages'[i].attempts \in Nat
                /\ messages[i].attempts <= messages'[i].attempts
                /\ messages'[i].attempts <= MaxAttempts
                /\ messages'[i].state = "dead" => messages'[i].attempts = MaxAttempts
<1> DEFINE Good(i, m) == /\ m.attempts \in Nat /\ messages[i].attempts <= m.attempts
                         /\ m.attempts <= MaxAttempts
                         /\ m.state = "dead" => m.attempts = MaxAttempts
<1>1. \A i \in DOMAIN messages : messages[i] \in Message /\ messages[i].attempts \in Nat
  <2>1. \A i \in DOMAIN messages : messages[i] \in Message
    BY DEF TypeOK
  <2> QED
    BY <2>1 DEF Message
<1>2. MaxAttempts \in Nat \ {0}
  BY LeaseAssumption
<1>3. \A i \in DOMAIN messages : Good(i, messages[i])
  BY <1>1, <1>2 DEF BudgetInv, RetryBudget
<1>4. ASSUME NEW i \in DOMAIN messages, NEW m, Update(i, m), Good(i, m)
      PROVE  /\ DOMAIN messages' = DOMAIN messages
             /\ \A j \in DOMAIN messages : Good(j, messages'[j])
  <2>1. messages' = [messages EXCEPT ![i] = m]
    BY <1>4 DEF Update
  <2>2. /\ DOMAIN messages' = DOMAIN messages
        /\ \A j \in DOMAIN messages : messages'[j] = IF j = i THEN m ELSE messages[j]
    BY <2>1
  <2> QED
    BY <1>3, <1>4, <2>2
<1>5. \E i \in DOMAIN messages : \E m : Update(i, m) /\ Good(i, m)
  <2>1. CASE LeaseDead(w)
    <3>1. PICK i \in DOMAIN messages : /\ Exhausted(messages[i])
                                       /\ Update(i, Released(messages[i], "dead"))
      BY <2>1 DEF LeaseDead
    <3>2. Good(i, Released(messages[i], "dead"))
      BY <1>1, <1>2, <1>3, <3>1 DEF Exhausted, Released, Message
    <3> QED
      BY <3>1, <3>2
  <2>2. CASE Lease(w)
    <3> DEFINE Leased(i) == [messages[i] EXCEPT !.state = "leased", !.attempts = @ + 1,
                                                !.lease = worker[w].current + LeaseLen]
    <3>1. PICK i \in DOMAIN messages : ~Exhausted(messages[i]) /\ Update(i, Leased(i))
      BY <2>2 DEF Lease
    <3>2. messages[i] \in Message
      BY <1>1
    <3>3. Leased(i).state = "leased" /\ Leased(i).attempts = messages[i].attempts + 1
      BY <3>2 DEF Message
    <3>4. Good(i, Leased(i))
      BY <1>1, <1>2, <3>1, <3>3 DEF Exhausted
    <3> QED
      BY <3>1, <3>4
  <2>3. CASE Complete(w)
    <3> DEFINE i == worker[w].msg
               done == [Released(messages[i], "complete") EXCEPT !.case = worker[w].case]
    <3>1. i \in DOMAIN messages /\ messages[i] \in Message
      BY <2>3, HeldMessage DEF Complete
    <3>2. done.state = "complete" /\ done.attempts = messages[i].attempts
      BY <3>1 DEF Released, Message
    <3> QED
      BY <1>3, <2>3, <3>1, <3>2 DEF Complete
  <2>4. CASE Fail(w)
    <3> DEFINE i == worker[w].msg
               undone == Released(messages[i], AfterFailure(worker[w].tries))
    <3>1. /\ i \in DOMAIN messages /\ messages[i] \in Message
          /\ worker[w].tries \in Nat /\ worker[w].tries + 1 <= messages[i].attempts
      BY <2>4, HeldMessage DEF Fail, BudgetInv, TriesCounted
    <3>2. /\ undone.state = AfterFailure(worker[w].tries)
          /\ undone.attempts = messages[i].attempts
      BY <3>1 DEF Released, Message
    <3>3. Good(i, undone)
      BY <1>1, <1>2, <1>3, <3>1, <3>2 DEF AfterFailure
    <3> QED
      BY <2>4, <3>1, <3>3 DEF Fail
  <2> QED
    BY <2>1, <2>2, <2>3, <2>4
<1> QED
  BY <1>1, <1>4, <1>5

\* The steps of a worker that change what it holds: it lets go, takes a
\* message and remembers the count before its own, or keeps both.
LEMMA WorkerHolds ==
    ASSUME TypeOK, NEW w \in Workers, Work(w) \/ Crash(w), NEW v \in Workers
    PROVE  \/ worker'[v] = worker[v]
           \/ worker'[v].pc \notin {"leased", "failed", "opened"}
           \/ /\ worker[v].pc \in {"leased", "failed", "opened"}
              /\ worker'[v].msg = worker[v].msg /\ worker'[v].tries = worker[v].tries
           \/ /\ worker'[v].msg \in DOMAIN messages
              /\ messages'[worker'[v].msg].attempts = messages[worker'[v].msg].attempts + 1
              /\ worker'[v].tries = messages[worker'[v].msg].attempts
<1>1. CASE Lease(w)
  <2> DEFINE Leased(i) == [messages[i] EXCEPT !.state = "leased", !.attempts = @ + 1,
                                              !.lease = worker[w].current + LeaseLen]
  <2>1. PICK i \in DOMAIN messages :
          /\ Update(i, Leased(i))
          /\ worker' = [worker EXCEPT ![w] =
                          [pc |-> "leased", msg |-> i, tries |-> messages[i].attempts]]
    BY <1>1 DEF Lease
  <2>2. messages[i] \in Message
    BY DEF TypeOK
  <2>3. Leased(i).attempts = messages[i].attempts + 1
    BY <2>2 DEF Message
  <2>4. messages'[i] = Leased(i)
    BY <2>1 DEF Update
  <2> QED
    BY <2>1, <2>3, <2>4 DEF TypeOK
<1>2. CASE OpenCase(w)
  <2>1. PICK c : worker' = [worker EXCEPT ![w] = [pc |-> "opened", msg |-> worker[w].msg,
                                                  tries |-> worker[w].tries, case |-> c]]
    BY <1>2 DEF OpenCase
  <2> QED
    BY <1>2, <2>1 DEF OpenCase, TypeOK
<1>3. CASE OpenFails(w)
  BY <1>3 DEF OpenFails, Failed, TypeOK
<1>4. CASE Begin(w)
  BY <1>4 DEF Begin, TypeOK
<1>5. CASE LeaseNone(w) \/ LeaseDead(w) \/ Complete(w) \/ Fail(w) \/ Crash(w)
  BY <1>5 DEF LeaseNone, LeaseDead, Complete, Fail, Crash, Idle, TypeOK
<1> QED
  BY <1>1, <1>2, <1>3, <1>4, <1>5 DEF Work

\* The budget and the workers' memory of it are kept by every step.
LEMMA BudgetKept ==
    ASSUME TypeOK, BudgetInv, [Next]_vars
    PROVE  BudgetInv'
<1>1. ASSUME NEW w \in Workers, worker'[w].pc \in {"leased", "failed", "opened"},
             \/ worker'[w] = worker[w]
             \/ /\ worker[w].pc \in {"leased", "failed", "opened"}
                /\ worker'[w].msg = worker[w].msg /\ worker'[w].tries = worker[w].tries,
             \A i \in DOMAIN messages :
               /\ messages[i].attempts \in Nat /\ messages'[i].attempts \in Nat
               /\ messages[i].attempts <= messages'[i].attempts
      PROVE  worker'[w].tries + 1 <= messages'[worker'[w].msg].attempts
  <2>1. worker[w].pc \in {"leased", "failed", "opened"}
    BY <1>1
  <2>2. worker'[w].msg = worker[w].msg /\ worker'[w].tries = worker[w].tries
    BY <1>1
  <2>3. /\ worker[w].msg \in DOMAIN messages /\ worker[w].tries \in Nat
        /\ worker[w].tries + 1 <= messages[worker[w].msg].attempts
    BY <2>1, HeldMessage DEF BudgetInv, TriesCounted
  <2> QED
    BY <1>1, <2>2, <2>3
<1>2. \A i \in DOMAIN messages : messages[i] \in Message /\ messages[i].attempts \in Nat
  <2>1. \A i \in DOMAIN messages : messages[i] \in Message
    BY DEF TypeOK
  <2> QED
    BY <2>1 DEF Message
<1>3. ASSUME UNCHANGED messages,
             \A w \in Workers :
               \/ worker'[w] = worker[w]
               \/ worker'[w].pc \notin {"leased", "failed", "opened"}
               \/ /\ worker[w].pc \in {"leased", "failed", "opened"}
                  /\ worker'[w].msg = worker[w].msg /\ worker'[w].tries = worker[w].tries
      PROVE  BudgetInv'
  <2>1. \A i \in DOMAIN messages :
           /\ messages[i].attempts \in Nat /\ messages'[i].attempts \in Nat
           /\ messages[i].attempts <= messages'[i].attempts
    BY <1>2, <1>3
  <2>2. TriesCounted'
    BY <1>1, <1>3, <2>1 DEF TriesCounted
  <2> QED
    BY <1>3, <2>2 DEF BudgetInv, RetryBudget
<1>4. ASSUME NEW w \in Workers, LeaseDead(w) \/ Lease(w) \/ Complete(w) \/ Fail(w)
      PROVE  BudgetInv'
  <2>1. RetryBudget'
    BY <1>4, WorkCounts DEF RetryBudget
  <2>2. ASSUME NEW v \in Workers, worker'[v].pc \in {"leased", "failed", "opened"}
        PROVE  worker'[v].tries + 1 <= messages'[worker'[v].msg].attempts
    <3>1. \A i \in DOMAIN messages :
             /\ messages[i].attempts \in Nat /\ messages'[i].attempts \in Nat
             /\ messages[i].attempts <= messages'[i].attempts
      BY <1>4, WorkCounts
    <3>2. CASE /\ worker'[v].msg \in DOMAIN messages
               /\ messages'[worker'[v].msg].attempts = messages[worker'[v].msg].attempts + 1
               /\ worker'[v].tries = messages[worker'[v].msg].attempts
      BY <1>2, <3>2
    <3>3. CASE \/ worker'[v] = worker[v]
               \/ /\ worker[v].pc \in {"leased", "failed", "opened"}
                  /\ worker'[v].msg = worker[v].msg /\ worker'[v].tries = worker[v].tries
      BY <1>1, <2>2, <3>1, <3>3
    <3> QED
      BY <1>4, <2>2, <3>2, <3>3, WorkerHolds DEF Work
  <2> QED
    BY <2>1, <2>2 DEF BudgetInv, TriesCounted
<1>5. ASSUME NEW w \in Workers,
             Begin(w) \/ LeaseNone(w) \/ OpenCase(w) \/ OpenFails(w) \/ Crash(w)
      PROVE  BudgetInv'
  <2>1. UNCHANGED messages
    BY <1>5 DEF Begin, LeaseNone, OpenCase, OpenFails, Crash
  <2>2. \A i \in DOMAIN messages : messages'[i].attempts # messages[i].attempts + 1
    BY <1>2, <2>1
  <2>3. \A v \in Workers :
               \/ worker'[v] = worker[v]
               \/ worker'[v].pc \notin {"leased", "failed", "opened"}
               \/ /\ worker[v].pc \in {"leased", "failed", "opened"}
                  /\ worker'[v].msg = worker[v].msg /\ worker'[v].tries = worker[v].tries
    BY <1>5, <2>2, WorkerHolds DEF Work
  <2> QED
    BY <1>3, <2>1, <2>3
<1>6. ASSUME NEW h \in Handlers, EnqueueNew(h)
      PROVE  BudgetInv'
  <2>1. PICK m : /\ messages' = Append(messages, m)
                 /\ m.attempts = 0 /\ m.state = "pending"
    BY <1>6 DEF EnqueueNew
  <2>2. /\ DOMAIN messages = 1..Len(messages) /\ Len(messages) \in Nat
        /\ DOMAIN messages' = 1..(Len(messages) + 1)
        /\ \A j \in 1..Len(messages) : messages'[j] = messages[j]
        /\ messages'[Len(messages) + 1] = m
    BY <2>1 DEF TypeOK
  <2>3. RetryBudget'
    BY <2>1, <2>2, LeaseAssumption DEF BudgetInv, RetryBudget
  <2>4. \A i \in DOMAIN messages :
           /\ messages[i].attempts \in Nat /\ messages'[i].attempts \in Nat
           /\ messages[i].attempts <= messages'[i].attempts
    BY <1>2, <2>2
  <2>5. UNCHANGED worker
    BY <1>6 DEF EnqueueNew
  <2>6. TriesCounted'
    BY <1>1, <2>4, <2>5 DEF TriesCounted
  <2> QED
    BY <2>3, <2>6 DEF BudgetInv
<1>7. ASSUME UNCHANGED <<messages, worker>>
      PROVE  BudgetInv'
  BY <1>3, <1>7
<1> QED
  BY <1>4, <1>5, <1>6, <1>7
     DEF Next, Enqueue, Admit, EnqueueDuplicate, EnqueueRolledBack, Work, OtherIngest, Tick, vars

\* A case that a worker was given is of the worker's own customer.
OpenedInScope ==
    \A w \in Workers : worker[w].pc = "opened" => cases[worker[w].case].scope = ConfigOf[w]

ScopeInv == CompletedInScope /\ OpenedInScope

\* `ingest` refuses a case of another scope, cases never change, and the
\* database stays with its customer: so no case of another scope gets into a
\* worker's hands or into the inbox.
LEMMA ScopeKept ==
    ASSUME TypeOK, SingleCustomer, CaseNamesItsAlert, ScopeInv, [Next]_vars
    PROVE  ScopeInv'
<1>1. \A c \in DOMAIN cases : c \in DOMAIN cases' /\ cases'[c] = cases[c]
  BY TablesGrow
<1>2. ASSUME NEW i \in DOMAIN messages, messages[i].case # NULL
      PROVE  cases'[messages[i].case].scope = identity'
  <2>1. messages[i].case \in DOMAIN cases
    BY <1>2 DEF CaseNamesItsAlert, CasesFor
  <2>2. cases[messages[i].case] \in CaseRow
    BY <2>1 DEF TypeOK
  <2>3. cases[messages[i].case].scope = identity /\ identity \in Configs
    BY <1>2, <2>2 DEF ScopeInv, CompletedInScope, CaseRow
  <2> QED
    BY <1>1, <2>1, <2>3, CustomerStays
<1>3. ASSUME NEW w \in Workers, worker'[w] = worker[w], worker[w].pc = "opened"
      PROVE  cases'[worker'[w].case].scope = ConfigOf[w]
  <2>1. worker[w].case \in DOMAIN cases
    BY <1>3 DEF CaseNamesItsAlert, CasesFor
  <2> QED
    BY <1>1, <1>3, <2>1 DEF ScopeInv, OpenedInScope
<1>4. ASSUME \A w \in Workers : worker'[w] = worker[w] \/ worker'[w].pc # "opened"
      PROVE  OpenedInScope'
  BY <1>3, <1>4 DEF OpenedInScope
<1>5. ASSUME \A i \in DOMAIN messages' :
               \/ messages'[i].case = NULL
               \/ i \in DOMAIN messages /\ messages'[i].case = messages[i].case
      PROVE  CompletedInScope'
  BY <1>2, <1>5 DEF CompletedInScope
<1>6. ASSUME NEW w \in Workers, LeaseDead(w) \/ Lease(w) \/ Complete(w) \/ Fail(w)
      PROVE  ScopeInv'
  <2>1. PICK i \in DOMAIN messages, m \in Message :
          /\ Update(i, m)
          /\ \/ m.case = messages[i].case
             \/ worker[w].pc = "opened" /\ m.case = worker[w].case
    BY <1>6, WorkUpdates
  <2>2. /\ DOMAIN messages' = DOMAIN messages
        /\ \A j \in DOMAIN messages : messages'[j] = IF j = i THEN m ELSE messages[j]
    BY <2>1, UpdateType DEF TypeOK
  <2>3. UNCHANGED <<cases, identity>>
    BY <1>6, WorkLeavesRest
  <2>4. ASSUME worker[w].pc = "opened" PROVE cases[worker[w].case].scope = identity
    <3>1. worker[w] # Idle
      BY <2>4 DEF Idle
    <3> QED
      BY <2>4, <3>1 DEF SingleCustomer, ScopeInv, OpenedInScope
  <2>5. CompletedInScope'
    BY <1>2, <2>1, <2>2, <2>3, <2>4 DEF CompletedInScope
  <2>6. OpenedInScope'
    BY <1>4, <1>6, WorkLeavesRest
  <2> QED
    BY <2>5, <2>6 DEF ScopeInv
<1>7. ASSUME NEW w \in Workers, OpenCase(w)
      PROVE  ScopeInv'
  <2>1. /\ worker[w].pc = "leased" /\ ScopeAgrees(cases, CaseRowOf(w))
        /\ cases' = Ingested(cases, CaseRowOf(w)) /\ UNCHANGED messages
    BY <1>7 DEF OpenCase
  <2>2. CaseRowOf(w) \in CaseRow
    BY <2>1, HeldMessage, ConfigAssumption DEF CaseRowOf, CaseRow, Message
  <2>3. PICK c \in CasesFor(cases', CaseRowOf(w).alert) :
          worker' = [worker EXCEPT ![w] = [pc |-> "opened", msg |-> worker[w].msg,
                                           tries |-> worker[w].tries, case |-> c]]
    BY <1>7 DEF OpenCase
  <2>4. cases'[c].scope = CaseRowOf(w).scope
    BY <2>1, <2>2, <2>3, IngestedKeeps DEF TypeOK
  <2>5. cases'[worker'[w].case].scope = ConfigOf[w]
    BY <2>3, <2>4 DEF CaseRowOf, TypeOK
  <2>6. \A v \in Workers : v = w \/ worker'[v] = worker[v]
    BY <2>3 DEF TypeOK
  <2>7. OpenedInScope'
    BY <1>3, <2>5, <2>6 DEF OpenedInScope
  <2> QED
    BY <1>5, <2>1, <2>7 DEF ScopeInv
<1>8. ASSUME NEW h \in Handlers, EnqueueNew(h)
      PROVE  ScopeInv'
  <2>1. PICK m : messages' = Append(messages, m) /\ m.case = NULL
    BY <1>8 DEF EnqueueNew
  <2>2. /\ DOMAIN messages = 1..Len(messages) /\ Len(messages) \in Nat
        /\ DOMAIN messages' = 1..(Len(messages) + 1)
        /\ \A j \in 1..Len(messages) : messages'[j] = messages[j]
        /\ messages'[Len(messages) + 1] = m
    BY <2>1 DEF TypeOK
  <2>3. CompletedInScope'
    <3>1. ASSUME NEW i \in DOMAIN messages'
          PROVE  \/ messages'[i].case = NULL
                 \/ i \in DOMAIN messages /\ messages'[i].case = messages[i].case
      BY <2>1, <2>2
    <3> QED
      BY <1>5, <3>1
  <2>4. UNCHANGED worker
    BY <1>8 DEF EnqueueNew
  <2> QED
    BY <1>4, <2>3, <2>4 DEF ScopeInv
<1>9. ASSUME UNCHANGED messages,
             \A w \in Workers : worker'[w] = worker[w] \/ worker'[w].pc # "opened"
      PROVE  ScopeInv'
  BY <1>4, <1>5, <1>9 DEF ScopeInv
<1>10. ASSUME NEW w \in Workers, Begin(w) \/ LeaseNone(w) \/ OpenFails(w) \/ Crash(w)
       PROVE  /\ UNCHANGED messages
              /\ \A v \in Workers : worker'[v] = worker[v] \/ worker'[v].pc # "opened"
  BY <1>10 DEF Begin, LeaseNone, OpenFails, Crash, Failed, Idle, TypeOK
<1> QED
  BY <1>6, <1>7, <1>8, <1>9, <1>10
     DEF Next, Enqueue, Admit, EnqueueDuplicate, EnqueueRolledBack, Work, OtherIngest, Tick, vars

\* However leases expire and workers crash, fail or come back late: a message
\* is reported only with a case of the database's own customer, and given up
\* only when exactly its whole budget is spent.
THEOREM MessagesSettleForCause == Spec => []SettledForCause
<1> DEFINE SettleInv == BudgetInv /\ ScopeInv
<1>1. Init => SettleInv
  BY DEF Init, BudgetInv, RetryBudget, TriesCounted, ScopeInv, CompletedInScope, OpenedInScope, Idle
<1>2. /\ TypeOK /\ IntakeKept /\ CaseNamesItsAlert /\ SettleInv
      /\ [Next]_vars
      => SettleInv'
  BY BudgetKept, ScopeKept DEF IntakeKept
<1>3. SettleInv => SettledForCause
  BY DEF BudgetInv, ScopeInv, SettledForCause
<1> HIDE DEF SettleInv
<1> QED
  BY <1>1, <1>2, <1>3, TypeCorrect, IntakeIsKept, CasesNameAlerts, PTL DEF Spec
-----------------------------------------------------------------------------
(* The refinement of AlertIntake *)

OneRowPerAlert(rows) == \A i, j \in DOMAIN rows : rows[i].alert = rows[j].alert => i = j

\* Where an alert is in one row, that row is what is recorded of it.
LEMMA TakenRow ==
    ASSUME NEW rows, OneRowPerAlert(rows)
    PROVE  /\ \A a : a \in DOMAIN Taken(rows) <=> \E i \in DOMAIN rows : rows[i].alert = a
           /\ \A i \in DOMAIN rows :
                Taken(rows)[rows[i].alert] = [body |-> rows[i].body, case |-> rows[i].case]
<1>1. \A a : a \in DOMAIN Taken(rows) <=> \E i \in DOMAIN rows : rows[i].alert = a
  BY DEF Taken
<1>2. ASSUME NEW i \in DOMAIN rows
      PROVE  Taken(rows)[rows[i].alert] = [body |-> rows[i].body, case |-> rows[i].case]
  <2>1. (CHOOSE j \in DOMAIN rows : rows[j].alert = rows[i].alert) = i
    BY DEF OneRowPerAlert
  <2> QED
    BY <2>1 DEF Taken
<1> QED
  BY <1>1, <1>2

\* If one row is new or rewritten, and all others say what they said, then that
\* alert's record is written and no other.
LEMMA TakenWritten ==
    ASSUME NEW old, NEW new, OneRowPerAlert(old), OneRowPerAlert(new),
           DOMAIN old \subseteq DOMAIN new,
           NEW k \in DOMAIN new, k \in DOMAIN old => new[k].alert = old[k].alert,
           \A i \in DOMAIN new \ {k} :
             /\ i \in DOMAIN old
             /\ new[i].alert = old[i].alert /\ new[i].body = old[i].body
             /\ new[i].case = old[i].case
    PROVE  Taken(new) =
             [a \in DOMAIN Taken(old) \cup {new[k].alert} |->
                IF a = new[k].alert THEN [body |-> new[k].body, case |-> new[k].case]
                ELSE Taken(old)[a]]
<1> DEFINE seen == [a \in DOMAIN Taken(old) \cup {new[k].alert} |->
                      IF a = new[k].alert THEN [body |-> new[k].body, case |-> new[k].case]
                      ELSE Taken(old)[a]]
<1>1. \A a : a \in DOMAIN seen <=> a \in DOMAIN Taken(new)
  <2>1. \A a : a \in DOMAIN Taken(new) <=> \E i \in DOMAIN new : new[i].alert = a
    BY TakenRow
  <2>2. \A a : a \in DOMAIN Taken(old) <=> \E i \in DOMAIN old : old[i].alert = a
    BY TakenRow
  <2>3. \A i \in DOMAIN old : i \in DOMAIN new /\ new[i].alert = old[i].alert
    OBVIOUS
  <2>4. \A i \in DOMAIN new : i = k \/ (i \in DOMAIN old /\ new[i].alert = old[i].alert)
    OBVIOUS
  <2> QED
    BY <2>1, <2>2, <2>3, <2>4
<1>2. ASSUME NEW a \in DOMAIN Taken(new)
      PROVE  seen[a] = Taken(new)[a]
  <2>1. PICK i \in DOMAIN new : new[i].alert = a
    BY TakenRow
  <2>2. Taken(new)[a] = [body |-> new[i].body, case |-> new[i].case]
    BY <2>1, TakenRow
  <2>3. CASE i = k
    BY <1>1, <2>1, <2>2, <2>3
  <2>4. CASE i # k
    <3>1. a # new[k].alert
      BY <2>1, <2>4 DEF OneRowPerAlert
    <3>2. Taken(old)[a] = [body |-> old[i].body, case |-> old[i].case]
      BY <2>1, <2>4, TakenRow
    <3> QED
      BY <1>1, <2>1, <2>2, <2>4, <3>1, <3>2
  <2> QED
    BY <2>3, <2>4
<1>3. Taken(new) = [a \in DOMAIN Taken(new) |-> Taken(new)[a]]
  BY DEF Taken
<1> QED
  BY <1>1, <1>2, <1>3

\* If every row says what it said, the record is unchanged.
LEMMA TakenSame ==
    ASSUME NEW old, NEW new, OneRowPerAlert(old), OneRowPerAlert(new),
           DOMAIN new = DOMAIN old,
           \A i \in DOMAIN new : /\ new[i].alert = old[i].alert /\ new[i].body = old[i].body
                                 /\ new[i].case = old[i].case
    PROVE  Taken(new) = Taken(old)
<1>1. \A a : a \in DOMAIN Taken(new) <=> a \in DOMAIN Taken(old)
  <2>1. \A a : a \in DOMAIN Taken(new) <=> \E i \in DOMAIN new : new[i].alert = a
    BY TakenRow
  <2>2. \A a : a \in DOMAIN Taken(old) <=> \E i \in DOMAIN old : old[i].alert = a
    BY TakenRow
  <2> QED
    BY <2>1, <2>2
<1>2. ASSUME NEW a \in DOMAIN Taken(new)
      PROVE  Taken(new)[a] = Taken(old)[a]
  <2>1. PICK i \in DOMAIN new : new[i].alert = a
    BY TakenRow
  <2>2. Taken(new)[a] = [body |-> new[i].body, case |-> new[i].case]
    BY <2>1, TakenRow
  <2>3. i \in DOMAIN old /\ old[i].alert = a
    BY <2>1
  <2>4. Taken(old)[a] = [body |-> old[i].body, case |-> old[i].case]
    BY <2>3, TakenRow
  <2> QED
    BY <2>1, <2>2, <2>4
<1>3. /\ Taken(new) = [a \in DOMAIN Taken(new) |-> Taken(new)[a]]
      /\ Taken(old) = [a \in DOMAIN Taken(old) |-> Taken(old)[a]]
  BY DEF Taken
<1> QED
  BY <1>1, <1>2, <1>3

IntakeInv == TypeOK /\ IntakeKept /\ CaseNamesItsAlert /\ ScopeInv

\* Whoever is at work has bound the database to its customer.
LEMMA OwnerAtWork ==
    ASSUME IntakeInv
    PROVE  /\ \A h \in Handlers : handler[h].pc = "admitted" => identity # NoConfig
           /\ \A w \in Workers : worker[w].pc = "opened" =>
                identity # NoConfig /\ cases[worker[w].case].scope = identity
<1>1. ASSUME NEW h \in Handlers, handler[h].pc = "admitted"
      PROVE  identity # NoConfig
  <2>1. handler[h] # Idle
    BY <1>1 DEF Idle
  <2> QED
    BY <2>1, ConfigAssumption DEF IntakeInv, IntakeKept, SingleCustomer
<1>2. ASSUME NEW w \in Workers, worker[w].pc = "opened"
      PROVE  identity # NoConfig /\ cases[worker[w].case].scope = identity
  <2>1. worker[w] # Idle
    BY <1>2 DEF Idle
  <2> QED
    BY <1>2, <2>1, ConfigAssumption
       DEF IntakeInv, IntakeKept, SingleCustomer, ScopeInv, OpenedInScope
<1> QED
  BY <1>1, <1>2

\* A transaction of `ingest` opens the alert's case or finds it.
LEMMA IngestIsOpen ==
    ASSUME NEW row \in CaseRow, cases' = Ingested(cases, row), UNCHANGED <<identity, messages>>
    PROVE  [Intake!Next]_(Intake!vars)
<1>1. row.alert \in Alerts /\ row.scope \in Configs
      /\ row = [alert |-> row.alert, scope |-> row.scope]
  BY DEF CaseRow
<1>2. CASE CasesFor(cases, row.alert) = {}
  <2>1. Intake!Open(row.alert, row.scope)
    BY <1>1, <1>2 DEF Intake!Open, Ingested, CasesFor
  <2> QED
    BY <1>1, <2>1 DEF Intake!Next
<1>3. CASE CasesFor(cases, row.alert) # {}
  BY <1>3 DEF Ingested, Intake!vars
<1> QED
  BY <1>2, <1>3

\* A worker's write to the inbox binds the alert, or changes nothing recorded.
LEMMA WorkIsBind ==
    ASSUME IntakeInv, IntakeInv', NEW w \in Workers,
           LeaseDead(w) \/ Lease(w) \/ Complete(w) \/ Fail(w)
    PROVE  [Intake!Next]_(Intake!vars)
<1>1. PICK i \in DOMAIN messages, m \in Message :
        /\ Update(i, m)
        /\ m.alert = messages[i].alert /\ m.body = messages[i].body
        /\ \/ m.case = messages[i].case
           \/ worker[w].pc = "opened" /\ i = worker[w].msg /\ m.case = worker[w].case
  BY WorkUpdates DEF IntakeInv
<1>2. /\ DOMAIN messages' = DOMAIN messages
      /\ \A j \in DOMAIN messages : messages'[j] = IF j = i THEN m ELSE messages[j]
  BY <1>1, UpdateType DEF IntakeInv, TypeOK
<1>3. UNCHANGED <<identity, cases>>
  BY WorkLeavesRest DEF IntakeInv
<1>4. OneRowPerAlert(messages) /\ OneRowPerAlert(messages')
  BY DEF IntakeInv, IntakeKept, AcceptedIsQueued, OneRowPerAlert
<1>5. CASE m.case = messages[i].case
  <2>1. \A j \in DOMAIN messages' : /\ messages'[j].alert = messages[j].alert
                                    /\ messages'[j].body = messages[j].body
                                    /\ messages'[j].case = messages[j].case
    BY <1>1, <1>2, <1>5
  <2>2. Taken(messages') = Taken(messages)
    BY <1>2, <1>4, <2>1, TakenSame
  <2> QED
    BY <1>3, <2>2 DEF Intake!vars, Taken
<1>6. CASE /\ worker[w].pc = "opened" /\ i = worker[w].msg
           /\ m.case = worker[w].case /\ m.case # messages[i].case
  <2> DEFINE a == messages[i].alert
             row == [body |-> messages[i].body, case |-> messages[i].case]
  <2>1. m.case \in CasesFor(cases, a) /\ cases[m.case].scope = identity
    BY <1>6, OwnerAtWork DEF IntakeInv, CaseNamesItsAlert
  <2>2. messages[i].case = NULL
    BY <1>6, <2>1 DEF IntakeInv, CaseNamesItsAlert, OneCasePerAlert, CasesFor
  <2>3. m.case \in DOMAIN cases /\ cases[m.case] = [alert |-> a, scope |-> identity]
    <3>1. m.case \in DOMAIN cases /\ cases[m.case].alert = a
      BY <2>1 DEF CasesFor
    <3>2. cases[m.case] \in CaseRow
      BY <3>1 DEF IntakeInv, TypeOK
    <3> QED
      BY <2>1, <3>1, <3>2 DEF CaseRow
  <2>4. a \in DOMAIN Taken(messages) /\ Taken(messages)[a] = row
    BY <1>4, TakenRow
  <2>5. /\ messages'[i].alert = a /\ messages'[i].body = messages[i].body
        /\ messages'[i].case = m.case
    BY <1>1, <1>2
  <2>6. Taken(messages') = [x \in DOMAIN Taken(messages) \cup {a} |->
                              IF x = a THEN [body |-> messages[i].body, case |-> m.case]
                              ELSE Taken(messages)[x]]
    <3>1. \A j \in DOMAIN messages' \ {i} :
            /\ j \in DOMAIN messages
            /\ messages'[j].alert = messages[j].alert /\ messages'[j].body = messages[j].body
            /\ messages'[j].case = messages[j].case
      BY <1>2
    <3> QED
      BY <1>2, <1>4, <2>5, <3>1, TakenWritten
  <2>7. [body |-> messages[i].body, case |-> m.case] = [Taken(messages)[a] EXCEPT !.case = m.case]
    BY <2>4
  <2>8. Intake!Bind(a)
    <3>1. Taken(messages)' = Taken(messages')
      BY DEF Taken
    <3> QED
      BY <1>3, <2>2, <2>3, <2>4, <2>6, <2>7, <3>1
         DEF Intake!Bind, Intake!Write, Intake!Unbound, NULL
  <2>9. a \in Alerts
    <3>1. messages[i] \in Message
      BY DEF IntakeInv, TypeOK
    <3> QED
      BY <3>1 DEF Message
  <2> QED
    BY <2>8, <2>9 DEF Intake!Next
<1> QED
  BY <1>1, <1>5, <1>6

\* A first delivery takes the alert.
LEMMA EnqueueIsTake ==
    ASSUME IntakeInv, IntakeInv', NEW h \in Handlers, EnqueueNew(h)
    PROVE  [Intake!Next]_(Intake!vars)
<1> DEFINE r == handler[h].req
           n == Len(messages) + 1
<1>1. r.alert \in Alerts /\ r.body \in Bodies
  <2>1. r \in Requests
    BY DEF EnqueueNew, IntakeInv, TypeOK, HandlerState, Idle
  <2> QED
    BY <2>1, RequestAssumption
<1>2. /\ DOMAIN messages = 1..Len(messages) /\ Len(messages) \in Nat
      /\ DOMAIN messages' = 1..n
      /\ \A j \in 1..Len(messages) : messages'[j] = messages[j]
      /\ messages'[n].alert = r.alert /\ messages'[n].body = r.body
      /\ messages'[n].case = NULL
  BY DEF EnqueueNew, IntakeInv, TypeOK
<1>3. OneRowPerAlert(messages) /\ OneRowPerAlert(messages')
  BY DEF IntakeInv, IntakeKept, AcceptedIsQueued, OneRowPerAlert
<1>4. r.alert \notin DOMAIN Taken(messages)
  BY <1>3, TakenRow DEF EnqueueNew, RowsFor
<1>5. n \in DOMAIN messages' /\ n \notin DOMAIN messages /\ DOMAIN messages \subseteq DOMAIN messages'
  BY <1>2
<1>6. \A j \in DOMAIN messages' \ {n} :
        /\ j \in DOMAIN messages
        /\ messages'[j].alert = messages[j].alert /\ messages'[j].body = messages[j].body
        /\ messages'[j].case = messages[j].case
  BY <1>2
<1>7. Taken(messages') = [x \in DOMAIN Taken(messages) \cup {messages'[n].alert} |->
                            IF x = messages'[n].alert
                            THEN [body |-> messages'[n].body, case |-> messages'[n].case]
                            ELSE Taken(messages)[x]]
  <2> HIDE DEF n
  <2> QED
    BY <1>3, <1>5, <1>6, TakenWritten
<1>8. Intake!Take(r.alert, r.body)
  <2>1. identity # NoConfig /\ UNCHANGED <<identity, cases>>
    BY OwnerAtWork DEF EnqueueNew
  <2> QED
    <3>1. Taken(messages)' = Taken(messages')
      BY DEF Taken
    <3> QED
      BY <1>2, <1>4, <1>7, <2>1, <3>1 DEF Intake!Take, Intake!Write, Intake!Unbound, NULL
<1> QED
  BY <1>1, <1>8 DEF Intake!Next

\* For any threads, workers, requests and crashes: the inbox records an alert
\* once, opens its one case and binds it once, for its one customer; no lease,
\* failure or retry takes any of that back.
THEOREM InboxImplementsIntake == Spec => ImplementsIntake
<1>1. Init => Intake!Init
  BY DEF Init, Intake!Init, Taken
<1>2. IntakeInv /\ IntakeInv' /\ [Next]_vars => [Intake!Next]_(Intake!vars)
  <2> SUFFICES ASSUME IntakeInv, IntakeInv', [Next]_vars PROVE [Intake!Next]_(Intake!vars)
    OBVIOUS
  <2>1. CASE UNCHANGED <<identity, messages, cases>>
    BY <2>1 DEF Intake!vars, Taken
  <2>2. ASSUME NEW x \in Handlers \cup Workers, BindConfig(ConfigOf[x]),
               UNCHANGED <<messages, cases>>
        PROVE  [Intake!Next]_(Intake!vars)
    <3>1. CASE identity = ConfigOf[x]
      BY <2>1, <2>2, <3>1 DEF BindConfig
    <3>2. CASE identity = NoConfig
      <4>1. Intake!Own(ConfigOf[x])
        BY <2>2, <3>2 DEF BindConfig, Intake!Own, Taken
      <4> QED
        BY <4>1, ConfigAssumption DEF Intake!Next
    <3> QED
      BY <2>2, <3>1, <3>2 DEF BindConfig
  <2>3. ASSUME NEW w \in Workers, OpenCase(w) \/ OpenFails(w)
        PROVE  [Intake!Next]_(Intake!vars)
    <3>1. UNCHANGED <<identity, messages>>
      BY <2>3 DEF OpenCase, OpenFails
    <3>2. CaseRowOf(w) \in CaseRow
      BY <2>3, HeldMessage, ConfigAssumption
         DEF OpenCase, OpenFails, IntakeInv, CaseRowOf, CaseRow, Message
    <3>3. cases' = cases \/ cases' = Ingested(cases, CaseRowOf(w))
      BY <2>3 DEF OpenCase, OpenFails
    <3> QED
      BY <2>1, <3>1, <3>2, <3>3, IngestIsOpen
  <2>4. ASSUME NEW a \in Alerts, NEW s \in Configs, OtherIngest(a, s)
        PROVE  [Intake!Next]_(Intake!vars)
    <3>1. [alert |-> a, scope |-> s] \in CaseRow
      BY DEF CaseRow
    <3> QED
      BY <2>4, <3>1, IngestIsOpen DEF OtherIngest
  <2>5. ASSUME NEW h \in Handlers, NEW r \in Requests, Admit(h, r)
        PROVE  [Intake!Next]_(Intake!vars)
    BY <2>2, <2>5 DEF Admit
  <2>6. ASSUME NEW w \in Workers, Begin(w)
        PROVE  [Intake!Next]_(Intake!vars)
    BY <2>2, <2>6 DEF Begin
  <2> QED
    BY <2>1, <2>3, <2>4, <2>5, <2>6, WorkIsBind, EnqueueIsTake
       DEF Next, Enqueue, EnqueueDuplicate, EnqueueRolledBack, Work, LeaseNone, Crash, Tick, vars
<1>3. Spec => []IntakeInv
  <2>1. Init => ScopeInv
    BY DEF Init, ScopeInv, CompletedInScope, OpenedInScope, Idle
  <2>2. TypeOK /\ IntakeKept /\ CaseNamesItsAlert /\ ScopeInv /\ [Next]_vars => ScopeInv'
    BY ScopeKept DEF IntakeKept
  <2> QED
    BY <2>1, <2>2, TypeCorrect, IntakeIsKept, CasesNameAlerts, PTL DEF Spec, IntakeInv
<1> QED
  BY <1>1, <1>2, <1>3, PTL DEF Spec, ImplementsIntake, Intake!Spec
=============================================================================
