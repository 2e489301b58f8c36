-------------------------- MODULE BusGatewayProofs --------------------------
(***************************************************************************)
(* What BusGateway guarantees for every number of receivers, senders,      *)
(* alerts and deliveries, however locks expire and receivers crash.        *)
(***************************************************************************)
EXTENDS BusGateway, SharedLemmas

CaseRow == [alert : Alerts, scope : Senders]

\* What a receiver holds is a message of the queue, which it settles or works on.
LEMMA HeldMessage ==
    ASSUME TypeOK, NEW r \in Receivers, receiver[r].pc # "idle"
    PROVE  /\ receiver[r] # Idle
           /\ receiver[r].msg \in DOMAIN queue /\ MessageOf(r) \in Message
           /\ receiver[r].msg \in Nat \ {0} /\ receiver[r].lock \in Nat
           /\ MessageOf(r).alert \in Alerts /\ MessageOf(r).body \in Bodies
           /\ CaseRowOf(r) \in CaseRow
<1>1. receiver[r] # Idle
  BY DEF Idle
<1>2. receiver[r].msg \in DOMAIN queue
  BY <1>1 DEF TypeOK
<1>3. MessageOf(r) \in Message
  BY <1>2 DEF TypeOK, MessageOf
<1>4. receiver[r].msg \in Nat \ {0} /\ receiver[r].lock \in Nat
  BY <1>1 DEF TypeOK, ReceiverState
<1>5. MessageOf(r).alert \in Alerts /\ MessageOf(r).body \in Bodies
  BY <1>3 DEF Message
<1> QED
  BY <1>1, <1>2, <1>3, <1>4, <1>5, BusAssumption DEF CaseRowOf, CaseRow

\* A write to the queue appends a new message or rewrites one: it never alters
\* what a message says, completes it only for the receiver that bound its case,
\* and calls it invalid only for the receiver that refused it.
LEMMA QueueWrites ==
    ASSUME TypeOK, [Next]_vars
    PROVE  \/ UNCHANGED queue
           \/ \E m \in Message : /\ queue' = Append(queue, m)
                                 /\ m.state = "active" /\ m.reason = "none"
           \/ \E i \in DOMAIN queue : \E m \in Message :
                /\ queue' = [queue EXCEPT ![i] = m]
                /\ m.alert = queue[i].alert /\ m.body = queue[i].body /\ m.from = queue[i].from
                /\ \/ m.state # "completed"
                   \/ \E r \in Receivers : receiver[r].pc = "bound" /\ receiver[r].msg = i
                /\ \/ m.reason # "InvalidScopedAlert"
                   \/ m.reason = queue[i].reason
                   \/ \E r \in Receivers : receiver[r].pc = "invalid" /\ receiver[r].msg = i
<1>1. \A i \in DOMAIN queue : queue[i] \in Message
  BY DEF TypeOK
<1>2. ASSUME NEW from \in Senders, NEW a \in Alerts, NEW b \in Bodies, Send(from, a, b)
      PROVE  \E m \in Message : /\ queue' = Append(queue, m)
                                /\ m.state = "active" /\ m.reason = "none"
  BY <1>2 DEF Send, Message, Reasons
<1>3. ASSUME NEW i \in DOMAIN queue
      PROVE  /\ Released(queue[i]) \in Message
             /\ Released(queue[i]).alert = queue[i].alert
             /\ Released(queue[i]).body = queue[i].body
             /\ Released(queue[i]).from = queue[i].from
             /\ Released(queue[i]).state # "completed"
             /\ \/ Released(queue[i]).reason # "InvalidScopedAlert"
                \/ Released(queue[i]).reason = queue[i].reason
  BY <1>1, <1>3 DEF Released, Message, Reasons
<1>4. ASSUME NEW i \in DOMAIN queue, LockExpires(i)
      PROVE  queue' = [queue EXCEPT ![i] = Released(queue[i])]
  BY <1>4 DEF LockExpires
<1>5. ASSUME NEW i \in DOMAIN queue, MessageExpires(i)
      PROVE  \E m \in Message :
                /\ queue' = [queue EXCEPT ![i] = m]
                /\ m.alert = queue[i].alert /\ m.body = queue[i].body /\ m.from = queue[i].from
                /\ m.state # "completed" /\ m.reason # "InvalidScopedAlert"
  <2> DEFINE m == [queue[i] EXCEPT !.state = "dead", !.reason = "TTLExpired"]
  <2>1. queue[i] \in Message
    BY <1>1
  <2>2. queue' = [queue EXCEPT ![i] = m]
    BY <1>5, <2>1 DEF MessageExpires, Message
  <2>3. /\ m \in Message
        /\ m.alert = queue[i].alert /\ m.body = queue[i].body /\ m.from = queue[i].from
        /\ m.state # "completed" /\ m.reason # "InvalidScopedAlert"
    BY <2>1 DEF Message, Reasons
  <2> QED
    BY <2>2, <2>3
<1>6. ASSUME NEW r \in Receivers, NEW i \in DOMAIN queue, Receive(r, i)
      PROVE  \E m \in Message :
                /\ queue' = [queue EXCEPT ![i] = m]
                /\ m.alert = queue[i].alert /\ m.body = queue[i].body /\ m.from = queue[i].from
                /\ m.state # "completed" /\ m.reason = queue[i].reason
  <2> DEFINE m == [queue[i] EXCEPT !.state = "locked", !.deliveries = @ + 1]
  <2>1. queue[i] \in Message
    BY <1>1
  <2>2. queue' = [queue EXCEPT ![i] = m]
    BY <1>6, <2>1 DEF Receive, Message
  <2>3. queue[i].deliveries + 1 \in Nat
    BY <2>1 DEF Message
  <2>4. m.alert = queue[i].alert /\ m.body = queue[i].body /\ m.from = queue[i].from
    BY <2>1 DEF Message
  <2>5. m.state # "completed" /\ m.reason = queue[i].reason
    BY <2>1 DEF Message
  <2>6. m \in Message
    BY <2>1, <2>3 DEF Message
  <2> QED
    BY <2>2, <2>4, <2>5, <2>6
<1>7. ASSUME NEW r \in Receivers, Settle(r), ~UNCHANGED queue
      PROVE  \E i \in DOMAIN queue : \E m \in Message :
                /\ queue' = [queue EXCEPT ![i] = m]
                /\ m.alert = queue[i].alert /\ m.body = queue[i].body /\ m.from = queue[i].from
                /\ m.state # "completed" \/ (receiver[r].pc = "bound" /\ receiver[r].msg = i)
                /\ \/ m.reason # "InvalidScopedAlert"
                   \/ m.reason = queue[i].reason
                   \/ receiver[r].pc = "invalid" /\ receiver[r].msg = i
  <2> DEFINE i == receiver[r].msg
             m == Settled(queue[i], receiver[r].pc)
  <2>1. i \in DOMAIN queue /\ queue[i] \in Message
    BY <1>7, HeldMessage DEF Settle, MessageOf
  <2>2. queue' = [queue EXCEPT ![i] = m]
    BY <1>7 DEF Settle
  <2>3. CASE receiver[r].pc = "bound"
    <3>1. m = [queue[i] EXCEPT !.state = "completed"]
      BY <2>3 DEF Settled
    <3>2. /\ m \in Message /\ m.reason = queue[i].reason
          /\ m.alert = queue[i].alert /\ m.body = queue[i].body /\ m.from = queue[i].from
      BY <2>1, <3>1 DEF Message
    <3> QED
      BY <2>1, <2>2, <2>3, <3>2
  <2>4. CASE receiver[r].pc = "invalid"
    <3>1. m = [queue[i] EXCEPT !.state = "dead", !.reason = "InvalidScopedAlert"]
      BY <2>4 DEF Settled
    <3>2. /\ m \in Message /\ m.state # "completed"
          /\ m.alert = queue[i].alert /\ m.body = queue[i].body /\ m.from = queue[i].from
      BY <2>1, <3>1 DEF Message, Reasons
    <3> QED
      BY <2>1, <2>2, <2>4, <3>2
  <2>5. CASE receiver[r].pc = "failed"
    <3>1. m = Released(queue[i])
      BY <2>5 DEF Settled
    <3> QED
      BY <1>3, <2>1, <2>2, <3>1
  <2> QED
    BY <1>7, <2>3, <2>4, <2>5 DEF Settle
<1>8. ASSUME NEW r \in Receivers,
             \/ RecordDigest(r) \/ Refuse(r) \/ OpenCase(r) \/ BindCase(r)
             \/ StepFails(r) \/ Crash(r)
      PROVE  UNCHANGED queue
  BY <1>8 DEF RecordDigest, Refuse, OpenCase, BindCase, StepFails, Crash
<1>9. ASSUME NEW id, Forget(id)
      PROVE  UNCHANGED queue
  BY <1>9 DEF Forget
<1>10. ASSUME NEW a \in Alerts, NEW s \in Senders, OtherIngest(a, s)
       PROVE  UNCHANGED queue
  BY <1>10 DEF OtherIngest
<1>11. CASE UNCHANGED vars
  BY <1>11 DEF vars
<1> QED
  BY <1>2, <1>3, <1>4, <1>5, <1>6, <1>7, <1>8, <1>9, <1>10, <1>11 DEF Next, Broker, Consume

\* No step takes a message out of the queue or alters what it says, and the
\* queue stays one of messages.
LEMMA QueueKeeps ==
    ASSUME TypeOK, [Next]_vars
    PROVE  /\ queue' \in Seq(Message)
           /\ \A i \in DOMAIN queue :
                /\ i \in DOMAIN queue'
                /\ queue'[i].alert = queue[i].alert
                /\ queue'[i].body = queue[i].body
                /\ queue'[i].from = queue[i].from
<1>1. queue \in Seq(Message)
  BY DEF TypeOK
<1>2. ASSUME NEW m \in Message, queue' = Append(queue, m)
      PROVE  /\ queue' \in Seq(Message)
             /\ \A i \in DOMAIN queue : i \in DOMAIN queue' /\ queue'[i] = queue[i]
  BY <1>1, <1>2, AppendProperties
<1>3. ASSUME NEW j \in DOMAIN queue, NEW m \in Message, queue' = [queue EXCEPT ![j] = m]
      PROVE  /\ queue' \in Seq(Message)
             /\ DOMAIN queue' = DOMAIN queue
             /\ \A i \in DOMAIN queue : queue'[i] = IF i = j THEN m ELSE queue[i]
  <2>1. DOMAIN queue = 1..Len(queue)
    BY <1>1
  <2> QED
    BY <1>1, <1>3, <2>1, ExceptSeq
<1>4. CASE UNCHANGED queue
  BY <1>1, <1>4
<1> QED
  BY <1>2, <1>3, <1>4, QueueWrites

\* A write to bus_alerts puts a well-typed row under one alert and leaves the
\* rows of the others alone.
LEMMA PutRow ==
    ASSUME TypeOK, NEW a \in Alerts, NEW row \in BusRow, Put(a, row)
    PROVE  /\ DOMAIN digests' = DOMAIN digests \cup {a}
           /\ DOMAIN digests' \subseteq Alerts
           /\ \A x \in DOMAIN digests' : digests'[x] \in BusRow
           /\ \A x \in DOMAIN digests' : digests'[x] = IF x = a THEN row ELSE digests[x]
BY DEF TypeOK, Put

\* The row a delivery records is well-typed, has the bytes recorded first, and
\* keeps the case that was bound.
LEMMA RecordedRow ==
    ASSUME TypeOK, NEW m \in Message, SameDigest(m)
    PROVE  /\ Recorded(m) \in BusRow
           /\ Recorded(m).body = m.body
           /\ m.alert \in DOMAIN digests => Recorded(m) = digests[m.alert]
           /\ m.alert \notin DOMAIN digests => Recorded(m).case = NULL
<1>1. m.body \in Bodies /\ m.alert \in Alerts
  BY DEF Message
<1>2. CASE m.alert \in DOMAIN digests
  BY <1>2 DEF Recorded, SameDigest, TypeOK
<1>3. CASE m.alert \notin DOMAIN digests
  BY <1>1, <1>3 DEF Recorded, BusRow, NULL
<1> QED
  BY <1>2, <1>3

\* The ledger stays one of cases, whoever calls `ingest`; it only grows, and
\* gives no alert a second case.
LEMMA CasesGrow ==
    ASSUME TypeOK, [Next]_vars
    PROVE  /\ cases' \in Seq(CaseRow)
           /\ \A c \in DOMAIN cases : c \in DOMAIN cases' /\ cases'[c] = cases[c]
           /\ OneCasePerAlert(cases) => OneCasePerAlert(cases')
<1>1. cases \in Seq(CaseRow)
  BY DEF TypeOK, CaseRow
<1>2. ASSUME NEW row \in CaseRow, cases' = Ingested(cases, row)
      PROVE  /\ cases' \in Seq(CaseRow)
             /\ \A c \in DOMAIN cases : c \in DOMAIN cases' /\ cases'[c] = cases[c]
             /\ OneCasePerAlert(cases) => OneCasePerAlert(cases')
  BY <1>1, <1>2, IngestedType, IngestedKeeps
<1>3. ASSUME NEW r \in Receivers, OpenCase(r)
      PROVE  CaseRowOf(r) \in CaseRow /\ cases' = Ingested(cases, CaseRowOf(r))
  BY <1>3, HeldMessage DEF OpenCase
<1>4. ASSUME NEW a \in Alerts, NEW s \in Senders, OtherIngest(a, s)
      PROVE  \E row \in CaseRow : cases' = Ingested(cases, row)
  BY <1>4 DEF OtherIngest, CaseRow
<1>5. CASE UNCHANGED cases
  BY <1>1, <1>5
<1> QED
  BY <1>2, <1>3, <1>4, <1>5
     DEF Next, Broker, Consume, Send, Forget, LockExpires, MessageExpires, Receive, RecordDigest,
         Refuse, BindCase, StepFails, Settle, Crash, vars

\* What the two transactions that write bus_alerts put there.
LEMMA DigestWrites ==
    ASSUME TypeOK, NEW r \in Receivers
    PROVE  /\ RecordDigest(r) =>
                /\ Put(MessageOf(r).alert, Recorded(MessageOf(r)))
                /\ Recorded(MessageOf(r)) \in BusRow
                /\ SameDigest(MessageOf(r)) /\ Valid(MessageOf(r), ConfigOf[r])
           /\ BindCase(r) /\ MessageOf(r).alert \in DOMAIN digests =>
                LET row == [digests[MessageOf(r).alert] EXCEPT !.case = receiver[r].case]
                IN  /\ Put(MessageOf(r).alert, row) /\ row \in BusRow
                    /\ row.body = digests[MessageOf(r).alert].body
                    /\ row.case = receiver[r].case
<1>1. ASSUME RecordDigest(r)
      PROVE  /\ Put(MessageOf(r).alert, Recorded(MessageOf(r)))
             /\ Recorded(MessageOf(r)) \in BusRow
             /\ SameDigest(MessageOf(r)) /\ Valid(MessageOf(r), ConfigOf[r])
  BY <1>1, HeldMessage, RecordedRow DEF RecordDigest
<1>2. ASSUME BindCase(r), MessageOf(r).alert \in DOMAIN digests
      PROVE  LET row == [digests[MessageOf(r).alert] EXCEPT !.case = receiver[r].case]
             IN  /\ Put(MessageOf(r).alert, row) /\ row \in BusRow
                 /\ row.body = digests[MessageOf(r).alert].body
                 /\ row.case = receiver[r].case
  <2>1. receiver[r].case \in Nat
    BY <1>2 DEF BindCase, TypeOK, ReceiverState, Idle
  <2>2. digests[MessageOf(r).alert] \in BusRow
    BY <1>2 DEF TypeOK
  <2> QED
    BY <1>2, <2>1, <2>2 DEF BindCase, BusRow
<1> QED
  BY <1>1, <1>2

-----------------------------------------------------------------------------
(* The inductive invariant *)

\* A receiver at work serves the configuration the database is bound to.
Serving == \A r \in Receivers : receiver[r] # Idle => ConfigOf[r] = identity

\* What makes a message one that can never be accepted.
Refusable(m, config) ==
    \/ ~Valid(m, config)
    \/ m.alert \in DOMAIN digests /\ digests[m.alert].body # m.body

\* What a receiver may rely on at each point, though others have run since it
\* last looked: the digest of its message is recorded, the case in its hands is
\* the alert's and its customer's, a case is bound, the message is refusable.
HoldsOK(r) ==
    LET m == MessageOf(r)
        pc == receiver[r].pc
    IN  /\ pc \in {"digested", "opened", "bound"} =>
             m.alert \in DOMAIN digests /\ digests[m.alert].body = m.body
        /\ pc = "opened" => /\ receiver[r].case \in CasesFor(cases, m.alert)
                            /\ cases[receiver[r].case].scope = ConfigOf[r]
        /\ pc = "bound" => digests[m.alert].case # NULL
        /\ pc = "invalid" => Refusable(m, ConfigOf[r])

Holds == \A r \in Receivers : HoldsOK(r)

\* A bound case is the one case of its alert, of the database's customer.
BoundRight ==
    /\ OneCasePerAlert(cases)
    /\ \A a \in DOMAIN digests : digests[a].case # NULL =>
         digests[a].case \in CasesFor(cases, a) /\ cases[digests[a].case].scope = identity

Completed(i) ==
    queue[i].state = "completed" =>
        /\ queue[i].alert \in DOMAIN digests
        /\ digests[queue[i].alert].body = queue[i].body
        /\ digests[queue[i].alert].case # NULL

\* A refusal is made for the customer of the database, so it is bound by then.
Refused(i) ==
    queue[i].reason = "InvalidScopedAlert" =>
        identity \in Senders /\ Refusable(queue[i], identity)

Settlements == \A i \in DOMAIN queue : Completed(i) /\ Refused(i)

BusInv == TypeOK /\ Serving /\ Holds /\ BoundRight /\ Settlements

\* The database is bound once, before anything is received, and every receiver
\* at work was started for that customer.
LEMMA ServingKept ==
    ASSUME TypeOK, Serving, [Next]_vars
    PROVE  /\ Serving'
           /\ identity' \in Senders \cup {NoConfig}
           /\ identity \in Senders => identity' = identity
<1> USE BusAssumption DEF TypeOK, Serving
<1>1. ASSUME NEW r \in Receivers, NEW i \in DOMAIN queue, Receive(r, i)
      PROVE  /\ Serving' /\ identity' \in Senders \cup {NoConfig}
             /\ identity \in Senders => identity' = identity
  BY <1>1 DEF Receive
<1>2. ASSUME NEW r \in Receivers, receiver[r] # Idle, UNCHANGED identity,
             \E x : receiver' = [receiver EXCEPT ![r] = x]
      PROVE  Serving'
  BY <1>2
<1>3. ASSUME NEW r \in Receivers,
             \/ RecordDigest(r) \/ Refuse(r) \/ OpenCase(r) \/ BindCase(r)
             \/ StepFails(r) \/ Settle(r) \/ Crash(r)
      PROVE  /\ receiver[r] # Idle /\ UNCHANGED identity
             /\ \E x : receiver' = [receiver EXCEPT ![r] = x]
  <2>1. receiver[r] # Idle
    BY <1>3 DEF RecordDigest, Refuse, OpenCase, BindCase, StepFails, Settle, Crash, Idle
  <2>2. UNCHANGED identity
    BY <1>3 DEF RecordDigest, Refuse, OpenCase, BindCase, StepFails, Settle, Crash
  <2>3. \E x : receiver' = [receiver EXCEPT ![r] = x]
    BY <1>3 DEF RecordDigest, Refuse, OpenCase, BindCase, StepFails, Settle, Crash
  <2> QED
    BY <2>1, <2>2, <2>3
<1>4. CASE UNCHANGED <<identity, receiver>>
  BY <1>4
<1> QED
  BY <1>1, <1>2, <1>3, <1>4
     DEF Next, Broker, Consume, Send, Forget, LockExpires, MessageExpires, OtherIngest, vars

\* A digest is recorded once, and a case bound once: a later receiver of the
\* same alert finds the digest equal to its own and the case the only one.
LEMMA DigestsKeep ==
    ASSUME BusInv, [Next]_vars
    PROVE  /\ DOMAIN digests' \subseteq Alerts
           /\ \A a \in DOMAIN digests' : digests'[a] \in BusRow
           /\ \A a \in DOMAIN digests :
                /\ a \in DOMAIN digests'
                /\ digests'[a].body = digests[a].body
                /\ digests[a].case # NULL => digests'[a].case = digests[a].case
<1> TypeOK
  BY DEF BusInv
<1>1. ASSUME NEW r \in Receivers, RecordDigest(r)
      PROVE  /\ DOMAIN digests' \subseteq Alerts
             /\ \A a \in DOMAIN digests' : digests'[a] \in BusRow
             /\ \A a \in DOMAIN digests : a \in DOMAIN digests' /\ digests'[a] = digests[a]
  <2>1. MessageOf(r) \in Message /\ MessageOf(r).alert \in Alerts
    BY <1>1, HeldMessage DEF RecordDigest
  <2>2. /\ Put(MessageOf(r).alert, Recorded(MessageOf(r)))
        /\ Recorded(MessageOf(r)) \in BusRow /\ SameDigest(MessageOf(r))
    BY <1>1, DigestWrites
  <2>3. MessageOf(r).alert \in DOMAIN digests
          => Recorded(MessageOf(r)) = digests[MessageOf(r).alert]
    BY <2>1, <2>2, RecordedRow
  <2> QED
    BY <2>1, <2>2, <2>3, PutRow
<1>2. ASSUME NEW r \in Receivers, BindCase(r)
      PROVE  /\ DOMAIN digests' \subseteq Alerts
             /\ \A a \in DOMAIN digests' : digests'[a] \in BusRow
             /\ \A a \in DOMAIN digests :
                  /\ a \in DOMAIN digests'
                  /\ digests'[a].body = digests[a].body
                  /\ digests[a].case # NULL => digests'[a].case = digests[a].case
  <2> DEFINE m == MessageOf(r)
             row == [digests[m.alert] EXCEPT !.case = receiver[r].case]
  <2>1. /\ m.alert \in DOMAIN digests /\ m.alert \in Alerts
        /\ receiver[r].case \in CasesFor(cases, m.alert)
    BY <1>2, HeldMessage DEF BindCase, BusInv, Holds, HoldsOK
  <2>2. /\ Put(m.alert, row) /\ row \in BusRow
        /\ row.body = digests[m.alert].body /\ row.case = receiver[r].case
    BY <1>2, <2>1, DigestWrites
  <2>3. digests[m.alert].case # NULL => row.case = digests[m.alert].case
    BY <2>1, <2>2 DEF BusInv, BoundRight, OneCasePerAlert, CasesFor
  <2> HIDE DEF m, row
  <2>4. /\ DOMAIN digests' = DOMAIN digests \cup {m.alert}
        /\ DOMAIN digests' \subseteq Alerts
        /\ \A x \in DOMAIN digests' : digests'[x] \in BusRow
        /\ \A x \in DOMAIN digests' : digests'[x] = IF x = m.alert THEN row ELSE digests[x]
    BY <2>1, <2>2, PutRow
  <2> QED
    BY <2>2, <2>3, <2>4
<1>3. CASE UNCHANGED digests
  BY <1>3 DEF TypeOK
<1> QED
  BY <1>1, <1>2, <1>3
     DEF Next, Broker, Consume, Send, Forget, LockExpires, MessageExpires, Receive, Refuse,
         OpenCase, StepFails, Settle, Crash, OtherIngest, vars

\* What is refusable stays so.
LEMMA RefusableStays ==
    ASSUME BusInv, [Next]_vars, NEW i \in DOMAIN queue, NEW config, Refusable(queue[i], config)
    PROVE  Refusable(queue[i], config)'
<1>1. /\ queue'[i].alert = queue[i].alert /\ queue'[i].body = queue[i].body
      /\ queue'[i].from = queue[i].from
  BY QueueKeeps DEF BusInv
<1> QED
  BY <1>1, DigestsKeep DEF Refusable, Valid

\* What a receiver may rely on outlives the steps of all others.
LEMMA HoldsStay ==
    ASSUME BusInv, [Next]_vars, NEW r \in Receivers, receiver'[r] = receiver[r]
    PROVE  HoldsOK(r)'
<1>1. CASE receiver[r].pc = "idle"
  BY <1>1 DEF HoldsOK
<1>2. CASE receiver[r].pc # "idle"
  <2> DEFINE i == receiver[r].msg
  <2>1. i \in DOMAIN queue /\ HoldsOK(r) /\ receiver'[r].msg = i
    BY <1>2, HeldMessage DEF BusInv, Holds
  <2>2. queue'[i].alert = queue[i].alert /\ queue'[i].body = queue[i].body
    BY <2>1, QueueKeeps DEF BusInv
  <2>3. Refusable(queue[i], ConfigOf[r]) => Refusable(queue[i], ConfigOf[r])'
    BY <2>1, RefusableStays
  <2>4. \A c \in DOMAIN cases : c \in DOMAIN cases' /\ cases'[c] = cases[c]
    BY CasesGrow DEF BusInv
  <2> QED
    BY <2>1, <2>2, <2>3, <2>4, DigestsKeep DEF HoldsOK, MessageOf, CasesFor
<1> QED
  BY <1>1, <1>2

\* A receiver that takes a step has, at its next point, what it relies on there.
LEMMA HoldsKept ==
    ASSUME BusInv, [Next]_vars
    PROVE  Holds'
<1> TypeOK
  BY DEF BusInv
<1>1. ASSUME NEW r \in Receivers, \E x : receiver' = [receiver EXCEPT ![r] = x], HoldsOK(r)'
      PROVE  Holds'
  <2>1. \A q \in Receivers : q = r \/ receiver'[q] = receiver[q]
    BY <1>1 DEF TypeOK
  <2> QED
    BY <1>1, <2>1, HoldsStay DEF Holds
<1>2. ASSUME NEW r \in Receivers, RecordDigest(r)
      PROVE  Holds'
  <2> DEFINE m == MessageOf(r)
  <2>1. m \in Message /\ m.alert \in Alerts
    BY <1>2, HeldMessage DEF RecordDigest
  <2>2. /\ Put(m.alert, Recorded(m)) /\ Recorded(m) \in BusRow /\ SameDigest(m)
    BY <1>2, DigestWrites
  <2>3. Recorded(m).body = m.body
    BY <2>1, <2>2, RecordedRow
  <2>4. m.alert \in DOMAIN digests' /\ digests'[m.alert] = Recorded(m)
    BY <2>1, <2>2, PutRow
  <2>5. /\ receiver' = [receiver EXCEPT ![r] = Holding(r, "digested")]
        /\ UNCHANGED queue
    BY <1>2 DEF RecordDigest
  <2>6. /\ receiver'[r].pc = "digested" /\ receiver'[r].msg = receiver[r].msg
    BY <2>5 DEF Holding, TypeOK
  <2>7. HoldsOK(r)'
    BY <2>3, <2>4, <2>5, <2>6 DEF HoldsOK, MessageOf
  <2> QED
    BY <1>1, <2>5, <2>7
<1>3. ASSUME NEW r \in Receivers, Refuse(r)
      PROVE  Holds'
  <2>1. /\ receiver' = [receiver EXCEPT ![r] = Holding(r, "invalid")]
        /\ UNCHANGED <<queue, digests>>
        /\ ~(Valid(MessageOf(r), ConfigOf[r]) /\ SameDigest(MessageOf(r)))
    BY <1>3 DEF Refuse
  <2>2. /\ receiver'[r].pc = "invalid" /\ receiver'[r].msg = receiver[r].msg
    BY <2>1 DEF Holding, TypeOK
  <2>3. HoldsOK(r)'
    BY <2>1, <2>2 DEF HoldsOK, MessageOf, Refusable, Valid, SameDigest
  <2> QED
    BY <1>1, <2>1, <2>3
<1>4. ASSUME NEW r \in Receivers, OpenCase(r)
      PROVE  Holds'
  <2>1. /\ receiver[r].pc = "digested" /\ ScopeAgrees(cases, CaseRowOf(r))
        /\ cases' = Ingested(cases, CaseRowOf(r)) /\ UNCHANGED <<queue, digests>>
    BY <1>4 DEF OpenCase
  <2>2. PICK c \in CasesFor(cases', CaseRowOf(r).alert) :
          receiver' = [receiver EXCEPT ![r] =
                        [pc |-> "opened", msg |-> receiver[r].msg, lock |-> receiver[r].lock,
                         case |-> c]]
    BY <1>4 DEF OpenCase
  <2>3. CaseRowOf(r) \in CaseRow /\ cases \in Seq(CaseRow)
    BY <2>1, HeldMessage DEF TypeOK, CaseRow
  <2>4. cases'[c].scope = CaseRowOf(r).scope
    BY <2>1, <2>2, <2>3, IngestedKeeps
  <2>5. HoldsOK(r)
    BY DEF BusInv, Holds
  <2>6. HoldsOK(r)'
    BY <2>1, <2>2, <2>4, <2>5 DEF HoldsOK, MessageOf, CaseRowOf, TypeOK
  <2> QED
    BY <1>1, <2>2, <2>6
<1>5. ASSUME NEW r \in Receivers, BindCase(r)
      PROVE  Holds'
  <2> DEFINE m == MessageOf(r)
             row == [digests[m.alert] EXCEPT !.case = receiver[r].case]
  <2>1. /\ m.alert \in DOMAIN digests /\ digests[m.alert].body = m.body
        /\ receiver[r].case \in DOMAIN cases
    BY <1>5 DEF BindCase, BusInv, Holds, HoldsOK, CasesFor
  <2>2. m.alert \in Alerts /\ receiver[r].case # NULL
    <3>1. DOMAIN cases = 1..Len(cases)
      BY DEF TypeOK
    <3> QED
      BY <1>5, <2>1, <3>1, HeldMessage DEF BindCase, NULL
  <2>3. /\ Put(m.alert, row) /\ row \in BusRow
        /\ row.body = digests[m.alert].body /\ row.case = receiver[r].case
    BY <1>5, <2>1, DigestWrites
  <2>4. /\ receiver' = [receiver EXCEPT ![r] = Holding(r, "bound")]
        /\ UNCHANGED queue
    BY <1>5 DEF BindCase
  <2>5. /\ receiver'[r].pc = "bound" /\ receiver'[r].msg = receiver[r].msg
    BY <2>4 DEF Holding, TypeOK
  <2>6. m' = m
    BY <2>4, <2>5 DEF MessageOf
  <2>7. m.alert \in DOMAIN digests' /\ digests'[m.alert] = row
    <3> HIDE DEF row, m
    <3> QED
      BY <2>2, <2>3, PutRow
  <2>8. HoldsOK(r)'
    <3>1. digests'[m.alert].body = m.body /\ digests'[m.alert].case # NULL
      BY <2>1, <2>2, <2>3, <2>7
    <3> QED
      BY <2>5, <2>6, <2>7, <3>1 DEF HoldsOK
  <2> QED
    BY <1>1, <2>4, <2>8
<1>6. ASSUME NEW r \in Receivers,
             StepFails(r) \/ Settle(r) \/ Crash(r) \/ (\E i \in DOMAIN queue : Receive(r, i))
      PROVE  Holds'
  <2>1. \E x : receiver' = [receiver EXCEPT ![r] = x] /\ x.pc \in {"failed", "idle", "received"}
    <3>1. CASE StepFails(r)
      <4>1. /\ receiver' = [receiver EXCEPT ![r] = Holding(r, "failed")]
            /\ Holding(r, "failed").pc = "failed"
        BY <3>1 DEF StepFails, Holding, AfterError
      <4> QED
        BY <4>1
    <3>2. CASE Settle(r) \/ Crash(r)
      BY <3>2 DEF Settle, Crash, Idle
    <3>3. ASSUME NEW i \in DOMAIN queue, Receive(r, i)
          PROVE  \E x : receiver' = [receiver EXCEPT ![r] = x] /\ x.pc \in {"failed", "idle", "received"}
      <4> DEFINE x == [pc |-> "received", msg |-> i, lock |-> queue[i].deliveries + 1]
      <4>1. receiver' = [receiver EXCEPT ![r] = x] /\ x.pc = "received"
        BY <3>3 DEF Receive
      <4> QED
        BY <4>1
    <3> QED
      BY <1>6, <3>1, <3>2, <3>3
  <2>2. receiver'[r].pc \in {"failed", "idle", "received"}
    BY <2>1 DEF TypeOK
  <2>3. HoldsOK(r)'
    BY <2>2 DEF HoldsOK
  <2> QED
    BY <1>1, <2>1, <2>3
<1>7. CASE UNCHANGED receiver
  BY <1>7, HoldsStay DEF Holds
<1> QED
  BY <1>2, <1>3, <1>4, <1>5, <1>6, <1>7
     DEF Next, Broker, Consume, Send, Forget, LockExpires, MessageExpires, OtherIngest, vars

\* The case that is bound is the one its receiver was given, or was there.
LEMMA BoundKept ==
    ASSUME BusInv, [Next]_vars
    PROVE  BoundRight'
<1> TypeOK
  BY DEF BusInv
<1>1. /\ \A c \in DOMAIN cases : c \in DOMAIN cases' /\ cases'[c] = cases[c]
      /\ OneCasePerAlert(cases')
  BY CasesGrow DEF BusInv, BoundRight
<1>2. ASSUME NEW a \in DOMAIN digests, digests[a].case # NULL
      PROVE  /\ digests[a].case \in CasesFor(cases', a)
             /\ cases'[digests[a].case].scope = identity'
  <2>1. digests[a].case \in DOMAIN cases /\ cases[digests[a].case].scope = identity
        /\ digests[a].case \in CasesFor(cases', a)
    BY <1>1, <1>2 DEF BusInv, BoundRight, CasesFor
  <2>2. cases[digests[a].case] \in CaseRow
    <3>1. cases \in Seq(CaseRow)
      BY DEF TypeOK, CaseRow
    <3> QED
      BY <2>1, <3>1
  <2>3. identity \in Senders
    BY <2>1, <2>2 DEF CaseRow
  <2> QED
    BY <1>1, <2>1, <2>3, ServingKept DEF BusInv
<1>3. ASSUME \A a \in DOMAIN digests' :
               \/ digests'[a].case = NULL
               \/ a \in DOMAIN digests /\ digests'[a].case = digests[a].case
      PROVE  BoundRight'
  BY <1>1, <1>2, <1>3 DEF BoundRight
<1>4. ASSUME NEW r \in Receivers, RecordDigest(r)
      PROVE  BoundRight'
  <2>1. MessageOf(r) \in Message /\ MessageOf(r).alert \in Alerts
    BY <1>4, HeldMessage DEF RecordDigest
  <2>2. /\ Put(MessageOf(r).alert, Recorded(MessageOf(r)))
        /\ Recorded(MessageOf(r)) \in BusRow /\ SameDigest(MessageOf(r))
    BY <1>4, DigestWrites
  <2>3. IF MessageOf(r).alert \in DOMAIN digests
        THEN Recorded(MessageOf(r)) = digests[MessageOf(r).alert]
        ELSE Recorded(MessageOf(r)).case = NULL
    BY <2>1, <2>2, RecordedRow
  <2>4. \A a \in DOMAIN digests' :
               \/ digests'[a].case = NULL
               \/ a \in DOMAIN digests /\ digests'[a].case = digests[a].case
    <3> DEFINE alert == MessageOf(r).alert
               row == Recorded(MessageOf(r))
    <3> HIDE DEF alert, row
    <3>1. /\ DOMAIN digests' = DOMAIN digests \cup {alert}
          /\ \A x \in DOMAIN digests' : digests'[x] = IF x = alert THEN row ELSE digests[x]
      BY <2>1, <2>2, PutRow DEF alert, row
    <3>2. IF alert \in DOMAIN digests THEN row = digests[alert] ELSE row.case = NULL
      BY <2>3 DEF alert, row
    <3> QED
      BY <3>1, <3>2
  <2> QED
    BY <1>3, <2>4
<1>5. ASSUME NEW r \in Receivers, BindCase(r)
      PROVE  BoundRight'
  <2> DEFINE m == MessageOf(r)
             row == [digests[m.alert] EXCEPT !.case = receiver[r].case]
  <2>1. /\ receiver[r].pc = "opened" /\ m.alert \in DOMAIN digests
        /\ receiver[r].case \in CasesFor(cases, m.alert)
        /\ cases[receiver[r].case].scope = ConfigOf[r]
        /\ UNCHANGED <<cases, identity>>
    BY <1>5 DEF BindCase, BusInv, Holds, HoldsOK
  <2>2. ConfigOf[r] = identity
    BY <2>1, HeldMessage DEF BusInv, Serving
  <2>3. m.alert \in Alerts
    BY <2>1, HeldMessage
  <2>4. Put(m.alert, row) /\ row \in BusRow /\ row.case = receiver[r].case
    BY <1>5, <2>1, DigestWrites
  <2>5. \A x \in DOMAIN digests' :
          \/ x = m.alert /\ digests'[x] = row
          \/ x \in DOMAIN digests /\ digests'[x] = digests[x]
    <3> HIDE DEF m, row
    <3>1. /\ DOMAIN digests' = DOMAIN digests \cup {m.alert}
          /\ \A x \in DOMAIN digests' : digests'[x] = IF x = m.alert THEN row ELSE digests[x]
      BY <2>3, <2>4, PutRow
    <3> QED
      BY <3>1
  <2> QED
    BY <1>1, <1>2, <2>1, <2>2, <2>4, <2>5 DEF BoundRight
<1>6. CASE UNCHANGED digests
  BY <1>3, <1>6
<1> QED
  BY <1>4, <1>5, <1>6
     DEF Next, Broker, Consume, Send, Forget, LockExpires, MessageExpires, Receive, Refuse,
         OpenCase, StepFails, Settle, Crash, OtherIngest, vars

\* A message is completed by the receiver that has bound it, refused by one
\* that found it refusable, and what it was settled for stays true.
LEMMA SettlementsKept ==
    ASSUME BusInv, [Next]_vars
    PROVE  Settlements'
<1> TypeOK
  BY DEF BusInv
<1>1. ASSUME NEW i \in DOMAIN queue
      PROVE  /\ queue'[i].alert = queue[i].alert /\ queue'[i].body = queue[i].body
             /\ queue'[i].from = queue[i].from
  BY QueueKeeps
<1>2. ASSUME NEW i \in DOMAIN queue, queue'[i].state = queue[i].state
      PROVE  Completed(i)'
  <2> SUFFICES ASSUME queue'[i].state = "completed" PROVE Completed(i)'
    BY DEF Completed
  <2>1. /\ queue[i].alert \in DOMAIN digests
        /\ digests[queue[i].alert].body = queue[i].body
        /\ digests[queue[i].alert].case # NULL
    BY <1>2 DEF BusInv, Settlements, Completed
  <2> QED
    BY <1>1, <2>1, DigestsKeep DEF Completed
<1>3. ASSUME NEW i \in DOMAIN queue, queue'[i].reason = queue[i].reason
      PROVE  Refused(i)'
  <2>1. CASE queue[i].reason # "InvalidScopedAlert"
    BY <1>3, <2>1 DEF Refused
  <2>2. CASE queue[i].reason = "InvalidScopedAlert"
    <3>1. identity \in Senders /\ Refusable(queue[i], identity)
      BY <2>2 DEF BusInv, Settlements, Refused
    <3>2. identity' = identity
      BY <3>1, ServingKept DEF BusInv
    <3>3. Refusable(queue[i], identity)'
      <4>1. \A c : Refusable(queue[i], c) =>
              \/ queue'[i].from # c
              \/ /\ queue'[i].alert \in DOMAIN digests'
                 /\ digests'[queue'[i].alert].body # queue'[i].body
        BY <1>1, DigestsKeep DEF Refusable, Valid
      <4> QED
        BY <3>1, <3>2, <4>1 DEF Refusable, Valid
    <3> QED
      BY <3>1, <3>2, <3>3 DEF Refused
  <2> QED
    BY <2>1, <2>2
<1>4. ASSUME NEW i \in DOMAIN queue, NEW r \in Receivers,
             receiver[r].pc = "bound", receiver[r].msg = i
      PROVE  Completed(i)'
  <2>1. /\ queue[i].alert \in DOMAIN digests
        /\ digests[queue[i].alert].body = queue[i].body
        /\ digests[queue[i].alert].case # NULL
    BY <1>4 DEF BusInv, Holds, HoldsOK, MessageOf
  <2> QED
    BY <1>1, <2>1, DigestsKeep DEF Completed
<1>5. ASSUME NEW i \in DOMAIN queue, NEW r \in Receivers,
             receiver[r].pc = "invalid", receiver[r].msg = i
      PROVE  Refused(i)'
  <2>1. Refusable(queue[i], ConfigOf[r])
    BY <1>5 DEF BusInv, Holds, HoldsOK, MessageOf
  <2>2. ConfigOf[r] = identity /\ identity \in Senders
    <3>1. receiver[r] # Idle
      BY <1>5 DEF Idle
    <3> QED
      BY <3>1, BusAssumption DEF BusInv, Serving
  <2>3. identity' = identity
    BY <2>2, ServingKept DEF BusInv
  <2>4. \/ queue'[i].from # ConfigOf[r]
        \/ /\ queue'[i].alert \in DOMAIN digests'
           /\ digests'[queue'[i].alert].body # queue'[i].body
    BY <1>1, <2>1, DigestsKeep DEF Refusable, Valid
  <2> QED
    BY <2>2, <2>3, <2>4 DEF Refused, Refusable, Valid
<1>6. CASE UNCHANGED queue
  BY <1>2, <1>3, <1>6 DEF Settlements
<1>7. ASSUME NEW m \in Message, queue' = Append(queue, m), m.state = "active", m.reason = "none"
      PROVE  Settlements'
  <2>1. /\ DOMAIN queue = 1..Len(queue) /\ Len(queue) \in Nat
        /\ DOMAIN queue' = 1..(Len(queue) + 1)
        /\ \A j \in 1..Len(queue) : queue'[j] = queue[j]
        /\ queue'[Len(queue) + 1] = m
    BY <1>7 DEF TypeOK
  <2>2. ASSUME NEW i \in DOMAIN queue'
        PROVE  Completed(i)' /\ Refused(i)'
    <3>1. CASE i \in DOMAIN queue
      BY <1>2, <1>3, <2>1, <3>1
    <3>2. CASE i = Len(queue) + 1
      BY <1>7, <2>1, <3>2 DEF Completed, Refused
    <3> QED
      BY <2>1, <3>1, <3>2
  <2> QED
    BY <2>2 DEF Settlements
<1>8. ASSUME NEW i \in DOMAIN queue, NEW m \in Message, queue' = [queue EXCEPT ![i] = m],
             \/ m.state # "completed"
             \/ \E r \in Receivers : receiver[r].pc = "bound" /\ receiver[r].msg = i,
             \/ m.reason # "InvalidScopedAlert"
             \/ m.reason = queue[i].reason
             \/ \E r \in Receivers : receiver[r].pc = "invalid" /\ receiver[r].msg = i
      PROVE  Settlements'
  <2>1. /\ DOMAIN queue' = DOMAIN queue
        /\ \A j \in DOMAIN queue : queue'[j] = IF j = i THEN m ELSE queue[j]
    BY <1>8
  <2>2. Completed(i)'
    <3>1. CASE m.state # "completed"
      BY <2>1, <3>1 DEF Completed
    <3> QED
      BY <1>4, <1>8, <3>1
  <2>3. Refused(i)'
    <3>1. CASE m.reason # "InvalidScopedAlert"
      BY <2>1, <3>1 DEF Refused
    <3>2. CASE m.reason = queue[i].reason
      BY <1>3, <2>1, <3>2
    <3> QED
      BY <1>5, <1>8, <3>1, <3>2
  <2>4. ASSUME NEW j \in DOMAIN queue'
        PROVE  Completed(j)' /\ Refused(j)'
    <3>1. CASE j = i
      BY <2>2, <2>3, <3>1
    <3>2. CASE j # i
      BY <1>2, <1>3, <2>1, <3>2
    <3> QED
      BY <3>1, <3>2
  <2> QED
    BY <2>4 DEF Settlements
<1> QED
  BY <1>6, <1>7, <1>8, QueueWrites

\* The tables stay well-typed, and so does what the receivers hold.
LEMMA TypeKept ==
    ASSUME BusInv, [Next]_vars
    PROVE  TypeOK'
<1> TypeOK
  BY DEF BusInv
<1>1. queue' \in Seq(Message) /\ DOMAIN queue \subseteq DOMAIN queue'
  BY QueueKeeps
<1>2. window' \subseteq Senders \X Alerts
  <2>1. ASSUME NEW from \in Senders, NEW a \in Alerts, NEW b \in Bodies, Send(from, a, b)
        PROVE  window' \subseteq Senders \X Alerts
    BY <2>1 DEF TypeOK, Send
  <2>2. ASSUME NEW id \in window, Forget(id)
        PROVE  window' \subseteq Senders \X Alerts
    BY <2>2 DEF TypeOK, Forget
  <2>3. CASE UNCHANGED window
    BY <2>3 DEF TypeOK
  <2>4. ASSUME NEW r \in Receivers, Consume(r) \/ Crash(r)
        PROVE  UNCHANGED window
    BY <2>4 DEF Consume, Receive, RecordDigest, Refuse, OpenCase, BindCase, StepFails, Settle, Crash
  <2> QED
    BY <2>1, <2>2, <2>3, <2>4 DEF Next, Broker, LockExpires, MessageExpires, OtherIngest, vars
<1>3. identity' \in Senders \cup {NoConfig}
  BY ServingKept DEF BusInv
<1>4. DOMAIN digests' \subseteq Alerts /\ \A a \in DOMAIN digests' : digests'[a] \in BusRow
  BY DigestsKeep
<1>5. cases' \in Seq([alert : Alerts, scope : Senders])
  BY CasesGrow DEF CaseRow
<1>6. ASSUME NEW r \in Receivers, NEW x \in ReceiverState, receiver' = [receiver EXCEPT ![r] = x],
             x # Idle => x.msg \in DOMAIN queue
      PROVE  /\ receiver' \in [Receivers -> ReceiverState]
             /\ \A q \in Receivers : receiver'[q] # Idle => receiver'[q].msg \in DOMAIN queue
  BY <1>6 DEF TypeOK
<1>7. ASSUME NEW r \in Receivers, NEW pc \in {"digested", "bound", "invalid", "failed"},
             receiver[r].pc # "idle"
      PROVE  Holding(r, pc) \in ReceiverState /\ Holding(r, pc).msg \in DOMAIN queue
  BY <1>7, HeldMessage DEF Holding, ReceiverState
<1>8. ASSUME NEW r \in Receivers, Consume(r) \/ Crash(r)
      PROVE  /\ receiver' \in [Receivers -> ReceiverState]
             /\ \A q \in Receivers : receiver'[q] # Idle => receiver'[q].msg \in DOMAIN queue
  <2>1. ASSUME NEW i \in DOMAIN queue, Receive(r, i)
        PROVE  \E x \in ReceiverState : /\ receiver' = [receiver EXCEPT ![r] = x]
                                        /\ x.msg \in DOMAIN queue
    <3> DEFINE x == [pc |-> "received", msg |-> i, lock |-> queue[i].deliveries + 1]
    <3>1. queue[i] \in Message /\ i \in Nat \ {0}
      BY DEF TypeOK
    <3>2. queue[i].deliveries + 1 \in Nat
      BY <3>1 DEF Message
    <3>3. x \in ReceiverState /\ x.msg \in DOMAIN queue
      BY <3>1, <3>2 DEF ReceiverState
    <3> QED
      BY <2>1, <3>3 DEF Receive
  <2>2. CASE RecordDigest(r)
    BY <1>6, <1>7, <2>2 DEF RecordDigest
  <2>3. CASE Refuse(r)
    BY <1>6, <1>7, <2>3 DEF Refuse
  <2>4. CASE BindCase(r)
    BY <1>6, <1>7, <2>4 DEF BindCase
  <2>5. CASE StepFails(r)
    BY <1>6, <1>7, <2>5 DEF StepFails, AfterError
  <2>6. CASE Settle(r) \/ Crash(r)
    BY <1>6, <2>6 DEF Settle, Crash, ReceiverState
  <2>7. CASE OpenCase(r)
    <3>1. PICK c \in CasesFor(cases', CaseRowOf(r).alert) :
            receiver' = [receiver EXCEPT ![r] =
                          [pc |-> "opened", msg |-> receiver[r].msg, lock |-> receiver[r].lock,
                           case |-> c]]
      BY <2>7 DEF OpenCase
    <3>2. c \in Nat \ {0}
      <4>1. DOMAIN cases' = 1..Len(cases')
        BY <1>5
      <4> QED
        BY <3>1, <4>1 DEF CasesFor
    <3>3. /\ receiver[r].msg \in Nat \ {0} /\ receiver[r].lock \in Nat
          /\ receiver[r].msg \in DOMAIN queue
      BY <2>7, HeldMessage DEF OpenCase
    <3> DEFINE x == [pc |-> "opened", msg |-> receiver[r].msg, lock |-> receiver[r].lock,
                     case |-> c]
    <3>4. x \in ReceiverState /\ x.msg \in DOMAIN queue
      BY <3>2, <3>3 DEF ReceiverState
    <3> QED
      BY <1>6, <3>1, <3>4
  <2> QED
    BY <1>6, <1>8, <2>1, <2>2, <2>3, <2>4, <2>5, <2>6, <2>7 DEF Consume
<1>9. CASE UNCHANGED receiver
  BY <1>1, <1>2, <1>3, <1>4, <1>5, <1>9 DEF TypeOK
<1>10. ASSUME NEW r \in Receivers, Consume(r) \/ Crash(r)
       PROVE  TypeOK'
  BY <1>1, <1>2, <1>3, <1>4, <1>5, <1>8, <1>10 DEF TypeOK
<1> QED
  BY <1>9, <1>10 DEF Next, Broker, Send, Forget, LockExpires, MessageExpires, OtherIngest, vars

\* The invariant is inductive.
LEMMA BusInvariant == Spec => []BusInv
<1>1. Init => BusInv
  BY DEF Init, BusInv, TypeOK, Serving, Holds, HoldsOK, BoundRight, OneCasePerAlert, Settlements,
         ReceiverState, Idle
<1>2. BusInv /\ [Next]_vars => BusInv'
  <2> SUFFICES ASSUME BusInv, [Next]_vars PROVE BusInv'
    OBVIOUS
  <2>1. Serving'
    BY ServingKept DEF BusInv
  <2> QED
    BY <2>1, TypeKept, HoldsKept, BoundKept, SettlementsKept DEF BusInv
<1> QED
  BY <1>1, <1>2, PTL DEF Spec

\* For every number of receivers and deliveries: a completed message is bound
\* to its alert's one case, a message refused as invalid could never be bound.
THEOREM SettlesForCause == Spec => []SettledForCause
<1>1. BusInv => CompletedIsBound
  <2> SUFFICES ASSUME BusInv, NEW i \in DOMAIN queue, queue[i].state = "completed"
               PROVE  /\ queue[i].alert \in DOMAIN digests
                      /\ digests[queue[i].alert].body = queue[i].body
                      /\ digests[queue[i].alert].case \in CasesFor(cases, queue[i].alert)
                      /\ cases[digests[queue[i].alert].case].scope = identity
    BY DEF CompletedIsBound, BusInv, BoundRight
  <2> QED
    BY DEF BusInv, Settlements, Completed, BoundRight
<1>2. BusInv => RefusedForCause
  BY DEF BusInv, Settlements, Refused, Refusable, RefusedForCause
<1>3. BusInv => SettledForCause
  BY <1>1, <1>2 DEF BusInv, SettledForCause
<1> QED
  BY <1>3, BusInvariant, PTL

-----------------------------------------------------------------------------
(* The refinement of AlertIntake *)

\* bus_alerts is a table: it says nothing but what its rows say.
DigestTable == digests = [a \in DOMAIN digests |-> digests[a]]

LEMMA DigestTableAlways == Spec => []DigestTable
<1>1. Init => DigestTable
  BY DEF Init, DigestTable
<1>2. DigestTable /\ [Next]_vars => DigestTable'
  <2> SUFFICES ASSUME DigestTable, [Next]_vars PROVE DigestTable'
    OBVIOUS
  <2>1. ASSUME NEW a, NEW row, Put(a, row)
        PROVE  DigestTable'
    <3>1. /\ DOMAIN digests' = DOMAIN digests \cup {a}
          /\ \A x \in DOMAIN digests' : digests'[x] = IF x = a THEN row ELSE digests[x]
      BY <2>1 DEF Put
    <3> QED
      BY <2>1, <3>1 DEF Put, DigestTable
  <2>2. CASE UNCHANGED digests
    BY <2>2 DEF DigestTable
  <2> QED
    BY <2>1, <2>2
       DEF Next, Broker, Consume, Send, Forget, LockExpires, MessageExpires, Receive, RecordDigest,
           Refuse, OpenCase, BindCase, StepFails, Settle, Crash, OtherIngest, vars
<1> QED
  BY <1>1, <1>2, PTL DEF Spec

\* A transaction of `ingest` opens the alert's case or finds it.
LEMMA IngestIsOpen ==
    ASSUME NEW row \in CaseRow, cases' = Ingested(cases, row), UNCHANGED <<identity, digests>>
    PROVE  [Intake!Next]_(Intake!vars)
<1>1. row.alert \in Alerts /\ row.scope \in Senders
      /\ row = [alert |-> row.alert, scope |-> row.scope]
  BY DEF CaseRow
<1>2. CASE CasesFor(cases, row.alert) = {}
  <2>1. Intake!Open(row.alert, row.scope)
    BY <1>1, <1>2 DEF Intake!Open, Ingested, CasesFor
  <2> QED
    BY <1>1, <2>1 DEF Intake!Next
<1>3. CASE CasesFor(cases, row.alert) # {}
  BY <1>3 DEF Ingested, Intake!vars
<1> QED
  BY <1>2, <1>3

\* A row that is written as it was changes nothing.
LEMMA SameRowPut ==
    ASSUME DigestTable, NEW a \in DOMAIN digests, Put(a, digests[a])
    PROVE  UNCHANGED digests
<1>1. DOMAIN digests \cup {a} = DOMAIN digests
  OBVIOUS
<1>2. digests' = [x \in DOMAIN digests |-> IF x = a THEN digests[a] ELSE digests[x]]
  BY <1>1 DEF Put
<1>3. digests' = [x \in DOMAIN digests |-> digests[x]]
  BY <1>2
<1> QED
  BY <1>3 DEF DigestTable

\* The digest of a first delivery takes the alert; that of a later one is there.
LEMMA DigestIsTake ==
    ASSUME BusInv, DigestTable, NEW r \in Receivers, RecordDigest(r)
    PROVE  [Intake!Next]_(Intake!vars)
<1> DEFINE m == MessageOf(r)
<1> TypeOK
  BY DEF BusInv
<1>1. /\ receiver[r].pc = "received" /\ Put(m.alert, Recorded(m))
      /\ UNCHANGED <<identity, cases>>
  BY DEF RecordDigest
<1>2. receiver[r] # Idle /\ m.alert \in Alerts /\ m.body \in Bodies
  BY <1>1, HeldMessage
<1>3. identity # NoConfig
  BY <1>2, BusAssumption DEF BusInv, Serving
<1>4. CASE m.alert \in DOMAIN digests
  <2>1. UNCHANGED digests
    BY <1>1, <1>4, SameRowPut DEF Recorded
  <2> QED
    BY <1>1, <2>1 DEF Intake!vars
<1>5. CASE m.alert \notin DOMAIN digests
  <2>1. Recorded(m) = [body |-> m.body, case |-> NULL]
    BY <1>5 DEF Recorded
  <2> HIDE DEF m
  <2>2. Intake!Take(m.alert, m.body)
    BY <1>1, <1>3, <1>5, <2>1 DEF Put, Intake!Take, Intake!Write, Intake!Unbound, NULL
  <2> QED
    BY <1>2, <2>2 DEF Intake!Next
<1> QED
  BY <1>4, <1>5

\* The binding of a first delivery binds the alert to its case; a later one
\* writes what is there.
LEMMA BindingIsBind ==
    ASSUME BusInv, DigestTable, NEW r \in Receivers, BindCase(r)
    PROVE  [Intake!Next]_(Intake!vars)
<1> DEFINE a == MessageOf(r).alert
           c == receiver[r].case
           row == [digests[a] EXCEPT !.case = c]
<1> TypeOK
  BY DEF BusInv
<1>1. /\ receiver[r].pc = "opened" /\ Put(a, row)
      /\ UNCHANGED <<identity, cases>>
  BY DEF BindCase
<1>2. receiver[r] # Idle /\ a \in Alerts
  BY <1>1, HeldMessage
<1>3. a \in DOMAIN digests /\ c \in CasesFor(cases, a) /\ cases[c].scope = ConfigOf[r]
  BY <1>1 DEF BusInv, Holds, HoldsOK
<1>4. identity = ConfigOf[r]
  BY <1>2 DEF BusInv, Serving
<1>5. c \in DOMAIN cases /\ cases[c] = [alert |-> a, scope |-> identity]
  <2>1. c \in DOMAIN cases /\ cases[c].alert = a
    BY <1>3 DEF CasesFor
  <2>2. cases[c] \in CaseRow
    <3>1. cases \in Seq(CaseRow)
      BY DEF TypeOK, CaseRow
    <3> HIDE DEF c
    <3> QED
      BY <2>1, <3>1
  <2> QED
    BY <1>3, <1>4, <2>1, <2>2 DEF CaseRow
<1>6. digests[a] \in BusRow
  BY <1>3 DEF TypeOK
<1>7. CASE digests[a].case = NULL
  <2>1. row = [digests[a] EXCEPT !.case = c]
    OBVIOUS
  <2> HIDE DEF a, c, row
  <2>2. Intake!Bind(a)
    BY <1>1, <1>3, <1>5, <1>7, <2>1 DEF Put, Intake!Bind, Intake!Write, Intake!Unbound, NULL
  <2> QED
    BY <1>2, <2>2 DEF Intake!Next
<1>8. CASE digests[a].case # NULL
  <2>1. digests[a].case \in CasesFor(cases, a)
    BY <1>3, <1>8 DEF BusInv, BoundRight
  <2>2. digests[a].case = c
    BY <1>3, <2>1 DEF BusInv, BoundRight, OneCasePerAlert, CasesFor
  <2>3. row = digests[a]
    BY <1>6, <2>2 DEF BusRow
  <2>4. UNCHANGED digests
    <3> HIDE DEF a, row
    <3> QED
      BY <1>1, <1>3, <2>3, SameRowPut
  <2> QED
    BY <1>1, <2>4 DEF Intake!vars
<1> QED
  BY <1>7, <1>8

\* For any receivers, redeliveries, expired locks and crashes between the three
\* transactions: an alert is recorded once, gets its one case and is bound to it
\* once, for the one customer of the database.
THEOREM BusImplementsIntake == Spec => ImplementsIntake
<1>1. Init => Intake!Init
  BY DEF Init, Intake!Init
<1>2. BusInv /\ DigestTable /\ [Next]_vars => [Intake!Next]_(Intake!vars)
  <2> SUFFICES ASSUME BusInv, DigestTable, [Next]_vars PROVE [Intake!Next]_(Intake!vars)
    OBVIOUS
  <2>1. CASE UNCHANGED <<identity, digests, cases>>
    BY <2>1 DEF Intake!vars
  <2>2. ASSUME NEW r \in Receivers, NEW i \in DOMAIN queue, Receive(r, i)
        PROVE  [Intake!Next]_(Intake!vars)
    <3>1. CASE identity = ConfigOf[r]
      BY <2>1, <2>2, <3>1 DEF Receive
    <3>2. CASE identity = NoConfig
      <4>1. Intake!Own(ConfigOf[r])
        BY <2>2, <3>2 DEF Receive, Intake!Own
      <4> QED
        BY <4>1, BusAssumption DEF Intake!Next
    <3> QED
      BY <2>2, <3>1, <3>2 DEF Receive
  <2>3. ASSUME NEW r \in Receivers, OpenCase(r)
        PROVE  [Intake!Next]_(Intake!vars)
    <3>1. CaseRowOf(r) \in CaseRow
      BY <2>3, HeldMessage DEF OpenCase, BusInv
    <3> QED
      BY <2>3, <3>1, IngestIsOpen DEF OpenCase
  <2>4. ASSUME NEW a \in Alerts, NEW s \in Senders, OtherIngest(a, s)
        PROVE  [Intake!Next]_(Intake!vars)
    <3>1. [alert |-> a, scope |-> s] \in CaseRow
      BY DEF CaseRow
    <3> QED
      BY <2>4, <3>1, IngestIsOpen DEF OtherIngest
  <2> QED
    BY <2>1, <2>2, <2>3, <2>4, DigestIsTake, BindingIsBind
       DEF Next, Broker, Consume, Send, Forget, LockExpires, MessageExpires, Refuse,
           StepFails, Settle, Crash, vars
<1> QED
  BY <1>1, <1>2, BusInvariant, DigestTableAlways, PTL DEF Spec, ImplementsIntake, Intake!Spec
=============================================================================
