------------------------- MODULE PartnerCloudProofs -------------------------
(***************************************************************************)
(* What PartnerCloud promises for any number of partners, orders, catalogs *)
(* and operators, and for any calendar.  An active order never changes, and *)
(* an activation is stamped no later than now: a month that was over when   *)
(* its statement was drawn is charged the same ever after.                  *)
(***************************************************************************)
EXTENDS PartnerCloud, SharedLemmas

-----------------------------------------------------------------------------
(* The calendar *)

\* A later clock reading lies in no earlier month.
LEMMA MonthsPass ==
    ASSUME NEW t \in Nat, NEW u \in Nat, t <= u
    PROVE  MonthIndex(t) \in Nat /\ MonthIndex(u) \in Nat /\ MonthIndex(t) <= MonthIndex(u)
<1> DEFINE L == MonthLength
           a == t \div L
           b == u \div L
<1>1. FirstMonth \in Nat /\ L \in Nat \ {0}
  BY CalendarAssumption
<1>2. a \in Nat /\ b \in Nat
  BY <1>1
<1>3. /\ t = L * a + (t % L) /\ t % L \in 0..(L - 1)
      /\ u = L * b + (u % L) /\ u % L \in 0..(L - 1)
  BY <1>1
<1>4. a <= b
  <2>1. SUFFICES ASSUME a >= b + 1 PROVE FALSE
    BY <1>2
  <2> DEFINE d == a - (b + 1)
             r == t % L
             q == u % L
  <2>2. d \in Nat /\ a = (b + 1) + d
    BY <1>2, <2>1
  <2>3. r \in 0..(L - 1) /\ q \in 0..(L - 1) /\ t = L * a + r /\ u = L * b + q
    BY <1>3
  <2> HIDE DEF a, b, d, r, q, L
  <2>4. L * a = L * b + L + L * d /\ L * d \in Nat /\ L * b \in Nat
    BY <1>1, <1>2, <2>2
  <2>5. t >= L * b + L /\ u < L * b + L
    BY <1>1, <2>3, <2>4
  <2> QED
    BY <1>1, <2>4, <2>5
<1> QED
  BY <1>1, <1>2, <1>4 DEF MonthIndex

\* The first days of months sort as the months do.
LEMMA FirstDays ==
    ASSUME NEW i \in Nat, NEW j \in Nat
    PROVE  Before(FirstDay(MonthAt(i)), FirstDay(MonthAt(j))) <=> i < j
<1>1. /\ FirstDay(MonthAt(i)) = <<i \div 12, (i % 12) + 1, 0>>
      /\ FirstDay(MonthAt(j)) = <<j \div 12, (j % 12) + 1, 0>>
  BY DEF FirstDay, MonthAt
<1>2. Before(FirstDay(MonthAt(i)), FirstDay(MonthAt(j)))
      <=> \/ i \div 12 < j \div 12
          \/ i \div 12 = j \div 12 /\ (i % 12) + 1 < (j % 12) + 1
  BY <1>1 DEF Before
<1> QED
  BY <1>2

\* A month of the model is the month of some clock reading, and a service is
\* active in it exactly if it was activated in that month or before.
LEMMA ActiveMonths ==
    ASSUME NEW t \in Nat, NEW i \in Nat
    PROVE  /\ MonthOf(t) = MonthAt(MonthIndex(t))
           /\ ActiveBy(t, MonthAt(i)) <=> MonthIndex(t) <= i
<1>1. MonthOf(t) = MonthAt(MonthIndex(t))
  BY DEF MonthOf, Stamp, MonthAt
<1>2. MonthIndex(t) \in Nat
  BY MonthsPass
<1>3. ActiveBy(t, MonthAt(i)) <=> ~(i < MonthIndex(t))
  BY <1>1, <1>2, FirstDays DEF ActiveBy
<1> QED
  BY <1>1, <1>2, <1>3

LEMMA MonthsAreMonths ==
    ASSUME NEW m \in Months
    PROVE  \E i \in Nat : m = MonthAt(i)
<1>1. PICK t \in 0..MaxNow : m = MonthAt(MonthIndex(t))
  BY DEF Months
<1>2. t \in Nat
  BY LimitAssumption
<1> QED
  BY <1>1, <1>2, MonthsPass

-----------------------------------------------------------------------------
(* Types *)

\* A charge is of whole amounts, whatever the order and the month.
LEMMA ChargeType ==
    ASSUME NEW order, order.retail \in Price, order.wholesale \in Price, NEW m
    PROVE  Charged(order, m) \in Charge
<1>1. /\ order.retail.monthly \in Nat /\ order.retail.setup \in Nat
      /\ order.wholesale.monthly \in Nat /\ order.wholesale.setup \in Nat
  BY DEF Price
<1>2. ASSUME NEW price, price.monthly \in Nat, price.setup \in Nat
      PROVE  Total(price, order, m) \in Nat
  BY <1>2 DEF Total
<1> QED
  BY <1>1, <1>2 DEF Charged, Charge

\* The answer to a statement request is well-typed.
LEMMA AnswerType ==
    ASSUME PartnerTypeOK, NEW p \in Partners, NEW o \in OrderIds, NEW order \in Order,
           NEW m \in Months, NEW settled \in BOOLEAN,
           NEW status \in {"unknown", "insufficient_data", "met", "attention", None},
           Answer(p, o, order, m, settled, status)
    PROVE  statement' \in Statement /\ setups' \in [OrderIds -> SUBSET Months]
<1>1. Charged(order, m) \in Charge
  BY ChargeType DEF Order
<1>2. statement' \in Statement
  BY <1>1 DEF Answer, Statement
<1>3. setups' \in [OrderIds -> SUBSET Months]
  BY DEF Answer, PartnerTypeOK
<1> QED
  BY <1>2, <1>3

\* Every table holds rows of its schema, and every command what it read.
THEOREM TypeCorrect == PartnerSpec => []PartnerTypeOK
<1>1. PartnerInit => PartnerTypeOK
  BY DEF PartnerInit, PartnerTypeOK
<1>2. PartnerTypeOK /\ [PartnerNext]_vars => PartnerTypeOK'
  <2> SUFFICES ASSUME PartnerTypeOK, [PartnerNext]_vars PROVE PartnerTypeOK'
    OBVIOUS
  <2> USE DEF PartnerTypeOK, desk, book, service, billing
  <2>1. CASE Tick
    BY <2>1 DEF Tick
  <2>2. ASSUME NEW p \in Partners, RegisterPartner(p)
        PROVE  PartnerTypeOK'
    BY <2>2 DEF RegisterPartner
  <2>3. ASSUME NEW c \in Documents, Serve(c)
        PROVE  PartnerTypeOK'
    BY <2>3 DEF Serve
  <2>4. ASSUME NEW p \in Partners, NEW o \in OrderIds, CreateOrder(p, o)
        PROVE  PartnerTypeOK'
    <3>1. catalog \in Documents /\ catalog \in Catalog
      BY <2>4, DocumentAssumption DEF CreateOrder
    <3>2. Requested(p, catalog) \in Order
      BY <3>1 DEF Requested, Order, Catalog
    <3> QED
      BY <2>4, <3>1, <3>2 DEF CreateOrder
  <2>5. ASSUME NEW a \in Operators, NEW o \in OrderIds, StampActivation(a, o)
        PROVE  PartnerTypeOK'
    BY <2>5 DEF StampActivation
  <2>6. ASSUME NEW a \in Operators, CommitActivation(a)
        PROVE  PartnerTypeOK'
    <3> DEFINE held == activating[a]
               active == [orders[held.id] EXCEPT !.state = "active", !.active_at = held.at,
                                                 !.deployment_ref = a]
    <3>1. held.id \in OrderIds /\ held.at \in Nat
      BY <2>6 DEF CommitActivation
    <3>2. orders' \in [OrderIds -> Order \cup {None}]
      <4>1. CASE ~Awaiting(held.id)
        BY <2>6, <4>1 DEF CommitActivation
      <4>2. CASE Awaiting(held.id)
        <5>1. orders[held.id] \in Order
          BY <3>1, <4>2 DEF Awaiting
        <5>2. active \in Order
          BY <3>1, <5>1 DEF Order
        <5>3. orders' = [orders EXCEPT ![held.id] = active]
          BY <2>6, <3>1, <4>2, <5>1 DEF CommitActivation, Order
        <5> QED
          BY <3>1, <5>2, <5>3
      <4> QED
        BY <4>1, <4>2
    <3> QED
      BY <2>6, <3>2 DEF CommitActivation
  <2>7. ASSUME NEW p \in Partners, NEW o \in OrderIds, ExportService(p, o)
        PROVE  PartnerTypeOK'
    BY <2>7 DEF ExportService, MayExport, Visible, Order
  <2>8. CASE StartProbe
    BY <2>8 DEF StartProbe
  <2>9. ASSUME NEW l \in Latencies \cup {None}, RecordProbe(l)
        PROVE  PartnerTypeOK'
    <3> DEFINE row == [service |-> probing.service, at |-> probing.at, ok |-> l # None, latency |-> l]
    <3>1. row \in Sample /\ probes' = Append(probes, row)
      BY <2>9 DEF RecordProbe, Sample
    <3>2. probes' \in Seq(Sample)
      BY <3>1
    <3> QED
      BY <2>9, <3>2 DEF RecordProbe
  <2>10. CASE AbandonProbe
    BY <2>10 DEF AbandonProbe
  <2>11. ASSUME NEW p \in Partners, NEW o \in OrderIds, NEW m \in Months, ReadOrder(p, o, m)
         PROVE  PartnerTypeOK'
    <3>1. orders[o] \in Order /\ Settled(o, m) \in BOOLEAN
      BY <2>11 DEF ReadOrder, Visible, Settled
    <3>2. CASE ActiveIn(orders[o], m)
      BY <2>11, <3>1, <3>2 DEF ReadOrder, Draft
    <3>3. CASE ~ActiveIn(orders[o], m)
      <4>1. statement' \in Statement /\ setups' \in [OrderIds -> SUBSET Months]
        BY <2>11, <3>1, <3>3, AnswerType DEF ReadOrder
      <4> QED
        BY <2>11, <3>3, <4>1 DEF ReadOrder
    <3> QED
      BY <3>2, <3>3
  <2>12. CASE ReadProbes
    <3>1. drafting \in Draft
      BY <2>12 DEF ReadProbes
    <3>2. /\ drafting.partner \in Partners /\ drafting.id \in OrderIds /\ drafting.order \in Order
          /\ drafting.month \in Months /\ drafting.settled \in BOOLEAN
      BY <3>1 DEF Draft
    <3>3. Judged(drafting.order, Rows(drafting.id, drafting.month))
            \in {"unknown", "insufficient_data", "met", "attention", None}
      BY DEF Judged, Status
    <3>4. statement' \in Statement /\ setups' \in [OrderIds -> SUBSET Months]
      BY <2>12, <3>2, <3>3, AnswerType DEF ReadProbes
    <3> QED
      BY <2>12, <3>4 DEF ReadProbes
  <2>13. ASSUME NEW x \in [partner : Partners, order : OrderIds, model : Models], RecordScore(x)
         PROVE  PartnerTypeOK'
    <3>1. x \in Score
      BY DocumentAssumption DEF Score, Models, Catalog
    <3> QED
      BY <2>13, <3>1 DEF RecordScore
  <2>14. CASE UNCHANGED vars
    BY <2>14 DEF vars
  <2> QED
    BY <2>1, <2>2, <2>3, <2>4, <2>5, <2>6, <2>7, <2>8, <2>9, <2>10, <2>11, <2>12, <2>13, <2>14
       DEF PartnerNext
<1> QED
  BY <1>1, <1>2, PTL DEF PartnerSpec

-----------------------------------------------------------------------------
(* The inductive invariant *)

\* An order has what the catalog it was placed under offered, and is active
\* since a time that has come.
OrderRows ==
    /\ catalog # None => ValidCatalog(catalog)
    /\ \A o \in OrderIds : orders[o] # None =>
         /\ placed[o] \in Documents /\ ValidCatalog(placed[o])
         /\ orders[o].model = placed[o].model
         /\ orders[o].retail = placed[o].retail /\ orders[o].wholesale = placed[o].wholesale
         /\ orders[o].state = "active" => orders[o].active_at \in Nat /\ orders[o].active_at <= now

\* Clock readings that wait for their write are of the past.
Stamps == \A a \in Operators : activating[a] # None => activating[a].at <= now

IsActive(row) == row # None /\ row.state = "active"

\* A service in the file, in a probe or in a sample is paid for by then.
Owed ==
    /\ config # None => IsActive(orders[config.service])
    /\ probing # None => /\ IsActive(orders[probing.service])
                         /\ ActiveBy(orders[probing.service].active_at, MonthOf(probing.at))
    /\ \A i \in DOMAIN probes :
         /\ IsActive(orders[probes[i].service])
         /\ ActiveBy(orders[probes[i].service].active_at, MonthOf(probes[i].at))

\* What a statement request read of an active order is still its row.
Drafted ==
    drafting # None => /\ IsActive(orders[drafting.id])
                       /\ drafting.order = orders[drafting.id]
                       /\ drafting.partner = orders[drafting.id].partner
                       /\ ActiveIn(orders[drafting.id], drafting.month)

\* No activation will reach back into the month: it is over, and whoever is
\* about to activate the order has read a later clock.
OutOfReach(o, m) ==
    /\ Before(FirstDay(m), FirstDay(MonthOf(now)))
    /\ \A a \in Operators :
         activating[a] # None /\ activating[a].id = o => ~ActiveBy(activating[a].at, m)

Stated ==
    statement # None =>
        LET o == statement.id
            m == statement.month
        IN  /\ orders[o] # None /\ orders[o].partner = statement.partner
            /\ statement.settled =>
                 /\ statement.charge = Charged(orders[o], m)
                 /\ ActiveIn(orders[o], m) \/ orders[o].state = "active" \/ OutOfReach(o, m)

\* The setup fee was charged in the month of activation only.
SetupMonths ==
    \A o \in OrderIds :
        \/ setups[o] = {}
        \/ IsActive(orders[o]) /\ setups[o] \subseteq {MonthOf(orders[o].active_at)}

ScoreRows ==
    \A s \in scores : /\ orders[s.order] # None /\ orders[s.order].partner = s.partner
                      /\ placed[s.order].model = s.model

PartnerInv ==
    /\ PartnerTypeOK /\ OrderRows /\ Stamps /\ Owed /\ Drafted /\ Stated
    /\ ChargesAsPlaced /\ SetupMonths /\ ScoreRows

\* What no step takes back: an order, its price and its partner, the catalog it
\* was placed under, an activation, and time.
Grow ==
    /\ now' >= now
    /\ \A o \in OrderIds : orders[o] # None =>
         /\ orders'[o] # None
         /\ orders'[o].partner = orders[o].partner /\ orders'[o].model = orders[o].model
         /\ orders'[o].retail = orders[o].retail /\ orders'[o].wholesale = orders[o].wholesale
         /\ orders'[o].targets = orders[o].targets
         /\ orders[o].state = "active" => orders'[o] = orders[o]
         /\ placed'[o] = placed[o]

\* What the UPDATE of an activation does to the rows.
LEMMA ActivationWrites ==
    ASSUME PartnerTypeOK, NEW a \in Operators, CommitActivation(a)
    PROVE  /\ activating[a].id \in OrderIds /\ activating[a].at \in Nat
           /\ \A o \in OrderIds :
                \/ orders'[o] = orders[o]
                \/ /\ o = activating[a].id /\ orders[o] \in Order /\ orders'[o] \in Order
                   /\ orders[o].state = "requested"
                   /\ orders'[o] = [orders[o] EXCEPT !.state = "active",
                                                     !.active_at = activating[a].at,
                                                     !.deployment_ref = a]
<1> DEFINE held == activating[a]
           active == [orders[held.id] EXCEPT !.state = "active", !.active_at = held.at,
                                             !.deployment_ref = a]
<1>1. held.id \in OrderIds /\ held.at \in Nat
  BY DEF CommitActivation, PartnerTypeOK
<1>2. CASE ~Awaiting(held.id)
  BY <1>1, <1>2 DEF CommitActivation
<1>3. CASE Awaiting(held.id)
  <2>1. orders[held.id] \in Order /\ orders[held.id].state = "requested"
    BY <1>1, <1>3 DEF Awaiting, PartnerTypeOK
  <2>2. active \in Order
    BY <1>1, <2>1 DEF Order
  <2>3. orders' = [orders EXCEPT ![held.id] = active]
    BY <1>1, <1>3, <2>1 DEF CommitActivation, Order
  <2> QED
    BY <1>1, <2>1, <2>2, <2>3 DEF PartnerTypeOK
<1> QED
  BY <1>2, <1>3

\* Only a new order and an activation write to the orders.
LEMMA OrderWriters ==
    ASSUME [PartnerNext]_vars
    PROVE  \/ UNCHANGED <<orders, placed>>
           \/ \E p \in Partners, o \in OrderIds : CreateOrder(p, o)
           \/ \E a \in Operators : CommitActivation(a)
BY DEF PartnerNext, Tick, RegisterPartner, Serve, StampActivation, ExportService, StartProbe,
       RecordProbe, AbandonProbe, ReadOrder, ReadProbes, RecordScore, vars, book

LEMMA TimePasses ==
    ASSUME PartnerTypeOK, [PartnerNext]_vars
    PROVE  now \in Nat /\ now' \in Nat /\ now' >= now
<1>1. now \in Nat
  BY DEF PartnerTypeOK
<1>2. CASE Tick
  BY <1>1, <1>2 DEF Tick
<1>3. CASE UNCHANGED now
  BY <1>1, <1>3
<1> QED
  BY <1>2, <1>3
     DEF PartnerNext, RegisterPartner, Serve, CreateOrder, StampActivation,
         CommitActivation, ExportService, StartProbe, RecordProbe, AbandonProbe, ReadOrder,
         ReadProbes, RecordScore, vars, desk

LEMMA OrdersGrow ==
    ASSUME PartnerTypeOK, [PartnerNext]_vars
    PROVE  Grow
<1>1. now' >= now
  BY TimePasses
<1>2. ASSUME NEW a \in Operators, CommitActivation(a)
      PROVE  Grow
  <2>1. UNCHANGED placed
    BY <1>2 DEF CommitActivation
  <2>2. ASSUME NEW o \in OrderIds, orders[o] \in Order, orders'[o] \in Order,
               orders[o].state = "requested", NEW at,
               orders'[o] = [orders[o] EXCEPT !.state = "active", !.active_at = at,
                                              !.deployment_ref = a]
        PROVE  /\ orders'[o] # None
               /\ orders'[o].partner = orders[o].partner /\ orders'[o].model = orders[o].model
               /\ orders'[o].retail = orders[o].retail
               /\ orders'[o].wholesale = orders[o].wholesale
               /\ orders'[o].targets = orders[o].targets
               /\ orders[o].state # "active"
    BY <2>2, NoneAssumption DEF Order
  <2>3. ASSUME NEW o \in OrderIds, orders[o] # None
        PROVE  /\ orders'[o] # None
               /\ orders'[o].partner = orders[o].partner /\ orders'[o].model = orders[o].model
               /\ orders'[o].retail = orders[o].retail
               /\ orders'[o].wholesale = orders[o].wholesale
               /\ orders'[o].targets = orders[o].targets
               /\ orders[o].state = "active" => orders'[o] = orders[o]
    <3>1. CASE orders'[o] = orders[o]
      BY <2>3, <3>1
    <3>2. CASE orders'[o] # orders[o]
      <4>1. /\ orders[o] \in Order /\ orders'[o] \in Order /\ orders[o].state = "requested"
            /\ orders'[o] = [orders[o] EXCEPT !.state = "active",
                                              !.active_at = activating[a].at,
                                              !.deployment_ref = a]
        BY <1>2, <3>2, ActivationWrites
      <4> QED
        BY <2>2, <4>1
    <3> QED
      BY <3>1, <3>2
  <2> QED
    BY <1>1, <2>1, <2>3 DEF Grow
<1>3. ASSUME NEW p \in Partners, NEW o \in OrderIds, CreateOrder(p, o)
      PROVE  Grow
  BY <1>1, <1>3 DEF CreateOrder, PartnerTypeOK, Grow
<1>4. CASE UNCHANGED <<orders, placed>>
  BY <1>1, <1>4 DEF Grow
<1> QED
  BY <1>2, <1>3, <1>4, OrderWriters

\* The orders and their catalogs agree after every step.
LEMMA OrderRowsKept ==
    ASSUME PartnerInv, [PartnerNext]_vars
    PROVE  OrderRows'
<1> USE DEF PartnerInv
<1>1. Grow /\ now \in Nat /\ now' \in Nat
  BY TimePasses, OrdersGrow
<1>2. catalog' # None => ValidCatalog(catalog')
  <2>1. ASSUME NEW c \in Documents, Serve(c)
        PROVE  ValidCatalog(catalog')
    BY <2>1 DEF Serve
  <2>2. CASE UNCHANGED catalog
    BY <2>2 DEF OrderRows
  <2> QED
    BY <2>1, <2>2
       DEF PartnerNext, Tick, RegisterPartner, CreateOrder, StampActivation, CommitActivation,
           ExportService, StartProbe, RecordProbe, AbandonProbe, ReadOrder, ReadProbes,
           RecordScore, vars, desk
<1>3. ASSUME NEW o \in OrderIds, orders[o] # None, orders'[o] = orders[o]
      PROVE  /\ placed'[o] \in Documents /\ ValidCatalog(placed'[o])
             /\ orders'[o].model = placed'[o].model
             /\ orders'[o].retail = placed'[o].retail
             /\ orders'[o].wholesale = placed'[o].wholesale
             /\ orders'[o].state = "active" =>
                  orders'[o].active_at \in Nat /\ orders'[o].active_at <= now'
  BY <1>1, <1>3 DEF OrderRows, Grow
<1>4. ASSUME NEW a \in Operators, CommitActivation(a)
      PROVE  OrderRows'
  <2>1. activating[a].at \in Nat /\ activating[a].at <= now
    BY <1>4, ActivationWrites DEF CommitActivation, Stamps
  <2>2. ASSUME NEW o \in OrderIds, orders[o] \in Order, orders'[o] \in Order,
               orders'[o] = [orders[o] EXCEPT !.state = "active",
                                              !.active_at = activating[a].at,
                                              !.deployment_ref = a]
        PROVE  /\ placed'[o] \in Documents /\ ValidCatalog(placed'[o])
               /\ orders'[o].model = placed'[o].model
               /\ orders'[o].retail = placed'[o].retail
               /\ orders'[o].wholesale = placed'[o].wholesale
               /\ orders'[o].active_at \in Nat /\ orders'[o].active_at <= now'
    <3>1. orders[o] # None
      BY <2>2, NoneAssumption
    <3>2. orders'[o].active_at = activating[a].at
      BY <2>2 DEF Order
    <3> QED
      BY <1>1, <2>1, <3>1, <3>2 DEF OrderRows, Grow
  <2> QED
    BY <1>2, <1>3, <1>4, <2>2, ActivationWrites DEF OrderRows
<1>5. ASSUME NEW p \in Partners, NEW o \in OrderIds, CreateOrder(p, o)
      PROVE  OrderRows'
  <2>1. /\ orders' = [orders EXCEPT ![o] = Requested(p, catalog)]
        /\ placed' = [placed EXCEPT ![o] = catalog]
        /\ catalog \in Documents /\ ValidCatalog(catalog)
    BY <1>5 DEF CreateOrder, OrderRows, PartnerTypeOK
  <2>2. /\ orders'[o] = Requested(p, catalog) /\ placed'[o] = catalog
        /\ \A q \in OrderIds : q # o => orders'[q] = orders[q]
    BY <2>1 DEF PartnerTypeOK
  <2>3. /\ orders'[o].model = placed'[o].model
        /\ orders'[o].retail = placed'[o].retail
        /\ orders'[o].wholesale = placed'[o].wholesale
        /\ orders'[o].state = "requested"
    BY <2>2 DEF Requested
  <2> QED
    BY <1>2, <1>3, <2>1, <2>2, <2>3 DEF OrderRows
<1>6. CASE UNCHANGED <<orders, placed>>
  BY <1>2, <1>3, <1>6 DEF OrderRows
<1> QED
  BY <1>4, <1>5, <1>6, OrderWriters

\* Nobody holds a clock reading of the future.
LEMMA StampsKept ==
    ASSUME PartnerInv, [PartnerNext]_vars
    PROVE  Stamps'
<1> USE DEF PartnerInv, PartnerTypeOK
<1>1. now \in Nat /\ now' \in Nat /\ now' >= now
  BY TimePasses
<1>2. ASSUME NEW a \in Operators, activating[a] # None
      PROVE  activating[a].at \in Nat /\ activating[a].at <= now'
  BY <1>1, <1>2 DEF Stamps
<1>3. ASSUME NEW a \in Operators, NEW o \in OrderIds, StampActivation(a, o)
      PROVE  Stamps'
  <2>1. activating' = [activating EXCEPT ![a] = [id |-> o, at |-> now]]
    BY <1>3 DEF StampActivation
  <2>2. activating'[a].at = now /\ \A b \in Operators : b # a => activating'[b] = activating[b]
    BY <2>1
  <2> QED
    BY <1>1, <1>2, <2>2 DEF Stamps
<1>4. ASSUME NEW a \in Operators, CommitActivation(a)
      PROVE  Stamps'
  BY <1>2, <1>4 DEF CommitActivation, Stamps
<1>5. CASE UNCHANGED activating
  BY <1>2, <1>5 DEF Stamps
<1> QED
  BY <1>3, <1>4, <1>5
     DEF PartnerNext, Tick, RegisterPartner, Serve, CreateOrder, ExportService, StartProbe,
         RecordProbe, AbandonProbe, ReadOrder, ReadProbes, RecordScore, vars, book

\* An active order is the same row ever after.
LEMMA ActiveStays ==
    ASSUME PartnerTypeOK, [PartnerNext]_vars, NEW o \in OrderIds, IsActive(orders[o])
    PROVE  orders'[o] = orders[o] /\ IsActive(orders'[o])
BY OrdersGrow DEF Grow, IsActive

\* A probe starts when its service is active: it is stamped in that month or a
\* later one, and so is its sample.
LEMMA OwedKept ==
    ASSUME PartnerInv, [PartnerNext]_vars
    PROVE  Owed'
<1> USE DEF PartnerInv
<1>1. config # None => IsActive(orders'[config.service])
  <2>1. config # None => config.service \in OrderIds
    BY DEF PartnerTypeOK
  <2> QED
    BY <2>1, ActiveStays DEF Owed
<1>2. probing # None =>
        /\ IsActive(orders'[probing.service])
        /\ ActiveBy(orders'[probing.service].active_at, MonthOf(probing.at))
  <2>1. probing # None => probing.service \in OrderIds
    BY DEF PartnerTypeOK
  <2> QED
    BY <2>1, ActiveStays DEF Owed
<1>3. ASSUME NEW i \in DOMAIN probes
      PROVE  /\ IsActive(orders'[probes[i].service])
             /\ ActiveBy(orders'[probes[i].service].active_at, MonthOf(probes[i].at))
  <2>1. probes[i] \in Sample
    BY DEF PartnerTypeOK
  <2>2. probes[i].service \in OrderIds
    BY <2>1 DEF Sample
  <2> QED
    BY <2>2, ActiveStays DEF Owed
<1>4. ASSUME NEW p \in Partners, NEW o \in OrderIds, ExportService(p, o)
      PROVE  Owed'
  <2>1. /\ config' = [service |-> o, model |-> orders[o].model]
        /\ UNCHANGED <<orders, probing, probes>>
        /\ IsActive(orders[o])
    BY <1>4 DEF ExportService, MayExport, Visible, IsActive, book
  <2> QED
    BY <1>2, <1>3, <2>1 DEF Owed, IsActive
<1>5. CASE StartProbe
  <2>1. /\ config # None /\ probing' = [service |-> config.service, at |-> now]
        /\ UNCHANGED <<orders, config, probes>>
    BY <1>5 DEF StartProbe, book
  <2>2. IsActive(orders[config.service]) /\ config.service \in OrderIds
    BY <2>1 DEF Owed, PartnerTypeOK
  <2>3. /\ orders[config.service].active_at \in Nat /\ orders[config.service].active_at <= now
        /\ now \in Nat
    BY <2>2 DEF OrderRows, IsActive, PartnerTypeOK
  <2>4. ActiveBy(orders[config.service].active_at, MonthOf(now))
    BY <2>3, MonthsPass, ActiveMonths
  <2>5. probing'.service = config.service /\ probing'.at = now
    BY <2>1
  <2> QED
    BY <1>1, <1>3, <2>1, <2>2, <2>4, <2>5 DEF Owed, IsActive
<1>6. ASSUME NEW l \in Latencies \cup {None}, RecordProbe(l)
      PROVE  Owed'
  <2> DEFINE row == [service |-> probing.service, at |-> probing.at, ok |-> l # None, latency |-> l]
  <2>1. /\ probing # None /\ probes' = Append(probes, row) /\ probing' = None
        /\ UNCHANGED <<orders, config>>
    BY <1>6 DEF RecordProbe, book
  <2>2. row.service = probing.service /\ row.at = probing.at
    OBVIOUS
  <2> HIDE DEF row
  <2>3. /\ DOMAIN probes = 1..Len(probes) /\ Len(probes) \in Nat
        /\ DOMAIN probes' = 1..(Len(probes) + 1)
        /\ \A i \in 1..Len(probes) : probes'[i] = probes[i]
        /\ probes'[Len(probes) + 1] = row
    BY <2>1 DEF PartnerTypeOK
  <2>4. ASSUME NEW i \in DOMAIN probes'
        PROVE  /\ IsActive(orders'[probes'[i].service])
               /\ ActiveBy(orders'[probes'[i].service].active_at, MonthOf(probes'[i].at))
    <3>1. CASE i \in DOMAIN probes
      BY <1>3, <2>3, <3>1 DEF IsActive
    <3>2. CASE i = Len(probes) + 1
      BY <1>2, <2>1, <2>2, <2>3, <3>2 DEF IsActive
    <3> QED
      BY <2>3, <3>1, <3>2
  <2> QED
    BY <1>1, <2>1, <2>4 DEF Owed, IsActive
<1>7. CASE UNCHANGED <<config, probes>> /\ (probing' = probing \/ probing' = None)
  BY <1>1, <1>2, <1>3, <1>7 DEF Owed, IsActive
<1> QED
  BY <1>4, <1>5, <1>6, <1>7
     DEF PartnerNext, Tick, RegisterPartner, Serve, CreateOrder, StampActivation, CommitActivation,
         AbandonProbe, ReadOrder, ReadProbes, RecordScore, vars, service

\* The row a statement request has read of an active order stays true.
LEMMA DraftedKept ==
    ASSUME PartnerInv, [PartnerNext]_vars
    PROVE  Drafted'
<1> USE DEF PartnerInv
<1>1. ASSUME NEW p \in Partners, NEW o \in OrderIds, NEW m \in Months, ReadOrder(p, o, m),
             ActiveIn(orders[o], m)
      PROVE  Drafted'
  <2>1. /\ drafting' = [partner |-> p, id |-> o, order |-> orders[o], month |-> m,
                        settled |-> Settled(o, m)]
        /\ orders[o] # None /\ orders[o].partner = p /\ UNCHANGED orders
    BY <1>1 DEF ReadOrder, Visible, book
  <2>2. /\ drafting'.id = o /\ drafting'.order = orders[o] /\ drafting'.partner = p
        /\ drafting'.month = m
    BY <2>1
  <2> QED
    BY <1>1, <2>1, <2>2 DEF Drafted, IsActive, ActiveIn
<1>2. CASE UNCHANGED drafting
  <2>1. drafting # None => drafting.id \in OrderIds
    BY DEF PartnerTypeOK, Draft
  <2> QED
    BY <1>2, <2>1, ActiveStays DEF Drafted, IsActive
<1>3. CASE drafting' = None
  BY <1>3 DEF Drafted
<1> QED
  BY <1>1, <1>2, <1>3
     DEF PartnerNext, Tick, RegisterPartner, Serve, CreateOrder, StampActivation, CommitActivation,
         ExportService, StartProbe, RecordProbe, AbandonProbe, ReadOrder, ReadProbes, RecordScore,
         vars, billing

-----------------------------------------------------------------------------
(* Statements *)

\* A statement may be called settled for an active row, or when the month is
\* over and no activation is under way.
MaySettle(o, m, settled) == IsActive(orders[o]) \/ (settled => Settled(o, m))

\* Every statement is the answer to a request, for the row the request read:
\* an active one, whose samples were then read, or one that is charged nothing.
LEMMA StatementWrites ==
    ASSUME PartnerInv, [PartnerNext]_vars
    PROVE  \/ UNCHANGED <<statement, setups>>
           \/ \E p \in Partners, o \in OrderIds, m \in Months :
              \E settled, status :
                /\ Answer(p, o, orders[o], m, settled, status)
                /\ orders[o] # None /\ orders[o].partner = p
                /\ MaySettle(o, m, settled)
                /\ UNCHANGED <<now, orders, placed, activating>>
<1> DEFINE Answered ==
             \E p \in Partners, o \in OrderIds, m \in Months :
              \E settled, status :
                /\ Answer(p, o, orders[o], m, settled, status)
                /\ orders[o] # None /\ orders[o].partner = p
                /\ MaySettle(o, m, settled)
                /\ UNCHANGED <<now, orders, placed, activating>>
<1> USE DEF PartnerInv
<1>1. ASSUME NEW p \in Partners, NEW o \in OrderIds, NEW m \in Months, ReadOrder(p, o, m),
             ~ActiveIn(orders[o], m)
      PROVE  Answered
  <2> DEFINE settled == Settled(o, m)
  <2>1. /\ Answer(p, o, orders[o], m, settled, None)
        /\ orders[o] # None /\ orders[o].partner = p
        /\ UNCHANGED <<now, orders, placed, activating>>
    BY <1>1 DEF ReadOrder, Visible, desk, book
  <2>2. MaySettle(o, m, settled)
    BY DEF MaySettle
  <2> HIDE DEF settled
  <2> QED
    BY <2>1, <2>2
<1>2. ASSUME NEW p \in Partners, NEW o \in OrderIds, NEW m \in Months, ReadOrder(p, o, m),
             ActiveIn(orders[o], m)
      PROVE  UNCHANGED <<statement, setups>>
  BY <1>2 DEF ReadOrder
<1>3. ASSUME ReadProbes
      PROVE  Answered
  <2> DEFINE d == drafting
             status == Judged(d.order, Rows(d.id, d.month))
  <2>1. d \in Draft /\ d # None
    BY <1>3 DEF ReadProbes, PartnerTypeOK
  <2>2. /\ d.partner \in Partners /\ d.id \in OrderIds /\ d.month \in Months /\ d.settled \in BOOLEAN
    BY <2>1 DEF Draft
  <2>3. /\ IsActive(orders[d.id]) /\ d.order = orders[d.id] /\ d.partner = orders[d.id].partner
    BY <2>1 DEF Drafted
  <2>4. Answer(d.partner, d.id, orders[d.id], d.month, d.settled, status)
    BY <1>3, <2>3 DEF ReadProbes
  <2>5. UNCHANGED <<now, orders, placed, activating>>
    BY <1>3 DEF ReadProbes, desk, book
  <2> HIDE DEF d, status
  <2> QED
    BY <2>2, <2>3, <2>4, <2>5 DEF IsActive, MaySettle
<1>4. ASSUME UNCHANGED billing
      PROVE  UNCHANGED <<statement, setups>>
  BY <1>4 DEF billing
<1> HIDE DEF Answered
<1>5. UNCHANGED <<statement, setups>> \/ Answered
  BY <1>1, <1>2, <1>3, <1>4
     DEF PartnerNext, Tick, RegisterPartner, Serve, CreateOrder, StampActivation, CommitActivation,
         ExportService, StartProbe, RecordProbe, AbandonProbe, RecordScore, vars
<1> QED
  BY <1>5 DEF Answered

\* What a statement says, field by field.
LEMMA AnswerFields ==
    ASSUME PartnerTypeOK, NEW p \in Partners, NEW o \in OrderIds, NEW m \in Months,
           NEW settled, NEW status, NEW order, Answer(p, o, order, m, settled, status)
    PROVE  /\ statement'.partner = p /\ statement'.id = o /\ statement'.month = m
           /\ statement'.charge = Charged(order, m) /\ statement'.settled = settled
           /\ \A q \in OrderIds : q # o => setups'[q] = setups[q]
           /\ setups'[o] = IF SetupIn(order, m) THEN setups[o] \cup {m} ELSE setups[o]
BY DEF Answer, PartnerTypeOK

\* A service that is not active in a month is charged nothing for it.
LEMMA NothingCharged ==
    ASSUME NEW order, NEW m, ~ActiveIn(order, m)
    PROVE  Charged(order, m) = [retail |-> 0, wholesale |-> 0]
BY DEF Charged, Total

\* A charge is by the catalog of the order, in one of three forms.
LEMMA ChargeForms ==
    ASSUME NEW c \in Documents, ValidCatalog(c), NEW order, NEW m,
           order.retail = c.retail, order.wholesale = c.wholesale
    PROVE  LET s == Charged(order, m)
           IN  /\ s.retail >= s.wholesale
               /\ \/ s = [retail |-> 0, wholesale |-> 0]
                  \/ s = [retail |-> c.retail.monthly, wholesale |-> c.wholesale.monthly]
                  \/ s = [retail |-> c.retail.monthly + c.retail.setup,
                          wholesale |-> c.wholesale.monthly + c.wholesale.setup]
<1>1. /\ c.retail.monthly \in Nat /\ c.retail.setup \in Nat
      /\ c.wholesale.monthly \in Nat /\ c.wholesale.setup \in Nat
  <2>1. c \in Catalog
    BY DocumentAssumption
  <2>2. c.retail \in Price /\ c.wholesale \in Price
    BY <2>1 DEF Catalog
  <2> QED
    BY <2>2 DEF Price
<1>2. c.wholesale.setup <= c.retail.setup /\ c.wholesale.monthly <= c.retail.monthly
  BY DEF ValidCatalog
<1>3. CASE ~ActiveIn(order, m)
  BY <1>3, NothingCharged
<1>4. CASE ActiveIn(order, m) /\ ~SetupIn(order, m)
  <2>1. Charged(order, m) = [retail |-> c.retail.monthly, wholesale |-> c.wholesale.monthly]
    BY <1>1, <1>4 DEF Charged, Total
  <2> QED
    BY <1>1, <1>2, <2>1
<1>5. CASE ActiveIn(order, m) /\ SetupIn(order, m)
  <2>1. Charged(order, m) = [retail |-> c.retail.monthly + c.retail.setup,
                             wholesale |-> c.wholesale.monthly + c.wholesale.setup]
    BY <1>1, <1>5 DEF Charged, Total
  <2> QED
    BY <1>1, <1>2, <2>1
<1> QED
  BY <1>3, <1>4, <1>5

\* The prices an order was placed at are those it is charged by, for ever.
LEMMA ChargesKept ==
    ASSUME PartnerInv, [PartnerNext]_vars
    PROVE  ChargesAsPlaced'
<1> USE DEF PartnerInv
<1>1. CASE UNCHANGED <<statement, setups>>
  <2>1. statement # None => statement.id \in OrderIds /\ orders[statement.id] # None
    BY DEF PartnerTypeOK, Statement, Stated
  <2>2. statement # None => placed'[statement.id] = placed[statement.id]
    BY <2>1, OrdersGrow DEF Grow
  <2> QED
    BY <1>1, <2>2 DEF ChargesAsPlaced
<1>2. ASSUME NEW p \in Partners, NEW o \in OrderIds, NEW m \in Months, NEW settled,
             NEW status,
             Answer(p, o, orders[o], m, settled, status), orders[o] # None, UNCHANGED placed
      PROVE  ChargesAsPlaced'
  <2>1. /\ placed[o] \in Documents /\ ValidCatalog(placed[o])
        /\ orders[o].retail = placed[o].retail /\ orders[o].wholesale = placed[o].wholesale
    BY <1>2 DEF OrderRows
  <2>2. statement'.id = o /\ statement'.charge = Charged(orders[o], m)
    BY <1>2, AnswerFields
  <2> QED
    BY <1>2, <2>1, <2>2, ChargeForms DEF ChargesAsPlaced
<1> QED
  BY <1>1, <1>2, StatementWrites

\* The setup fee goes with the month of the one activation.
LEMMA SetupsKept ==
    ASSUME PartnerInv, [PartnerNext]_vars
    PROVE  SetupMonths'
<1> USE DEF PartnerInv
<1>1. ASSUME NEW o \in OrderIds
      PROVE  \/ setups[o] = {}
             \/ IsActive(orders'[o]) /\ setups[o] \subseteq {MonthOf(orders'[o].active_at)}
  BY ActiveStays DEF SetupMonths
<1>2. CASE UNCHANGED <<statement, setups>>
  BY <1>1, <1>2 DEF SetupMonths
<1>3. ASSUME NEW p \in Partners, NEW o \in OrderIds, NEW m \in Months, NEW settled,
             NEW status,
             Answer(p, o, orders[o], m, settled, status), orders[o] # None, UNCHANGED orders
      PROVE  SetupMonths'
  <2>1. /\ \A q \in OrderIds : q # o => setups'[q] = setups[q]
        /\ setups'[o] = IF SetupIn(orders[o], m) THEN setups[o] \cup {m} ELSE setups[o]
    BY <1>3, AnswerFields
  <2>2. CASE ~SetupIn(orders[o], m)
    BY <1>1, <2>1, <2>2 DEF SetupMonths
  <2>3. CASE SetupIn(orders[o], m)
    <3>1. IsActive(orders'[o]) /\ m = MonthOf(orders'[o].active_at)
      BY <1>3, <2>3 DEF SetupIn, ActiveIn, IsActive
    <3>2. setups'[o] \subseteq {MonthOf(orders'[o].active_at)}
      BY <1>1, <2>1, <2>3, <3>1
    <3> QED
      BY <1>1, <2>1, <3>1, <3>2 DEF SetupMonths
  <2> QED
    BY <2>2, <2>3
<1> QED
  BY <1>2, <1>3, StatementWrites

\* A month that is over stays over, and clock readings to come are of later ones.
LEMMA ReachKept ==
    ASSUME PartnerInv, [PartnerNext]_vars, NEW o \in OrderIds, NEW m \in Months, OutOfReach(o, m)
    PROVE  OutOfReach(o, m)'
<1> USE DEF PartnerInv
<1>1. now \in Nat /\ now' \in Nat /\ now' >= now
  BY TimePasses
<1>2. PICK i \in Nat : m = MonthAt(i)
  BY MonthsAreMonths
<1>3. /\ MonthIndex(now) \in Nat /\ MonthIndex(now') \in Nat
      /\ MonthIndex(now) <= MonthIndex(now')
      /\ MonthOf(now) = MonthAt(MonthIndex(now)) /\ MonthOf(now') = MonthAt(MonthIndex(now'))
  BY <1>1, MonthsPass, ActiveMonths
<1>4. i < MonthIndex(now)
  BY <1>2, <1>3, FirstDays DEF OutOfReach
<1>5. Before(FirstDay(m), FirstDay(MonthOf(now')))
  BY <1>2, <1>3, <1>4, FirstDays
<1>6. ~ActiveBy(now, m)
  BY <1>1, <1>2, <1>3, <1>4, ActiveMonths
<1>7. ASSUME NEW a \in Operators, NEW q \in OrderIds, StampActivation(a, q)
      PROVE  \A b \in Operators :
               activating'[b] # None /\ activating'[b].id = o => ~ActiveBy(activating'[b].at, m)
  <2>1. activating' = [activating EXCEPT ![a] = [id |-> q, at |-> now]]
    BY <1>7 DEF StampActivation
  <2>2. activating'[a].at = now /\ \A b \in Operators : b # a => activating'[b] = activating[b]
    BY <2>1 DEF PartnerTypeOK
  <2> QED
    BY <1>6, <2>2 DEF OutOfReach
<1>8. ASSUME NEW a \in Operators, CommitActivation(a)
      PROVE  \A b \in Operators :
               activating'[b] # None /\ activating'[b].id = o => ~ActiveBy(activating'[b].at, m)
  <2>1. activating' = [activating EXCEPT ![a] = None]
    BY <1>8 DEF CommitActivation
  <2>2. \A b \in Operators : activating'[b] = None \/ activating'[b] = activating[b]
    BY <2>1 DEF PartnerTypeOK
  <2> QED
    BY <2>2 DEF OutOfReach
<1>9. CASE UNCHANGED activating
  BY <1>5, <1>9 DEF OutOfReach
<1> QED
  BY <1>5, <1>7, <1>8, <1>9
     DEF OutOfReach, PartnerNext, Tick, RegisterPartner, Serve, CreateOrder, ExportService,
         StartProbe, RecordProbe, AbandonProbe, ReadOrder, ReadProbes, RecordScore, vars, book

\* A settled statement stands: of an active order because its row does, of any
\* other because whoever activates it will stamp a later month.
LEMMA StatedKept ==
    ASSUME PartnerInv, [PartnerNext]_vars
    PROVE  Stated'
<1> USE DEF PartnerInv
<1>1. ASSUME NEW p \in Partners, NEW o \in OrderIds, NEW m \in Months, NEW settled,
             NEW status, Answer(p, o, orders[o], m, settled, status),
             orders[o] # None, orders[o].partner = p,
             MaySettle(o, m, settled),
             UNCHANGED <<now, orders, placed, activating>>
      PROVE  Stated'
  <2>1. /\ statement'.partner = p /\ statement'.id = o /\ statement'.month = m
        /\ statement'.charge = Charged(orders[o], m)
    BY <1>1, AnswerFields
  <2>4. statement'.settled = settled
    BY <1>1, AnswerFields
  <2>2. statement'.settled => IsActive(orders[o]) \/ OutOfReach(o, m)
    BY <1>1, <2>4 DEF MaySettle, Settled, OutOfReach
  <2>3. OutOfReach(o, m) => OutOfReach(o, m)'
    BY ReachKept
  <2>5. orders' = orders /\ orders[o] # None /\ orders[o].partner = p
    BY <1>1
  <2>6. statement'.settled => orders'[o].state = "active" \/ OutOfReach(o, m)'
    BY <2>2, <2>3, <2>5 DEF IsActive
  <2> QED
    BY <2>1, <2>5, <2>6 DEF Stated
<1>2. ASSUME UNCHANGED statement, statement # None
      PROVE  Stated'
  <2>1. statement \in Statement
    BY <1>2 DEF PartnerTypeOK
  <2>2. PICK o \in OrderIds, m \in Months : o = statement.id /\ m = statement.month
    BY <2>1 DEF Statement
  <2>3. orders[o] # None /\ orders[o].partner = statement.partner /\ orders[o] \in Order
    BY <1>2, <2>2 DEF Stated, PartnerTypeOK
  <2>4. orders'[o] # None /\ orders'[o].partner = statement.partner
    BY <2>2, <2>3, OrdersGrow DEF Grow
  <2>5. ASSUME statement.settled
        PROVE  /\ statement.charge = Charged(orders'[o], m)
               /\ \/ ActiveIn(orders'[o], m) \/ orders'[o].state = "active"
                  \/ OutOfReach(o, m)'
    <3>1. statement.charge = Charged(orders[o], m)
      BY <1>2, <2>2, <2>5 DEF Stated
    <3>2. CASE orders[o].state = "active"
      <4>1. orders'[o] = orders[o]
        BY <2>2, <2>3, <3>2, ActiveStays DEF IsActive
      <4> QED
        BY <3>1, <3>2, <4>1
    <3>3. CASE orders[o].state # "active"
      <4>1. OutOfReach(o, m) /\ ~ActiveIn(orders[o], m)
        BY <1>2, <2>2, <2>5, <3>3 DEF Stated, ActiveIn
      <4>2. OutOfReach(o, m)'
        BY <2>2, <4>1, ReachKept
      <4>3. ~ActiveIn(orders'[o], m)
        <5>1. CASE orders'[o] = orders[o]
          BY <4>1, <5>1
        <5>2. ASSUME NEW a \in Operators, CommitActivation(a), orders'[o] # orders[o]
              PROVE  ~ActiveIn(orders'[o], m)
          <6>1. /\ o = activating[a].id
                /\ orders'[o] = [orders[o] EXCEPT !.state = "active",
                                                  !.active_at = activating[a].at,
                                                  !.deployment_ref = a]
            BY <2>2, <5>2, ActivationWrites
          <6>2. orders'[o].active_at = activating[a].at
            BY <2>3, <6>1 DEF Order
          <6>3. activating[a] # None
            BY <5>2 DEF CommitActivation
          <6>4. ~ActiveBy(activating[a].at, m)
            BY <4>1, <6>1, <6>3 DEF OutOfReach
          <6> QED
            BY <6>2, <6>4 DEF ActiveIn
        <5>3. ASSUME NEW p \in Partners, NEW q \in OrderIds, CreateOrder(p, q)
              PROVE  orders'[o] = orders[o]
          BY <2>2, <2>3, <5>3 DEF CreateOrder, PartnerTypeOK
        <5> QED
          BY <5>1, <5>2, <5>3, OrderWriters
      <4>4. Charged(orders'[o], m) = Charged(orders[o], m)
        BY <4>1, <4>3, NothingCharged
      <4> QED
        BY <3>1, <4>2, <4>4
    <3> QED
      BY <3>2, <3>3
  <2> QED
    BY <1>2, <2>2, <2>4, <2>5 DEF Stated
<1>3. CASE UNCHANGED statement /\ statement = None
  BY <1>3 DEF Stated
<1> QED
  BY <1>1, <1>2, <1>3, StatementWrites

\* A scorecard is recorded for an order of its partner and model, and the order
\* stays so.
LEMMA ScoresKept ==
    ASSUME PartnerInv, [PartnerNext]_vars
    PROVE  ScoreRows'
<1> USE DEF PartnerInv
<1>1. ASSUME NEW x \in scores
      PROVE  /\ orders'[x.order] # None /\ orders'[x.order].partner = x.partner
             /\ placed'[x.order].model = x.model
  <2>1. x.order \in OrderIds
    BY DEF PartnerTypeOK, Score
  <2> QED
    BY <2>1, OrdersGrow DEF Grow, ScoreRows
<1>2. ASSUME NEW x \in [partner : Partners, order : OrderIds, model : Models], RecordScore(x)
      PROVE  ScoreRows'
  <2>1. /\ scores' = scores \cup {x} /\ UNCHANGED <<orders, placed>>
        /\ orders[x.order] # None /\ orders[x.order].partner = x.partner
        /\ x.model = orders[x.order].model
    BY <1>2 DEF RecordScore, MayRecord, Visible, book
  <2>2. placed[x.order].model = x.model
    BY <2>1 DEF OrderRows
  <2> QED
    BY <1>1, <2>1, <2>2 DEF ScoreRows
<1>3. CASE UNCHANGED scores
  BY <1>1, <1>3 DEF ScoreRows
<1> QED
  BY <1>2, <1>3
     DEF PartnerNext, Tick, RegisterPartner, Serve, CreateOrder, StampActivation, CommitActivation,
         ExportService, StartProbe, RecordProbe, AbandonProbe, ReadOrder, ReadProbes, vars

-----------------------------------------------------------------------------
(* The theorems *)

LEMMA PartnerInvariant == PartnerSpec => []PartnerInv
<1>1. PartnerInit => PartnerInv
  BY DEF PartnerInit, PartnerInv, PartnerTypeOK, OrderRows, Stamps, Owed, Drafted, Stated,
         ChargesAsPlaced, SetupMonths, ScoreRows
<1>2. PartnerTypeOK' /\ PartnerInv /\ [PartnerNext]_vars => PartnerInv'
  <2> SUFFICES ASSUME PartnerTypeOK', PartnerInv, [PartnerNext]_vars PROVE PartnerInv'
    OBVIOUS
  <2> QED
    BY OrderRowsKept, StampsKept, OwedKept, DraftedKept, StatedKept, ChargesKept, SetupsKept,
       ScoresKept DEF PartnerInv
<1> QED
  BY <1>1, <1>2, TypeCorrect, PTL DEF PartnerSpec

\* For every number of operators whose activations race: the first one stands,
\* and nothing of an order but its activation ever changes.
THEOREM OrdersStand == PartnerSpec => OrderStands
<1>1. PartnerTypeOK /\ [PartnerNext]_vars =>
        [\A o \in OrderIds : orders[o] # None =>
           LET then == orders'[o]
           IN  /\ then # None
               /\ [then EXCEPT !.state = "", !.active_at = 0, !.deployment_ref = 0] =
                      [orders[o] EXCEPT !.state = "", !.active_at = 0, !.deployment_ref = 0]
               /\ orders[o].state = "active" => then = orders[o]]_vars
  <2> SUFFICES ASSUME PartnerTypeOK, [PartnerNext]_vars, NEW o \in OrderIds, orders[o] # None
               PROVE  /\ orders'[o] # None
                      /\ [orders'[o] EXCEPT !.state = "", !.active_at = 0, !.deployment_ref = 0] =
                           [orders[o] EXCEPT !.state = "", !.active_at = 0, !.deployment_ref = 0]
                      /\ orders[o].state = "active" => orders'[o] = orders[o]
    OBVIOUS
  <2>1. orders'[o] # None /\ (orders[o].state = "active" => orders'[o] = orders[o])
    BY OrdersGrow DEF Grow
  <2>2. orders'[o] = orders[o] \/
          \E a \in Operators, at \in Nat :
            orders[o] \in Order /\
            orders'[o] = [orders[o] EXCEPT !.state = "active", !.active_at = at,
                                           !.deployment_ref = a]
    <3>1. ASSUME NEW p \in Partners, NEW q \in OrderIds, CreateOrder(p, q)
          PROVE  orders'[o] = orders[o]
      BY <3>1 DEF CreateOrder, PartnerTypeOK
    <3> QED
      BY <3>1, OrderWriters, ActivationWrites
  <2>3. ASSUME NEW a, NEW at, orders[o] \in Order,
               orders'[o] = [orders[o] EXCEPT !.state = "active", !.active_at = at,
                                              !.deployment_ref = a]
        PROVE  [orders'[o] EXCEPT !.state = "", !.active_at = 0, !.deployment_ref = 0] =
                 [orders[o] EXCEPT !.state = "", !.active_at = 0, !.deployment_ref = 0]
    BY <2>3 DEF Order
  <2> QED
    BY <2>1, <2>2, <2>3
<1> QED
  BY <1>1, TypeCorrect, PTL DEF PartnerSpec, OrderStands

\* For any months, catalogs and races of activations with requests: a statement
\* is of the partner's own order, by the prices it was placed at, with the setup
\* fee in one month, and a month that was over is charged the same ever after.
THEOREM StatementsAreRight == PartnerSpec => []StatementIsRight
<1>1. PartnerInv => SetupInOneMonth
  <2> SUFFICES ASSUME PartnerInv, NEW o \in OrderIds PROVE Cardinality(setups[o]) <= 1
    BY DEF SetupInOneMonth
  <2>1. CASE setups[o] = {}
    BY <2>1, FS_EmptySet
  <2>2. CASE setups[o] # {}
    <3>1. PICK m : setups[o] = {m}
      BY <2>2 DEF PartnerInv, SetupMonths
    <3>2. Cardinality({m}) = 1
      BY FS_Singleton
    <3> QED
      BY <3>1, <3>2
  <2> QED
    BY <2>1, <2>2
<1>2. PartnerInv => OwnOrdersOnly
  BY DEF PartnerInv, Stated, ScoreRows, OwnOrdersOnly
<1>3. PartnerInv => ClosedMonthStands
  BY DEF PartnerInv, Stated, ClosedMonthStands
<1>4. PartnerInv => StatementIsRight
  BY <1>1, <1>2, <1>3 DEF PartnerInv, StatementIsRight
<1> QED
  BY <1>4, PartnerInvariant, PTL

-----------------------------------------------------------------------------
(* What a statement says of the probes *)

\* The targets of an order are those of the catalog it was placed under.
TargetsStand == \A o \in OrderIds : orders[o] # None => orders[o].targets = placed[o].targets

LEMMA TargetsKept ==
    ASSUME PartnerInv, TargetsStand, [PartnerNext]_vars
    PROVE  TargetsStand'
<1> USE DEF PartnerInv
<1>1. ASSUME NEW o \in OrderIds, orders[o] # None
      PROVE  orders'[o].targets = placed'[o].targets
  BY <1>1, OrdersGrow DEF Grow, TargetsStand
<1>2. ASSUME NEW a \in Operators, CommitActivation(a)
      PROVE  TargetsStand'
  BY <1>1, <1>2, ActivationWrites, NoneAssumption DEF TargetsStand
<1>3. ASSUME NEW p \in Partners, NEW o \in OrderIds, CreateOrder(p, o)
      PROVE  TargetsStand'
  <2>1. /\ orders'[o] = Requested(p, catalog) /\ placed'[o] = catalog
        /\ \A q \in OrderIds : q # o => orders'[q] = orders[q]
    BY <1>3 DEF CreateOrder, PartnerTypeOK
  <2>2. orders'[o].targets = placed'[o].targets
    BY <2>1 DEF Requested
  <2> QED
    BY <1>1, <2>1, <2>2 DEF TargetsStand
<1>4. CASE UNCHANGED <<orders, placed>>
  BY <1>1, <1>4 DEF TargetsStand
<1> QED
  BY <1>2, <1>3, <1>4, OrderWriters

\* The tally of a service and a month in a table of probes.
RowsIn(ps, o, m) ==
    LET of == {i \in DOMAIN ps : ps[i].service = o /\ InMonth(ps[i].at, m)}
    IN  [passed |-> [l \in Latencies |-> Cardinality({i \in of : ps[i].ok /\ ps[i].latency = l})],
         failed |-> Cardinality({i \in of : ~ps[i].ok})]

\* A tally counts the samples of the table.
LEMMA CountsAreNaturals ==
    ASSUME NEW ps \in Seq(Sample), NEW o, NEW m
    PROVE  /\ RowsIn(ps, o, m).passed \in [Latencies -> Nat] /\ RowsIn(ps, o, m).failed \in Nat
           /\ Successes(RowsIn(ps, o, m)) = SumOver(RowsIn(ps, o, m).passed, Latencies)
           /\ Successes(RowsIn(ps, o, m)) \in Int
<1> DEFINE of == {i \in DOMAIN ps : ps[i].service = o /\ InMonth(ps[i].at, m)}
           passed(l) == {i \in of : ps[i].ok /\ ps[i].latency = l}
           failed == {i \in of : ~ps[i].ok}
           rows == RowsIn(ps, o, m)
<1>1. IsFiniteSet(DOMAIN ps)
  <2>1. DOMAIN ps = 1..Len(ps) /\ Len(ps) \in Nat
    OBVIOUS
  <2> QED
    BY <2>1, FS_Interval
<1>2. ASSUME NEW l \in Latencies PROVE Cardinality(passed(l)) \in Nat
  <2>1. passed(l) \in SUBSET DOMAIN ps
    OBVIOUS
  <2> QED
    BY <1>1, <2>1, FS_Subset, FS_CardinalityType
<1>3. Cardinality(failed) \in Nat
  <2>1. failed \in SUBSET DOMAIN ps
    OBVIOUS
  <2> QED
    BY <1>1, <2>1, FS_Subset, FS_CardinalityType
<1>4. rows.passed = [l \in Latencies |-> Cardinality(passed(l))] /\ rows.failed = Cardinality(failed)
  BY DEF RowsIn
<1>5. rows.passed \in [Latencies -> Nat] /\ rows.failed \in Nat
  <2> HIDE DEF passed, failed
  <2> QED
    BY <1>2, <1>3, <1>4
<1>6. Successes(rows) = SumOver(rows.passed, Latencies)
  <2>1. DOMAIN rows.passed = Latencies
    BY <1>5
  <2>2. Successes(rows) = SumOver(rows.passed, DOMAIN rows.passed)
    <3> HIDE DEF rows
    <3> QED
      BY DEF Successes, Count, SumOver
  <2> QED
    BY <2>1, <2>2
<1>7. SumOver(rows.passed, Latencies) \in Int
  <2>1. \A l \in Latencies : rows.passed[l] \in Int
    BY <1>5
  <2> HIDE DEF rows
  <2>2. Latencies \in SUBSET Latencies
    OBVIOUS
  <2> QED
    BY <2>1, LatencyAssumption, SumType
<1> QED
  BY <1>5, <1>6, <1>7

\* A sample more makes no count less.
LEMMA CountsGrow ==
    ASSUME NEW ps \in Seq(Sample), NEW row \in Sample, NEW o, NEW m
    PROVE  /\ Successes(RowsIn(ps, o, m)) <= Successes(RowsIn(Append(ps, row), o, m))
           /\ Samples(RowsIn(ps, o, m)) <= Samples(RowsIn(Append(ps, row), o, m))
<1> DEFINE qs == Append(ps, row)
           of(s) == {i \in DOMAIN s : s[i].service = o /\ InMonth(s[i].at, m)}
           passed(s, l) == {i \in of(s) : s[i].ok /\ s[i].latency = l}
           failed(s) == {i \in of(s) : ~s[i].ok}
           old == RowsIn(ps, o, m)
           new == RowsIn(qs, o, m)
<1>1. /\ qs \in Seq(Sample) /\ DOMAIN ps \subseteq DOMAIN qs /\ \A i \in DOMAIN ps : qs[i] = ps[i]
      /\ Len(qs) \in Nat /\ DOMAIN qs = 1..Len(qs)
  OBVIOUS
<1>2. IsFiniteSet(DOMAIN qs)
  BY <1>1, FS_Interval
<1>3. ASSUME NEW l \in Latencies PROVE Cardinality(passed(ps, l)) <= Cardinality(passed(qs, l))
  <2>1. passed(ps, l) \in SUBSET passed(qs, l) /\ passed(qs, l) \in SUBSET DOMAIN qs
    <3> HIDE DEF qs
    <3> QED
      BY <1>1
  <2>2. IsFiniteSet(passed(qs, l))
    <3> HIDE DEF passed, qs
    <3> QED
      BY <1>2, <2>1, FS_Subset
  <2> HIDE DEF passed, qs
  <2> QED
    BY <2>1, <2>2, FS_Subset
<1>4. Cardinality(failed(ps)) <= Cardinality(failed(qs))
  <2>1. failed(ps) \in SUBSET failed(qs) /\ failed(qs) \in SUBSET DOMAIN qs
    <3> HIDE DEF qs
    <3> QED
      BY <1>1
  <2>2. IsFiniteSet(failed(qs))
    <3> HIDE DEF failed, qs
    <3> QED
      BY <1>2, <2>1, FS_Subset
  <2> HIDE DEF failed, qs
  <2> QED
    BY <2>1, <2>2, FS_Subset
<1>5. ASSUME NEW s
      PROVE  /\ RowsIn(s, o, m).passed = [l \in Latencies |-> Cardinality(passed(s, l))]
             /\ RowsIn(s, o, m).failed = Cardinality(failed(s))
  BY DEF RowsIn
<1>6. (\A l \in Latencies : old.passed[l] <= new.passed[l]) /\ old.failed <= new.failed
  <2>1. /\ old.passed = [l \in Latencies |-> Cardinality(passed(ps, l))]
        /\ new.passed = [l \in Latencies |-> Cardinality(passed(qs, l))]
        /\ old.failed = Cardinality(failed(ps)) /\ new.failed = Cardinality(failed(qs))
    BY <1>5
  <2> HIDE DEF passed, failed, qs, old, new
  <2> QED
    BY <1>3, <1>4, <2>1
<1> HIDE DEF qs, passed, failed
<1>7. /\ old.passed \in [Latencies -> Nat] /\ old.failed \in Nat
      /\ Successes(old) = SumOver(old.passed, Latencies) /\ Successes(old) \in Int
  BY CountsAreNaturals
<1>8. /\ new.passed \in [Latencies -> Nat] /\ new.failed \in Nat
      /\ Successes(new) = SumOver(new.passed, Latencies) /\ Successes(new) \in Int
  BY <1>1, CountsAreNaturals
<1> HIDE DEF old, new
<1>9. \A l \in Latencies :
        old.passed[l] \in Int /\ new.passed[l] \in Int /\ old.passed[l] <= new.passed[l]
  BY <1>6, <1>7, <1>8
<1>10. SumOver(old.passed, Latencies) <= SumOver(new.passed, Latencies)
  BY <1>9, LatencyAssumption, SumGrows
<1>11. Successes(old) <= Successes(new) /\ Samples(old) <= Samples(new)
  BY <1>6, <1>7, <1>8, <1>10 DEF Samples
<1> QED
  BY <1>11 DEF old, new, qs

\* Samples are only ever added.
LEMMA RowsGrow ==
    ASSUME PartnerTypeOK, [PartnerNext]_vars, NEW o, NEW m
    PROVE  /\ Successes(RowsIn(probes, o, m)) \in Int /\ Samples(RowsIn(probes, o, m)) \in Int
           /\ Successes(RowsIn(probes', o, m)) \in Int /\ Samples(RowsIn(probes', o, m)) \in Int
           /\ Successes(RowsIn(probes, o, m)) <= Successes(RowsIn(probes', o, m))
           /\ Samples(RowsIn(probes, o, m)) <= Samples(RowsIn(probes', o, m))
<1>1. probes' = probes \/ \E row \in Sample : probes' = Append(probes, row)
  <2>1. ASSUME NEW l \in Latencies \cup {None}, RecordProbe(l)
        PROVE  \E row \in Sample : probes' = Append(probes, row)
    <3> DEFINE row == [service |-> probing.service, at |-> probing.at, ok |-> l # None, latency |-> l]
    <3>1. row \in Sample /\ probes' = Append(probes, row)
      BY <2>1 DEF RecordProbe, Sample, PartnerTypeOK
    <3> QED
      BY <3>1
  <2>2. CASE UNCHANGED probes
    BY <2>2
  <2> QED
    BY <2>1, <2>2
       DEF PartnerNext, Tick, RegisterPartner, Serve, CreateOrder, StampActivation,
           CommitActivation, ExportService, StartProbe, AbandonProbe, ReadOrder, ReadProbes,
           RecordScore, vars, service
<1>2. probes \in Seq(Sample) /\ probes' \in Seq(Sample)
  BY <1>1 DEF PartnerTypeOK
<1>3. ASSUME NEW ps \in Seq(Sample)
      PROVE  Successes(RowsIn(ps, o, m)) \in Int /\ Samples(RowsIn(ps, o, m)) \in Int
  BY CountsAreNaturals DEF Samples
<1>4. CASE probes' = probes
  BY <1>2, <1>3, <1>4
<1>5. ASSUME NEW row \in Sample, probes' = Append(probes, row)
      PROVE  /\ Successes(RowsIn(probes, o, m)) <= Successes(RowsIn(probes', o, m))
             /\ Samples(RowsIn(probes, o, m)) <= Samples(RowsIn(probes', o, m))
  BY <1>2, <1>5, CountsGrow
<1> QED
  BY <1>1, <1>2, <1>3, <1>4, <1>5

\* A met month had samples of the order, enough by the targets of the order.
LEMMA MetIsMeasured ==
    ASSUME NEW rows, NEW t, Status(rows, t) = "met"
    PROVE  Samples(rows) >= t.samples /\ Successes(rows) > 0
BY DEF Status, Covered, LatencyMet

\* Only a statement that is drawn of the probes may say "met".
LEMMA MetKept ==
    ASSUME PartnerInv, TargetsStand, MetOnOwnSamples, [PartnerNext]_vars
    PROVE  MetOnOwnSamples'
<1> USE DEF PartnerInv
<1>1. CASE UNCHANGED statement
  <2> SUFFICES ASSUME statement # None, statement.status = "met"
               PROVE  /\ Samples(RowsIn(probes', statement.id, statement.month))
                           >= placed'[statement.id].targets.samples
                      /\ Successes(RowsIn(probes', statement.id, statement.month)) > 0
    BY <1>1 DEF MetOnOwnSamples, Rows, RowsIn
  <2> DEFINE o == statement.id
             m == statement.month
  <2>1. o \in OrderIds /\ orders[o] # None
    BY DEF PartnerTypeOK, Statement, Stated
  <2>2. placed'[o] = placed[o] /\ placed[o] \in Documents
    BY <2>1, OrdersGrow DEF Grow, OrderRows
  <2>3. placed[o].targets.samples \in Nat
    BY <2>2, DocumentAssumption DEF Catalog, Targets
  <2>4. /\ Samples(RowsIn(probes, o, m)) >= placed[o].targets.samples
        /\ Successes(RowsIn(probes, o, m)) > 0
    BY DEF MetOnOwnSamples, Rows, RowsIn
  <2> HIDE DEF o, m
  <2>5. /\ Successes(RowsIn(probes, o, m)) \in Int /\ Samples(RowsIn(probes, o, m)) \in Int
        /\ Successes(RowsIn(probes', o, m)) \in Int /\ Samples(RowsIn(probes', o, m)) \in Int
        /\ Successes(RowsIn(probes, o, m)) <= Successes(RowsIn(probes', o, m))
        /\ Samples(RowsIn(probes, o, m)) <= Samples(RowsIn(probes', o, m))
    BY RowsGrow
  <2>6. /\ Samples(RowsIn(probes', o, m)) >= placed'[o].targets.samples
        /\ Successes(RowsIn(probes', o, m)) > 0
    BY <2>2, <2>3, <2>4, <2>5
  <2> QED
    BY <2>6 DEF o, m
<1>2. ASSUME NEW p \in Partners, NEW o \in OrderIds, NEW m \in Months, ReadOrder(p, o, m),
             ~UNCHANGED statement
      PROVE  MetOnOwnSamples'
  <2>1. statement'.status = None
    BY <1>2 DEF ReadOrder, Answer
  <2> QED
    BY <2>1, NoneAssumption DEF MetOnOwnSamples
<1>3. CASE ReadProbes
  <2> DEFINE d == drafting
             rows == Rows(d.id, d.month)
  <2>1. /\ d # None /\ statement'.id = d.id /\ statement'.month = d.month
        /\ statement'.status = Status(rows, d.order.targets)
        /\ UNCHANGED <<probes, placed>>
    BY <1>3 DEF ReadProbes, Answer, Judged, service, book
  <2>2. /\ d.id \in OrderIds /\ d.order = orders[d.id] /\ orders[d.id] # None
    BY <2>1 DEF PartnerTypeOK, Draft, Drafted, IsActive
  <2>3. d.order.targets = placed[d.id].targets
    BY <2>2 DEF TargetsStand
  <2>4. Rows(statement.id, statement.month)' = rows
    BY <2>1 DEF Rows
  <2>5. statement'.status = "met" => /\ Samples(rows) >= placed'[statement'.id].targets.samples
                                      /\ Successes(rows) > 0
    <3> HIDE DEF rows
    <3> QED
      BY <2>1, <2>3, MetIsMeasured
  <2>6. statement'.status = "met" =>
          /\ Samples(Rows(statement.id, statement.month)') >= placed'[statement'.id].targets.samples
          /\ Successes(Rows(statement.id, statement.month)') > 0
    BY <2>4, <2>5
  <2> QED
    BY <2>6 DEF MetOnOwnSamples
<1> QED
  BY <1>1, <1>2, <1>3
     DEF PartnerNext, Tick, RegisterPartner, Serve, CreateOrder, StampActivation,
         CommitActivation, ExportService, StartProbe, RecordProbe, AbandonProbe,
         RecordScore, vars, billing

\* For any probes, catalogs and months: each sample is of a month its order is
\* charged for, and a statement that says "met" is owed to that many samples of
\* that very order and month, some of which passed.
THEOREM ProbesOwed == PartnerSpec => []ProbesAreOwed
<1> DEFINE Inv == TargetsStand /\ MetOnOwnSamples
<1>1. PartnerInit => Inv
  BY DEF PartnerInit, TargetsStand, MetOnOwnSamples
<1>2. PartnerInv /\ Inv /\ [PartnerNext]_vars => Inv'
  BY TargetsKept, MetKept
<1>3. PartnerInv /\ Inv => ProbesAreOwed
  BY DEF PartnerInv, Owed, IsActive, ActiveIn, ProbedMonthsAreCharged, ProbesAreOwed
<1> QED
  BY <1>1, <1>2, <1>3, PartnerInvariant, PTL DEF PartnerSpec
=============================================================================
