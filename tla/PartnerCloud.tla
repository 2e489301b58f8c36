---------------------------- MODULE PartnerCloud ----------------------------
(***************************************************************************)
(* Orders of the one SKU a partner can sell, their activation, and the     *)
(* draft statement of a month: partner_cloud.py and its CLI, the probes    *)
(* managed_ai.py records for the exported service definition, and the      *)
(* scorecards ai_service_operator.py records against an order.             *)
(*                                                                         *)
(* The API server, the operators' commands and the probe are processes     *)
(* over one database.  Where one of them reads on one connection and goes  *)
(* on with another, the two are separate steps here; the rest, a single    *)
(* transaction or reads of what never changes, is one step.  A refused     *)
(* call changes nothing and is no step.                                    *)
(***************************************************************************)
EXTENDS DeliveryCalendar, ProbeReport, Sequences

CONSTANTS
    Partners,
    OrderIds,
    Documents,      \* catalog files an operator may start the server with
    Operators,      \* operators activating orders, each with its own references
    Latencies,      \* latencies a probe may measure
    None,           \* a column that is NULL, or a row or file that does not exist
    MaxNow,         \* bound of the model: the clock stops here
    MaxProbes,      \* bound of the model: rows of probes
    MaxScores       \* bound of the model: rows of ai_service_scores

Price == [setup : Nat, monthly : Nat]
Catalog == [model : STRING, retail : Price, wholesale : Price, targets : Targets]

ASSUME DocumentAssumption == Documents \subseteq Catalog
\* A latency is a 64-bit number of a clock: there are finitely many.
ASSUME LatencyAssumption == Latencies \subseteq Nat /\ IsFiniteSet(Latencies)
ASSUME LimitAssumption == MaxNow \in Nat /\ MaxProbes \in Nat /\ MaxScores \in Nat

VARIABLES
    now,        \* the clock
    partners,   \* partners
    catalog,    \* the catalog the API server was started with
    orders,     \* partner_orders
    activating, \* what each operator's `activate` command holds
    config,     \* the service definition file
    probing,    \* the probe command under way
    probes,     \* probes, in order of insertion
    drafting,   \* the statement request under way
    statement,  \* the answer to the last statement request
    scores,     \* ai_service_scores
    placed,     \* history: the catalog each order was placed under
    setups      \* history: the months in which each order was charged its setup

desk == <<now, partners, catalog>>
book == <<orders, activating, placed>>
service == <<config, probing, probes>>
billing == <<drafting, statement, setups>>
vars == <<desk, book, service, billing, scores>>

Months == {MonthAt(MonthIndex(t)) : t \in 0..MaxNow}

Order ==
    [partner : Partners, model : STRING, retail : Price, wholesale : Price, targets : Targets,
     state : {"requested", "active"}, active_at : Nat \cup {None},
     deployment_ref : Operators \cup {None}]
ASSUME NoneAssumption == None \notin Order /\ None # "met"

Sample == [service : OrderIds, at : Nat, ok : BOOLEAN, latency : Latencies \cup {None}]
Charge == [retail : Nat, wholesale : Nat]
Draft == [partner : Partners, id : OrderIds, order : Order, month : Months, settled : BOOLEAN]
Statement ==
    [partner : Partners, id : OrderIds, month : Months, charge : Charge, settled : BOOLEAN,
     status : {"unknown", "insufficient_data", "met", "attention", None}]
Score == [partner : Partners, order : OrderIds, model : STRING]

PartnerTypeOK ==
    /\ now \in Nat
    /\ partners \subseteq Partners
    /\ catalog \in Documents \cup {None}
    /\ orders \in [OrderIds -> Order \cup {None}]
    /\ activating \in [Operators -> [id : OrderIds, at : Nat] \cup {None}]
    /\ config \in [service : OrderIds, model : STRING] \cup {None}
    /\ probing \in [service : OrderIds, at : Nat] \cup {None}
    /\ probes \in Seq(Sample)
    /\ drafting \in Draft \cup {None}
    /\ statement \in Statement \cup {None}
    /\ scores \subseteq Score
    /\ placed \in [OrderIds -> Documents \cup {None}]
    /\ setups \in [OrderIds -> SUBSET Months]

PartnerInit ==
    /\ now = 0
    /\ partners = {}
    /\ catalog = None
    /\ orders = [o \in OrderIds |-> None]
    /\ activating = [p \in Operators |-> None]
    /\ config = None
    /\ probing = None
    /\ probes = <<>>
    /\ drafting = None
    /\ statement = None
    /\ scores = {}
    /\ placed = [o \in OrderIds |-> None]
    /\ setups = [o \in OrderIds |-> {}]

Tick ==
    /\ now < MaxNow
    /\ now' = now + 1
    /\ UNCHANGED <<partners, catalog, book, service, billing, scores>>

-----------------------------------------------------------------------------
(* Partners, the catalog and orders *)

\* A second registration violates the primary key.
RegisterPartner(p) ==
    /\ p \notin partners
    /\ partners' = partners \cup {p}
    /\ UNCHANGED <<now, catalog, book, service, billing, scores>>

ValidCatalog(c) ==
    /\ c.wholesale.setup <= c.retail.setup
    /\ c.wholesale.monthly <= c.retail.monthly

\* The server is started, or started again with another file.
Serve(c) ==
    /\ ValidCatalog(c)
    /\ catalog' = c
    /\ UNCHANGED <<now, partners, book, service, billing, scores>>

\* The row takes model, prices and targets from the catalog.
Requested(p, c) ==
    [partner |-> p, model |-> c.model, retail |-> c.retail, wholesale |-> c.wholesale,
     targets |-> c.targets, state |-> "requested", active_at |-> None, deployment_ref |-> None]

\* An authenticated partner posts an order for the SKU the server offers.
CreateOrder(p, o) ==
    /\ catalog # None /\ p \in partners
    /\ orders[o] = None
    /\ orders' = [orders EXCEPT ![o] = Requested(p, catalog)]
    /\ placed' = [placed EXCEPT ![o] = catalog]
    /\ UNCHANGED <<desk, activating, service, billing, scores>>

\* get_order finds the row.
Visible(p, o) == orders[o] # None /\ orders[o].partner = p

-----------------------------------------------------------------------------
(* Activation *)

\* `activate` has checked its references and read the clock.
StampActivation(a, o) ==
    /\ activating[a] = None
    /\ activating' = [activating EXCEPT ![a] = [id |-> o, at |-> now]]
    /\ UNCHANGED <<desk, orders, placed, service, billing, scores>>

\* Mutant: the UPDATE does not ask for the state.
Awaiting_AnyState(o) == orders[o] # None

\* WHERE order_id = ? AND state = 'requested'
Awaiting(o) == orders[o] # None /\ orders[o].state = "requested"

\* The UPDATE, or the error when it met no row.
CommitActivation(a) ==
    LET held == activating[a]
    IN  /\ held # None
        /\ orders' = IF Awaiting(held.id)
                     THEN [orders EXCEPT ![held.id].state = "active",
                                         ![held.id].active_at = held.at,
                                         ![held.id].deployment_ref = a]
                     ELSE orders
        /\ activating' = [activating EXCEPT ![a] = None]
        /\ UNCHANGED <<desk, placed, service, billing, scores>>

-----------------------------------------------------------------------------
(* The service definition and its probes *)

MayExport(p, o) == Visible(p, o) /\ orders[o].state = "active"

ExportService(p, o) ==
    /\ MayExport(p, o)
    /\ config' = [service |-> o, model |-> orders[o].model]
    /\ UNCHANGED <<desk, book, probing, probes, billing, scores>>

\* `probe` reads the file and stamps its sample before the first request.
StartProbe ==
    /\ config # None /\ probing = None /\ Len(probes) < MaxProbes
    /\ probing' = [service |-> config.service, at |-> now]
    /\ UNCHANGED <<desk, book, config, probes, billing, scores>>

\* The sample is recorded; a latency only when the stream ended with output.
RecordProbe(latency) ==
    /\ probing # None
    /\ probes' = Append(probes, [service |-> probing.service, at |-> probing.at,
                                 ok |-> latency # None, latency |-> latency])
    /\ probing' = None
    /\ UNCHANGED <<desk, book, config, billing, scores>>

\* An exception `probe` does not list ends the command before the INSERT.
AbandonProbe ==
    /\ probing # None
    /\ probing' = None
    /\ UNCHANGED <<desk, book, config, probes, billing, scores>>

\* The rows of a service in a month.
Rows(o, m) ==
    LET of == {i \in DOMAIN probes : probes[i].service = o /\ InMonth(probes[i].at, m)}
    IN  [passed |-> [l \in Latencies |->
                        Cardinality({i \in of : probes[i].ok /\ probes[i].latency = l})],
         failed |-> Cardinality({i \in of : ~probes[i].ok})]

-----------------------------------------------------------------------------
(* Statements *)

ActiveIn(order, m) == order.state = "active" /\ ActiveBy(order.active_at, m)

SetupIn(order, m) == ActiveIn(order, m) /\ MonthOf(order.active_at) = m

Total(price, order, m) ==
    IF ~ActiveIn(order, m) THEN 0
    ELSE price.monthly + (IF SetupIn(order, m) THEN price.setup ELSE 0)

\* Mutant: the prices the server offers today.
Charged_AtCatalog(order, m) ==
    [retail |-> Total(catalog.retail, order, m), wholesale |-> Total(catalog.wholesale, order, m)]

\* draft_customer_charge_usd and draft_partner_wholesale_usd
Charged(order, m) ==
    [retail |-> Total(order.retail, order, m), wholesale |-> Total(order.wholesale, order, m)]

\* The month is over, and no activation of the order is between its clock
\* reading and its UPDATE.
Settled(o, m) ==
    /\ Before(FirstDay(m), FirstDay(MonthOf(now)))
    /\ \A a \in Operators : activating[a] = None \/ activating[a].id # o

Answer(p, o, order, m, settled, status) ==
    /\ statement' = [partner |-> p, id |-> o, month |-> m, charge |-> Charged(order, m),
                     settled |-> settled, status |-> status]
    /\ setups' = [setups EXCEPT ![o] = IF SetupIn(order, m) THEN @ \cup {m} ELSE @]

\* The request reads the order; without an active service that is all.
ReadOrder(p, o, m) ==
    /\ catalog # None /\ p \in partners /\ drafting = None
    /\ Visible(p, o)
    /\ IF ActiveIn(orders[o], m)
       THEN /\ drafting' = [partner |-> p, id |-> o, order |-> orders[o], month |-> m,
                            settled |-> Settled(o, m)]
            /\ UNCHANGED <<statement, setups>>
       ELSE /\ Answer(p, o, orders[o], m, Settled(o, m), None)
            /\ UNCHANGED drafting
    /\ UNCHANGED <<desk, book, service, scores>>

\* Mutant: by the targets the server offers today.
Judged_ByCatalog(order, rows) == Status(rows, catalog.targets)

Judged(order, rows) == Status(rows, order.targets)

\* monthly_report, on a connection of its own.
ReadProbes ==
    LET d == drafting
    IN  /\ d # None
        /\ Answer(d.partner, d.id, d.order, d.month, d.settled,
                  Judged(d.order, Rows(d.id, d.month)))
        /\ drafting' = None
        /\ UNCHANGED <<desk, book, service, scores>>

-----------------------------------------------------------------------------
(* Scorecards *)

MayRecord(s) == Visible(s.partner, s.order) /\ s.model = orders[s.order].model

\* INSERT OR IGNORE of a scorecard, whose digest stands for all it says.
RecordScore(s) ==
    /\ MayRecord(s)
    /\ Cardinality(scores) < MaxScores
    /\ scores' = scores \cup {s}
    /\ UNCHANGED <<desk, book, service, billing>>

Models == {c.model : c \in Documents}

PartnerNext ==
    \/ Tick
    \/ \E p \in Partners : RegisterPartner(p)
    \/ \E c \in Documents : Serve(c)
    \/ \E p \in Partners, o \in OrderIds :
         \/ CreateOrder(p, o)
         \/ ExportService(p, o)
         \/ \E m \in Months : ReadOrder(p, o, m)
    \/ \E a \in Operators : CommitActivation(a) \/ \E o \in OrderIds : StampActivation(a, o)
    \/ StartProbe
    \/ \E l \in Latencies \cup {None} : RecordProbe(l)
    \/ AbandonProbe
    \/ ReadProbes
    \/ \E s \in [partner : Partners, order : OrderIds, model : Models] : RecordScore(s)

PartnerSpec == PartnerInit /\ [][PartnerNext]_vars

-----------------------------------------------------------------------------
(* Properties *)

\* What was ordered stands, and so does an activation: an order is activated
\* once, whatever other activations of it were stamped before.
OrderStands ==
    [][\A o \in OrderIds : orders[o] # None =>
         LET then == orders'[o]
         IN  /\ then # None
             /\ [then EXCEPT !.state = "", !.active_at = 0, !.deployment_ref = 0] =
                    [orders[o] EXCEPT !.state = "", !.active_at = 0, !.deployment_ref = 0]
             /\ orders[o].state = "active" => then = orders[o]]_vars

\* A statement charges by the catalog its order was placed under, whatever
\* the server has been started with since, and never pays out a spread.
ChargesAsPlaced ==
    statement # None =>
        LET s == statement.charge
            c == placed[statement.id]
        IN  /\ s.retail >= s.wholesale
            /\ \/ s = [retail |-> 0, wholesale |-> 0]
               \/ s = [retail |-> c.retail.monthly, wholesale |-> c.wholesale.monthly]
               \/ s = [retail |-> c.retail.monthly + c.retail.setup,
                       wholesale |-> c.wholesale.monthly + c.wholesale.setup]

\* The setup fee of an order is charged in one month, however often and for
\* whichever months its statement is drawn.
SetupInOneMonth == \A o \in OrderIds : Cardinality(setups[o]) <= 1

\* A service is not probed before it is paid for: each sample lies in a month
\* its order is charged for.
ProbedMonthsAreCharged ==
    \A i \in DOMAIN probes :
        ActiveIn(orders[probes[i].service], MonthOf(probes[i].at))

\* A statement drawn when its month was over stands, unless an activation of
\* the order was then stamped and not yet written.
ClosedMonthStands ==
    statement # None /\ statement.settled =>
        statement.charge = Charged(orders[statement.id], statement.month)

\* "Met" on a statement is owed to samples of that very order and month, and
\* to the targets it was placed under.
MetOnOwnSamples ==
    statement # None /\ statement.status = "met" =>
        LET rows == Rows(statement.id, statement.month)
        IN  /\ Samples(rows) >= placed[statement.id].targets.samples
            /\ Successes(rows) > 0

\* A partner is told of its own orders only, and a scorecard is about the
\* model its order was placed for.
OwnOrdersOnly ==
    /\ statement # None => orders[statement.id].partner = statement.partner
    /\ \A s \in scores : orders[s.order] # None /\ orders[s.order].partner = s.partner
                           /\ placed[s.order].model = s.model

\* A statement is right: of the partner's own order, by the prices it was placed
\* at, with the setup fee in one month only, and for a closed month for good (and
\* it is drawn from well-typed tables).
StatementIsRight ==
    PartnerTypeOK /\ OwnOrdersOnly /\ ChargesAsPlaced /\ SetupInOneMonth /\ ClosedMonthStands

\* What is measured and what is charged belong together: each sample is in a
\* month that is charged, and "met" is owed to samples and targets of the order.
ProbesAreOwed == ProbedMonthsAreCharged /\ MetOnOwnSamples
=============================================================================
