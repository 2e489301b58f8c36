----------------------------- MODULE WorkItems -----------------------------
(***************************************************************************)
(* The controls of an inventory snapshot, the work queue made of what they *)
(* find, and the life of its items with their audit events: evaluator.py,  *)
(* operations.py and cli.py.  Each report has items of its own, and those  *)
(* of a later snapshot may be about what is being done already.            *)
(* Revenue is in thousands, so that a score in hundredths is an integer.   *)
(***************************************************************************)
EXTENDS Integers, Sequences, SequencesExt

CONSTANTS
    Inventories,    \* sets of resources: [name, type, workload, lacks]
    Definitions,    \* lists of workload definitions: [id, criticality, revenue]
    Customer,       \* the customer of the snapshot
    Logins,         \* customers that may be authenticated
    Actors,
    MaxReports,     \* bounds of the model
    MaxEvents

\* A snapshot names a resource once.
ASSUME InventoryAssumption ==
    \A inventory \in Inventories : \A r, s \in inventory : r.name = s.name => r = s

\* The code does not refuse a negative revenue; with one, a less severe finding
\* of the same workload may come first.
WorkloadDefinition == [id : STRING, criticality : Nat, revenue : Nat]

ASSUME DefinitionAssumption == Definitions \subseteq Seq(WorkloadDefinition)

VARIABLES
    reports,        \* each report's workloads [id, criticality, revenue, resources],
                    \* its items, the work queue, and their status by their place in it
    audit           \* the audit events, in the order they were made; `report` is
                    \* history: an event does not say whose item it is about

itemVars == <<reports, audit>>

ItemsInit == reports = <<>> /\ audit = <<>>

-----------------------------------------------------------------------------
(* evaluate, build_workloads and build_work_queue *)

\* The controls that look at a resource; all but the first are of high severity.
Controls(type) ==
    {"AZ-MSP-001"}
        \cup (IF type = "vm" THEN {"AZ-MSP-002", "AZ-MSP-003", "AZ-MSP-004"} ELSE {})
        \cup (IF type = "storage" THEN {"AZ-MSP-005"} ELSE {})

Severity(control) == IF control = "AZ-MSP-001" THEN 2 ELSE 3

Findings(inventory) ==
    {f \in inventory \X UNION {Controls(r.type) : r \in inventory} :
        f[2] \in Controls(f[1].type) \cap f[1].lacks}

Tagged(inventory, id) == {r.name : r \in {x \in inventory : x.workload = id}}

KnownIds(definitions) == {definitions[i].id : i \in DOMAIN definitions}

\* Resources of no known workload: without the tag, or with another's.
Stray(inventory, definitions) ==
    {r.name : r \in {x \in inventory : x.workload \notin KnownIds(definitions)}}

\* In the order of the definitions: sorted() keeps it among equal ids, the only
\* workloads that can hold the same resource.
BuildWorkloads(inventory, definitions) ==
    LET defined == [i \in DOMAIN definitions |->
                      [id |-> definitions[i].id, criticality |-> definitions[i].criticality,
                       revenue |-> definitions[i].revenue,
                       resources |-> Tagged(inventory, definitions[i].id)]]
        stray == Stray(inventory, definitions)
    IN  IF stray = {} THEN defined
        ELSE Append(defined, [id |-> "unassigned", criticality |-> 1, revenue |-> 0,
                              resources |-> stray])

\* workload_by_resource: the last that holds it, or none.
HomeOf(loads, name) ==
    LET holding == {i \in DOMAIN loads : name \in loads[i].resources}
    IN  IF holding = {} THEN [id |-> "unassigned", criticality |-> 1, revenue |-> 0]
        ELSE loads[CHOOSE i \in holding : \A j \in holding : j <= i]

\* priority_score.  The cap of a quarter on the share of revenue is above what
\* the severest finding of the most critical workload comes to.
Priority(severity, load) ==
    LET exposure == load.revenue * severity * load.criticality
    IN  1000 * severity + 500 * load.criticality + (IF exposure < 2000 THEN exposure ELSE 2000)

ItemFor(finding, loads) ==
    LET home == HomeOf(loads, finding[1].name)
    IN  [resource |-> finding[1].name, control |-> finding[2], workload |-> home.id,
         score |-> Priority(Severity(finding[2]), home)]

\* Items of the same score are ordered by a digest: in any order here.
Ahead(a, b) == a.score >= b.score

\* The command: findings, proposals, workloads and queue of one snapshot.
MakeReport(inventory, definitions) ==
    LET loads == BuildWorkloads(inventory, definitions)
        due == {ItemFor(f, loads) : f \in Findings(inventory)}
    IN  /\ \E q \in SetToSeqs(due) :
             /\ \A i, j \in DOMAIN q : i < j => Ahead(q[i], q[j])
             /\ reports' = Append(reports, [workloads |-> loads, items |-> q,
                                            status |-> [i \in DOMAIN q |-> "proposed"]])
        /\ UNCHANGED audit

-----------------------------------------------------------------------------
(* transition *)

\* Mutant: an item that was rolled back may be approved again.
Allowed_Again ==
    {<<"proposed", "approve", "approved">>, <<"proposed", "reject", "rejected">>,
     <<"approved", "start", "implementing">>, <<"approved", "cancel", "cancelled">>,
     <<"implementing", "validate", "validated">>, <<"implementing", "rollback", "rolled-back">>,
     <<"validated", "close", "closed">>, <<"validated", "rollback", "rolled-back">>,
     <<"rolled-back", "approve", "approved">>}

\* ALLOWED_TRANSITIONS
Allowed ==
    {<<"proposed", "approve", "approved">>, <<"proposed", "reject", "rejected">>,
     <<"approved", "start", "implementing">>, <<"approved", "cancel", "cancelled">>,
     <<"implementing", "validate", "validated">>, <<"implementing", "rollback", "rolled-back">>,
     <<"validated", "close", "closed">>, <<"validated", "rollback", "rolled-back">>}

\* work_item_id: the proposal's, a digest of the control and the resource.
WorkItemId(item) == <<item.control, item.resource>>

Transition(n, i, customer, action, actor) ==
    /\ customer = Customer
    /\ \E t \in Allowed :
         /\ t[1] = reports[n].status[i] /\ t[2] = action
         /\ reports' = [reports EXCEPT ![n].status[i] = t[3]]
         /\ audit' = Append(audit, [report |-> n, item |-> WorkItemId(reports[n].items[i]),
                                    customer |-> customer, actor |-> actor,
                                    action |-> action, previous |-> t[1], new |-> t[3]])

ItemsNext ==
    \/ /\ Len(reports) < MaxReports
       /\ \E inventory \in Inventories, d \in Definitions : MakeReport(inventory, d)
    \/ /\ Len(audit) < MaxEvents
       /\ \E n \in DOMAIN reports : \E i \in DOMAIN reports[n].items :
            \E c \in Logins, t \in Allowed, a \in Actors : Transition(n, i, c, t[2], a)

ItemsSpec == ItemsInit /\ [][ItemsNext]_itemVars

-----------------------------------------------------------------------------
(* Properties *)

Listed(report) ==
    \A i \in DOMAIN report.items : \E w \in DOMAIN report.workloads :
        /\ report.workloads[w].id = report.items[i].workload
        /\ report.items[i].resource \in report.workloads[w].resources

\* No finding falls off a report: the workload an item names is one of the
\* report's, and it lists the item's resource, however the resource is tagged.
ItemsAreListed == \A n \in DOMAIN reports : Listed(reports[n])

Urgent(report) ==
    \A i, j \in DOMAIN report.items :
        LET first == HomeOf(report.workloads, report.items[i].resource)
            second == HomeOf(report.workloads, report.items[j].resource)
        IN  i < j /\ report.items[i].score # report.items[j].score =>
                \/ Severity(report.items[i].control) > Severity(report.items[j].control)
                \/ first.criticality > second.criticality
                \/ first.revenue > second.revenue

\* The most urgent comes first: an item stands behind another only where it is
\* less severe, or its workload less critical or worth less.
UrgentFirst == \A n \in DOMAIN reports : Urgent(reports[n])

\* event_id: a digest of the item's id and the step, without a time or a count.
AuditId(event) == <<event.item, event.previous, event.new, event.actor>>

\* Two audit events of one id are about two reports' items: no item takes the
\* same step twice, by whatever steps of its own or another report's item on
\* the same finding between.  The later report's item, proposed anew, does
\* repeat the ids of the earlier one's.
AuditIdsDiffer ==
    \A i, j \in DOMAIN audit :
        AuditId(audit[i]) = AuditId(audit[j]) /\ audit[i].report = audit[j].report => i = j

StepsOf(n, i) ==
    {k \in DOMAIN audit :
        audit[k].report = n /\ audit[k].item = WorkItemId(reports[n].items[i])}

\* A closed item was approved, started, validated and closed, in this order
\* and by its own customer, whatever became of another report's item on the
\* same finding: no report lends another its approval.
ClosedIsEarned ==
    \A n \in DOMAIN reports : \A i \in DOMAIN reports[n].items :
        reports[n].status[i] = "closed" =>
            \E a, b, c, d \in StepsOf(n, i) :
                /\ StepsOf(n, i) = {a, b, c, d} /\ a < b /\ b < c /\ c < d
                /\ audit[a].action = "approve" /\ audit[b].action = "start"
                /\ audit[c].action = "validate" /\ audit[d].action = "close"
                /\ \A k \in StepsOf(n, i) : audit[k].customer = Customer

\* The work queues are sound: every finding on one has its workload, the most
\* urgent first, and the audit tells each item's steps to the end, once.
QueueIsSound == ItemsAreListed /\ UrgentFirst /\ AuditIdsDiffer /\ ClosedIsEarned
=============================================================================
