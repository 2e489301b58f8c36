----------------------------- MODULE MCReviews -----------------------------
(***************************************************************************)
(* The commands that read files of evidence and write a decision, on small *)
(* instances.  They share no state: each behaviour is of one of them, so   *)
(* that their states add up and do not multiply.  The walk of              *)
(* DependencyOrder is followed by the command that called it: a drill's    *)
(* over every graph, a migration wave's over one.                          *)
(***************************************************************************)
EXTENDS RecoveryDrill, MigrationWave, ManagedAi, InferenceFleet, CommercialOnboarding,
        ChangeRollout, DataRelease, CostAllocation, PairedBenchmark, WorkItems, OutcomeCost,
        DrillEvidence, AgentRelease, IncidentReplay, NetworkChange, TLC

VARIABLE running

Programs == {"walk", "wave", "probes", "fleet", "commercial", "change", "release", "costs", "benchmark",
             "items", "outcomes", "evidence", "agent", "incident",
             "network"}

states == <<vars, drill, waveVars, probes, fleetVars, commercialVars, changeVars, releaseVars,
            bill, runs, itemVars, outcomeVars, drillVars, agentVars, incidentVars,
            networkVars, running>>

\* The third asset of the wave needs both others.
Layers == [c \in Components |-> IF c = 3 THEN {1, 2} ELSE {}]

ReviewsInit ==
    /\ running \in Programs
    /\ Init
    /\ running = "wave" => deps = Layers
    /\ running \notin {"walk", "wave"} => deps = [c \in Components |-> {}]
    /\ DrillInit /\ WaveInit
    /\ ProbeInit
    /\ FleetInit
    /\ CommercialInit
    /\ ChangeInit /\ (running # "change" => change = CHOOSE c \in Changes : TRUE)
    /\ ReleaseInit
    /\ running # "release" => edges = {} /\ seen = CHOOSE o \in Observed : TRUE
    /\ CostInit
    /\ BenchmarkInit
    /\ ItemsInit
    /\ OutcomeInit
    /\ EvidenceInit
    /\ AgentInit
    /\ IncidentInit
    /\ NetworkInit /\ (running # "network" => network = CHOOSE t \in Topologies : TRUE)

Walks ==
    \/ Next /\ UNCHANGED drill
    \/ drill = NoDrill /\ DrillNext

\* The walk is over before the first rehearsal: no step of it reads the file.
Waves ==
    \/ Next /\ UNCHANGED waveVars
    \/ outcome = "done" /\ WaveNext

ReviewsNext ==
    /\ UNCHANGED running
    /\ \/ running = "walk" /\ Walks /\ UNCHANGED waveVars
       \/ running = "wave" /\ Waves /\ UNCHANGED drill
       \/ running \notin {"walk", "wave"} /\ UNCHANGED <<vars, drill, waveVars>>
    /\ \/ running = "probes" /\ ProbeNext
       \/ running # "probes" /\ UNCHANGED probes
    /\ \/ running = "fleet" /\ FleetNext
       \/ running # "fleet" /\ UNCHANGED fleetVars
    /\ \/ running = "commercial" /\ CommercialNext
       \/ running # "commercial" /\ UNCHANGED commercialVars
    /\ \/ running = "change" /\ ChangeNext
       \/ running # "change" /\ UNCHANGED changeVars
    /\ \/ running = "release" /\ ReleaseNext
       \/ running # "release" /\ UNCHANGED releaseVars
    /\ \/ running = "costs" /\ CostNext
       \/ running # "costs" /\ UNCHANGED bill
    /\ \/ running = "benchmark" /\ BenchmarkNext
       \/ running # "benchmark" /\ UNCHANGED runs
    /\ \/ running = "items" /\ ItemsNext
       \/ running # "items" /\ UNCHANGED itemVars
    /\ \/ running = "outcomes" /\ OutcomeNext
       \/ running # "outcomes" /\ UNCHANGED outcomeVars
    /\ \/ running = "evidence" /\ EvidenceNext
       \/ running # "evidence" /\ UNCHANGED drillVars
    /\ \/ running = "agent" /\ AgentNext
       \/ running # "agent" /\ UNCHANGED agentVars
    /\ \/ running = "incident" /\ IncidentNext
       \/ running # "incident" /\ UNCHANGED incidentVars
    /\ \/ running = "network" /\ NetworkNext
       \/ running # "network" /\ UNCHANGED networkVars

ReviewsSpec == ReviewsInit /\ [][ReviewsNext]_states

-----------------------------------------------------------------------------
(* Contracts with names that are no component, drills and waves *)

AnyName == 0..N

Try(c, from, to, age, valid) ==
    [component |-> c, started |-> from, completed |-> to, age |-> age, valid |-> valid]

Tries(c) ==
    {Try(c, 0, 1, 0, TRUE), Try(c, 1, 1, 0, TRUE), Try(c, 1, 2, 0, TRUE), Try(c, 2, 3, 0, TRUE),
     Try(c, 1, 0, 0, TRUE), Try(c, 0, 1, 2, TRUE), Try(c, 0, 1, 0, FALSE)}

\* One try of each component, at times after a first try that came too late, or
\* without the last component.
Drills ==
    LET all == {<<a, b, c>> : a \in Tries(1), b \in Tries(2), c \in Tries(3)}
    IN  all \cup {<<Try(3, 1, 4, 0, TRUE)>> \o d : d \in all} \cup {SubSeq(d, 1, 2) : d \in all}

Lab == [isolated |-> TRUE, failover |-> FALSE]

Candidate(ready, gain, spend) == [ready |-> ready, source |-> 2, gain |-> gain, spend |-> spend]

Portfolios ==
    LET some == <<Candidate(TRUE, 1, 2), Candidate(FALSE, 5, 1), Candidate(TRUE, 3, 2)>>
        none == <<Candidate(FALSE, 1, 0)>>
        even == <<Candidate(TRUE, 2, 2), Candidate(TRUE, 1, 1)>>
    IN  {[c \in Components |-> some], [c \in Components |-> IF c = 1 THEN none ELSE even]}

Rehearsal(c, checks, downtime, rpo) ==
    [asset |-> c, checks |-> checks, downtime |-> downtime, rpo |-> rpo]

\* Every asset may pass, at the limits, and each may fail in a way of its own.
Cutovers ==
    {Rehearsal(c, TRUE, 5, 1) : c \in Components}
        \cup {Rehearsal(1, FALSE, 5, 1), Rehearsal(2, TRUE, 6, 1), Rehearsal(3, TRUE, 5, 2)}

CutoverLimits == [downtime |-> 5, rpo |-> 1]
OneApprover == {"owner"}

-----------------------------------------------------------------------------
(* Managed AI: latencies within a target of 300, and one beyond it whose *)
(* place between two samples is still within it *)

ProbeLatencies == {100, 299, 302}
ProbeTarget == [samples |-> 4, rate |-> 9000, p95 |-> 300]

-----------------------------------------------------------------------------
(* The inference fleet: two orders of two models, two pinned images  *)

TwoOrders == {<<"ord-1", "small">>, <<"ord-2", "large">>}
TwoImages == {"good", "dear"}
Figures(success, latency, cost) ==
    [requests |-> 100, success |-> success, latency |-> latency, ttft |-> 1, cost |-> cost, tokens |-> 2]
Benchmarks ==
    [good |-> Figures(99, 3, 4), dear |-> Figures(98, 3, 5)]
FleetTargets == [requests |-> 50, success |-> 95, latency |-> 5, ttft |-> 2, cost |-> 3]

-----------------------------------------------------------------------------
(* The commercial control plane: events that repeat and contradict each    *)
(* other, and offers of which only some may be sold                        *)

Usage ==
    [id : {"e1", "e2"}, key : {"k1", "k2"}, ours : {TRUE}, amount : {1, 2}]
        \cup {[id |-> "e1", key |-> "k2", ours |-> FALSE, amount |-> 4]}
Stamp(isolation, region, cost) ==
    [isolation |-> isolation, region |-> region, entitlements |-> {"siem", "backup"}, cost |-> cost]
OfferLists ==
    {<<>>, <<Stamp("dedicated", "eu", 95)>>,
     <<Stamp("shared", "eu", 10), Stamp("dedicated", "eu", 60), Stamp("dedicated", "eu", 40),
       Stamp("dedicated", "us", 5), [Stamp("dedicated", "eu", 20) EXCEPT !.entitlements = {"siem"}]>>}
Regulated ==
    [isolation |-> "dedicated", region |-> "eu", entitlements |-> {"siem", "backup"},
     revenue |-> 100, margin |-> 30, current |-> "contracted", requested |-> "awaiting-activation"]
InvoicedAmounts == {1, 3}

-----------------------------------------------------------------------------
(* Change assurance *)

RingMeasurements ==
    {[latency |-> 3, errors |-> 1, success |-> 99], [latency |-> 4, errors |-> 1, success |-> 99],
     [latency |-> 3, errors |-> 2, success |-> 98]}
HealthLimits == [latency |-> 3, errors |-> 1, success |-> 99]
Resize ==
    [production |-> TRUE, rings |-> <<"lab", "canary", "production">>, verified |-> TRUE,
     rollback |-> TRUE, operations |-> {"resize"}]
SomeChanges ==
    {Resize,
     [Resize EXCEPT !.rings = <<"production", "canary">>],
     [Resize EXCEPT !.rings = <<"canary", "canary", "production">>],
     [Resize EXCEPT !.rings = <<"lab", "canary">>],
     [Resize EXCEPT !.rings = <<"lab", "canary">>, !.production = FALSE],
     [Resize EXCEPT !.operations = {"resize", "delete"}],
     [Resize EXCEPT !.verified = FALSE]}

-----------------------------------------------------------------------------
(* Data reliability: two products and a consumer, every lineage of them *)

LineageNodes == 1..3
TwoProducts == <<1, 2>>
Amount == [type |-> "decimal", unit |-> "USD", nullable |-> FALSE, min |-> 0, max |-> 9]
Report == [age |-> 5, complete |-> 99, variance |-> 1, fields |-> [amount |-> Amount]]
ProductContracts == [p \in {1, 2} |-> Report]
AsPromised ==
    [pipeline |-> "succeeded", age |-> 5, complete |-> 99, variance |-> 1,
     fields |-> [amount |-> [type |-> "decimal", unit |-> "USD", nulls |-> 0, min |-> 0, max |-> 9]]]
Observations ==
    LET broken == [AsPromised EXCEPT !.fields.amount.unit = "EUR"]
    IN  {<<a, b>> : a \in {AsPromised, broken}, b \in {AsPromised, broken}}
            \cup {<<AsPromised, [AsPromised EXCEPT !.age = 6]>>,
                  <<AsPromised, [AsPromised EXCEPT !.fields.amount = NoField]>>}
AllLineages == {g \in SUBSET (LineageNodes \X LineageNodes) : Cardinality(g) <= 4}

-----------------------------------------------------------------------------
(* FinOps: shared records by drivers that divide evenly, unevenly, not at *)
(* all, and with a negative weight *)

TwoServices == {"web", "batch"}
AllDrivers == {"requests", "cores", "idle", "credit"}
DriverWeights ==
    [requests |-> [web |-> 1, batch |-> 2], cores |-> [web |-> 3, batch |-> 4],
     idle |-> [web |-> 0, batch |-> 0], credit |-> [web |-> 3, batch |-> -1]]
BillRecords ==
    [cost : {1, 5}, allocation : {"shared"}, driver : AllDrivers]
        \cup [cost : {1, 5}, allocation : {"web", "nobody"}, driver : {"requests"}]

-----------------------------------------------------------------------------
(* The paired benchmark *)

RequestEnds ==
    [fast |-> [ok |-> TRUE, accepted |-> TRUE, latency |-> 2, cost |-> 1],
     slow |-> [ok |-> TRUE, accepted |-> FALSE, latency |-> 9, cost |-> 1],
     failed |-> [ok |-> FALSE, accepted |-> FALSE, latency |-> 0, cost |-> 1]]
EndNames == DOMAIN RequestEnds
PlainEnds == {"fast", "failed"}
ServiceTargets ==
    [requests |-> 2, success |-> 60, acceptance |-> 50, latency |-> 5, cost |-> 3]

-----------------------------------------------------------------------------
(* Work items: resources of a defined workload, of another and of none, and *)
(* a definition that is given twice or takes the name of what is unassigned *)

Vm(name, workload, lacks) == [name |-> name, type |-> "vm", workload |-> workload, lacks |-> lacks]
Snapshots ==
    {{Vm("vm1", "payments", {"AZ-MSP-002"})},
     {Vm("vm1", "payments", {"AZ-MSP-003", "AZ-MSP-005"}),
      [name |-> "st1", type |-> "storage", workload |-> "legacy", lacks |-> {"AZ-MSP-001"}]},
     {Vm("vm1", "payments", {"AZ-MSP-001"}), Vm("vm2", "unassigned", {"AZ-MSP-004"})}}
Defined(id, criticality, revenue) == [id |-> id, criticality |-> criticality, revenue |-> revenue]
DefinitionLists ==
    {<<>>, <<Defined("payments", 4, 500)>>, <<Defined("payments", 4, 500), Defined("payments", 1, 0)>>,
     <<Defined("payments", 2, 90), Defined("unassigned", 3, 10)>>}
TwoLogins == {"acme", "other"}
OneActor == {"owner"}

-----------------------------------------------------------------------------
(* The cost of outcomes: events with and without tokens, retried, rejected *)
(* and of a model without a rate card *)

Event(id, workflow, tokens, attempt, accepted) ==
    [id |-> id, workflow |-> workflow, model |-> "small", tokens |-> tokens, direct |-> 3,
     attempt |-> attempt, accepted |-> accepted]
OutcomeEvents ==
    {Event("e1", "chat", 2, 1, TRUE), Event("e1", "chat", 0, 1, TRUE), Event("e2", "chat", 1, 2, TRUE),
     Event("e2", "mail", 4, 1, FALSE), Event("e3", "mail", 0, 2, FALSE),
     [Event("e3", "mail", 5, 1, TRUE) EXCEPT !.model = "unknown"]}
PricedModels == {"small"}
RouteLists ==
    {<<[fit |-> FALSE, cost |-> 1], [fit |-> TRUE, cost |-> 3], [fit |-> TRUE, cost |-> 2]>>}

-----------------------------------------------------------------------------
(* Agents *)

TwoTools == {"search", "book"}
ReleaseFloor == [completion |-> 5000, loops |-> 5000, failures |-> 3334]
WorkflowWorth == [completed |-> 20, escalated |-> 10, step |-> 1]

-----------------------------------------------------------------------------
(* Incidents *)

Alert(id, ours, source, symptom, value, minute) ==
    [id |-> id, ours |-> ours, source |-> source, symptom |-> symptom, value |-> value,
     threshold |-> value - 1, minute |-> minute]
SomeSignals ==
    {Alert("s1", TRUE, "monitor", "latency", 5, 2), Alert("s2", TRUE, "probe", "latency", 3, 1),
     Alert("s3", TRUE, "monitor", "errors", 4, 3), Alert("s4", FALSE, "monitor", "errors", 9, 0)}
SomeDiagnostics ==
    {[read |-> TRUE, verified |-> TRUE, method |-> "controlled_intervention"],
     [read |-> TRUE, verified |-> TRUE, method |-> "correlation"],
     [read |-> FALSE, verified |-> FALSE, method |-> "correlation"]}
Responses ==
    [automatic |-> {"inspect", "failover"}, approval |-> {"restart"}, prohibited |-> {"failover", "delete"}]
RestorationFiles == {[minute |-> 9, healthy |-> TRUE], [minute |-> 11, healthy |-> TRUE]}

-----------------------------------------------------------------------------
(* Network changes: a flow that must pass the firewall and be answered, and *)
(* one that must not be reachable                                          *)

Path(reachable, returns, path, dns, latency) ==
    [reachable |-> reachable, returns |-> returns, path |-> path, dns |-> dns, latency |-> latency]
ConnectivityIntents ==
    [shop |-> [reach |-> TRUE, required |-> {"firewall"}, prohibited |-> {"internet"},
               dns |-> "private", latency |-> 5],
     admin |-> [reach |-> FALSE, required |-> {}, prohibited |-> {"internet"},
                dns |-> "not-applicable", latency |-> 5]]
ShopPaths ==
    {Path(TRUE, TRUE, {"firewall"}, "private", 5), Path(TRUE, FALSE, {"firewall"}, "private", 5),
     Path(TRUE, TRUE, {"firewall", "internet"}, "public", 6)}
AdminPaths == {Path(FALSE, FALSE, {}, "public", 0), Path(TRUE, TRUE, {"internet"}, "public", 1)}
PathTables == [shop : ShopPaths, admin : AdminPaths]
=============================================================================
