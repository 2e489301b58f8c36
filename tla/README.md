# A verification project for the Azure managed services platform

TLA+ models of the stateful core of this repository and of the decision programs around it, TLC configurations that
check them on small instances, and TLAPS proofs of what matters most for every
instance. Paths below are relative to the repository; `azure_msp/` stands for
`src/azure_msp/`.

## 1. What the system is

The package is a set of Python programs for an operator who runs Azure backups
for customers. Most of its modules are pure evaluators: they read evidence
documents and return a decision. The part that keeps state and meets
concurrency, crashes and retries is one path:

    alert --> customer gateway (HMAC inbox, or Service Bus) --> case ledger
          --> guarded operator: diagnose, retry once, verify --> drill
          --> service delivery: pilots, work, drills, monthly report

| component | state | operations | talks to |
|---|---|---|---|
| local alert inbox (`customer_gateway.py`) | `gateway_identity`, `gateway_nonces`, `gateway_messages` in SQLite | `enqueue` (HTTP threads of `serve`, or a command), `work_once`, `queue_status` | calls `open_case` of the operator |
| Service Bus transport (`azure_service_bus_gateway.py`) | `bus_alerts`, and the queue in Azure | `publish_file`, `consume_once`, `consume_forever` -> `settle_one` -> `open_delivered_case` | the broker; `open_case` |
| case ledger (`resolution_network.py`) | `cases`, `case_events` | `ingest`, `diagnose`, `record_attempt`, `record_verification` | called by all of the above and by its own command |
| backup evidence (`backup_resolution.py`, `azure_evidence.py`) | none; files of the standalone command | `collect_snapshot` (four reads), `propose`, `retry_backup`, `verify` | Azure, through `az` |
| resolution operator (`production_resolution.py`) | `operator_writes`, `operator_drills` | `diagnose_case`, `execute_retry`, `verify_case`, `attach_drill` | ledger, Azure, recovery operator |
| service delivery (`service_delivery.py`), recovery operator (`recovery_operator.py`) | `pilot_requests`, `delivery_pilots`, `delivery_work`, `recovery_drills`, `recovery_followups` | request, onboard, activate, record work, record drill, monthly report | reads `cases` |
| partner cloud (`partner_cloud.py`) | `partners`, `partner_orders`, `ai_service_scores` | register, order, activate, export, statement, record a scorecard | reads the probes of managed AI; the server holds a catalog |
| managed AI (`managed_ai.py`) | `probes` | `probe`, `record`, `monthly_report` | a service file exported by the partner cloud |
| inference fleet (`inference_fleet.py`) | plan and decision files; the cluster's revisions | plan, evaluate, apply, rollback | `kubectl`; the benchmark of `ai_service_operator.py` |
| recovery operator's drill files (`recovery_operator.py`) | restore file, probe file | `probe`, `evaluate` | the isolated environment; service delivery |
| controls, work queue and items (`evaluator.py`, `operations.py`) | the status of a work item, audit events | the report of a snapshot, `transition` | - |
| decision programs: change, incident, recovery, migration, network, data, commercial, FinOps, AI value, AI production, AI service, capacity | files of evidence that grow between two calls | one report or refusal per call | recovery and migration order a graph; all hand a report to an operator |

Hard behaviours: SQLite serialises each `BEGIN IMMEDIATE` transaction, but every
command is several of them with clock readings, file reads and Azure calls in
between; several threads and processes run them on one file; a process may die
anywhere; leases and peek-locks expire under a worker that is still running;
the broker redelivers, and forgets duplicates; Azure runs backups of its own,
answers late or not at all, and is read by several separate calls. The decision programs run one
after another, but their evidence is written by others: events come late, twice, contradicting or
not at all, a file of an earlier run is still there, graphs have circles, tries are repeated, and
an approved decision is carried out later. The full list, each at its line, is
`hazards` in `PROJECT.json`.

What makes each component correct:

* inbox: an accepted alert is never lost or replaced; a replay is refused, but where a
  later purge overtook the call that brings it (finding 1); one case per alert, and the right one on each message; an exact retry
  budget; every message settles; one customer per database.
* transport: a completed message has its alert's one case, bound to its own
  bytes; only what can never be accepted is refused; every message settles.
* ledger: a case moves along its lifecycle whoever calls it, and evidence is
  written once.
* operator: Azure is asked for at most one backup per case, never without a
  durable intent; "recorded" and "verified" mean what they say; a case whose
  backup is done can be closed.
* service delivery: what is recorded lies within the service of its customer and counts in one
  month; the report of a month that is over charges for its work and misses none of its cases,
  but one whose transaction is open while the report reads.
* partner cloud: an order and its activation stand, statements charge what was ordered, a month
  that was closed does not change, and only a service's own samples speak for it.
* decision programs: an approval is earned by the evidence it is given on, and turns for a cause;
  what is late, repeated or failed does not improve it, with the exceptions that each property
  names and section 6 lists; costs are counted once and none is lost but by rounding; orders of a
  graph are right; what is carried out later does what was approved.

## 2. Modules

| module | models | composed of |
|---|---|---|
| `CaseIngest` | the lookup-or-insert transaction `ingest` as alert intake sees it | - |
| `AlertIntake` | abstract: what either transport promises a sender | - |
| `AlertInbox` | `enqueue` threads and `work_once` processes on one inbox | `CaseIngest`; implements `AlertIntake` |
| `BusGateway` | broker, receivers, digest/case/binding transactions | `CaseIngest`; implements `AlertIntake` |
| `BackupEvidence` | `propose` and `verify` as pure operators over snapshots | - |
| `CaseLifecycle` | abstract: what the ledger promises | - |
| `ResolutionOperator` | operator and standalone commands, ledger rows, write intents, Azure | `BackupEvidence`; implements `CaseLifecycle` |
| `DeliveryCalendar` | months as the reports compare them: stamps, the December carry, `active_at[:7] <= month` | - |
| `ServiceDelivery` | requests, pilots, work, drills, follow-ups, attached drills and reports | `DeliveryCalendar` |
| `Rounding` | Python's `round` on exact fractions; sums over finite sets | - |
| `ProbeReport` | the monthly report over a tally of probes: rates, percentile, gates | `Rounding` |
| `PartnerCloud` | registrations, orders, activations, probes, statements, scorecards over one database | `DeliveryCalendar`, `ProbeReport` |
| `ManagedAi` | the probes of one service in one month | `ProbeReport` |
| `DependencyOrder` | the walk that orders the components of a recovery contract and the assets of a migration | - |
| `RecoveryDrill`, `MigrationWave` | the assessment of a drill; targets and cutover of a wave | `DependencyOrder` |
| `DrillEvidence` | restore and probe files of application drills | - |
| `ChangeRollout`, `NetworkChange` | a change exposed ring by ring; a network under eligible changes | - |
| `InferenceFleet`, `PairedBenchmark` | plans, decisions and revisions; the scorecard of two runs | `Rounding` (the second) |
| `CommercialOnboarding`, `CostAllocation`, `OutcomeCost` | metering and offers; a period's bill; AI spend by workflow | `Rounding` (the last two) |
| `DataRelease` | the gates of data products and the search of their lineage | - |
| `AgentRelease`, `IncidentReplay` | the choice of an agent; correlation and authority in an incident | `Rounding` (the first) |
| `WorkItems` | controls, workloads, the queue and the life of its items | - |
| `MCReviews` | composes the decision programs for TLC, one per behaviour | the eight rows above and `ManagedAi` |
| `SharedLemmas` | lemmas about `ingest`, induction over finite sets, sums, greatest and least, rounding | `CaseIngest`, `Rounding` |
| `AlertInboxProofs`, `BusGatewayProofs` | invariants, and that both implement `AlertIntake` | the modules they name, `SharedLemmas` |
| `PartnerCloudProofs` | invariants and action properties as theorems | `PartnerCloud`, `SharedLemmas` |
| `ServiceDeliveryProofs` | the same | `ServiceDelivery` |
| `ResolutionOperatorProofs` | type, one write per case, the operator implements `CaseLifecycle` | `ResolutionOperator` |
| `ResolutionOperatorEvidence` | what the ledger says of Azure is so | `ResolutionOperatorProofs` |
| `ReviewProofs` | the walk of `DependencyOrder` and a section for each decision program | the decision programs, `SharedLemmas` |
| `MC*` | instances for TLC | the module they name |

### How code becomes actions

One transaction is one action, because `BEGIN IMMEDIATE` (or the single
statement) makes it so. What a call read before the transaction stays in the
process's record (`handler`, `worker`, `receiver`, `proc`), so it can be
stale when the transaction runs. `pc` says where the process is; its values
are named for what has been done (`leased`, `opened`, `failed`). A crash resets
that record and nothing else. Each `PROJECT.json` "map" entry gives the lines.

*AlertInbox.* `Admit` is `enqueue` up to its transaction: clock, window, binding.
`EnqueueNew`/`EnqueueDuplicate` are the commits and `EnqueueRolledBack` every
exception inside. `Begin`, `Lease`, `LeaseDead`, `LeaseNone`, `OpenCase`, `OpenFails`,
`Complete`, `Fail` are the steps of `work_once`. `messages` is a sequence, which
is the `received_at` order. Alerts, bytes, nonces and configurations are model values: the
signature and JSON checks refuse without effect, so a request in the model is
one that passed them. Replays are the same request presented again by `Admit`. `accepted` and
`purgedAt` are history: what was ever accepted, and the latest clock a purge went by.

*BusGateway.* `RecordDigest`, `OpenCase`, `BindCase` are the three transactions of
`open_delivered_case`; `Refuse` and `StepFails` its two kinds of exception; `Settle` the
complete, dead-letter or abandon call of `settle_one`, which works only with the lock of this
very delivery. The broker is external: delivery count, lock expiry, finite duplicate
window and message expiry, as `infra/customer-gateway/queue.bicep` sets them.

*AlertIntake.* What a sender may rely on, whichever transport carried the alert: the owner of the
database, the alerts taken with their bytes and case, and the ledger. `digests` is that record as it stands; of the
inbox's rows `Taken` is. It leaves out how far the work is, and so says nothing of finding 1.

*ResolutionOperator.* Azure is a history of jobs and points of one VM.
`Start` ... `ReadPoints` are `collect_snapshot` with its separate reads; then
one action per transaction: `Diagnose`, `CommitIntent`, `RecordAttempt`,
`MarkWrite`, `MarkUncertain`, `Verify`. `Invoke` is the one cloud write, whose
answer may be lost, lack the job id, or never come. The standalone `retry` of
`backup_resolution_cli.py` runs beside the operator and leaves a file that may be
recorded under any case (`RecordFile`). `invoked` is a history variable.

*ServiceDelivery.* A command is its reads, its clock reading and its
insert, each an action with the values it holds in `proc`: `StartActivate`,
`StampActivation`, `CommitActivation` are `activate`; `StartWork`, `ReadCase`, `StampWork`,
`InsertWork` are `record_work`; `StartRecordDrill`, `InsertDrill` are `record_result`;
`StartAttach`, `InsertAttached`, `RecordAttached` and again `InsertDrill` are `attach_drill` with
its two transactions; `StartReport`, `ReadCases`, `ReadWork`, `ReadDrills` are `_report`,
whose queries are separate snapshots that take no lock. Cases come from the ledger, in two steps each: `OpenCase`
and `VerifyCase` stamp a row inside a transaction (`ledger`), and `CommitLedger` or `RollBackLedger`
end it, perhaps in a later month. While it is open nobody else writes to the database, since all its writers
begin one; the reports read what is committed. `open` is history: the case whose transaction was
open when a report read the cases. Drill results come from files, stamped with the one clock. A clock reading is a number; `DeliveryCalendar` turns
it into the tuple that the ISO string compares as. Which recovery point a drill restored
is `ResolutionOperator`'s part of `attach_drill`.

*PartnerCloud.* `StampActivation` and `CommitActivation` are the two halves of `activate_order`:
the arguments and the clock, then the UPDATE that waits for the database. `ReadOrder` and
`ReadProbes` are `statement`, which reads the order on one connection and the probes on another.
`Serve` restarts the server with another catalog; `ExportService` writes the file a probe uses until
it is written again; `StartProbe`, `RecordProbe` and `AbandonProbe` are a probe with its clock
read before the answer. `placed` and `setups` are history: the catalog of an order, and
the months that charged its setup fee.

*ProbeReport, ManagedAi.* The report sorts the samples, so a month is the number of passed samples per
latency and of failed ones. Latencies are integers of hundredths of a millisecond and
rates of hundredths of a percent, the precision of `round(x, 2)`; `P95` interpolates and
rounds half to even as Python does, on exact fractions where the code has floats.

A probe that ends in an exception `probe` does not list (`managed_ai.py:115`; a stream cut off in
a chunk, an item of another shape) ends the command before `record`: no sample is stored. It is
`AbandonProbe` in `PartnerCloud`, and a month in which that happens can still be met.

*DependencyOrder.* The recursion of `visit` in `recovery_order` and `dependency_order` is a
stack of frames, the component and the dependencies its loop has not come to; `visiting` is the
components of the stack. `CheckNames` is the checks before the walk, `VisitNext` the outer loop,
`VisitDependency` one turn of an inner loop with the call it makes, `RaiseCycle` the
exception, and `Leave` the three lines after the loop. Recovery takes the dependencies sorted and
migration as listed; the model takes them in any order, which covers both. `EvaluateDrill` and
`EvaluateMigration` follow where the walk has returned, as in the commands. A drill's file is given
whole; a wave's grows at its end (`Rehearse`), reports are made again with other approvals, and each
keeps how much of the file it was made on (`seen`).

*WorkItems.* `MakeReport` is the command over one snapshot, as often as it is run; each report has its
workloads, its queue and items of its own, all "proposed". `Transition` is `transition` on an item of any of
them. An item's id is a digest of its control and its resource, so the items of two reports may share it.

*The decision programs.* A variable holds the file of evidence (`observations`, `log`, `bill`,
`runs`, `traces`, `signals`, `answer`), an action adds what its source may add, in any order and more
than once, and one action is the command: its guard is every exception the code may raise
before it writes, its effect the report (`verdict`, `review`, `ledger`, `incident`,
`result`). Reports stay until the next command, so that properties compare one with the next.
Where a program loops in a way a property is about, the loop is stepped: `DataRelease` takes one
product and one node of its queue at a time. Money, rates and times are integers of the
code's last decimal; several scores that are each compared with one limit are one
constant (`Fit`, `checks`). Actors outside the package are marked external in the map: the cluster and the
operator who reads a decision before an undo (`InferenceFleet`), the crew that restores and cleans up
(`DrillEvidence`), the serving agent (`AgentRelease`), the network (`NetworkChange`).

## 3. Runs

| run | instance | shows |
|---|---|---|
| `inbox_intake` | 3 threads, 2 customers, 2 alerts, 3 requests, clock to 4 | `RefusedUnlessOvertaken`, `IntakeKept` |
| `inbox_replay` | 2 threads, 1 alert, 1 request | violation of `ReplayBlocked` (finding 1) |
| `inbox_work` | 2 workers, leases, crashes, 2 attempts, another ledger client, under fairness | `TypeOK`, `CaseNamesItsAlert`, `SettledForCause`, `ImplementsIntake`, `EveryMessageSettles` |
| `inbox_late_failure` | the same | violation of `CompleteIsFinal` (finding 2) |
| `bus_redelivery` | 2 receivers, 2 sends of one alert, 2 bodies, 2 deliveries of each message, under fairness | `SettledForCause`, `ImplementsIntake`, `EveryMessageSettles` |
| `operator_case` | 2 processes racing on one case, 2 jobs; or 1 process at a time, 2 cases of 2 scopes, 3 jobs | `TypeOK`, `OneWritePerCase`, `RecordedMeansAttempted`, `ImplementsLifecycle`, `LedgerIsTrue`, `DoneIsVerifiable` |
| `operator_two_retries` | 2 processes, 2 cases | violation of `RetriesAFreshFailure` (finding 3) |
| `operator_drill_point` | 1 process, 3 jobs | violation of `DrillRestoresOwnPoint` (finding 4) |
| `delivery_months` | 2 processes, 3 scopes of 2 VMs, 1 pilot, 1 case, 1 drill, December and January | `TypeOK`, `RowsInService`, `ActivationStands`, `CountedOnce`, `ReportIsRight` |
| `delivery_attach` | 1 process, 1 case, 1 drill | violation of `AttachNeedsActivePilot` (finding 5) |
| `partner_cloud` | 2 partners; 2 operators racing on one order, or 1 on two orders of two catalogs; 2 probes, December and January | `OrderStands`, `StatementIsRight`, `ProbesAreOwed` |
| `reviews` | fourteen programs side by side, each on its own small instance | see below |

Several properties are conjunctions of named parts, each defined with its own comment
above the conjunction:

| property | parts |
|---|---|
| `IntakeKept` | `SingleCustomer`: one customer per database; `AcceptedIsQueued`: an accepted alert is kept, once |
| `SettledForCause` (inbox) | `CompletedInScope`: no case of another scope is adopted; `RetryBudget`: exactly the attempts allowed |
| `LedgerIsTrue` | `AwaitsARealJob`: the job awaited is this case's own; `VerifiedIsEarned`: it was completed, its point is there |
| `SettledForCause` (bus) | `TypeOK`; `CompletedIsBound`: one case, bound to the message's bytes; `RefusedForCause`: only what can never be accepted |
| `RowsInService` | `WorkInService`, `DrillsInService`, `AttachedAfterVerified`: every row belongs to an active pilot or a verified case of its VM |
| `ReportIsRight` | `ReportCharges`: the work of a closed month is charged, and whatever a report lists that read an active pilot; `ClosedMonthIsComplete`: but for a case in an open transaction |
| `StatementIsRight` | `PartnerTypeOK`, `OwnOrdersOnly`, `ChargesAsPlaced`, `SetupInOneMonth`, `ClosedMonthStands` |
| `ProbesAreOwed` | `ProbedMonthsAreCharged`; `MetOnOwnSamples` |

`reviews` holds one program per behaviour (`running`): they share no state, so their state spaces add up
and an interleaving of two would show nothing. What it shows:

| program | instance | properties |
|---|---|---|
| walk, drill | every graph of 3 components and a name that is none; drills of one or two tries | `OrderIsRight` (`DependenciesFirst`, `EachOnce`, `AnswersRight`); `DrillIsEarned` (`PassedInOrder`, `EveryTryInTime`) |
| wave | 3 assets, one on both others; up to 5 rehearsals, passed at the limits or failed in three ways; two estates | `WaveTurnsForCause` |
| probes | up to 30 probes, 3 latencies about a target of 3 ms | `PraiseIsEarned` (with `MetIsEarned`) |
| fleet | 2 orders, 2 images, 2 operators | `UndoneForCause` (with `OrderBound`) |
| commercial | 3 deliveries of 9 events that repeat or contradict each other | `BilledOnce` (with `CountedOnce`) |
| change | 7 contracts, 4 observations of 3 measurements | `PromotedForCause` (with `ProductionEarned`) |
| release | every lineage of 3 nodes and up to 4 edges | `FindsEveryConsumer` (with `AffectedAreDownstream`) |
| costs | 3 records, drivers that divide evenly, unevenly, not at all or negatively | `BillIsBorne` (`Conserved`, `OwnCostsBorne`) |
| benchmark | up to 24 scenarios, past the first slow answer the rank allows | `EligibleForCause` (with `SlowIsRare`) |
| items | tagged, untagged and strayed resources, a workload defined twice; 2 reports, 5 transitions | `QueueIsSound` (`ItemsAreListed`, `UrgentFirst`, `AuditIdsDiffer`, `ClosedIsEarned`) |
| outcomes | 4 events, with and without tokens, exported again, retried, rejected | `LedgerBalances` (`SpendIsOwned`, `WasteIsTheRest`) |
| evidence | 2 drills, clock of half seconds to 8, a probe at any time | `PassIsEarned` |
| agent | 3 requests of up to 5 calls of 2 tools | `LoopsDoNotHelp` (with `CirclesAreCaught`) |
| incident | 4 signals, 2 diagnostics | `ReportsOnlyWiden` |
| network | 2 flows, 6 topologies, partial observations, drift | `KeptIntentsHold` |

Bounds. Time constants are scaled and keep their relations: the nonce retention
is twice the skew, exactly as 600 = 2 x 300. `MaxNow` stops the clock, except that a
running lease always expires. Two workers suffice for every race on one
message, since a third can only repeat what the second does; two alerts give
a head of line and one behind it. `MaxDelivery` 2 leaves room for an
expired lock or a failure and then a success. `MaxJobs` 3 is the failed job, a retry,
and one of the schedule or a second retry. `operator_case` is bounded in two shapes (`MCOperatorShapes!InShape`),
because a race of two processes on the intent is about one case, and a wrong case is closed by files and evidence
that one process can bring in any order.

In the delivery runs the clock starts in December 2025, so the first month
boundary is also a year's; a month is one tick, since stamps that are read at
different steps of one tick already come in every order. `MaxWork` bounds the rows of work. They do not check for deadlock: the clock stops at
`MaxNow` and nobody has to type another command. `partner_cloud` is bounded in two shapes
(`InShape`): orders share only the catalog and the probes' table, so two of them are needed for the samples
of another order, one is enough for the race of two activations.

In `reviews` the probes go past 21 samples, where the percentile first leaves a slow one out, and their
latencies lie far below, just below and just above the target. Three components hold circles
of every length up to three with and without a tail, a shared dependency and two
unconnected parts; the proofs of `ReviewProofs` settle every number. Four signals, deliveries,
observations or events are one more than it takes to repeat an earlier one behind another. Five rehearsals
let all three assets pass, one fail and pass again; five transitions close an item and approve its twin of the
other report, or would take a rolled-back item through its first steps again. The run does
not check for deadlock: files are full at their bounds and nobody has to call a program again.

Every property has a mutant, a small change a programmer might make (an
off-by-one in the purge, a lookup dropped, a check on the job id forgotten), under which TLC
reports it violated. The `X_Mutation` operators beside a helper are these;
the specifications do not use them.

Fairness. `AlertInbox!Fairness`: time passes and `work-once` is run again and
again, as a one-shot command must be. `BusGateway!Fairness`: receivers are
restarted (`consume_forever` ends at an error) and locks run out. Neither owes anyone a
success: failures and crashes may recur for ever, and the budgets still end
every message. The operator's commands are typed by a person, so `ResolutionOperator` has no fairness;
instead of "eventually verified" the invariant `DoneIsVerifiable` says a `verify` now would succeed.

## 4. Proofs

Checked by TLAPS for any number of threads, processes, alerts, cases and jobs:

* `AlertInboxProofs`: `TypeCorrect`, `ReplaysAreRefused`, `CasesNameAlerts`, `IntakeIsKept`,
  `MessagesSettleForCause`, `InboxImplementsIntake`.
  `RefusedUnlessOvertaken` is an action property: a step that accepts a request accepted before must be of a call
  whose clock is behind the latest purge by more than the retention has to spare, which is nothing, since 600 = 2 x 300.
  The invariant (`NonceInv`) says how far a stored nonce's `seen` is from the timestamp of its request, and that
  each admitted request is in the window of the clock its thread holds; a nonce is then still there as long as
  no purge is past its request by more than `NonceRetention - MaxSkew` (`CommitKeepsNonces`), and a call that is not overtaken
  finds it. The overtaken call is finding 1, and no assumption about the lengths of time excludes it.
  `CaseNamesItsAlert` is strengthened by the claim for the
  case id a worker holds after a commit. `IntakeKept` is inductive as it stands: a customer once
  bound stays (`CustomerStays`), and only a commit adds to what was accepted (`DeliveryQueued`). `RetryBudget` is inductive only with
  `TriesCounted`: the number of attempts a worker remembers is a lower bound of its row's, even after
  its lease has run out and others have worked on the message, so that a late failure
  gives nothing up too early. `CompletedInScope` needs the same of a case that is opened and not yet
  written (`OpenedInScope`).
  In the refinement the first call is `Own`, a first delivery `Take`, an `ingest` that inserts `Open` and the first
  `complete` `Bind`. A second worker that completes the message writes the same case id, since there
  is one case per alert, so its step changes nothing recorded; nor does a lease, a failure or a message given up.
* `BusGatewayProofs`: `SettlesForCause` and `BusImplementsIntake`, for any number of receivers, copies, expired
  locks and crashes. `HoldsOK` says of each point of a receiver what it may still rely on: the digest
  of its message is recorded, its case is the alert's and the customer's, a case is bound, the
  message is refusable. None of it is taken back by the steps of others (`DigestsKeep`, `HoldsStay`),
  so a settlement by whoever still has the lock is right. The refinement maps the three transactions to `Take`,
  `Open` and `Bind`, and to nothing when a redelivery repeats one: an alert that has been recorded keeps its
  row, and a second binding is the first, because the case is the one of the alert.
* `ResolutionOperatorProofs`: `TypeCorrect`, `WritesOnce` and `LedgerImplementsLifecycle`. The invariant of
  `OneWritePerCase` adds that a process cleared to call Azure holds a "started"
  intent of a case not yet invoked, and that an idle intent row never returns to
  "none"; the row is what excludes a second clearance, after a crash too.
  `LedgerImplementsLifecycle` is `Spec => ImplementsLifecycle`. There is one lemma for each
  kind of row write: a write that follows the lifecycle is a step of the
  abstract case, a rewritten row that is equal is a stutter. Every action cites one of
  them, and `TypeOK` says that the evidence it writes is not `None`.
* `ResolutionOperatorEvidence`: `RecordedIsAttempted`, `LedgerTellsTheTruth`, `DoneCanBeVerified`. Nobody reads Azure and the
  ledger in one step, so the invariant says what a piece of evidence is worth however old it is:
  its jobs and points were there at an earlier time, the points later than the jobs (`Past`), and
  an answered attempt is about the job that this very call started (`Genuine`). Both survive every
  later history of Azure (`Later`), so they hold of the rows (`RowTrue`) and of what each process
  holds (`HeldTrue`). `DoneIsVerifiable` needs besides that a call is made for the failed job of
  its own case (`ClearedForCause`): the point of the retry is then none of the points read before it.
  `RecordedMeansAttempted` needs of each process between its write and its transaction that the
  case has been invoked by this call and no other (`Recording`).
* `ServiceDeliveryProofs`: `TypeCorrect`, `RowsStayInService` (from `WorkStaysInService`,
  `DrillsStayInService`, `AttachedFollowsVerification`), `ActivatedOnce`, `ReportsAreRight`, `MonthsCountOnce`. Commands act on
  stale reads, so the invariant says of each `pc` what the process may still rely on
  (`Held`), and those facts survive the steps of others because of `Grow`: no step
  takes back a case, a verification, a result or an activation, nor turns the clock.
  Rows inherit from `Held` what they promise. `ReportIsRight` says the same of a report being drawn
  (`Drawn`): what it has read so far is in the tables and stays (`RowsGrow`), and of a month that
  was over when it began (`Over`) it has read all there will ever be, since later rows are
  stamped in later months, all but the one case whose transaction was open meanwhile, which `open` names. That a closed
  month's work is charged rests on `LateWork`: work for a pilot that a report read before its activation is
  stamped after that report began, hence in a later month. `MonthsCountOnce` rests on a lemma
  about the calendar: a stamp lies in month `m` exactly if `m` is its own month,
  through the December carry, for any first month and month length.
* `PartnerCloudProofs`: `TypeCorrect`, `OrdersStand`, `StatementsAreRight`, `ProbesOwed`, for a clock that starts
  in any month and months of any length. `Grow` says
  that no step takes back an order, its prices or an activation. `ClosedMonthStands` is the hard part:
  a statement that charged nothing for a month that was over must stay right although the
  order may be activated later. It does by `OutOfReach`: whoever is about to activate the order has read
  a clock of a later month, and clocks to come are later still. That rests on lemmas about
  the calendar (`MonthsPass`, `FirstDays`, `ActiveMonths`): the months of increasing clock readings are in
  order, as the comparison of date tuples sees them too. `MetOnOwnSamples` follows since samples are only
  added (`CountsGrow`, `RowsGrow`) and the targets an order was placed under stand (`TargetsStand`).
* `ReviewProofs`, the walk: `RightOrder` (from `InOrder`, `NoneTwice`, `RightAnswer`), for any number of components. The
  invariant (`Calls`) says that each call on the stack is a dependency of the one below it, that no
  component is on it twice, and that a dependency a loop has passed is ordered or is the call
  the loop waits for. So a component met on the stack closes a circle, made of the calls above it;
  and a call whose loop is over has all its dependencies in the order. For the converse, an order
  with dependencies first has no circle: its member of least index would depend on an
  earlier one (the library's well-foundedness of `<`). `DrillsAreEarned` puts the walk
  together with the assessment: what an approved drill rests on is every component below it, at any depth.
* `ReviewProofs`, the decision programs, for files of any length:
  * `PromotionsAreForCause`: the verdict keeps what it was when it was given (`VerdictFollows`), and a
    release from a halt needs a new last word at its ring or before (`HaltStands`).
  * `ReportsWiden`: a row of the report is the sum of the signals delivered so far (`ReportTells`), and its
    extremes move one way only.
  * `ReleasesAreUndoneForCause`: a decision in force tells of its own revision (`FleetRight`, `Reasoned`), wherever a
    revision stands in the history after others were renewed or removed.
  * `WavesTurnForCause`: a report tells which assets' last rehearsal passed in what it had seen of the file
    (`WaveTells`). So where a later report of the same file says otherwise, a rehearsal after the earlier one, or other
    approvals, are the cause: the last entry of an asset decides (`LatestDecides`), whatever was appended of others.
  * `QueuesAreSound`: the audit tells of each item of each report how far it is (`AuditTells`, `Told`), so a closed one has
    gone through each step in order, however the events of other items and of other reports on the same finding
    lie between. Ids differ within a report (`IdsDiffer`), so no item lives on the steps of another. A finding's
    priority only grows along the queue (`PriorityGrows`).
  * `LedgersBalance`, `BillsAreBorne`: the shares of one record add up to it (`RecordIsDivided`), and the two sums, by
    record and by workload, may be exchanged (`SumExchange`). Rounding costs half a cent for each share (`RoundedSum`).
  * `EveryConsumerIsFound`: what is visited is downstream of a failed product, and whatever is one edge further is
    visited or waits (`Searched`); at an empty queue the visited are closed under edges, so they are all
    of `Below`, for cycles too.
  * `LoopsAreFound`: a circle of any length that is repeated too often calls one of its tools too often
    (`CircleReturns`), and one more looped request raises the rate of loops when every looped one counts (`SharesMove`).
  * `PraiseIsDue`, `CandidatesAreEligibleForCause`: the percentile is no lower than the samples its rank leaves
    below it (`RankedIsLeast`, `PercentileIsHigh`, `RankIsReached`), and a failure moves no rank and lowers the rate
    (`FailuresTakeNoTime`, `FailureCosts`).
  * `EventsAreBilledOnce`: `aggregate_usage` is a fold over the log; it takes an appended event by what it took before
    (`TakenInOrder`), so the counted events are gathered one by one (`Gathered`) and a repetition adds none.
  * `PassesAreEarned`: a duration rounded up to the objective is no longer than it (`RoundedUp`), with every
    date in order (`Dated`). `KeptIntentsAreKept`: an eligible change keeps every path of an intent that
    holds (`Protected`), whatever was observed before.
* `SharedLemmas`: the library's induction theorems take a predicate, which no prover here can instantiate. The
  lemmas state what holds of a set as membership in a set of sets, and an induction is then the
  citation of a minimal counterexample (`WFMin`). With that a fold over a finite set exists and is unique
  (`FoldExists`, `FoldsAgree`), and sums are proved to add up, exchange, grow and be bounded; greatest and least, half-even
  rounding (`Rounded`) and its monotony (`RoundsGrow`) follow from the same.

Each safety invariant, action property and refinement of the passing runs is thereby a
theorem. Assumed are only facts about constants, named in the module that declares them and evaluated by TLC:

* what the code refuses before: `WindowAssumption`, `LeaseAssumption`, `RequestAssumption`, `ConfigAssumption`, `BusAssumption`, `OutcomeAssumption`
  (what `from_dict` raises on), `BenchmarkAssumption` (`validate_contract` and `_events`), `LineageAssumption`, `CostAssumption`;
* types of constants, and that `None` is a row of no table: the others. `WeightAssumption` allows negative weights,
  which the code does; the theorem about a workload's own records then asks for none, in the property;
* that the model's arithmetic is exact: `DenominatorAssumption` asks for any common multiple of the divisors
  (42 in the run), `CalendarAssumption` for a first month and a length, `LatencyAssumption` for finitely many latencies,
  as a month has;
* facts the code takes as given and does not refuse: `InventoryAssumption`, a snapshot lists a resource once (two
  resources of one id would share their work item's id); `DefinitionAssumption`, a workload's revenue per hour is not negative
  (with a negative one a less severe finding could come first); and `AgentAssumption`, neither steps nor escalations earn
  money (with a negative cost a failed request could improve an agent's value).

Proving found two places where the models were less than the code, both corrected: `CostAllocation` took a workload
that is called "shared" for the shared pool, whose records are its own in the code; and `CommercialOnboarding`
described the counted events in one formula, where `aggregate_usage` is a loop that decides on each by those before it.

Only model-checked: the liveness property `EveryMessageSettles` of both transports, since fairness is outside the
prover, and the five counterexamples.

## 5. Findings

1. `inbox_replay`: `enqueue` reads its clock before it gets the database, and purges nonces by that
   reading (`customer_gateway.py:81`, `96`). A call that waited less than a second can find the nonce of the very
   request it replays purged by a call of the next second, and is accepted: the retention is exactly as long as the
   window, with nothing to spare for the wait. The alert itself is not queued twice.
2. `inbox_late_failure`: the failing path of `work_once` updates its row
   unconditionally (`customer_gateway.py:139`), so a late failure takes a
   completed message back to pending or dead.
3. `operator_two_retries`: the evidence that allows a retry is not re-read
   under the intent, and the intent is per case: two cases of one VM retry the same failed
   job.
4. `operator_drill_point`: any recovery point newer than the retry counts as
   its own, so a drill of the schedule's point is accepted.
5. `delivery_attach`: `attach_drill` commits the drill to the case before it
   looks at the pilot, so a refused attachment stays attached
   (`production_resolution.py:124-129`).

## 6. Not modelled, and the plan

Left out for good: field-by-field validation of documents, hashes, HTML, HTTP framing, the audit
chain of `case_events` (no decision reads it), bicep templates other than the queue, the manifests the
fleet writes beyond a Deployment's name and image, the KPIs of a snapshot.

`capacity.py` compares the fields of a portfolio with a forecast in one pass: no order, no history and no
other component come into it, and a property would restate the comparisons. (A dependency that is
listed twice silently counts with its last entry, while the reported bottleneck regards both.) The options of a
FinOps report are gates of the same kind.

Of `ServiceDelivery`: authentication and the portal, which only read; the arithmetic
of labor and fee. A statement of the running month that read its pilot before the activation was committed
(`service_delivery.py:199`) and the work after it (`206`) lists labor and no fee. Drawn again it is right, and no document
says that it is taken at one moment, so `ReportCharges` names this case: it holds of every closed month, and of
any report that read an active pilot.

Of the decision programs: the wording of reasons, limitations and digests; amounts that no decision
depends on (margin exposure, affected transactions, business value, gross margin); the time-to-first-token
gate, which is the latency gate over another column. Floats are exact fractions.

What the models show of the code without a property to forbid it, since no document does:
an empty list of rings ends `change_assurance.py:91` with an `IndexError`; a drill event may end before it starts
(`recovery.py:56`), and order is then promised from neighbour to neighbour only; two operators who
confirmed one decision undo twice (`inference_fleet_cli.py:80`); where no event has tokens, the shared
AI cost is borne by nobody under a coverage of 100.0 (`ai_value.py:181`, `253`); a failed request
of few steps makes an agent's loops rarer (`ai_production.py:107`); an intent that is broken when it is observed
may be broken by an eligible change (`network_assurance.py:123`), so that `KeptIntentsHold` speaks of intents that held
all along; a report made again proposes the same `work_item_id`, and the steps of its item repeat the audit ids of the
earlier one's (`operations.py:81`, `131-134`).

Taken as given: the file of rehearsals is appended to; the GET of a drill's probe and its `checked_at`
(`recovery_operator.py:106`, `122`) are one step.

Exposed, and without a property, since no document of the repository promises anything about it: the two
transports keep separate digest tables, so one alert may complete over both with different bytes
(`azure_service_bus_gateway.py:70`); the attempt is stamped by the operator's clock and compared
with Azure's (`backup_resolution.py:213`), and nothing bounds the skew; work is stamped before it waits for
the database and may enter a month already reported (`service_delivery.py:181`); two
pilots of one VM both report its cases (`service_delivery.py:215`); a candidate offer or a cutover target
is the first of the best (`commercial.py:195`, `migration.py:149`), and an action listed as automatic and prohibited
is refused (`incident.py:142`), by a line each.

Planned, in this order:

1. Measures of progress for `EveryMessageSettles`: no step of either transport increases what a message has left of its
   attempts, and each attempt that ends decreases it.
2. Both transports on one ledger: a composition whose part each is, with `OtherIngest` as the other one's step.
