-------------------------- MODULE ServiceDelivery --------------------------
(***************************************************************************)
(* Pilots, work, drills and monthly reports: service_delivery.py, with     *)
(* record_result of recovery_operator.py and attach_drill of               *)
(* production_resolution.py, in the database the case ledger lives in.     *)
(*                                                                         *)
(* Each command reads rows on connections of their own, stamps its record, *)
(* and then waits for the database; any number of them run side by side.   *)
(* A request yields at most one pilot (UNIQUE), so pilots are kept by      *)
(* request.  Refusals change nothing and just end their command.           *)
(***************************************************************************)
EXTENDS DeliveryCalendar, Sequences

CONSTANTS
    Requests,       \* requests of partners, each with its own request_id
    Scopes, VmOf,   \* exact scopes, and the VM each one names (RESOURCE_KEYS)
    Cases, ScopeOf, \* cases of the ledger, and the scope of each
    Drills,         \* digests of drill results
    Procs,          \* operator processes
    None,           \* a column that is NULL, or a row that does not exist
    MaxNow,         \* bound of the model: the clock stops here
    MaxWork         \* bound of the model: rows of delivery_work

ASSUME ScopeAssumption == ScopeOf \in [Cases -> Scopes]
ASSUME BoundAssumption == MaxNow \in Nat /\ MaxWork \in Nat

VARIABLES
    now,        \* the clock
    cases,      \* the ledger: when each case was created and verified
    ledger,     \* its open write transaction: the row stamped, not committed
    results,    \* drill results that were evaluated, on the operator's disk
    requests,   \* pilot_requests
    pilots,     \* delivery_pilots, by request
    work,       \* delivery_work, in order of insertion
    drills,     \* recovery_drills: <<pilot, digest>>
    followups,  \* recovery_followups: <<pilot, digest>>
    attached,   \* operator_drills: <<case, digest>>
    proc        \* what each process holds between its steps

vars == <<now, cases, ledger, results, requests, pilots, work, drills, followups, attached, proc>>
tables == <<ledger, requests, pilots, work, drills, followups, attached>>

Idle == [pc |-> "idle"]
Month == {MonthAt(MonthIndex(t)) : t \in 0..MaxNow}

Case == [created : Nat, verified : Nat \cup {None}]
Transaction == [case : Cases, row : Case]
Result == [scope : Scopes, outcome : {"passed", "failed"}, checked : Nat]
Request == [vms : {1, 2}, state : {"requested", "onboarded"}]
Pilot == [scope : Scopes, state : {"onboarded", "active"}, active_at : Nat \cup {None}]
Work == [pilot : Requests, case : Cases, at : Nat]

\* NULL is no time and no row.
ASSUME NoneAssumption ==
    /\ None \notin Nat /\ None \notin Case /\ None \notin Result
    /\ None \notin Transaction /\ None \notin Request /\ None \notin Pilot /\ None \notin Requests

Reporting ==
    [pc : {"reporting", "cases_read", "work_read", "reported"},
     pilot : Requests, row : Pilot, month : Month, since : Nat, open : SUBSET Cases,
     cases : SUBSET Cases, work : SUBSET (Nat \ {0}), drills : SUBSET Drills]

Process ==
    {Idle} \cup [pc : {"activating"}, pilot : Requests]
           \cup [pc : {"activation_stamped"}, pilot : Requests, at : Nat]
           \cup [pc : {"pilot_active", "working"}, pilot : Requests, case : Cases]
           \cup [pc : {"work_stamped"}, pilot : Requests, case : Cases, at : Nat]
           \cup [pc : {"attaching"}, case : Cases, drill : Drills, pilot : Requests \cup {None}]
           \cup [pc : {"attached"}, case : Cases, drill : Drills, pilot : Requests]
           \cup [pc : {"drill_checked"}, pilot : Requests, drill : Drills]
           \cup Reporting

TypeOK ==
    /\ now \in Nat
    /\ cases \in [Cases -> Case \cup {None}]
    /\ ledger \in Transaction \cup {None}
    /\ results \in [Drills -> Result \cup {None}]
    /\ requests \in [Requests -> Request \cup {None}]
    /\ pilots \in [Requests -> Pilot \cup {None}]
    /\ work \in Seq(Work)
    /\ drills \subseteq Requests \X Drills
    /\ followups \subseteq Requests \X Drills
    /\ attached \subseteq Cases \X Drills
    /\ proc \in [Procs -> Process]

Init ==
    /\ now = 0
    /\ cases = [c \in Cases |-> None]
    /\ ledger = None
    /\ results = [d \in Drills |-> None]
    /\ requests = [r \in Requests |-> None]
    /\ pilots = [r \in Requests |-> None]
    /\ work = <<>>
    /\ drills = {} /\ followups = {} /\ attached = {}
    /\ proc = [p \in Procs |-> Idle]

-----------------------------------------------------------------------------
(* Time, the ledger and the drills, which other components move *)

Tick ==
    /\ now < MaxNow
    /\ now' = now + 1
    /\ UNCHANGED <<cases, results, tables, proc>>

\* `ingest` and `record_verification` take the write lock, BEGIN IMMEDIATE, and
\* read the clock under it.  Until they commit, others still read the old row,
\* and nobody else writes to this database: ledger = None guards every writer.
OpenCase(c) ==
    /\ ledger = None
    /\ cases[c] = None
    /\ ledger' = [case |-> c, row |-> [created |-> now, verified |-> None]]
    /\ UNCHANGED <<now, cases, results, requests, pilots, work, drills, followups, attached, proc>>

VerifyCase(c) ==
    /\ ledger = None
    /\ cases[c] # None /\ cases[c].verified = None
    /\ ledger' = [case |-> c, row |-> [cases[c] EXCEPT !.verified = now]]
    /\ UNCHANGED <<now, cases, results, requests, pilots, work, drills, followups, attached, proc>>

CommitLedger ==
    /\ ledger # None
    /\ cases' = [cases EXCEPT ![ledger.case] = ledger.row]
    /\ ledger' = None
    /\ UNCHANGED <<now, results, requests, pilots, work, drills, followups, attached, proc>>

\* A check inside the transaction raises, or the process dies.
RollBackLedger ==
    /\ ledger # None
    /\ ledger' = None
    /\ UNCHANGED <<now, cases, results, requests, pilots, work, drills, followups, attached, proc>>

\* A probe of a restored machine, stamped when its answer came, and after the
\* cleanup the result `evaluate` makes of it.
EvaluateDrill(d, s, outcome) ==
    /\ results[d] = None
    /\ results' = [results EXCEPT ![d] = [scope |-> s, outcome |-> outcome, checked |-> now]]
    /\ UNCHANGED <<now, cases, tables, proc>>

-----------------------------------------------------------------------------
(* Requests and onboarding: one transaction each *)

RequestPilot(r, vms) ==
    /\ ledger = None
    /\ requests[r] = None
    /\ requests' = [requests EXCEPT ![r] = [vms |-> vms, state |-> "requested"]]
    /\ UNCHANGED <<now, cases, ledger, results, pilots, work, drills, followups, attached, proc>>

\* The SELECT ... AND state='requested', and the one VM of a pilot.
MayOnboard(request) ==
    request # None /\ request.state = "requested" /\ request.vms = 1

Onboard(r, s) ==
    /\ ledger = None
    /\ MayOnboard(requests[r])
    /\ pilots' = [pilots EXCEPT ![r] = [scope |-> s, state |-> "onboarded", active_at |-> None]]
    /\ requests' = [requests EXCEPT ![r].state = "onboarded"]
    /\ UNCHANGED <<now, cases, ledger, results, work, drills, followups, attached, proc>>

-----------------------------------------------------------------------------
(* Activation: read the pilot, stamp, update if it is still onboarded *)

StartActivate(p, r) ==
    /\ proc[p] = Idle
    /\ pilots[r] # None /\ pilots[r].state = "onboarded"
    /\ proc' = [proc EXCEPT ![p] = [pc |-> "activating", pilot |-> r]]
    /\ UNCHANGED <<now, cases, results, tables>>

StampActivation(p) ==
    /\ proc[p].pc = "activating"
    /\ proc' = [proc EXCEPT ![p] = [pc |-> "activation_stamped", pilot |-> proc[p].pilot,
                                    at |-> now]]
    /\ UNCHANGED <<now, cases, results, tables>>

StillOnboarded_ByKey(pilot) == TRUE

\* UPDATE ... AND state='onboarded', with rowcount 1; otherwise it raises.
StillOnboarded(pilot) == pilot.state = "onboarded"

CommitActivation(p) ==
    /\ ledger = None
    /\ proc[p].pc = "activation_stamped"
    /\ LET r == proc[p].pilot
       IN  pilots' = IF StillOnboarded(pilots[r])
                     THEN [pilots EXCEPT ![r].state = "active", ![r].active_at = proc[p].at]
                     ELSE pilots
    /\ proc' = [proc EXCEPT ![p] = Idle]
    /\ UNCHANGED <<now, cases, ledger, results, requests, work, drills, followups, attached>>

-----------------------------------------------------------------------------
(* Work: read the pilot, read the case, stamp, insert *)

IsActive(pilot) == pilot # None /\ pilot.state = "active"

StartWork(p, r, c) ==
    /\ proc[p] = Idle
    /\ IsActive(pilots[r])
    /\ proc' = [proc EXCEPT ![p] = [pc |-> "pilot_active", pilot |-> r, case |-> c]]
    /\ UNCHANGED <<now, cases, results, tables>>

Matches_AnyVm(s, t) == TRUE

\* Two scopes agree on RESOURCE_KEYS; their incidents may differ.
Matches(s, t) == VmOf[s] = VmOf[t]

ReadCase(p) ==
    /\ proc[p].pc = "pilot_active"
    /\ LET c == proc[p].case
       IN  proc' = [proc EXCEPT ![p] =
             IF cases[c] # None /\ Matches(pilots[proc[p].pilot].scope, ScopeOf[c])
             THEN [pc |-> "working", pilot |-> proc[p].pilot, case |-> c]
             ELSE Idle]
    /\ UNCHANGED <<now, cases, results, tables>>

StampWork(p) ==
    /\ proc[p].pc = "working"
    /\ proc' = [proc EXCEPT ![p] = [pc |-> "work_stamped", pilot |-> proc[p].pilot,
                                    case |-> proc[p].case, at |-> now]]
    /\ UNCHANGED <<now, cases, results, tables>>

InsertWork(p) ==
    /\ ledger = None
    /\ proc[p].pc = "work_stamped" /\ Len(work) < MaxWork
    /\ work' = Append(work, [pilot |-> proc[p].pilot, case |-> proc[p].case, at |-> proc[p].at])
    /\ proc' = [proc EXCEPT ![p] = Idle]
    /\ UNCHANGED <<now, cases, ledger, results, requests, pilots, drills, followups, attached>>

-----------------------------------------------------------------------------
(* Drills: record_result for a pilot, attach_drill for a case *)

\* Of an active pilot, of its VM, and probed since its activation.
MayRecord(pilot, result) ==
    /\ IsActive(pilot)
    /\ Matches(pilot.scope, result.scope)
    /\ result.checked >= pilot.active_at

DrillChecked(r, d) == [pc |-> "drill_checked", pilot |-> r, drill |-> d]

StartRecordDrill(p, r, d) ==
    /\ proc[p] = Idle
    /\ results[d] # None /\ MayRecord(pilots[r], results[d])
    /\ proc' = [proc EXCEPT ![p] = DrillChecked(r, d)]
    /\ UNCHANGED <<now, cases, results, tables>>

\* A failed drill leaves an open follow-up.
FollowupsOf(result, row) == IF result.outcome = "failed" THEN {row} ELSE {}

\* Both INSERT OR IGNORE statements, in one transaction.
InsertDrill(p) ==
    /\ ledger = None
    /\ proc[p].pc = "drill_checked"
    /\ LET row == <<proc[p].pilot, proc[p].drill>>
       IN  /\ drills' = drills \cup {row}
           /\ followups' = followups \cup FollowupsOf(results[proc[p].drill], row)
    /\ proc' = [proc EXCEPT ![p] = Idle]
    /\ UNCHANGED <<now, cases, ledger, results, requests, pilots, work, attached>>

\* A verified case of exactly the drill's scope, probed since its verification.
\* Which recovery point was restored is the concern of ResolutionOperator.
MayAttach(case, s, result) ==
    /\ case # None /\ case.verified # None
    /\ result # None /\ result.scope = s
    /\ result.checked >= case.verified

StartAttach(p, c, d, r) ==
    /\ proc[p] = Idle
    /\ MayAttach(cases[c], ScopeOf[c], results[d])
    /\ proc' = [proc EXCEPT ![p] = [pc |-> "attaching", case |-> c, drill |-> d, pilot |-> r]]
    /\ UNCHANGED <<now, cases, results, tables>>

\* The operator's own row is committed before any pilot is looked at.
InsertAttached(p) ==
    /\ ledger = None
    /\ proc[p].pc = "attaching"
    /\ attached' = attached \cup {<<proc[p].case, proc[p].drill>>}
    /\ proc' = [proc EXCEPT ![p] = IF proc[p].pilot = None THEN Idle
                                   ELSE [proc[p] EXCEPT !.pc = "attached"]]
    /\ UNCHANGED <<now, cases, ledger, results, requests, pilots, work, drills, followups>>

\* record_result of the same report, or its refusal.
RecordAttached(p) ==
    /\ proc[p].pc = "attached"
    /\ proc' = [proc EXCEPT ![p] =
         IF MayRecord(pilots[proc[p].pilot], results[proc[p].drill])
         THEN DrillChecked(proc[p].pilot, proc[p].drill) ELSE Idle]
    /\ UNCHANGED <<now, cases, results, tables>>

-----------------------------------------------------------------------------
(* _report: the pilot, and then three queries that are separate snapshots *)

\* Two history fields: `since`, when the command began, and `open`, the case
\* whose transaction was under way when the cases were read.
StartReport(p, r, m) ==
    /\ proc[p] = Idle
    /\ pilots[r] # None
    /\ proc' = [proc EXCEPT ![p] =
         [pc |-> "reporting", pilot |-> r, row |-> pilots[r], month |-> m, since |-> now,
          open |-> {}, cases |-> {}, work |-> {}, drills |-> {}]]
    /\ UNCHANGED <<now, cases, results, tables>>

CasesIn_Verified(row, m) ==
    {c \in Cases : cases[c] # None /\ cases[c].verified # None
                   /\ InMonth(cases[c].created, m) /\ Matches(row.scope, ScopeOf[c])}

CasesIn_Rows(row, m) ==
    {cases[c] : c \in {d \in Cases : cases[d] # None /\ InMonth(cases[d].created, m)}}

CasesIn(row, m) ==
    {c \in Cases : cases[c] # None /\ InMonth(cases[c].created, m)
                                   /\ Matches(row.scope, ScopeOf[c])}

ReadCases(p) ==
    /\ proc[p].pc = "reporting"
    /\ proc' = [proc EXCEPT ![p].pc = "cases_read",
                            ![p].open = IF ledger = None THEN {} ELSE {ledger.case},
                            ![p].cases = CasesIn(proc[p].row, proc[p].month)]
    /\ UNCHANGED <<now, cases, results, tables>>

WorkIn(r, m) == {i \in DOMAIN work : work[i].pilot = r /\ InMonth(work[i].at, m)}

ReadWork(p) ==
    /\ proc[p].pc = "cases_read"
    /\ proc' = [proc EXCEPT ![p].pc = "work_read",
                            ![p].work = WorkIn(proc[p].pilot, proc[p].month)]
    /\ UNCHANGED <<now, cases, results, tables>>

DrillsIn(r, m) == {d \in Drills : <<r, d>> \in drills /\ InMonth(results[d].checked, m)}

ReadDrills(p) ==
    /\ proc[p].pc = "work_read"
    /\ proc' = [proc EXCEPT ![p].pc = "reported",
                            ![p].drills = DrillsIn(proc[p].pilot, proc[p].month)]
    /\ UNCHANGED <<now, cases, results, tables>>

\* The month is charged in full once the pilot was active in it or before.
Charged(row, m) == row.active_at # None /\ ActiveBy(row.active_at, m)

-----------------------------------------------------------------------------
\* A command ends, having printed its report, or by an error or a crash.
End(p) ==
    /\ proc[p] # Idle
    /\ proc' = [proc EXCEPT ![p] = Idle]
    /\ UNCHANGED <<now, cases, results, tables>>

Outside ==
    \/ Tick
    \/ \E c \in Cases : OpenCase(c) \/ VerifyCase(c)
    \/ CommitLedger \/ RollBackLedger
    \/ \E d \in Drills, s \in Scopes, o \in {"passed", "failed"} : EvaluateDrill(d, s, o)

Command(p) ==
    \/ \E r \in Requests : StartActivate(p, r)
    \/ StampActivation(p) \/ CommitActivation(p)
    \/ \E r \in Requests, c \in Cases : StartWork(p, r, c)
    \/ ReadCase(p) \/ StampWork(p) \/ InsertWork(p)
    \/ \E r \in Requests, d \in Drills : StartRecordDrill(p, r, d)
    \/ \E c \in Cases, d \in Drills, r \in Requests \cup {None} : StartAttach(p, c, d, r)
    \/ InsertDrill(p) \/ InsertAttached(p) \/ RecordAttached(p)
    \/ \E r \in Requests, m \in Month : StartReport(p, r, m)
    \/ ReadCases(p) \/ ReadWork(p) \/ ReadDrills(p)
    \/ End(p)

Next ==
    \/ Outside
    \/ \E r \in Requests, vms \in {1, 2} : RequestPilot(r, vms)
    \/ \E r \in Requests, s \in Scopes : Onboard(r, s)
    \/ \E p \in Procs : Command(p)

Spec == Init /\ [][Next]_vars

-----------------------------------------------------------------------------
(* Properties *)

\* A pilot is activated once: of two operators who both read it as onboarded,
\* or onboard its request again, one sets its time and evidence for good.
ActivationStands ==
    [][\A r \in Requests : IsActive(pilots[r]) => pilots'[r] = pilots[r]]_vars

\* Work is recorded only for an active pilot, against a case of its VM that
\* existed, and never stamped before the activation; the checks are made on
\* rows that were read earlier.
WorkInService ==
    \A i \in DOMAIN work :
        LET pilot == pilots[work[i].pilot]  c == work[i].case
        IN  /\ pilot # None /\ pilot.state = "active" /\ pilot.active_at <= work[i].at
            /\ cases[c] # None /\ cases[c].created <= work[i].at
            /\ VmOf[ScopeOf[c]] = VmOf[pilot.scope]

\* A pilot's drill is of its VM and of its time, and an open follow-up exists
\* for exactly the failed ones, whichever command recorded them and however
\* often.
DrillsInService ==
    /\ followups = {row \in drills : results[row[2]].outcome = "failed"}
    /\ \A row \in drills :
         /\ results[row[2]] # None
         /\ pilots[row[1]] # None /\ pilots[row[1]].state = "active"
         /\ pilots[row[1]].active_at <= results[row[2]].checked
         /\ VmOf[pilots[row[1]].scope] = VmOf[results[row[2]].scope]

\* A drill shown with a case was probed after that case's backup was verified.
AttachedAfterVerified ==
    \A row \in attached :
        /\ cases[row[1]] # None /\ cases[row[1]].verified # None /\ results[row[2]] # None
        /\ cases[row[1]].verified <= results[row[2]].checked
        /\ results[row[2]].scope = ScopeOf[row[1]]

\* Every row the three tables hold is within the service it is delivered for,
\* although each command checks rows that it read before others wrote.
RowsInService == WorkInService /\ DrillsInService /\ AttachedAfterVerified

\* The month of this report was over when its command began.
OfClosedMonth(report) == Before(FirstDay(report.month), FirstDay(MonthOf(report.since)))

\* A report of a closed month that lists work charges that month's fee, and so
\* does any report that lists work or drills, unless the activation was committed
\* between its reading the pilot and its reading them.
ReportCharges ==
    \A p \in Procs :
        /\ proc[p].pc = "reported"
        /\ \/ proc[p].work # {} /\ OfClosedMonth(proc[p])
           \/ (proc[p].work # {} \/ proc[p].drills # {}) /\ IsActive(proc[p].row)
        => Charged(proc[p].row, proc[p].month)

\* Each case of the VM and each hour of work is in the report of the month of
\* its stamp and of no other, also when the year ends.
CountedOnce ==
    \A r \in Requests : pilots[r] # None =>
        /\ \A i \in DOMAIN work : \A m \in Month :
             i \in WorkIn(r, m) <=>
                 work[i].pilot = r /\ m = MonthAt(MonthIndex(work[i].at))
        /\ \A c \in Cases : \A m \in Month :
             c \in CasesIn(pilots[r], m) <=>
                 /\ cases[c] # None /\ VmOf[ScopeOf[c]] = VmOf[pilots[r].scope]
                 /\ m = MonthAt(MonthIndex(cases[c].created))

\* A report begun after its month is over lists every case of the VM that the
\* month will ever have, but for the one case that was stamped in the month and
\* whose transaction was still open when the report read the cases.
ClosedMonthIsComplete ==
    \A p \in Procs :
        proc[p].pc = "reported" /\ OfClosedMonth(proc[p]) =>
            LET all == CasesIn(proc[p].row, proc[p].month)
            IN  proc[p].cases \subseteq all /\ all \subseteq proc[p].cases \cup proc[p].open

\* How far a report can be relied on, although it is drawn from four queries
\* while the tables change: it charges for what it lists, and a closed month
\* is complete.
ReportIsRight == ReportCharges /\ ClosedMonthIsComplete

\* docs/production-resolution-operator.md says that attaching a drill with a
\* pilot requires that pilot to be active and of this scope.  The drill is
\* committed to the case first, and only then is the pilot looked at; see the
\* finding in the README.
AttachNeedsActivePilot ==
    [][\A p \in Procs :
         proc[p].pc = "attaching" /\ proc[p].pilot # None /\ proc'[p].pc = "attached"
         => IsActive(pilots[proc[p].pilot])]_vars
=============================================================================
