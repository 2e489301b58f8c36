------------------------- MODULE ResolutionOperator -------------------------
(***************************************************************************)
(* The guarded backup retry: production_resolution.py over the case ledger *)
(* of resolution_network.py and the evidence of backup_resolution.py, for  *)
(* the cases of one protected VM.                                          *)
(*                                                                         *)
(* Any number of operator processes run `diagnose`, `retry` and `verify`   *)
(* on any case, and the standalone retry command of backup_resolution_cli  *)
(* with `record-attempt`.  Azure, which also runs backups of its own, moves *)
(* between any two of their steps; a process may stop at any step.         *)
(*                                                                         *)
(* The scope, account and approval checks of a command that never reaches  *)
(* a write are refusals without effect and have no action.  The cases of   *)
(* one VM may differ in incident id, so scopes are compared by case.       *)
(***************************************************************************)
EXTENDS BackupEvidence

CONSTANTS
    Cases,          \* cases of the VM, already ingested
    Scopes, ScopeOf,    \* the scope of each case
    Procs,          \* operator processes
    None,           \* a column that is still NULL
    MaxJobs         \* bound of the model: Azure starts no more jobs than this

ASSUME BoundAssumption == MaxJobs \in Nat \ {0}
ASSUME ScopeAssumption == ScopeOf \in [Cases -> Scopes]

VARIABLES
    jobs,       \* Azure: the VM's backup jobs, in order of their start
    points,     \* Azure: its recovery points, in order of their creation
    cases,      \* the rows of `cases`
    writes,     \* operator_writes.state of each case, "none" without a row
    drills,     \* operator_drills: the case, and the point that was restored
    proc,       \* what each process holds between its steps
    invoked     \* history: backup-now calls the operator made for each case

vars == <<jobs, points, cases, writes, drills, proc, invoked>>

Idle == [pc |-> "idle"]
Retries == {"retry", "standalone"}
Commands == {"diagnose", "verify"} \cup Retries
CaseStates == {"received", "diagnosed", "awaiting_result", "verified", "needs_review"}

\* What retry_backup returns: the request was accepted or not known to be, and
\* the job id of Azure's answer, or NoJob.
Attempt == [started : Nat, accepted : BOOLEAN, job : Nat, plan : Snapshot, scope : Scopes]

\* NULL is not the JSON of any snapshot or attempt.
ASSUME NoneAssumption == None \notin Snapshot /\ None \notin Attempt

Case == [state : CaseStates, snapshot : Snapshot \cup {None},
         attempt : Attempt \cup {None}, after : Snapshot \cup {None}]

Process ==
    {Idle} \cup [pc : {"account"}, cmd : Commands, case : Cases]
           \cup [pc : {"jobs"}, cmd : Commands, case : Cases, jobs : Seq(Job)]
           \cup [pc : {"collected"}, cmd : Commands, case : Cases, snap : Snapshot]
           \cup [pc : {"cleared", "raised"}, cmd : Retries, case : Cases]
           \cup [pc : {"invoked", "recorded"}, cmd : Retries, case : Cases, attempt : Attempt]

TypeOK ==
    /\ jobs \in Seq(Job)
    /\ points \in Seq(Point)
    /\ cases \in [Cases -> Case]
    /\ writes \in [Cases -> {"none", "started", "recorded", "uncertain"}]
    /\ drills \subseteq Cases \X (Nat \ {0})
    /\ proc \in [Procs -> Process]
    /\ invoked \in [Cases -> Nat]

\* The alert came from a backup that failed.
Init ==
    /\ jobs = <<[status |-> "Failed", started |-> 1]>>
    /\ points = <<>>
    /\ cases = [c \in Cases |-> [state |-> "received", snapshot |-> None,
                                 attempt |-> None, after |-> None]]
    /\ writes = [c \in Cases |-> "none"]
    /\ drills = {}
    /\ proc = [p \in Procs |-> Idle]
    /\ invoked = [c \in Cases |-> 0]

\* The time now, counted in starts of jobs and creations of points; what
\* happens next is stamped one later.
Clock == Len(jobs) + Len(points)

Started == Append(jobs, [status |-> "InProgress", started |-> Clock + 1])

-----------------------------------------------------------------------------
(* Azure *)

\* The vault's own schedule starts a backup.
ScheduledJob ==
    /\ Len(jobs) < MaxJobs
    /\ jobs' = Started
    /\ UNCHANGED <<points, cases, writes, drills, proc, invoked>>

\* A completed backup has its recovery point.
JobCompletes(j) ==
    /\ jobs[j].status = "InProgress"
    /\ jobs' = [jobs EXCEPT ![j].status = "Completed"]
    /\ points' = Append(points, [job |-> j, created |-> Clock + 1])
    /\ UNCHANGED <<cases, writes, drills, proc, invoked>>

JobFails(j) ==
    /\ jobs[j].status = "InProgress"
    /\ jobs' = [jobs EXCEPT ![j].status = "Failed"]
    /\ UNCHANGED <<points, cases, writes, drills, proc, invoked>>

-----------------------------------------------------------------------------
(* collect_snapshot, shared by the commands: account, jobs, item, points *)

\* What a command requires before it calls Azure: `retry` of the case, and the
\* standalone retry of its files, the snapshot and the plan of a diagnosis.
MayStart(cmd, case) ==
    /\ cmd = "retry" => case.state = "diagnosed"
    /\ cmd = "standalone" => case.snapshot # None /\ Candidate(case.snapshot)

\* One command of an operator.
Start(p, cmd, c) ==
    /\ proc[p] = Idle
    /\ MayStart(cmd, cases[c])
    /\ proc' = [proc EXCEPT ![p] = [pc |-> "account", cmd |-> cmd, case |-> c]]
    /\ UNCHANGED <<jobs, points, cases, writes, drills, invoked>>

ReadJobs(p) ==
    /\ proc[p].pc = "account"
    /\ proc' = [proc EXCEPT ![p] = [pc |-> "jobs", cmd |-> proc[p].cmd,
                                    case |-> proc[p].case, jobs |-> jobs]]
    /\ UNCHANGED <<jobs, points, cases, writes, drills, invoked>>

Evidence(listed, created) ==
    [observed |-> TRUE, account |-> TRUE, jobs |-> listed, points |-> created]

Collected(p, snap) ==
    [pc |-> "collected", cmd |-> proc[p].cmd, case |-> proc[p].case, snap |-> snap]

ReadPoints(p) ==
    /\ proc[p].pc = "jobs"
    /\ proc' = [proc EXCEPT ![p] = Collected(p, Evidence(proc[p].jobs, points))]
    /\ UNCHANGED <<jobs, points, cases, writes, drills, invoked>>

\* One of the four reads fails, or the account is another one.
ReadFails(p) ==
    /\ proc[p].pc = "account"
    /\ \E verified \in BOOLEAN :
         proc' = [proc EXCEPT ![p] = Collected(p, [observed |-> FALSE, account |-> verified,
                                                   jobs |-> <<>>, points |-> <<>>])]
    /\ UNCHANGED <<jobs, points, cases, writes, drills, invoked>>

-----------------------------------------------------------------------------
(* The ledger's transactions *)

\* diagnose: the first snapshot decides; for a case already diagnosed it
\* writes nothing, whether it returns or raises.
Diagnosed(case, snap) ==
    [case EXCEPT !.state = IF Candidate(snap) THEN "diagnosed" ELSE "needs_review",
                 !.snapshot = snap]

Undiagnosed_Again(case) == case.state \in {"received", "diagnosed"}

Undiagnosed(case) == case.state = "received"

Diagnose(p) ==
    /\ proc[p].pc = "collected" /\ proc[p].cmd = "diagnose"
    /\ LET c == proc[p].case IN
         cases' = IF Undiagnosed(cases[c])
                  THEN [cases EXCEPT ![c] = Diagnosed(@, proc[p].snap)]
                  ELSE cases
    /\ proc' = [proc EXCEPT ![p] = Idle]
    /\ UNCHANGED <<jobs, points, writes, drills, invoked>>

Bound_AnyScope(c, attempt) ==
    cases[c].state = "diagnosed" /\ attempt.plan = cases[c].snapshot

\* record_attempt accepts an attempt for this scope and this very diagnosis.
Bound(c, attempt) ==
    /\ cases[c].state = "diagnosed"
    /\ attempt.scope = ScopeOf[c]
    /\ attempt.plan = cases[c].snapshot

Attempted_Renamed(case, attempt) ==
    [case EXCEPT !.state = IF attempt.accepted /\ attempt.job # NoJob
                           THEN "awaiting_verification" ELSE "needs_review",
                 !.attempt = attempt]

Attempted(case, attempt) ==
    [case EXCEPT !.state = IF attempt.accepted /\ attempt.job # NoJob
                           THEN "awaiting_result" ELSE "needs_review",
                 !.attempt = attempt]

\* record_verification: only what it recorded last is kept.
Checked(case, snap) ==
    [case EXCEPT !.state = IF VerifiedBackup(case.snapshot, snap, case.attempt)
                           THEN "verified" ELSE "awaiting_result",
                 !.after = snap]

Verify(p) ==
    /\ proc[p].pc = "collected" /\ proc[p].cmd = "verify"
    /\ LET c == proc[p].case IN
         cases' = IF cases[c].state = "awaiting_result" /\ proc[p].snap.account
                  THEN [cases EXCEPT ![c] = Checked(@, proc[p].snap)]
                  ELSE cases
    /\ proc' = [proc EXCEPT ![p] = Idle]
    /\ UNCHANGED <<jobs, points, writes, drills, invoked>>

-----------------------------------------------------------------------------
(* execute_retry, and the standalone retry *)

IntentAllowed_NoLookup(c) == cases[c].state = "diagnosed"

\* The transaction that commits the write intent re-reads what other
\* processes can have changed since the case was first read.
IntentAllowed(c) ==
    /\ writes[c] = "none"
    /\ cases[c].state = "diagnosed"

At(p, pc) == [pc |-> pc, cmd |-> proc[p].cmd, case |-> proc[p].case]

CommitIntent(p) ==
    LET c == proc[p].case IN
    /\ proc[p].pc = "collected" /\ proc[p].cmd = "retry"
    /\ StillFails(cases[c].snapshot, proc[p].snap)
    /\ IntentAllowed(c)
    /\ writes' = [writes EXCEPT ![c] = "started"]
    /\ proc' = [proc EXCEPT ![p] = At(p, "cleared")]
    /\ UNCHANGED <<jobs, points, cases, drills, invoked>>

RetryRefused(p) ==
    LET c == proc[p].case IN
    /\ proc[p].pc = "collected" /\ proc[p].cmd \in Retries
    /\ \/ ~StillFails(cases[c].snapshot, proc[p].snap)
       \/ proc[p].cmd = "retry" /\ ~IntentAllowed(c)
    /\ proc' = [proc EXCEPT ![p] = Idle]
    /\ UNCHANGED <<jobs, points, cases, writes, drills, invoked>>

\* The standalone command has no ledger: only the fresh evidence decides.
ClearStandalone(p) ==
    /\ proc[p].pc = "collected" /\ proc[p].cmd = "standalone"
    /\ StillFails(cases[proc[p].case].snapshot, proc[p].snap)
    /\ proc' = [proc EXCEPT ![p] = At(p, "cleared")]
    /\ UNCHANGED <<jobs, points, cases, writes, drills, invoked>>

CalledAt_AfterTheCall == Clock + 2

\* retry_backup reads its clock before it calls Azure.
CalledAt == Clock

\* What retry_backup returns to the command.
Returned(p, accepted, job) ==
    LET c == proc[p].case IN
    [pc |-> "invoked", cmd |-> proc[p].cmd, case |-> c,
     attempt |-> [started |-> CalledAt, accepted |-> accepted, job |-> job,
                  plan |-> cases[c].snapshot, scope |-> ScopeOf[c]]]

\* The CLI reports an error, or never comes back and the runner raises.
Unanswered(p) == {Returned(p, FALSE, NoJob), At(p, "raised")}

\* One run of `az backup protection backup-now`.  Azure starts a job or does
\* not, and its answer may be lost or lack the job id.
Invoke(p) ==
    LET c == proc[p].case IN
    /\ proc[p].pc = "cleared"
    /\ \/ /\ Len(jobs) < MaxJobs
          /\ jobs' = Started
          /\ \E q \in {Returned(p, TRUE, Len(jobs) + 1), Returned(p, TRUE, NoJob)} \cup Unanswered(p) :
               proc' = [proc EXCEPT ![p] = q]
       \/ /\ jobs' = jobs
          /\ \E q \in Unanswered(p) : proc' = [proc EXCEPT ![p] = q]
    /\ invoked' = [invoked EXCEPT ![c] = IF proc[p].cmd = "retry" THEN @ + 1 ELSE @]
    /\ UNCHANGED <<points, cases, writes, drills>>

\* The operator records its attempt in its case, or raises.
RecordAttempt(p) ==
    LET c == proc[p].case IN
    /\ proc[p].pc = "invoked" /\ proc[p].cmd = "retry"
    /\ \/ /\ Bound(c, proc[p].attempt)
          /\ cases' = [cases EXCEPT ![c] = Attempted(@, proc[p].attempt)]
          /\ proc' = [proc EXCEPT ![p].pc = "recorded"]
       \/ /\ ~Bound(c, proc[p].attempt)
          /\ cases' = cases
          /\ proc' = [proc EXCEPT ![p] = At(p, "raised")]
    /\ UNCHANGED <<jobs, points, writes, drills, invoked>>

\* The file of a standalone retry is recorded, with any case id and again if
\* the operator likes: the file stays.
RecordFile(p, c) ==
    /\ proc[p].pc = "invoked" /\ proc[p].cmd = "standalone"
    /\ cases' = IF Bound(c, proc[p].attempt)
                THEN [cases EXCEPT ![c] = Attempted(@, proc[p].attempt)]
                ELSE cases
    /\ UNCHANGED <<jobs, points, writes, drills, proc, invoked>>

WriteState_NoJobCheck(attempt) == IF attempt.accepted THEN "recorded" ELSE "uncertain"

\* The last transaction of execute_retry writes how the write ended.
WriteState(attempt) ==
    IF attempt.accepted /\ attempt.job # NoJob THEN "recorded" ELSE "uncertain"

MarkWrite(p) ==
    /\ proc[p].pc = "recorded"
    /\ writes' = [writes EXCEPT ![proc[p].case] = WriteState(proc[p].attempt)]
    /\ proc' = [proc EXCEPT ![p] = Idle]
    /\ UNCHANGED <<jobs, points, cases, drills, invoked>>

\* A busy database raises in record_attempt or after it.
DatabaseFails(p) ==
    /\ proc[p].pc \in {"invoked", "recorded"} /\ proc[p].cmd = "retry"
    /\ proc' = [proc EXCEPT ![p] = At(p, "raised")]
    /\ UNCHANGED <<jobs, points, cases, writes, drills, invoked>>

\* The exception handler; the standalone command just ends.
MarkUncertain(p) ==
    /\ proc[p].pc = "raised"
    /\ writes' = IF proc[p].cmd = "retry"
                 THEN [writes EXCEPT ![proc[p].case] = "uncertain"] ELSE writes
    /\ proc' = [proc EXCEPT ![p] = Idle]
    /\ UNCHANGED <<jobs, points, cases, drills, invoked>>

Crash(p) ==
    /\ proc[p] # Idle
    /\ proc' = [proc EXCEPT ![p] = Idle]
    /\ UNCHANGED <<jobs, points, cases, writes, drills, invoked>>

-----------------------------------------------------------------------------
(* attach_drill *)

\* The restored point must be one the verification called new.
MayAttach(case, pt) ==
    /\ case.state = "verified"
    /\ pt \in NewPoints(case.snapshot, case.after, case.attempt)

AttachDrill(c, pt) ==
    /\ MayAttach(cases[c], pt)
    /\ drills' = drills \cup {<<c, pt>>}
    /\ UNCHANGED <<jobs, points, cases, writes, proc, invoked>>

-----------------------------------------------------------------------------
Azure ==
    \/ ScheduledJob
    \/ \E j \in DOMAIN jobs : JobCompletes(j) \/ JobFails(j)

Command(p) ==
    \/ \E cmd \in Commands, c \in Cases : Start(p, cmd, c)
    \/ ReadJobs(p) \/ ReadPoints(p) \/ ReadFails(p)
    \/ Diagnose(p) \/ Verify(p)
    \/ CommitIntent(p) \/ RetryRefused(p) \/ ClearStandalone(p) \/ Invoke(p)
    \/ RecordAttempt(p) \/ \E c \in Cases : RecordFile(p, c)
    \/ MarkWrite(p) \/ DatabaseFails(p) \/ MarkUncertain(p)

Next ==
    \/ Azure
    \/ \E p \in Procs : Command(p) \/ Crash(p)
    \/ \E c \in Cases, pt \in DOMAIN points : AttachDrill(c, pt)

Spec == Init /\ [][Next]_vars

-----------------------------------------------------------------------------
(* Properties *)

\* A process about to invoke backup-now for its case.
Cleared(p) == proc[p].pc = "cleared" /\ proc[p].cmd = "retry"

\* "Never a blind second retry": for each case the operator invokes
\* backup-now at most once, in all processes and after any crash, and never
\* without a durable intent already standing.
OneWritePerCase ==
    /\ \A c \in Cases : invoked[c] <= 1
    /\ \A c \in Cases : invoked[c] = 1 => writes[c] # "none"
    /\ \A p, q \in Procs :
         Cleared(p) /\ Cleared(q) /\ proc[p].case = proc[q].case => p = q

\* A write marked "recorded" is in the ledger: its case holds an accepted
\* attempt with a job id, whatever other commands did to the case meanwhile.
RecordedMeansAttempted ==
    \A c \in Cases : writes[c] = "recorded" =>
        /\ cases[c].state \in {"awaiting_result", "verified"}
        /\ cases[c].attempt.accepted /\ cases[c].attempt.job # NoJob
        /\ invoked[c] = 1

\* "Verified" is earned: Azure really completed the very job of the recorded
\* attempt, and that job's own point is among the points the case calls new,
\* although the lists of jobs and points were read at different times.
VerifiedIsEarned ==
    \A c \in Cases : cases[c].state = "verified" =>
        /\ jobs[cases[c].attempt.job].status = "Completed"
        /\ \E pt \in NewPoints(cases[c].snapshot, cases[c].after, cases[c].attempt) :
             points[pt].job = cases[c].attempt.job

\* No case is stuck: once the job a case awaits has completed, evidence read
\* now verifies it, however late, and whatever other jobs and points there are.
DoneIsVerifiable ==
    \A c \in Cases :
        cases[c].state = "awaiting_result" /\ jobs[cases[c].attempt.job].status = "Completed"
        => VerifiedBackup(cases[c].snapshot, Evidence(jobs, points), cases[c].attempt)

\* A case awaits a result only with a job id to await, one that Azure issued
\* after the job it was diagnosed from, to a retry for this diagnosis and this
\* scope: no other case's retry, recorded from a file, ever closes it.
AwaitsARealJob ==
    \A c \in Cases : cases[c].state \in {"awaiting_result", "verified"} =>
        /\ cases[c].attempt.job \in DOMAIN jobs
        /\ cases[c].attempt.job > LatestBackup(cases[c].snapshot)
        /\ cases[c].attempt.plan = cases[c].snapshot
        /\ cases[c].attempt.scope = ScopeOf[c]

\* What the ledger says of a case in its last two states is so in Azure, too:
\* the job it awaits is its own, and was completed if it says "verified".
LedgerIsTrue == AwaitsARealJob /\ VerifiedIsEarned

\* The ledger keeps the promises of CaseLifecycle under all these commands.
Lifecycle == INSTANCE CaseLifecycle WITH
    state <- [c \in Cases |-> cases[c].state],
    diagnosis <- [c \in Cases |-> cases[c].snapshot],
    attempt <- [c \in Cases |-> cases[c].attempt],
    closing <- [c \in Cases |-> IF cases[c].state = "verified" THEN cases[c].after ELSE None]

ImplementsLifecycle == Lifecycle!Spec

\* docs/production-resolution-operator.md:24 says a retry is possible only
\* when the failed job has not changed.  Two cases of one VM have an intent
\* each and read Azure before it, so the second retry goes out although the
\* ledger already holds an accepted retry of the same failed job; see the
\* finding in the README.
RetriesAFreshFailure ==
    [][\A c, d \in Cases :
         invoked'[c] > invoked[c] /\ d # c /\ invoked[d] > 0 /\ cases[d].attempt # None =>
             cases[d].attempt.job <= LatestBackup(cases[c].snapshot)]_vars

\* docs/production-resolution-operator.md:55 says the drill restores the point
\* produced by this case.  `verify` calls every point since the retry new, the
\* schedule's too; see the finding in the README.
DrillRestoresOwnPoint ==
    \A d \in drills : points[d[2]].job = cases[d[1]].attempt.job
=============================================================================
