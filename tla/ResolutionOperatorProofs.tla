---------------------- MODULE ResolutionOperatorProofs ----------------------
(***************************************************************************)
(* Proofs about ResolutionOperator, for any number of cases and processes  *)
(* and any number of jobs: its type invariant, that a case has at most one *)
(* backup-now invocation of the operator, and that the ledger implements   *)
(* CaseLifecycle.  What the ledger says of Azure is proved in              *)
(* ResolutionOperatorEvidence.                                             *)
(***************************************************************************)
EXTENDS ResolutionOperator, TLAPS

(***************************************************************************)
(* A retry holds a case that has a diagnosis, and every case past          *)
(* "received" has one: the attempt that `Invoke` builds is well-typed only *)
(* because of it.                                                          *)
(***************************************************************************)
RetryHasDiagnosis ==
    /\ \A c \in Cases : cases[c].state # "received" => cases[c].snapshot \in Snapshot
    /\ \A p \in Procs :
         proc[p].pc # "idle" /\ proc[p].cmd \in Retries
             => cases[proc[p].case].snapshot \in Snapshot

TypeInv == TypeOK /\ RetryHasDiagnosis

\* The fields a process holds at each point of its command.
LEMMA ProcessFields ==
    ASSUME NEW q \in Process
    PROVE  /\ q.pc \in {"idle", "account", "jobs", "collected", "cleared", "raised",
                        "invoked", "recorded"}
           /\ q.pc = "idle" => q = Idle
           /\ q.pc # "idle" => q.cmd \in Commands /\ q.case \in Cases
           /\ q.pc \in {"cleared", "raised", "invoked", "recorded"} => q.cmd \in Retries
           /\ q.pc = "jobs" => q.jobs \in Seq(Job)
           /\ q.pc = "collected" => q.snap \in Snapshot
           /\ q.pc \in {"invoked", "recorded"} => q.attempt \in Attempt
           /\ q.pc = "invoked" => [q EXCEPT !.pc = "recorded"] \in Process
<1>1. CASE q = Idle
  BY <1>1 DEF Idle
<1>2. CASE q \in [pc : {"account"}, cmd : Commands, case : Cases]
  BY <1>2
<1>3. CASE q \in [pc : {"jobs"}, cmd : Commands, case : Cases, jobs : Seq(Job)]
  BY <1>3
<1>4. CASE q \in [pc : {"collected"}, cmd : Commands, case : Cases, snap : Snapshot]
  BY <1>4
<1>5. CASE q \in [pc : {"cleared", "raised"}, cmd : Retries, case : Cases]
  BY <1>5 DEF Commands
<1>6. CASE q \in [pc : {"invoked", "recorded"}, cmd : Retries, case : Cases, attempt : Attempt]
  BY <1>6 DEF Process, Commands
<1>7. QED
  BY <1>1, <1>2, <1>3, <1>4, <1>5, <1>6 DEF Process

\* What is read of Azure is a snapshot.
LEMMA EvidenceType ==
    ASSUME NEW listed \in Seq(Job), NEW created \in Seq(Point)
    PROVE  Evidence(listed, created) \in Snapshot
BY DEF Evidence, Snapshot

\* Each process stays with its case and its command, or ends; each case stays
\* as it is, or has a diagnosis: that is all a step needs to show.
Steady ==
    /\ \A d \in Cases : cases'[d] = cases[d] \/ cases'[d].snapshot \in Snapshot
    /\ \A r \in Procs : proc'[r].pc # "idle" =>
         /\ proc[r].pc # "idle"
         /\ proc'[r].cmd = proc[r].cmd /\ proc'[r].case = proc[r].case

LEMMA SteadyKeepsDiagnosis ==
    ASSUME TypeInv, cases' \in [Cases -> Case], proc' \in [Procs -> Process], Steady
    PROVE  RetryHasDiagnosis'
<1>1. \A r \in Procs : proc[r].pc # "idle" => proc[r].case \in Cases
  BY ProcessFields DEF TypeInv, TypeOK
<1>2. QED
  BY <1>1 DEF TypeInv, RetryHasDiagnosis, Steady

\* A process that moves to q, with its case and command or to the end.
LEMMA Move ==
    ASSUME TypeOK, NEW p \in Procs, NEW q \in Process,
           proc' = [proc EXCEPT ![p] = q],
           q.pc # "idle" => /\ proc[p].pc # "idle"
                            /\ q.cmd = proc[p].cmd /\ q.case = proc[p].case
    PROVE  /\ proc' \in [Procs -> Process]
           /\ \A r \in Procs : proc'[r].pc # "idle" =>
                /\ proc[r].pc # "idle"
                /\ proc'[r].cmd = proc[r].cmd /\ proc'[r].case = proc[r].case
BY DEF TypeOK

\* A row that a transaction writes.
LEMMA Row ==
    ASSUME TypeOK, NEW c \in Cases, NEW row \in Case, row.snapshot \in Snapshot,
           cases' = [cases EXCEPT ![c] = row]
    PROVE  /\ cases' \in [Cases -> Case]
           /\ \A d \in Cases : cases'[d] = cases[d] \/ cases'[d].snapshot \in Snapshot
BY DEF TypeOK

LEMMA IdleType == Idle \in Process /\ Idle.pc = "idle"
BY DEF Idle, Process

\* `At` builds a process at a point that needs the case and command alone.
LEMMA AtType ==
    ASSUME TypeOK, NEW p \in Procs, proc[p].pc # "idle",
           proc[p].cmd \in Retries, NEW pc \in {"cleared", "raised"}
    PROVE  /\ At(p, pc) \in Process
           /\ At(p, pc).cmd = proc[p].cmd /\ At(p, pc).case = proc[p].case
           /\ At(p, pc).pc = pc
<1>1. proc[p].case \in Cases
  BY ProcessFields DEF TypeOK
<1>2. At(p, pc) \in [pc : {"cleared", "raised"}, cmd : Retries, case : Cases]
  BY <1>1 DEF At
<1>3. QED
  BY <1>2 DEF At, Process

LEMMA CollectedType ==
    ASSUME TypeOK, NEW p \in Procs, proc[p].pc # "idle", NEW snap \in Snapshot
    PROVE  /\ Collected(p, snap) \in Process
           /\ Collected(p, snap).cmd = proc[p].cmd /\ Collected(p, snap).case = proc[p].case
<1>1. proc[p].cmd \in Commands /\ proc[p].case \in Cases
  BY ProcessFields DEF TypeOK
<1>2. Collected(p, snap) \in [pc : {"collected"}, cmd : Commands, case : Cases, snap : Snapshot]
  BY <1>1 DEF Collected
<1>3. QED
  BY <1>2 DEF Collected, Process

\* The step of Azure alone.
LEMMA AzureType ==
    ASSUME TypeInv, Azure
    PROVE  TypeInv'
<1>1. Clock \in Nat /\ Started \in Seq(Job)
  BY DEF Clock, Started, Job, JobStates, TypeInv, TypeOK
<1>2. CASE ScheduledJob
  BY <1>1, <1>2 DEF ScheduledJob, TypeInv, TypeOK, RetryHasDiagnosis
<1>3. ASSUME NEW j \in DOMAIN jobs, JobCompletes(j)
      PROVE  TypeInv'
  <2>1. jobs[j] \in Job /\ j \in Nat \ {0}
    BY <1>3 DEF TypeInv, TypeOK
  <2>2. [jobs[j] EXCEPT !.status = "Completed"] \in Job
    BY <2>1 DEF Job, JobStates
  <2>3. jobs' \in Seq(Job)
    BY <1>3, <2>2 DEF JobCompletes, TypeInv, TypeOK
  <2>4. [job |-> j, created |-> Clock + 1] \in Point
    BY <1>1, <2>1 DEF Point
  <2>5. points' \in Seq(Point)
    BY <1>3, <2>4 DEF JobCompletes, TypeInv, TypeOK
  <2>6. QED
    BY <1>3, <2>3, <2>5 DEF JobCompletes, TypeInv, TypeOK, RetryHasDiagnosis
<1>4. ASSUME NEW j \in DOMAIN jobs, JobFails(j)
      PROVE  TypeInv'
  <2>1. jobs[j] \in Job
    BY <1>4 DEF TypeInv, TypeOK
  <2>2. [jobs[j] EXCEPT !.status = "Failed"] \in Job
    BY <2>1 DEF Job, JobStates
  <2>3. jobs' \in Seq(Job)
    BY <1>4, <2>2 DEF JobFails, TypeInv, TypeOK
  <2>4. QED
    BY <1>4, <2>3 DEF JobFails, TypeInv, TypeOK, RetryHasDiagnosis
<1>5. QED
  BY <1>2, <1>3, <1>4 DEF Azure

\* A step of a process that leaves the ledger and Azure alone.
LEMMA QuietType ==
    ASSUME TypeInv, NEW p \in Procs, NEW q \in Process,
           proc' = [proc EXCEPT ![p] = q],
           q.pc # "idle" => /\ proc[p].pc # "idle"
                            /\ q.cmd = proc[p].cmd /\ q.case = proc[p].case,
           UNCHANGED <<jobs, points, cases, drills, invoked>>,
           writes' \in [Cases -> {"none", "started", "recorded", "uncertain"}]
    PROVE  TypeInv'
<1>1. TypeOK /\ proc' \in [Procs -> Process] /\ cases' \in [Cases -> Case]
  BY Move DEF TypeInv, TypeOK
<1>2. Steady
  BY <1>1, Move DEF Steady
<1>3. QED
  BY <1>1, <1>2, SteadyKeepsDiagnosis DEF TypeInv, TypeOK

\* A transaction that writes the row of one case and moves its process on.
LEMMA LedgerType ==
    ASSUME TypeInv, NEW p \in Procs, NEW q \in Process,
           proc' = [proc EXCEPT ![p] = q],
           q.pc # "idle" => /\ proc[p].pc # "idle"
                            /\ q.cmd = proc[p].cmd /\ q.case = proc[p].case,
           NEW c \in Cases, NEW row \in Case, row.snapshot \in Snapshot,
           cases' = [cases EXCEPT ![c] = row],
           UNCHANGED <<jobs, points, writes, drills, invoked>>
    PROVE  TypeInv'
<1>1. TypeOK /\ proc' \in [Procs -> Process] /\ cases' \in [Cases -> Case]
  BY Move, Row DEF TypeInv
<1>2. Steady
  BY <1>1, Move, Row DEF Steady
<1>3. QED
  BY <1>1, <1>2, SteadyKeepsDiagnosis DEF TypeInv, TypeOK

LEMMA StartType ==
    ASSUME TypeInv, NEW p \in Procs, NEW cmd \in Commands, NEW c \in Cases, Start(p, cmd, c)
    PROVE  TypeInv'
<1> DEFINE q == [pc |-> "account", cmd |-> cmd, case |-> c]
<1>1. q \in Process
  BY DEF Process
<1>2. proc' \in [Procs -> Process] /\ \A r \in Procs : proc'[r] = IF r = p THEN q ELSE proc[r]
  BY <1>1 DEF Start, TypeInv, TypeOK
<1>3. cmd \in Retries => cases[c].snapshot \in Snapshot
  <2>1. cases[c] \in Case
    BY DEF TypeInv, TypeOK
  <2>2. cases[c].snapshot \in Snapshot \cup {None}
    BY <2>1 DEF Case
  <2>3. QED
    BY <2>2 DEF Start, MayStart, TypeInv, RetryHasDiagnosis, Retries
<1>4. RetryHasDiagnosis'
  BY <1>2, <1>3 DEF Start, TypeInv, RetryHasDiagnosis
<1>5. QED
  BY <1>2, <1>4 DEF Start, TypeInv, TypeOK

LEMMA ReadType ==
    ASSUME TypeInv, NEW p \in Procs, ReadJobs(p) \/ ReadPoints(p) \/ ReadFails(p)
    PROVE  TypeInv'
<1>0. TypeOK /\ proc[p] \in Process
  BY DEF TypeInv, TypeOK
<1>1. CASE ReadJobs(p)
  <2> DEFINE q == [pc |-> "jobs", cmd |-> proc[p].cmd, case |-> proc[p].case, jobs |-> jobs]
  <2>1. proc[p].pc # "idle" /\ proc[p].cmd \in Commands /\ proc[p].case \in Cases
    BY <1>0, <1>1, ProcessFields DEF ReadJobs
  <2>2. q \in Process
    BY <1>0, <2>1 DEF Process, TypeOK
  <2>3. QED
    BY <1>0, <1>1, <2>1, <2>2, QuietType DEF ReadJobs, TypeOK
<1>2. CASE ReadPoints(p)
  <2> DEFINE snap == Evidence(proc[p].jobs, points)
  <2>1. snap \in Snapshot /\ proc[p].pc # "idle"
    BY <1>0, <1>2, ProcessFields, EvidenceType DEF ReadPoints, TypeOK
  <2>2. Collected(p, snap) \in Process
    BY <1>0, <2>1, CollectedType
  <2>3. QED
    BY <1>0, <1>2, <2>1, <2>2, CollectedType, QuietType DEF ReadPoints, TypeOK
<1>3. CASE ReadFails(p)
  <2>1. PICK verified \in BOOLEAN :
          proc' = [proc EXCEPT ![p] = Collected(p, [observed |-> FALSE, account |-> verified,
                                                    jobs |-> <<>>, points |-> <<>>])]
    BY <1>3 DEF ReadFails
  <2> DEFINE snap == [observed |-> FALSE, account |-> verified, jobs |-> <<>>, points |-> <<>>]
  <2>2. snap \in Snapshot /\ proc[p].pc # "idle"
    BY <1>3 DEF ReadFails, Snapshot
  <2>3. Collected(p, snap) \in Process
    BY <1>0, <2>2, CollectedType
  <2>4. QED
    BY <1>0, <1>3, <2>1, <2>2, <2>3, CollectedType, QuietType DEF ReadFails, TypeOK
<1>4. QED
  BY <1>1, <1>2, <1>3

\* diagnose and verify write the row of their case, or nothing.
LEMMA DiagnoseType ==
    ASSUME TypeInv, NEW p \in Procs, Diagnose(p) \/ Verify(p)
    PROVE  TypeInv'
<1> DEFINE c == proc[p].case
           snap == proc[p].snap
<1>0. TypeOK /\ proc[p] \in Process
  BY DEF TypeInv, TypeOK
<1>1. c \in Cases /\ snap \in Snapshot /\ cases[c] \in Case
  BY <1>0, ProcessFields DEF Diagnose, Verify, TypeOK
<1>2. CASE Diagnose(p)
  <2>1. Diagnosed(cases[c], snap) \in Case /\ Diagnosed(cases[c], snap).snapshot \in Snapshot
    BY <1>1 DEF Diagnosed, Case, CaseStates
  <2>2. CASE Undiagnosed(cases[c])
    BY <1>0, <1>1, <1>2, <2>1, <2>2, IdleType, LedgerType DEF Diagnose
  <2>3. CASE ~Undiagnosed(cases[c])
    BY <1>0, <1>2, <2>3, IdleType, QuietType DEF Diagnose, TypeOK
  <2>4. QED
    BY <2>2, <2>3
<1>3. CASE Verify(p)
  <2>1. Checked(cases[c], snap) \in Case /\ Checked(cases[c], snap).snapshot = cases[c].snapshot
    BY <1>1 DEF Checked, Case, CaseStates
  <2>2. CASE cases[c].state = "awaiting_result" /\ snap.account
    <3>1. Checked(cases[c], snap).snapshot \in Snapshot
      BY <1>1, <2>1, <2>2 DEF TypeInv, RetryHasDiagnosis
    <3>2. QED
      BY <1>0, <1>1, <1>3, <2>1, <2>2, <3>1, IdleType, LedgerType DEF Verify
  <2>3. CASE ~(cases[c].state = "awaiting_result" /\ snap.account)
    BY <1>0, <1>3, <2>3, IdleType, QuietType DEF Verify, TypeOK
  <2>4. QED
    BY <2>2, <2>3
<1>4. QED
  BY <1>2, <1>3

LEMMA ReturnedType ==
    ASSUME TypeInv, NEW p \in Procs, proc[p].pc = "cleared",
           proc[p].cmd \in Retries,
           NEW accepted \in BOOLEAN, NEW job \in Nat
    PROVE  /\ Returned(p, accepted, job) \in Process
           /\ Returned(p, accepted, job).cmd = proc[p].cmd
           /\ Returned(p, accepted, job).case = proc[p].case
<1>1. proc[p].cmd \in Commands /\ proc[p].case \in Cases
  BY ProcessFields DEF TypeInv, TypeOK
<1>2. CalledAt \in Nat
  BY DEF CalledAt, Clock, TypeInv, TypeOK
<1>3. cases[proc[p].case].snapshot \in Snapshot /\ ScopeOf[proc[p].case] \in Scopes
  BY <1>1, ScopeAssumption DEF TypeInv, RetryHasDiagnosis
<1> DEFINE a == [started |-> CalledAt, accepted |-> accepted, job |-> job,
                 plan |-> cases[proc[p].case].snapshot, scope |-> ScopeOf[proc[p].case]]
<1>4. a \in Attempt
  BY <1>2, <1>3 DEF Attempt
<1>5. Returned(p, accepted, job) =
        [pc |-> "invoked", cmd |-> proc[p].cmd, case |-> proc[p].case, attempt |-> a]
  BY DEF Returned
<1>6. QED
  BY <1>1, <1>4, <1>5 DEF Process

\* Every move of a retry before its attempt is recorded, or to its end.
LEMMA RetryType ==
    ASSUME TypeInv, NEW p \in Procs,
           \/ CommitIntent(p) \/ RetryRefused(p) \/ ClearStandalone(p)
           \/ MarkWrite(p) \/ DatabaseFails(p) \/ MarkUncertain(p) \/ Crash(p)
    PROVE  TypeInv'
<1>0. TypeOK /\ proc[p] \in Process /\ Idle \in Process /\ Idle.pc = "idle"
  BY IdleType DEF TypeInv, TypeOK
<1>1. CASE CommitIntent(p)
  <2>1. proc[p].pc # "idle" /\ proc[p].cmd \in Retries /\ proc[p].case \in Cases
    BY <1>0, <1>1, ProcessFields DEF CommitIntent, Retries
  <2>2. writes' \in [Cases -> {"none", "started", "recorded", "uncertain"}]
    BY <1>0, <1>1, <2>1 DEF CommitIntent, TypeOK
  <2>3. QED
    BY <1>0, <1>1, <2>1, <2>2, AtType, QuietType DEF CommitIntent
<1>2. CASE RetryRefused(p)
  BY <1>0, <1>2, QuietType DEF RetryRefused, TypeOK
<1>3. CASE ClearStandalone(p)
  <2>1. proc[p].pc # "idle" /\ proc[p].cmd \in Retries
    BY <1>3 DEF ClearStandalone, Retries
  <2>2. QED
    BY <1>0, <1>3, <2>1, AtType, QuietType DEF ClearStandalone, TypeOK
<1>4. CASE MarkWrite(p)
  <2>1. proc[p].case \in Cases
    BY <1>0, <1>4, ProcessFields DEF MarkWrite
  <2>2. writes' \in [Cases -> {"none", "started", "recorded", "uncertain"}]
    BY <1>0, <1>4, <2>1 DEF MarkWrite, WriteState, TypeOK
  <2>3. QED
    BY <1>0, <1>4, <2>2, QuietType DEF MarkWrite
<1>5. CASE DatabaseFails(p)
  <2>1. proc[p].pc # "idle" /\ proc[p].cmd \in Retries
    BY <1>5 DEF DatabaseFails, Retries
  <2>2. QED
    BY <1>0, <1>5, <2>1, AtType, QuietType DEF DatabaseFails, TypeOK
<1>6. CASE MarkUncertain(p)
  <2>1. proc[p].case \in Cases
    BY <1>0, <1>6, ProcessFields DEF MarkUncertain
  <2>2. writes' \in [Cases -> {"none", "started", "recorded", "uncertain"}]
    BY <1>0, <1>6, <2>1 DEF MarkUncertain, TypeOK
  <2>3. QED
    BY <1>0, <1>6, <2>2, QuietType DEF MarkUncertain
<1>7. CASE Crash(p)
  BY <1>0, <1>7, QuietType DEF Crash, TypeOK
<1>8. QED
  BY <1>1, <1>2, <1>3, <1>4, <1>5, <1>6, <1>7

\* The two steps that put an attempt into a case.
LEMMA RecordType ==
    ASSUME TypeInv, NEW p \in Procs,
           RecordAttempt(p) \/ \E c \in Cases : RecordFile(p, c)
    PROVE  TypeInv'
<1>0. /\ TypeOK /\ proc[p] \in Process
      /\ proc[p].pc # "idle" /\ proc[p].cmd \in Retries /\ proc[p].case \in Cases
      /\ proc[p].attempt \in Attempt /\ proc[p].pc = "invoked"
  BY ProcessFields DEF RecordAttempt, RecordFile, TypeInv, TypeOK
<1>1. ASSUME NEW c \in Cases, Bound(c, proc[p].attempt)
      PROVE  /\ Attempted(cases[c], proc[p].attempt) \in Case
             /\ Attempted(cases[c], proc[p].attempt).snapshot \in Snapshot
  <2>1. cases[c] \in Case
    BY <1>0 DEF TypeOK
  <2>2. cases[c].snapshot \in Snapshot
    BY <1>1 DEF Bound, TypeInv, RetryHasDiagnosis
  <2>3. QED
    BY <1>0, <2>1, <2>2 DEF Attempted, Case, CaseStates
<1>2. CASE RecordAttempt(p)
  <2> DEFINE c == proc[p].case
             q == [proc[p] EXCEPT !.pc = "recorded"]
  <2>1. CASE Bound(c, proc[p].attempt)
    <3>1. q \in Process
      BY <1>0, ProcessFields
    <3>2. q.cmd = proc[p].cmd /\ q.case = proc[p].case /\ proc' = [proc EXCEPT ![p] = q]
      BY <1>0, <1>2, <2>1 DEF RecordAttempt, Process, Idle, TypeOK
    <3>3. cases' = [cases EXCEPT ![c] = Attempted(cases[c], proc[p].attempt)]
      BY <1>2, <2>1 DEF RecordAttempt
    <3>4. UNCHANGED <<jobs, points, writes, drills, invoked>>
      BY <1>2 DEF RecordAttempt
    <3>5. QED
      BY <1>0, <1>1, <2>1, <3>1, <3>2, <3>3, <3>4, LedgerType
  <2>2. CASE ~Bound(c, proc[p].attempt)
    BY <1>0, <1>2, <2>2, AtType, QuietType DEF RecordAttempt, TypeOK
  <2>3. QED
    BY <2>1, <2>2
<1>3. ASSUME NEW c \in Cases, RecordFile(p, c)
      PROVE  TypeInv'
  <2>1. proc' = [proc EXCEPT ![p] = proc[p]]
    BY <1>0, <1>3 DEF RecordFile, TypeOK
  <2>2. CASE Bound(c, proc[p].attempt)
    <3>1. cases' = [cases EXCEPT ![c] = Attempted(cases[c], proc[p].attempt)]
      BY <1>3, <2>2 DEF RecordFile
    <3>2. UNCHANGED <<jobs, points, writes, drills, invoked>>
      BY <1>3 DEF RecordFile
    <3>3. QED
      BY <1>0, <1>1, <2>1, <2>2, <3>1, <3>2, LedgerType
  <2>3. CASE ~Bound(c, proc[p].attempt)
    BY <1>0, <1>3, <2>1, <2>3, QuietType DEF RecordFile, TypeOK
  <2>4. QED
    BY <2>2, <2>3
<1>4. QED
  BY <1>2, <1>3

\* Whatever the CLI answers, the attempt that comes back is well-typed.
LEMMA AnswerType ==
    ASSUME TypeInv, NEW p \in Procs, Invoke(p)
    PROVE  \E q \in Process :
             /\ proc' = [proc EXCEPT ![p] = q]
             /\ q.pc \in {"invoked", "raised"}
             /\ q.cmd = proc[p].cmd /\ q.case = proc[p].case
<1>0. TypeOK /\ proc[p] \in Process /\ proc[p].pc = "cleared"
  BY DEF Invoke, TypeInv, TypeOK
<1>1. /\ TypeOK /\ proc[p].pc = "cleared"
      /\ proc[p].cmd \in Retries /\ Len(jobs) + 1 \in Nat /\ NoJob \in Nat
  <2>1. proc[p].cmd \in Retries
    BY <1>0, ProcessFields
  <2>2. Len(jobs) + 1 \in Nat /\ NoJob \in Nat
    BY <1>0 DEF TypeOK, NoJob
  <2>3. QED
    BY <1>0, <2>1, <2>2
<1> DEFINE Answer(q) == /\ q \in Process /\ q.pc \in {"invoked", "raised"}
                        /\ q.cmd = proc[p].cmd /\ q.case = proc[p].case
<1>2. \A accepted \in BOOLEAN, job \in Nat : Answer(Returned(p, accepted, job))
  BY <1>1, ReturnedType DEF Returned
<1>3. Answer(At(p, "raised"))
  BY <1>1, AtType
<1>4. \A q \in Unanswered(p) : Answer(q)
  BY <1>1, <1>2, <1>3 DEF Unanswered
<1>5. Answer(Returned(p, TRUE, Len(jobs) + 1)) /\ Answer(Returned(p, TRUE, NoJob))
  BY <1>1, <1>2
<1>6. \E q : Answer(q) /\ proc' = [proc EXCEPT ![p] = q]
  BY <1>4, <1>5 DEF Invoke
<1>7. QED
  BY <1>6

LEMMA InvokeType ==
    ASSUME TypeInv, NEW p \in Procs, Invoke(p)
    PROVE  TypeInv'
<1>1. TypeOK /\ proc[p].pc = "cleared" /\ proc[p].case \in Cases
  BY ProcessFields DEF Invoke, TypeInv, TypeOK
<1>2. PICK q \in Process : /\ proc' = [proc EXCEPT ![p] = q]
                           /\ q.cmd = proc[p].cmd /\ q.case = proc[p].case
  BY AnswerType
<1>3. proc' \in [Procs -> Process] /\ Steady
  BY <1>1, <1>2, Move DEF Steady, Invoke
<1>4. jobs' \in Seq(Job)
  <2>1. Started \in Seq(Job)
    BY <1>1 DEF Started, Clock, Job, JobStates, TypeOK
  <2>2. QED
    BY <1>1, <2>1 DEF Invoke, TypeOK
<1>5. invoked' \in [Cases -> Nat]
  BY <1>1 DEF Invoke, TypeOK
<1>6. UNCHANGED <<points, cases, writes, drills>>
  BY DEF Invoke
<1>7. TypeOK'
  BY <1>1, <1>3, <1>4, <1>5, <1>6 DEF TypeOK
<1>8. QED
  BY <1>3, <1>7, SteadyKeepsDiagnosis DEF TypeInv, TypeOK

LEMMA DrillType ==
    ASSUME TypeInv, NEW c \in Cases, NEW pt \in DOMAIN points, AttachDrill(c, pt)
    PROVE  TypeInv'
<1>1. pt \in Nat \ {0}
  BY DEF TypeInv, TypeOK
<1>2. drills' \subseteq Cases \X (Nat \ {0})
  BY <1>1 DEF AttachDrill, TypeInv, TypeOK
<1>3. QED
  BY <1>2 DEF AttachDrill, TypeInv, TypeOK, RetryHasDiagnosis

\* The type invariant and the diagnosis behind every retry are inductive.
LEMMA TypeInvariant == Spec => []TypeInv
<1>1. Init => TypeInv
  <2>1. ASSUME Init
        PROVE  TypeOK
    <3>1. jobs \in Seq(Job) /\ points \in Seq(Point)
      BY <2>1 DEF Init, Job, JobStates
    <3>2. cases \in [Cases -> Case]
      BY <2>1 DEF Init, Case, CaseStates
    <3>3. proc \in [Procs -> Process]
      BY <2>1, IdleType DEF Init
    <3>4. QED
      BY <2>1, <3>1, <3>2, <3>3 DEF Init, TypeOK
  <2>2. Init => RetryHasDiagnosis
    BY DEF Init, RetryHasDiagnosis, Idle
  <2>3. QED
    BY <2>1, <2>2 DEF TypeInv
<1>2. TypeInv /\ [Next]_vars => TypeInv'
  <2> SUFFICES ASSUME TypeInv, [Next]_vars PROVE TypeInv'
    OBVIOUS
  <2>1. CASE UNCHANGED vars
    BY <2>1 DEF vars, TypeInv, TypeOK, RetryHasDiagnosis
  <2>2. CASE Azure
    BY <2>2, AzureType
  <2>3. ASSUME NEW p \in Procs, Command(p) \/ Crash(p)
        PROVE  TypeInv'
    <3>1. CASE \E cmd \in Commands, c \in Cases : Start(p, cmd, c)
      BY <3>1, StartType
    <3>2. CASE ReadJobs(p) \/ ReadPoints(p) \/ ReadFails(p)
      BY <3>2, ReadType
    <3>3. CASE Diagnose(p) \/ Verify(p)
      BY <3>3, DiagnoseType
    <3>4. CASE \/ CommitIntent(p) \/ RetryRefused(p) \/ ClearStandalone(p)
               \/ MarkWrite(p) \/ DatabaseFails(p) \/ MarkUncertain(p) \/ Crash(p)
      BY <3>4, RetryType
    <3>5. CASE Invoke(p)
      BY <3>5, InvokeType
    <3>6. CASE RecordAttempt(p) \/ \E c \in Cases : RecordFile(p, c)
      BY <3>6, RecordType
    <3>7. QED
      BY <2>3, <3>1, <3>2, <3>3, <3>4, <3>5, <3>6 DEF Command
  <2>4. ASSUME NEW c \in Cases, NEW pt \in DOMAIN points, AttachDrill(c, pt)
        PROVE  TypeInv'
    BY <2>4, DrillType
  <2>5. QED
    BY <2>1, <2>2, <2>3, <2>4 DEF Next
<1>3. QED
  BY <1>1, <1>2, PTL DEF Spec

\* Every reachable state of the operator, the ledger and Azure is well-typed.
THEOREM TypeCorrect == Spec => []TypeOK
<1>1. TypeInv => TypeOK
  BY DEF TypeInv
<1>2. QED
  BY <1>1, TypeInvariant, PTL

-----------------------------------------------------------------------------
(***************************************************************************)
(* One write per case.  OneWritePerCase is not inductive: a process that   *)
(* stands cleared before the call must hold the case's only intent, and    *)
(* the case must not have been invoked yet.                                *)
(***************************************************************************)
WriteInv ==
    /\ OneWritePerCase
    /\ \A p \in Procs : Cleared(p) => /\ writes[proc[p].case] # "none"
                                      /\ invoked[proc[p].case] = 0

\* Any step that clears nobody, invokes nothing and takes back no intent.
LEMMA NobodyCleared ==
    ASSUME TypeOK, WriteInv, NEW p \in Procs, NEW q,
           proc' = [proc EXCEPT ![p] = q], ~(q.pc = "cleared" /\ q.cmd = "retry"),
           invoked' = invoked,
           \A c \in Cases : writes[c] # "none" => writes'[c] # "none"
    PROVE  WriteInv'
<1>1. \A r \in Procs : proc'[r] = IF r = p THEN q ELSE proc[r]
  BY DEF TypeOK
<1>2. \A r \in Procs : Cleared(r)' => Cleared(r) /\ proc'[r] = proc[r]
  BY <1>1 DEF Cleared
<1>3. \A r \in Procs : Cleared(r) => proc[r].case \in Cases
  BY ProcessFields DEF TypeOK, Cleared
<1>4. QED
  BY <1>2, <1>3 DEF WriteInv, OneWritePerCase

\* The intent is committed once: whoever was cleared for the case before
\* would have left an intent.
LEMMA IntentKeeps ==
    ASSUME TypeOK, WriteInv, NEW p \in Procs, CommitIntent(p)
    PROVE  WriteInv'
<1> DEFINE c == proc[p].case
<1>1. proc[p] \in Process /\ proc[p].pc = "collected"
  BY DEF CommitIntent, TypeOK
<1>2. c \in Cases /\ writes[c] = "none"
  BY <1>1, ProcessFields DEF CommitIntent, IntentAllowed
<1>3. invoked[c] = 0
  <2>1. invoked[c] \in Nat
    BY <1>2 DEF TypeOK
  <2>2. invoked[c] <= 1 /\ invoked[c] # 1
    BY <1>2 DEF WriteInv, OneWritePerCase
  <2>3. QED
    BY <2>1, <2>2
<1>4. \A r \in Procs : Cleared(r) => proc[r].case # c
  BY <1>2 DEF WriteInv
<1>5. \A d \in Cases : writes'[d] = IF d = c THEN "started" ELSE writes[d]
  BY <1>2 DEF CommitIntent, TypeOK
<1>6. \A r \in Procs : proc'[r] = IF r = p THEN At(p, "cleared") ELSE proc[r]
  BY DEF CommitIntent, TypeOK
<1>7. \A r \in Procs : Cleared(r)' => \/ r = p /\ proc'[r].case = c
                                      \/ r # p /\ Cleared(r) /\ proc'[r] = proc[r]
  BY <1>6 DEF Cleared, At
<1>8. invoked' = invoked
  BY DEF CommitIntent
<1>9. \A r \in Procs : Cleared(r) => proc[r].case \in Cases
  BY ProcessFields DEF TypeOK, Cleared
<1>10. QED
  BY <1>2, <1>3, <1>4, <1>5, <1>7, <1>8, <1>9 DEF WriteInv, OneWritePerCase

\* The call uses up the clearance, and nobody else was cleared for the case.
LEMMA InvokeKeeps ==
    ASSUME TypeInv, WriteInv, NEW p \in Procs, Invoke(p)
    PROVE  WriteInv'
<1> DEFINE c == proc[p].case
<1>1. TypeOK /\ proc[p] \in Process /\ proc[p].pc = "cleared" /\ writes' = writes
  BY DEF Invoke, TypeInv, TypeOK
<1>2. c \in Cases
  BY <1>1, ProcessFields
<1>3. PICK q \in Process : /\ proc' = [proc EXCEPT ![p] = q]
                           /\ q.pc \in {"invoked", "raised"}
  BY AnswerType
<1>4. CASE proc[p].cmd # "retry"
  <2>1. invoked' = invoked
    BY <1>1, <1>2, <1>4 DEF Invoke, TypeOK
  <2>2. QED
    BY <1>1, <1>3, <2>1, NobodyCleared
<1>5. CASE proc[p].cmd = "retry"
  <2>1. Cleared(p) /\ invoked[c] = 0 /\ writes[c] # "none"
    BY <1>1, <1>5 DEF Cleared, WriteInv
  <2>2. \A d \in Cases : invoked'[d] = IF d = c THEN 1 ELSE invoked[d]
    BY <1>1, <1>2, <1>5, <2>1 DEF Invoke, TypeOK
  <2>3. \A r \in Procs : Cleared(r)' => r # p /\ Cleared(r) /\ proc'[r] = proc[r]
    BY <1>1, <1>3 DEF Cleared, TypeOK
  <2>4. \A r \in Procs : Cleared(r)' => proc'[r].case \in Cases /\ proc'[r].case # c
    <3>1. \A r \in Procs : Cleared(r) => proc[r].case \in Cases
      BY <1>1, ProcessFields DEF Cleared, TypeOK
    <3>2. \A r \in Procs : Cleared(r) /\ r # p => proc[r].case # c
      BY <2>1 DEF WriteInv, OneWritePerCase
    <3>3. QED
      BY <2>3, <3>1, <3>2
  <2>5. QED
    BY <1>1, <2>1, <2>2, <2>3, <2>4 DEF WriteInv, OneWritePerCase
<1>6. QED
  BY <1>4, <1>5

\* What the operator may do to Azure and how often: once per case, for any
\* number of processes, crashes, refusals and retries of the command.
THEOREM WritesOnce == Spec => []OneWritePerCase
<1>1. Init => WriteInv
  BY DEF Init, WriteInv, OneWritePerCase, Cleared, Idle
<1>2. TypeInv /\ WriteInv /\ [Next]_vars => WriteInv'
  <2> SUFFICES ASSUME TypeInv, WriteInv, [Next]_vars PROVE WriteInv'
    OBVIOUS
  <2>0. TypeOK /\ \A p \in Procs : Cleared(p) => proc[p].case \in Cases
    BY ProcessFields DEF TypeInv, TypeOK, Cleared
  <2>1. ASSUME UNCHANGED <<writes, proc, invoked>>
        PROVE  WriteInv'
    BY <2>0, <2>1 DEF WriteInv, OneWritePerCase, Cleared
  <2>2. CASE UNCHANGED vars
    BY <2>1, <2>2 DEF vars
  <2>3. CASE Azure
    BY <2>1, <2>3 DEF Azure, ScheduledJob, JobCompletes, JobFails
  <2>4. ASSUME NEW p \in Procs, Command(p) \/ Crash(p)
        PROVE  WriteInv'
    <3>0. Idle.pc # "cleared" /\ proc[p] \in Process
      BY <2>0 DEF Idle, TypeOK
    <3>1. ASSUME NEW cmd \in Commands, NEW c \in Cases, Start(p, cmd, c)
          PROVE  WriteInv'
      <4> DEFINE q == [pc |-> "account", cmd |-> cmd, case |-> c]
      <4>1. q.pc # "cleared" /\ proc' = [proc EXCEPT ![p] = q]
        BY <3>1 DEF Start
      <4>2. invoked' = invoked /\ writes' = writes
        BY <3>1 DEF Start
      <4> HIDE DEF q
      <4>3. QED
        BY <2>0, <4>1, <4>2, NobodyCleared
    <3>2. CASE ReadJobs(p) \/ ReadPoints(p) \/ ReadFails(p)
      <4>1. PICK q : proc' = [proc EXCEPT ![p] = q] /\ q.pc \in {"jobs", "collected"}
        <5>1. \A snap : Collected(p, snap).pc = "collected"
          BY DEF Collected
        <5>2. CASE ReadJobs(p)
          <6> DEFINE q == [pc |-> "jobs", cmd |-> proc[p].cmd, case |-> proc[p].case, jobs |-> jobs]
          <6>1. proc' = [proc EXCEPT ![p] = q] /\ q.pc = "jobs"
            BY <5>2 DEF ReadJobs
          <6> HIDE DEF q
          <6>2. QED
            BY <6>1
        <5>3. CASE ReadPoints(p)
          BY <5>1, <5>3 DEF ReadPoints
        <5>4. CASE ReadFails(p)
          BY <5>1, <5>4 DEF ReadFails
        <5>5. QED
          BY <3>2, <5>2, <5>3, <5>4
      <4>2. invoked' = invoked /\ writes' = writes
        BY <3>2 DEF ReadJobs, ReadPoints, ReadFails
      <4>3. QED
        BY <2>0, <4>1, <4>2, NobodyCleared
    <3>3. CASE \/ Diagnose(p) \/ Verify(p) \/ RetryRefused(p) \/ Crash(p)
      BY <2>0, <3>0, <3>3, NobodyCleared DEF Diagnose, Verify, RetryRefused, Crash
    <3>4. CASE CommitIntent(p)
      BY <2>0, <3>4, IntentKeeps
    <3>5. CASE ClearStandalone(p)
      <4>1. At(p, "cleared").cmd # "retry"
        BY <3>5 DEF ClearStandalone, At
      <4>2. QED
        BY <2>0, <3>5, <4>1, NobodyCleared DEF ClearStandalone
    <3>6. CASE Invoke(p)
      BY <3>6, InvokeKeeps
    <3>7. CASE RecordAttempt(p)
      <4>1. PICK q : proc' = [proc EXCEPT ![p] = q] /\ q.pc \in {"recorded", "raised"}
        <5>1. [proc[p] EXCEPT !.pc = "recorded"].pc = "recorded" /\ At(p, "raised").pc = "raised"
          BY <3>0, <3>7 DEF RecordAttempt, At, Process, Idle
        <5>2. QED
          BY <3>7, <5>1 DEF RecordAttempt
      <4>2. QED
        BY <2>0, <3>7, <4>1, NobodyCleared DEF RecordAttempt
    <3>8. CASE \E c \in Cases : RecordFile(p, c)
      BY <2>1, <3>8 DEF RecordFile
    <3>9. CASE MarkWrite(p) \/ MarkUncertain(p)
      <4>1. proc[p].case \in Cases /\ proc' = [proc EXCEPT ![p] = Idle] /\ invoked' = invoked
        BY <3>0, <3>9, ProcessFields DEF MarkWrite, MarkUncertain
      <4>2. \A c \in Cases : writes[c] # "none" => writes'[c] # "none"
        BY <2>0, <3>9, <4>1 DEF MarkWrite, MarkUncertain, WriteState, TypeOK
      <4>3. QED
        BY <2>0, <3>0, <4>1, <4>2, NobodyCleared
    <3>10. CASE DatabaseFails(p)
      <4>1. At(p, "raised").pc # "cleared"
        BY DEF At
      <4>2. QED
        BY <2>0, <3>10, <4>1, NobodyCleared DEF DatabaseFails
    <3>11. QED
      BY <2>4, <3>1, <3>2, <3>3, <3>4, <3>5, <3>6, <3>7, <3>8, <3>9, <3>10 DEF Command
  <2>5. ASSUME NEW c \in Cases, NEW pt \in DOMAIN points, AttachDrill(c, pt)
        PROVE  WriteInv'
    BY <2>1, <2>5 DEF AttachDrill
  <2>6. QED
    BY <2>2, <2>3, <2>4, <2>5 DEF Next
<1>3. WriteInv => OneWritePerCase
  BY DEF WriteInv
<1>4. QED
  BY <1>1, <1>2, <1>3, TypeInvariant, PTL DEF Spec

-----------------------------------------------------------------------------
(***************************************************************************)
(* The ledger under the operator's commands implements CaseLifecycle: each *)
(* transaction is one step of the lifecycle of one case, or leaves every   *)
(* state and every piece of evidence as it was.                            *)
(***************************************************************************)

\* Two functions that differ at one point.
LEMMA ExceptAt ==
    ASSUME NEW S, NEW f, NEW g, f = [d \in S |-> f[d]], g = [d \in S |-> g[d]],
           NEW c \in S, NEW v, \A d \in S : g[d] = IF d = c THEN v ELSE f[d]
    PROVE  g = [f EXCEPT ![c] = v]
<1> DEFINE h == [f EXCEPT ![c] = v]
<1>1. h = [d \in S |-> h[d]] /\ \A d \in S : h[d] = g[d]
  OBVIOUS
<1> HIDE DEF h
<1>2. h = g
  BY <1>1
<1>3. QED
  BY <1>2 DEF h

\* A transaction that writes the row of one case, seen from the lifecycle.
LEMMA RowStep ==
    ASSUME TypeOK, NEW c \in Cases, NEW row \in Case,
           cases' = [cases EXCEPT ![c] = row],
           \/ /\ cases[c].state = "received"
              /\ row.state \in {"diagnosed", "needs_review"}
              /\ row.snapshot # None /\ row.attempt = cases[c].attempt
           \/ /\ cases[c].state = "diagnosed"
              /\ row.state \in {"awaiting_result", "needs_review"}
              /\ row.attempt # None /\ row.snapshot = cases[c].snapshot
           \/ /\ cases[c].state = "awaiting_result"
              /\ row.state \in {"awaiting_result", "verified"}
              /\ row.after # None
              /\ row.snapshot = cases[c].snapshot /\ row.attempt = cases[c].attempt
    PROVE  [Lifecycle!Next]_(Lifecycle!vars)
<1> DEFINE St == [d \in Cases |-> cases[d].state]
           Di == [d \in Cases |-> cases[d].snapshot]
           At_ == [d \in Cases |-> cases[d].attempt]
           Closing(x) == IF x.state = "verified" THEN x.after ELSE None
           Cl == [d \in Cases |-> Closing(cases[d])]
<1>1. \A d \in Cases : cases'[d] = IF d = c THEN row ELSE cases[d]
  BY DEF TypeOK
<1>2. St' = [St EXCEPT ![c] = row.state]
  <2>1. /\ St = [d \in Cases |-> St[d]] /\ St' = [d \in Cases |-> St'[d]]
        /\ \A d \in Cases : St'[d] = IF d = c THEN row.state ELSE St[d]
    BY <1>1
  <2> HIDE DEF St
  <2>2. QED
    BY <2>1, ExceptAt
<1>3. Di' = [Di EXCEPT ![c] = row.snapshot] /\ Di'[c] = row.snapshot
  <2>1. /\ Di = [d \in Cases |-> Di[d]] /\ Di' = [d \in Cases |-> Di'[d]]
        /\ \A d \in Cases : Di'[d] = IF d = c THEN row.snapshot ELSE Di[d]
    BY <1>1
  <2> HIDE DEF Di
  <2>2. QED
    BY <2>1, ExceptAt
<1>4. At_' = [At_ EXCEPT ![c] = row.attempt] /\ At_'[c] = row.attempt
  <2>1. /\ At_ = [d \in Cases |-> At_[d]] /\ At_' = [d \in Cases |-> At_'[d]]
        /\ \A d \in Cases : At_'[d] = IF d = c THEN row.attempt ELSE At_[d]
    BY <1>1
  <2> HIDE DEF At_
  <2>2. QED
    BY <2>1, ExceptAt
<1>5. Cl' = [Cl EXCEPT ![c] = Closing(row)] /\ Cl'[c] = Closing(row)
  <2>1. /\ Cl = [d \in Cases |-> Cl[d]] /\ Cl' = [d \in Cases |-> Cl'[d]]
        /\ \A d \in Cases : Cl'[d] = IF d = c THEN Closing(row) ELSE Cl[d]
    BY <1>1
  <2> HIDE DEF Cl
  <2>2. QED
    BY <2>1, ExceptAt
<1>6. St[c] = cases[c].state /\ Di[c] = cases[c].snapshot /\ At_[c] = cases[c].attempt
  OBVIOUS
<1>7. Cl[c] = Closing(cases[c])
  OBVIOUS
<1>8. /\ row.snapshot = cases[c].snapshot => Di' = Di
      /\ row.attempt = cases[c].attempt => At_' = At_
      /\ row.state = cases[c].state => St' = St
  BY <1>1
<1>9. Closing(row) = Closing(cases[c]) => Cl' = Cl
  BY <1>1
<1>10. CASE /\ cases[c].state = "received"
            /\ row.state \in {"diagnosed", "needs_review"}
            /\ row.snapshot # None /\ row.attempt = cases[c].attempt
  <2>1. Cl' = Cl
    BY <1>9, <1>10
  <2> HIDE DEF St, Di, At_, Cl
  <2>2. /\ St[c] = "received" /\ row.state \in {"diagnosed", "needs_review"}
        /\ St' = [St EXCEPT ![c] = row.state]
        /\ Di'[c] # None /\ Di' = [Di EXCEPT ![c] = Di'[c]]
        /\ UNCHANGED <<At_, Cl>>
    BY <1>2, <1>3, <1>6, <1>8, <1>10, <2>1
  <2> USE DEF St, Di, At_, Cl
  <2>3. Lifecycle!Diagnose(c, row.state)
    BY <2>2 DEF Lifecycle!Diagnose
  <2>4. QED
    BY <1>10, <2>3 DEF Lifecycle!Next
<1>11. CASE /\ cases[c].state = "diagnosed"
            /\ row.state \in {"awaiting_result", "needs_review"}
            /\ row.attempt # None /\ row.snapshot = cases[c].snapshot
  <2>1. Cl' = Cl
    BY <1>9, <1>11
  <2> HIDE DEF St, Di, At_, Cl
  <2>2. /\ St[c] = "diagnosed" /\ row.state \in {"awaiting_result", "needs_review"}
        /\ St' = [St EXCEPT ![c] = row.state]
        /\ At_'[c] # None /\ At_' = [At_ EXCEPT ![c] = At_'[c]]
        /\ UNCHANGED <<Di, Cl>>
    BY <1>2, <1>4, <1>6, <1>8, <1>11, <2>1
  <2> USE DEF St, Di, At_, Cl
  <2>3. Lifecycle!RecordAttempt(c, row.state)
    BY <2>2 DEF Lifecycle!RecordAttempt
  <2>4. QED
    BY <1>11, <2>3 DEF Lifecycle!Next
<1>12. CASE /\ cases[c].state = "awaiting_result" /\ row.state = "verified"
            /\ row.after # None
            /\ row.snapshot = cases[c].snapshot /\ row.attempt = cases[c].attempt
  <2>1. Closing(row) = row.after
    BY <1>12
  <2> HIDE DEF St, Di, At_, Cl
  <2>2. /\ St[c] = "awaiting_result"
        /\ St' = [St EXCEPT ![c] = "verified"]
        /\ Cl'[c] # None /\ Cl' = [Cl EXCEPT ![c] = Cl'[c]]
        /\ UNCHANGED <<Di, At_>>
    BY <1>2, <1>5, <1>6, <1>8, <1>12, <2>1
  <2> USE DEF St, Di, At_, Cl
  <2>3. Lifecycle!Close(c)
    BY <2>2 DEF Lifecycle!Close
  <2>4. QED
    BY <2>3 DEF Lifecycle!Next
<1>13. CASE /\ cases[c].state = "awaiting_result" /\ row.state = "awaiting_result"
            /\ row.snapshot = cases[c].snapshot /\ row.attempt = cases[c].attempt
  <2>1. Cl' = Cl
    BY <1>9, <1>13
  <2>2. UNCHANGED Lifecycle!vars
    BY <1>8, <1>13, <2>1 DEF Lifecycle!vars
  <2>3. QED
    BY <2>2
<1>14. QED
  BY <1>10, <1>11, <1>12, <1>13

LEMMA NoRowStep ==
    ASSUME UNCHANGED cases
    PROVE  [Lifecycle!Next]_(Lifecycle!vars)
BY DEF Lifecycle!vars

\* An attempt enters a case from the operator, or from a file.
LEMMA AttemptStep ==
    ASSUME TypeInv, NEW c \in Cases, NEW a \in Attempt, Bound(c, a),
           cases' = [cases EXCEPT ![c] = Attempted(cases[c], a)]
    PROVE  [Lifecycle!Next]_(Lifecycle!vars)
<1>1. TypeOK /\ cases[c] \in Case /\ cases[c].state = "diagnosed" /\ a # None
  BY NoneAssumption DEF TypeInv, TypeOK, Bound
<1>2. /\ Attempted(cases[c], a) \in Case
      /\ Attempted(cases[c], a).state \in {"awaiting_result", "needs_review"}
      /\ Attempted(cases[c], a).attempt = a
      /\ Attempted(cases[c], a).snapshot = cases[c].snapshot
  BY <1>1 DEF Attempted, Case, CaseStates
<1>3. QED
  BY <1>1, <1>2, RowStep

\* diagnose and verify write their case once, or nothing.
LEMMA DiagnoseStep ==
    ASSUME TypeInv, NEW p \in Procs, Diagnose(p) \/ Verify(p)
    PROVE  [Lifecycle!Next]_(Lifecycle!vars)
<1> DEFINE c == proc[p].case
           snap == proc[p].snap
<1>1. TypeOK /\ c \in Cases /\ cases[c] \in Case /\ snap \in Snapshot /\ snap # None
  <2>1. TypeOK /\ proc[p] \in Process /\ proc[p].pc = "collected"
    BY DEF TypeInv, TypeOK, Diagnose, Verify
  <2>2. QED
    BY <2>1, ProcessFields, NoneAssumption DEF TypeOK
<1>2. CASE UNCHANGED cases
  BY <1>2, NoRowStep
<1>3. CASE Undiagnosed(cases[c]) /\ cases' = [cases EXCEPT ![c] = Diagnosed(cases[c], snap)]
  <2>1. /\ Diagnosed(cases[c], snap) \in Case
        /\ Diagnosed(cases[c], snap).state \in {"diagnosed", "needs_review"}
        /\ Diagnosed(cases[c], snap).snapshot = snap
        /\ Diagnosed(cases[c], snap).attempt = cases[c].attempt
    BY <1>1 DEF Diagnosed, Case, CaseStates
  <2>2. cases[c].state = "received"
    BY <1>3 DEF Undiagnosed
  <2>3. QED
    BY <1>1, <1>3, <2>1, <2>2, RowStep
<1>4. CASE cases[c].state = "awaiting_result" /\ cases' = [cases EXCEPT ![c] = Checked(cases[c], snap)]
  <2>1. /\ Checked(cases[c], snap) \in Case
        /\ Checked(cases[c], snap).state \in {"awaiting_result", "verified"}
        /\ Checked(cases[c], snap).after = snap
        /\ Checked(cases[c], snap).snapshot = cases[c].snapshot
        /\ Checked(cases[c], snap).attempt = cases[c].attempt
    BY <1>1 DEF Checked, Case, CaseStates
  <2>2. QED
    BY <1>1, <1>4, <2>1, RowStep
<1>5. QED
  BY <1>2, <1>3, <1>4 DEF Diagnose, Verify

\* Under any number of operators, files and crashes, the ledger behaves as
\* CaseLifecycle says: no command moves a case backwards or rewrites the
\* evidence of an earlier move.
THEOREM LedgerImplementsLifecycle == Spec => ImplementsLifecycle
<1>1. Init => Lifecycle!Init
  BY DEF Init, Lifecycle!Init
<1>2. TypeInv /\ [Next]_vars => [Lifecycle!Next]_(Lifecycle!vars)
  <2> SUFFICES ASSUME TypeInv, [Next]_vars PROVE [Lifecycle!Next]_(Lifecycle!vars)
    OBVIOUS
  <2>1. CASE UNCHANGED cases
    BY <2>1, NoRowStep
  <2>2. ASSUME NEW p \in Procs, Command(p) \/ Crash(p)
        PROVE  [Lifecycle!Next]_(Lifecycle!vars)
    <3>1. CASE Diagnose(p) \/ Verify(p)
      BY <3>1, DiagnoseStep
    <3>2. CASE RecordAttempt(p)
      <4>1. proc[p].case \in Cases /\ proc[p].attempt \in Attempt
        BY <3>2, ProcessFields DEF RecordAttempt, TypeInv, TypeOK
      <4>2. QED
        BY <2>1, <3>2, <4>1, AttemptStep DEF RecordAttempt
    <3>3. ASSUME NEW c \in Cases, RecordFile(p, c)
          PROVE  [Lifecycle!Next]_(Lifecycle!vars)
      <4>1. proc[p].attempt \in Attempt
        BY <3>3, ProcessFields DEF RecordFile, TypeInv, TypeOK
      <4>2. QED
        BY <2>1, <3>3, <4>1, AttemptStep DEF RecordFile
    <3>4. CASE \/ ReadJobs(p) \/ ReadPoints(p) \/ ReadFails(p)
               \/ CommitIntent(p) \/ RetryRefused(p) \/ ClearStandalone(p) \/ Invoke(p)
               \/ MarkWrite(p) \/ DatabaseFails(p) \/ MarkUncertain(p) \/ Crash(p)
               \/ \E cmd \in Commands, c \in Cases : Start(p, cmd, c)
      <4>1. UNCHANGED cases
        BY <3>4 DEF ReadJobs, ReadPoints, ReadFails, CommitIntent, RetryRefused,
                    ClearStandalone, Invoke, MarkWrite, DatabaseFails, MarkUncertain, Crash, Start
      <4>2. QED
        BY <2>1, <4>1
    <3>5. QED
      BY <2>2, <3>1, <3>2, <3>3, <3>4 DEF Command
  <2>3. CASE Azure \/ \E c \in Cases, pt \in DOMAIN points : AttachDrill(c, pt)
    BY <2>1, <2>3 DEF Azure, ScheduledJob, JobCompletes, JobFails, AttachDrill
  <2>4. CASE UNCHANGED vars
    BY <2>1, <2>4 DEF vars
  <2>5. QED
    BY <2>2, <2>3, <2>4 DEF Next
<1>3. QED
  BY <1>1, <1>2, TypeInvariant, PTL DEF Spec, ImplementsLifecycle, Lifecycle!Spec
=============================================================================
